--------------------------- MODULE LeasesCoherence ---------------------------
(***************************************************************************)
(* What a client may rely on, for every number of workers, slots, clients, *)
(* files and connections, when the clients are Alone: every lease a client *)
(* believes in is in the lease table or has a break on its way, and a      *)
(* cached page that is out of date has one, too. The invariant is that of  *)
(* LeasesAlone. Its LeaseOK speaks of every frame on the wire, because a   *)
(* response in flight will become the client's belief, and asks for a      *)
(* break behind it.                                                        *)
(***************************************************************************)
EXTENDS LeasesAlone

USE ZenonT(40)

------------------------------------------------------------------------------
(* The actions *)

\* Thread w loses no break.
Works(w) ==
  /\ mbox' = mbox /\ \A v \in Workers : v # w => wk'[v] = wk[v]
  /\ wk[w].msgs = {} \/ wk'[w].msgs = wk[w].msgs
  /\ wk[w].inbox = <<>> \/ wk'[w].inbox = wk[w].inbox
  /\ wk[w].todo = <<>> \/ (wk'[w].todo = wk[w].todo /\ wk'[w].except = wk[w].except)

LEMMA WorksOn ==
  ASSUME NEW w \in Workers, Works(w)
  PROVE  HeldOn /\ DueOn
<1>1. ASSUME NEW i \in Conns, NEW f \in Files, NEW v \in Workers, Held(v, i, f) PROVE Held(v, i, f)'
  <2>1. CASE v # w
    BY <1>1, <2>1 DEF Works, Held
  <2>2. CASE v = w
    <3>1. wk[w].msgs = {} => ~\E m \in wk[w].msgs : m.f = f /\ m.id = i
      OBVIOUS
    <3>2. wk[w].inbox = <<>> => ~\E k \in 1..Len(wk[w].inbox) : wk[w].inbox[k].f = f /\ wk[w].inbox[k].id = i
      BY NoFrame
    <3>. QED
      BY <1>1, <2>2, <3>1, <3>2 DEF Works, Held
  <2>. QED
    BY <2>1, <2>2
<1>2. ASSUME NEW c \in Clients, NEW f \in Files, NEW v \in Workers, wk[v].except # c,
             NEW k \in 1..Len(wk[v].todo), wk[v].todo[k] = f
      PROVE  BreakDue(c, f)'
  <2>1. wk'[v].except # c /\ k \in 1..Len(wk'[v].todo) /\ wk'[v].todo[k] = f
    <3>1. CASE v # w
      BY <1>2, <3>1 DEF Works
    <3>2. CASE v = w
      <4>1. wk[w].todo # <<>>
        BY <1>2, <3>2, NoFrame
      <4>. QED
        BY <1>2, <3>2, <4>1 DEF Works
    <3>. QED
      BY <3>1, <3>2
  <2>. QED
    BY <1>2, <2>1 DEF BreakDue
<1>3. HeldOn
  BY <1>1 DEF HeldOn
<1>4. DueOn
  <2>1. SUFFICES ASSUME NEW c \in Clients, NEW f \in Files, BreakDue(c, f) PROVE BreakDue(c, f)'
    BY DEF DueOn
  <2>2. PICK v \in Workers : wk[v].except # c /\ \E k \in 1..Len(wk[v].todo) : wk[v].todo[k] = f
    BY <2>1 DEF BreakDue
  <2>. QED
    BY <1>2, <2>1, <2>2
<1>. QED
  BY <1>3, <1>4

LEMMA EmptyHands ==
  ASSUME RouteInv, NEW w \in Workers, wk[w].pc \notin {"break", "post", "signal", "deliver"}
  PROVE  wk[w].msgs = {} /\ wk[w].inbox = <<>> /\ wk[w].todo = <<>>
<1>1. CASE wk[w].pc = "idle"
  <2>1. Idle.msgs = {} /\ Idle.inbox = <<>> /\ Idle.todo = <<>>
    BY DEF Idle
  <2>. QED
    BY <1>1, <2>1 DEF RouteInv, ThreadOK
<1>2. CASE wk[w].pc # "idle"
  <2>1. Serving(w, wk[w])
    BY <1>2, ServedBorn
  <2>. QED
    BY <2>1 DEF Serving
<1>. QED
  BY <1>1, <1>2

LEMMA FreeWorks ==
  ASSUME RouteInv, NEW w \in Workers, wk[w].pc \notin {"break", "post", "signal", "deliver"}, mbox' = mbox,
         \A v \in Workers : v # w => wk'[v] = wk[v]
  PROVE  HeldOn /\ DueOn
<1>1. Works(w)
  BY EmptyHands DEF Works
<1>. QED
  BY <1>1, WorksOn

\* Only other keys' views of the files in todo fall behind.
Follows(todo, key) ==
  \A g \in Files, c \in Clients : ver'[g][c] = ver[g][c] \/ (c # key /\ \E k \in 1..Len(todo) : todo[k] = g)

\* A response that grants nothing and reads nothing, or what is current.
LEMMA AnsweredLease ==
  ASSUME RouteInv, ClientInv, LeaseInv, NEW id \in Conns, NEW frame \in Response, Answers(id, frame),
         HeldOn, DueOn, UNCHANGED <<ver, grants, belief, cache>>, frame.kind # "create",
         frame.kind = "read" => frame.ver = ver[frame.f][conn[id].client]
  PROVE  LeaseInv'
<1>1. (\A i \in Conns : Heeds(i)) /\ (\A i \in Conns : Holds(i)) /\ (\A i \in Conns : Current(i))
  BY SameLess, AllHeed, SameHolds, SameCurrent
<1>2. ASSUME NEW i \in Conns PROVE LeaseOK(i)'
  <2>1. Keeps(i) /\ (link'[i].up => link[i].up) /\ conn'[i].deferred = conn[i].deferred
    BY DEF Answers
  <2>2. PICK fs : Answered1(i, id, frame, fs)
    BY AnswersSpeak
  <2>3. Told(i, fs)
    <3>1. CASE fs = <<>>
      BY <3>1, NoFrame DEF Told
    <3>2. CASE fs = <<frame>> /\ i = id
      <4>1. \A n \in 1..Len(fs) : fs[n] = frame
        BY <3>2, SMTT(30)
      <4>. QED
        BY <3>2, <4>1 DEF Told
    <3>. QED
      BY <2>2, <3>1, <3>2 DEF Answered1
  <2>4. Speaks(i, fs) /\ Queues(i, fs)
    BY <2>1, <2>2 DEF Answered1, Queues, Queued
  <2>. QED
    BY <1>1, <2>1, <2>3, <2>4, LeaseKept
<1>. QED
  BY <1>2 DEF LeaseInv

\* A lease the client of i holds is under its key.
LEMMA GrantKey ==
  ASSUME RouteInv, OwnInv, NEW g \in grants, NEW i \in Conns, conn[i].client = g.key
  PROVE  g.id = i
<1>1. g.id \in Conns /\ Addressed(g)
  BY Typed DEF RouteInv, GrantsOK, LeaseGrant
<1>2. conn[g.id].client = g.key /\ conn[g.id].state # "unborn"
  BY <1>1 DEF Addressed
<1>3. g.key # None
  BY <1>1, <1>2, LeasesAssumption, SMTT(30) DEF RouteInv, PlaceOK
<1>. QED
  BY <1>1, <1>2, <1>3 DEF OwnInv, OwnSession

\* Releasing what a handle of connection id held leaves everyone else's leases.
LEMMA ReleasedHolds ==
  ASSUME RouteInv, OwnInv, NEW id \in Conns, NEW h, h.granted # "none" => h.key = conn[id].client,
         grants' = Released(h), NEW i \in Conns, NEW f \in Files, Granted(i, f), i # id \/ f # h.f \/ h.granted # "R"
  PROVE  Granted(i, f)'
<1>1. PICK g \in grants : g.f = f /\ g.id = i
  BY DEF Granted
<1>2. g \in grants'
  <2>1. CASE h.granted # "R"
    BY <2>1 DEF Released
  <2>2. CASE h.granted = "R"
    <3>1. h.key = conn[id].client /\ grants' = {x \in grants : ~(x.f = h.f /\ x.key = h.key)}
      BY <2>2 DEF Released, WithoutKey
    <3>2. ~(g.f = h.f /\ g.key = h.key)
      BY <1>1, <2>2, <3>1, GrantKey
    <3>. QED
      BY <3>1, <3>2
  <2>. QED
    BY <2>1, <2>2
<1>. QED
  BY <1>1, <1>2 DEF Granted

\* A step that moves no frame and no break: everyone's leases stay.
LEMMA StillLease ==
  ASSUME RouteInv, ClientInv, LeaseInv, UNCHANGED <<conn, link, ver, belief, cache>>, HeldOn, DueOn,
         \A i \in Conns : conn[i].state = "open" => Holds(i)
  PROVE  LeaseInv'
<1>1. (\A i \in Conns : Heeds(i)) /\ \A i \in Conns : Current(i)
  BY SameLess, AllHeed, SameCurrent
<1>2. ASSUME NEW i \in Conns PROVE LeaseOK(i)'
  <2>1. CASE conn[i].state # "open"
    BY <2>1 DEF LeaseOK
  <2>2. CASE conn[i].state = "open"
    <3>1. Keeps(i) /\ link'[i] = link[i] /\ conn'[i] = conn[i] /\ Holds(i) /\ Heeds(i) /\ Current(i)
      BY <1>1, <2>2 DEF Keeps
    <3>. QED
      BY <3>1, LeaseQuiet
  <2>. QED
    BY <2>1, <2>2
<1>. QED
  BY <1>2 DEF LeaseInv

LEMMA WakeLease ==
  ASSUME RouteInv, ClientInv, LeaseInv, NEW w \in Workers, OnWake(w)
  PROVE  LeaseInv'
<1>1. PICK q : q = mbox[w]
  OBVIOUS
<1>2. wk[w] = Idle /\ wk[w].pc = "idle" /\ UNCHANGED <<conn, link, ver, belief, cache, grants>>
  BY DEF OnWake, RouteInv, ThreadOK, clientvars, filevars
<1>3. wk[w].msgs = {} /\ wk[w].inbox = <<>> /\ wk[w].todo = <<>>
  <2>1. wk[w].pc \notin {"break", "post", "signal", "deliver"}
    BY <1>2
  <2>. QED
    BY <2>1, EmptyHands
<1>4. /\ wk'[w] = [Idle EXCEPT !.pc = "deliver", !.inbox = q] /\ \A v \in Workers : v # w => wk'[v] = wk[v]
      /\ \A v \in Workers : v # w => mbox'[v] = mbox[v]
  BY <1>1, Typed DEF OnWake
<1>5. wk'[w].inbox = q
  BY <1>4 DEF Idle
<1>6. ASSUME NEW i \in Conns, NEW f \in Files, NEW v \in Workers, Held(v, i, f) PROVE Held(v, i, f)'
  <2>1. CASE v # w
    BY <1>4, <1>6, <2>1 DEF Held
  <2>2. CASE v = w
    <3>1. ~(\E m \in wk[w].msgs : m.f = f /\ m.id = i)
      BY <1>3
    <3>2. ~(\E k \in 1..Len(wk[w].inbox) : wk[w].inbox[k].f = f /\ wk[w].inbox[k].id = i)
      BY <1>3, NoFrame
    <3>3. \E k \in 1..Len(q) : q[k].f = f /\ q[k].id = i
      BY <1>1, <1>6, <2>2, <3>1, <3>2 DEF Held
    <3>. QED
      BY <1>5, <2>2, <3>3 DEF Held
  <2>. QED
    BY <2>1, <2>2
<1>7. HeldOn
  BY <1>6 DEF HeldOn
<1>8. DueOn
  <2>1. SUFFICES ASSUME NEW c \in Clients, NEW f \in Files, BreakDue(c, f) PROVE BreakDue(c, f)'
    BY DEF DueOn
  <2>2. PICK v \in Workers : wk[v].except # c /\ \E k \in 1..Len(wk[v].todo) : wk[v].todo[k] = f
    BY <2>1 DEF BreakDue
  <2>3. v # w
    BY <1>3, <2>2, NoFrame
  <2>. QED
    BY <1>4, <2>2, <2>3 DEF BreakDue
<1>. QED
  BY <1>2, <1>7, <1>8, SameHolds, StillLease

\* What the client does.
LEMMA PeerLease ==
  ASSUME Alone, RouteInv, OwnInv, HandleInv, ClientInv, ViewInv, LeaseInv,
         \E id \in Conns : ClientRecv(id) \/ ClientDown(id)
  PROVE  LeaseInv'

<1>DownLease. ASSUME RouteInv, OwnInv, ClientInv, LeaseInv, NEW id \in Conns, Left(id)
      PROVE  LeaseInv'
  <2>. USE <1>DownLease
  <2>1. /\ UNCHANGED <<conn, wk, mbox, ver, grants>> /\ ~link'[id].up
        /\ \A i \in Conns : i # id => link'[i] = link[i]
    BY DEF Left, servervars, filevars
  <2>2. (\A i \in Conns : Holds(i)) /\ (\A i \in Conns : Current(i)) /\ HeldOn /\ DueOn
    BY <2>1, SameHolds, SameCurrent, IdleOn
  <2>3. ASSUME NEW i \in Conns, i # id PROVE LeaseOK(i)'
    <3>1. Keeps(i) /\ Heeds(i) /\ conn'[i] = conn[i] /\ link'[i] = link[i]
      BY <2>1, <2>3, LeftHeeds DEF Keeps
    <3>. QED
      BY <2>2, <2>3, <3>1, LeaseQuiet
  <2>4. LeaseOK(id)'
    BY <2>1 DEF LeaseOK
  <2>. QED
    BY <2>3, <2>4 DEF LeaseInv

\* A break behind frame j + 1 is behind frame j once the first frame is read.
<1>BehindShift. ASSUME NEW id \in Conns, Shifts(id), UNCHANGED <<conn, wk, mbox>>, NEW f, NEW j \in 0..Len(link'[id].wire),
             Behind(id, j + 1, f)
      PROVE  Behind(id, j, f)'
  <2>. USE <1>BehindShift
  <2>1. CASE Coming(id, f)
    BY <2>1 DEF Behind, Coming, Queued, Held
  <2>2. CASE ~Coming(id, f)
    <3>1. PICK n \in (j + 2)..Len(link[id].wire) : IsBreak(link[id].wire[n], f)
      <4>1. j + 1 + 1 = j + 2
        BY SMTT(30)
      <4>. QED
        BY <2>2, <4>1 DEF Behind
    <3>2. Len(link[id].wire) \in Nat /\ Len(link'[id].wire) = Len(link[id].wire) - 1
      BY DEF Shifts
    <3>3. n - 1 \in 1..Len(link'[id].wire) /\ n - 1 + 1 = n /\ n - 1 \in (j + 1)..Len(link'[id].wire)
      BY <3>1, <3>2, SMTT(30)
    <3>4. link'[id].wire[n - 1] = link[id].wire[n]
      BY <3>3 DEF Shifts
    <3>. QED
      BY <3>1, <3>3, <3>4 DEF Behind
  <2>. QED
    BY <2>1, <2>2

\* What the client relied on before it read the first frame.
<1>OriginShift. ASSUME RouteInv, NEW id \in Conns, NEW m, Received(id, m), Shifts(id), m = link[id].wire[1],
             conn[id].client \in Clients, NEW f \in Files, NEW j \in 0..Len(link'[id].wire), Origin(id, j, f)'
      PROVE  \E o \in 0..(j + 1) : Origin(id, o, f) /\ \A n \in (o + 1)..(j + 1) : ~IsBreak(link[id].wire[n], f)
  <2>. USE <1>OriginShift
  <2>0. PICK c : c = conn[id].client
    OBVIOUS
  <2>1. conn'[id].client = c /\ c \in Clients
    BY <2>0 DEF Received, servervars
  <2>2. Len(link[id].wire) \in Nat /\ Len(link'[id].wire) = Len(link[id].wire) - 1
    BY DEF Shifts
  <2>3. CASE j # 0
    <3>1. j \in 1..Len(link'[id].wire) /\ j + 1 # 0 /\ j + 1 \in 0..(j + 1) /\ \A n \in (j + 1 + 1)..(j + 1) : FALSE
      BY <2>2, <2>3, SMTT(30)
    <3>2. link'[id].wire[j] = link[id].wire[j + 1]
      BY <3>1 DEF Shifts
    <3>3. Origin(id, j + 1, f)
      BY <2>3, <3>1, <3>2 DEF Origin
    <3>. QED
      BY <3>1, <3>3, SMTT(30)
  <2>4. CASE j = 0
    <3>1. belief'[c][f] # "none"
      BY <2>1, <2>4 DEF Origin
    <3>2. /\ 0 + 1 = 1 /\ 1 # 0 /\ 0 \in 0..1 /\ 1 \in 0..1 /\ (\A n \in 1..1 : n = 1) /\ \A n \in 2..1 : FALSE
          /\ 1 + 1 = 2
      BY SMTT(30)
    <3>3. CASE m.kind = "create" /\ m.f = f /\ m.granted # "none"
      <4>1. Origin(id, 1, f)
        BY <3>2, <3>3 DEF Origin
      <4>. QED
        BY <2>4, <3>2, <4>1
    <3>4. CASE ~(m.kind = "create" /\ m.f = f /\ m.granted # "none")
      <4>1. ~IsBreak(m, f) /\ belief[c][f] # "none"
        <5>1. CASE f # m.f
          BY <2>0, <2>1, <3>1, <5>1 DEF IsBreak, Received
        <5>2. CASE f = m.f /\ m.kind = "create"
          <6>1. m.kind # "break"
            BY <5>2
          <6>. QED
            BY <2>0, <3>1, <3>4, <5>2, <6>1 DEF IsBreak, Received
        <5>3. CASE f = m.f /\ m.kind # "create"
          <6>1. m.kind # "break"
            BY <2>0, <3>1, <5>3 DEF Received
          <6>2. belief'[c][m.f] = belief[c][m.f]
            <7>1. CASE m.kind = "read"
              BY <2>0, <7>1 DEF Received
            <7>2. CASE m.kind # "read"
              <8>1. m.kind \notin {"create", "read", "break"}
                BY <5>3, <6>1, <7>2
              <8>. QED
                BY <2>0, <8>1 DEF Received
            <7>. QED
              BY <7>1, <7>2
          <6>. QED
            BY <3>1, <5>3, <6>1, <6>2 DEF IsBreak
        <5>. QED
          BY <5>1, <5>2, <5>3
      <4>2. Origin(id, 0, f)
        BY <2>0, <4>1 DEF Origin
      <4>. QED
        BY <2>4, <3>2, <4>1, <4>2
    <3>. QED
      BY <3>3, <3>4
  <2>. QED
    BY <2>3, <2>4

\* A break behind frame o is behind frame j, if none is between.
<1>BehindLater. ASSUME NEW id \in Conns, NEW f, NEW j \in Nat, NEW o \in 0..j, Behind(id, o, f), Len(link[id].wire) \in Nat,
             \A n \in (o + 1)..j : ~IsBreak(link[id].wire[n], f)
      PROVE  Behind(id, j, f)
  <2>. USE <1>BehindLater
  <2>1. CASE Coming(id, f)
    BY <2>1 DEF Behind
  <2>2. CASE ~Coming(id, f)
    <3>1. PICK n \in (o + 1)..Len(link[id].wire) : IsBreak(link[id].wire[n], f)
      BY <2>2 DEF Behind
    <3>2. n \notin (o + 1)..j
      BY <3>1
    <3>3. n \in (j + 1)..Len(link[id].wire)
      BY <3>1, <3>2, SMTT(30)
    <3>. QED
      BY <3>1, <3>3 DEF Behind
  <2>. QED
    BY <2>1, <2>2

<1>RecvOwn. ASSUME RouteInv, LeaseInv, NEW id \in Conns, NEW m, Received(id, m), conn[id].state = "open"
      PROVE  LeaseOK(id)'
  <2>. USE <1>RecvOwn
  <2>0. PICK c : c = conn[id].client
    OBVIOUS
  <2>1. Shifts(id) /\ m = link[id].wire[1] /\ conn[id].client \in Clients
    BY RecvShifts, OpenClient
  <2>2. /\ UNCHANGED <<conn, wk, mbox, grants, ver>> /\ Tracked(id) /\ ReadsOK(id) /\ CacheOK(id)
    BY DEF Received, servervars, filevars, LeaseInv, LeaseOK
  <2>3. Len(link[id].wire) \in Nat /\ Len(link'[id].wire) = Len(link[id].wire) - 1 /\ 1 \in 1..Len(link[id].wire)
    BY <2>1 DEF Shifts
  <2>4. \A f : Granted(id, f)' <=> Granted(id, f)
    BY <2>2 DEF Granted
  <2>5. \A f : BreakDue(c, f)' <=> BreakDue(c, f)
    BY <2>2 DEF BreakDue
  <2>6. ASSUME NEW f \in Files, NEW j \in 0..Len(link'[id].wire), Origin(id, j, f)'
        PROVE  Granted(id, f)' \/ Behind(id, j, f)'
    <3>1. PICK o \in 0..(j + 1) : Origin(id, o, f) /\ \A n \in (o + 1)..(j + 1) : ~IsBreak(link[id].wire[n], f)
      BY <2>1, <2>6, <1>OriginShift
    <3>2. o \in 0..Len(link[id].wire) /\ j + 1 \in Nat
      BY <2>3, <2>6, <3>1, SMTT(30)
    <3>3. Granted(id, f) \/ Behind(id, o, f)
      BY <2>2, <3>1, <3>2 DEF Tracked
    <3>4. CASE Granted(id, f)
      BY <2>4, <3>4
    <3>5. CASE Behind(id, o, f)
      <4>1. Behind(id, j + 1, f)
        BY <2>3, <3>1, <3>2, <3>5, <1>BehindLater
      <4>. QED
        BY <2>1, <2>2, <2>6, <4>1, <1>BehindShift
    <3>. QED
      BY <3>3, <3>4, <3>5
  <2>7. Tracked(id)'
    BY <2>6 DEF Tracked
  <2>8. ASSUME NEW f \in Files, NEW k \in 1..Len(link'[id].wire), link'[id].wire[k].kind = "read", link'[id].wire[k].f = f,
               link'[id].wire[k].ver # ver[f][c]
        PROVE  \/ BreakDue(c, f) \/ Behind(id, k, f)'
               \/ \A j \in 0..(k - 1) : Origin(id, j, f)' => \E n \in (j + 1)..(k - 1) : IsBreak(link'[id].wire[n], f)
    <3>1. k + 1 \in 1..Len(link[id].wire) /\ link'[id].wire[k] = link[id].wire[k + 1]
      BY <2>1, <2>8 DEF Shifts
    <3>2. k + 1 - 1 = k /\ k \in 0..Len(link'[id].wire)
      BY <2>3, <2>8, SMTT(30)
    <3>3. \/ BreakDue(c, f) \/ Behind(id, k + 1, f)
          \/ \A j \in 0..k : Origin(id, j, f) => \E n \in (j + 1)..k : IsBreak(link[id].wire[n], f)
      <4>1. PICK h : h = k + 1
        OBVIOUS
      <4>2. /\ h \in 1..Len(link[id].wire) /\ link[id].wire[h].kind = "read" /\ link[id].wire[h].f = f
            /\ link[id].wire[h].ver # ver[f][conn[id].client]
        BY <2>0, <2>8, <3>1, <4>1
      <4>3. \/ BreakDue(c, f) \/ Behind(id, h, f)
            \/ \A j \in 0..(h - 1) : Origin(id, j, f) => \E n \in (j + 1)..(h - 1) : IsBreak(link[id].wire[n], f)
        BY <2>0, <2>2, <2>8, <4>2 DEF ReadsOK
      <4>4. h - 1 = k
        BY <2>8, <4>1, SMTT(30)
      <4>. QED
        BY <4>1, <4>3, <4>4
    <3>4. CASE Behind(id, k + 1, f)
      BY <2>1, <2>2, <2>8, <3>2, <3>4, <1>BehindShift
    <3>5. CASE \A j \in 0..k : Origin(id, j, f) => \E n \in (j + 1)..k : IsBreak(link[id].wire[n], f)
      <4>1. ASSUME NEW j \in 0..(k - 1), Origin(id, j, f)'
            PROVE  \E n \in (j + 1)..(k - 1) : IsBreak(link'[id].wire[n], f)
        <5>1. j \in 0..Len(link'[id].wire) /\ \A o \in 0..(j + 1) : o \in 0..k
          BY <2>3, <2>8, <4>1, SMTT(30)
        <5>2. PICK o \in 0..(j + 1) : Origin(id, o, f) /\ \A n \in (o + 1)..(j + 1) : ~IsBreak(link[id].wire[n], f)
          BY <2>1, <2>8, <4>1, <5>1, <1>OriginShift
        <5>3. PICK n \in (o + 1)..k : IsBreak(link[id].wire[n], f)
          BY <3>5, <5>1, <5>2
        <5>4. n \notin (o + 1)..(j + 1)
          BY <5>2, <5>3
        <5>5. n - 1 \in (j + 1)..(k - 1) /\ n - 1 \in 1..Len(link'[id].wire) /\ n - 1 + 1 = n
          BY <2>3, <2>8, <4>1, <5>2, <5>3, <5>4, SMTT(30)
        <5>6. link'[id].wire[n - 1] = link[id].wire[n]
          BY <2>1, <5>5 DEF Shifts
        <5>. QED
          BY <5>3, <5>5, <5>6
      <4>. QED
        BY <4>1
    <3>. QED
      BY <3>3, <3>4, <3>5
  <2>9. ReadsOK(id)'
    <3>1. SUFFICES ASSUME NEW f \in Files, NEW k \in 1..Len(link'[id].wire), link'[id].wire[k].kind = "read",
                          link'[id].wire[k].f = f, link'[id].wire[k].ver # ver'[f][conn'[id].client]
                   PROVE  \/ BreakDue(conn[id].client, f)' \/ Behind(id, k, f)'
                          \/ \A j \in 0..(k - 1) :
                               Origin(id, j, f)' => \E n \in (j + 1)..(k - 1) : IsBreak(link'[id].wire[n], f)
      BY DEF ReadsOK
    <3>2. conn'[id].client = c /\ ver' = ver
      BY <2>0, <2>2
    <3>3. BreakDue(c, f) => BreakDue(conn[id].client, f)'
      BY <2>2, <3>2 DEF BreakDue
    <3>. QED
      BY <2>8, <3>1, <3>2, <3>3
  <2>10. ASSUME NEW f \in Files, cache'[c][f] # NoCache, cache'[c][f] # ver[f][c]
         PROVE  BreakDue(c, f) \/ Behind(id, 0, f)'
    <3>0. /\ 0 + 1 = 1 /\ 1 - 1 = 0 /\ 0 \in 0..Len(link'[id].wire) /\ 0 \in 0..0 /\ 1 \in Nat /\ 0 \in 0..1
          /\ (\A n \in 1..1 : n = 1) /\ \A n \in 1..0 : FALSE
      BY <2>3, SMTT(30)
    <3>1. ASSUME Behind(id, 1, f) PROVE Behind(id, 0, f)'
      BY <2>1, <2>2, <3>0, <3>1, <1>BehindShift
    <3>2. CASE m.kind = "read" /\ m.f = f /\ belief[c][f] # "none"
      <4>1. cache'[c][f] = m.ver
        BY <2>0, <3>2 DEF Received
      <4>2. \/ BreakDue(c, f) \/ Behind(id, 1, f)
            \/ \A j \in 0..(1 - 1) : Origin(id, j, f) => \E n \in (j + 1)..(1 - 1) : IsBreak(link[id].wire[n], f)
        BY <2>0, <2>1, <2>2, <2>3, <2>10, <3>2, <4>1 DEF ReadsOK
      <4>3. Origin(id, 0, f)
        BY <2>0, <3>2 DEF Origin
      <4>. QED
        BY <3>0, <3>1, <4>2, <4>3
    <3>3. CASE ~(m.kind = "read" /\ m.f = f /\ belief[c][f] # "none")
      <4>1. ~IsBreak(m, f)
        BY <2>0, <2>10 DEF IsBreak, Received
      <4>2. cache'[c][f] = cache[c][f]
        <5>1. CASE f # m.f
          BY <2>0, <2>1, <2>10, <5>1 DEF Received
        <5>2. CASE f = m.f /\ m.kind = "create"
          BY <2>0, <5>2 DEF Received
        <5>3. CASE f = m.f /\ m.kind = "read"
          BY <2>0, <3>3, <5>3 DEF Received
        <5>4. CASE f = m.f /\ m.kind # "create" /\ m.kind # "read"
          <6>1. m.kind \notin {"create", "read", "break"}
            BY <4>1, <5>4 DEF IsBreak
          <6>. QED
            BY <2>0, <5>4, <6>1 DEF Received
        <5>. QED
          BY <5>1, <5>2, <5>3, <5>4
      <4>3. BreakDue(c, f) \/ Behind(id, 0, f)
        BY <2>0, <2>2, <2>10, <4>2 DEF CacheOK, Stale
      <4>4. ASSUME Behind(id, 0, f) PROVE Behind(id, 1, f)
        <5>1. \A n \in (0 + 1)..1 : ~IsBreak(link[id].wire[n], f)
          BY <2>1, <3>0, <4>1
        <5>. QED
          BY <2>3, <3>0, <4>4, <5>1, <1>BehindLater
      <4>. QED
        BY <3>1, <4>3, <4>4
    <3>. QED
      BY <3>2, <3>3
  <2>11. CacheOK(id)'
    <3>1. conn'[id].client = c /\ ver' = ver
      BY <2>0, <2>2
    <3>2. ASSUME NEW f, BreakDue(c, f) PROVE BreakDue(conn[id].client, f)'
      BY <2>2, <3>1, <3>2 DEF BreakDue
    <3>. QED
      BY <2>10, <3>1, <3>2 DEF CacheOK, Stale
  <2>. QED
    BY <2>7, <2>9, <2>11 DEF LeaseOK

<1>RecvLease. ASSUME RouteInv, OwnInv, ClientInv, LeaseInv, NEW id \in Conns, NEW m, Received(id, m)
      PROVE  LeaseInv'
  <2>. USE <1>RecvLease
  <2>1. UNCHANGED <<conn, wk, mbox, ver, grants>> /\ \A i \in Conns : i # id => link'[i] = link[i]
    BY DEF Received, servervars, filevars
  <2>2. (\A i \in Conns : Holds(i)) /\ (\A i \in Conns : Current(i)) /\ HeldOn /\ DueOn
    BY <2>1, SameHolds, SameCurrent, IdleOn
  <2>3. ASSUME NEW i \in Conns, i # id PROVE LeaseOK(i)'
    <3>1. Keeps(i) /\ Heeds(i) /\ conn'[i] = conn[i] /\ link'[i] = link[i]
      BY <2>1, <2>3, RecvHeeds DEF Keeps
    <3>. QED
      BY <2>2, <2>3, <3>1, LeaseQuiet
  <2>4. CASE conn[id].state = "open"
    BY <2>3, <2>4, <1>RecvOwn DEF LeaseInv
  <2>5. CASE conn[id].state # "open"
    BY <2>1, <2>3, <2>5 DEF LeaseInv, LeaseOK
  <2>. QED
    BY <2>4, <2>5

<1>1. ASSUME NEW id \in Conns, ClientRecv(id) PROVE LeaseInv'
  <2>1. PICK m : Received(id, m)
    BY <1>1, RecvFacts
  <2>. QED
    BY <1>1, <2>1, <1>RecvLease
<1>2. ASSUME NEW id \in Conns, ClientDown(id) PROVE LeaseInv'
  BY <1>2, DownFacts, <1>DownLease
<1>. QED
  BY <1>1, <1>2

\* A request.
LEMMA RequestLease ==
  ASSUME Alone, RouteInv, OwnInv, HandleInv, ClientInv, ViewInv, LeaseInv,
         \E w \in Workers, id \in Conns : Request(w, id)
  PROVE  LeaseInv'

<1>AskedOn. ASSUME RouteInv, NEW w \in Workers, NEW id, NEW todo, NEW except, NEW next, NEW h, NEW resp,
             Asked(w, id, todo, except, next, h, resp)
      PROVE  /\ HeldOn /\ DueOn
             /\ \A c, f : c # except /\ (\E k \in 1..Len(todo) : todo[k] = f) => BreakDue(c, f)'
  <2>. USE <1>AskedOn
  <2>1. wk[w].pc \notin {"break", "post", "signal", "deliver"}
    <3>1. Idle.pc = "idle"
      BY DEF Idle
    <3>. QED
      BY <3>1 DEF Asked
  <2>2. HeldOn /\ DueOn
    BY <2>1, FreeWorks DEF Asked
  <2>3. ASSUME NEW c, NEW f, c # except, NEW k \in 1..Len(todo), todo[k] = f PROVE BreakDue(c, f)'
    BY <2>3 DEF BreakDue, Asked
  <2>. QED
    BY <2>2, <2>3

<1>OneFollows. ASSUME RouteInv, NEW f \in Files, NEW key, Changes(f, key), NEW todo, todo = <<f>>
      PROVE  Follows(todo, key)
  <2>. USE <1>OneFollows
  <2>1. 1 \in 1..Len(todo) /\ todo[1] = f
    BY SMTT(30)
  <2>2. ASSUME NEW g \in Files, NEW c \in Clients, ver'[g][c] # ver[g][c] PROVE g = f /\ c # key
    <3>1. ver \in [Files -> [Clients -> Nat]]
      BY Side DEF SideOK
    <3>2. g = f
      BY <2>2, <3>1 DEF Changes
    <3>3. ver'[f] = Newer(f, key)
      BY <3>1 DEF Changes
    <3>4. c = key => Newer(f, key)[c] = ver[f][c]
      BY <2>2 DEF Newer
    <3>. QED
      BY <2>2, <3>2, <3>3, <3>4
  <2>. QED
    BY <2>1, <2>2 DEF Follows

\* A request that changes f under key, and will break the others.
<1>ChangeLease. ASSUME RouteInv, ClientInv, LeaseInv, NEW w \in Workers, NEW id, NEW todo, NEW key, NEW next, NEW h, NEW resp,
             Asked(w, id, todo, key, next, h, resp), Follows(todo, key),
             UNCHANGED <<conn, link, grants, belief, cache>>
      PROVE  LeaseInv'
  <2>. USE <1>ChangeLease
  <2>1. HeldOn /\ DueOn /\ \A c, f : c # key /\ (\E k \in 1..Len(todo) : todo[k] = f) => BreakDue(c, f)'
    BY <1>AskedOn
  <2>2. \A i \in Conns : conn[i].state = "open" => Current(i)
    BY <2>1, OpenClient DEF Current, Follows
  <2>3. \A i \in Conns : Keeps(i) /\ link'[i] = link[i] /\ conn'[i] = conn[i]
    BY DEF Keeps
  <2>4. \A i \in Conns : Heeds(i) /\ Holds(i)
    BY SameLess, AllHeed, SameHolds
  <2>5. ASSUME NEW i \in Conns PROVE LeaseOK(i)'
    <3>1. Keeps(i) /\ Heeds(i) /\ Holds(i) /\ link'[i] = link[i] /\ conn'[i] = conn[i]
      BY <2>3, <2>4
    <3>. QED
      BY <2>1, <2>2, <3>1, LeaseQuiet
  <2>. QED
    BY <2>5 DEF LeaseInv

<1>ChangingLease. ASSUME RouteInv, ClientInv, LeaseInv, NEW w \in Workers, NEW id, NEW f \in Files, NEW h, NEW next,
             Changing(w, id, <<f>>, h, next), Changes(f, h.key), UNCHANGED <<conn, link, grants, belief, cache>>
      PROVE  LeaseInv'
  <2>. USE <1>ChangingLease
  <2>1. PICK todo : todo = <<f>>
    OBVIOUS
  <2>2. PICK key : key = h.key
    OBVIOUS
  <2>3. PICK resp : Asked(w, id, todo, key, next, h, resp)
    BY <2>1, <2>2 DEF Changing
  <2>4. Follows(todo, key)
    BY <2>1, <2>2, <1>OneFollows
  <2>. QED
    BY <2>3, <2>4, <1>ChangeLease

<1>CreateLease. ASSUME RouteInv, ClientInv, LeaseInv, NEW w \in Workers, NEW id \in Conns, NEW f \in Files, NEW want \in LeaseStates,
             NEW overwrite \in BOOLEAN, NEW doc \in BOOLEAN, CreateOpen(w, id, f, want, overwrite, doc)
      PROVE  LeaseInv'
  <2>. USE <1>CreateLease
  <2>1. Creating(w, id, f, want, overwrite)
    BY CreateAsks
  <2>2. PICK todo, key, h, resp :
          /\ Asked(w, id, todo, key, "grant", h, resp)
          /\ todo = (IF overwrite THEN <<f>> ELSE <<>>)
          /\ key = (IF want = "none" THEN None ELSE conn[id].client)
          /\ h.f = f /\ h.granted = want
          /\ resp.kind = "create" /\ resp.f = f /\ resp.granted = want
    BY <2>1 DEF Creating
  <2>3. UNCHANGED <<conn, link, grants, belief, cache>>
    BY DEF CreateOpen, clientvars
  <2>4. Follows(todo, key)
    <3>1. CASE overwrite
      <4>1. Changes(f, key) /\ todo = <<f>>
        BY <2>2, <3>1 DEF CreateOpen
      <4>. QED
        BY <4>1, <1>OneFollows
    <3>2. CASE ~overwrite
      BY <3>2 DEF CreateOpen, Follows
    <3>. QED
      BY <3>1, <3>2
  <2>. QED
    BY <2>2, <2>3, <2>4, <1>ChangeLease

<1>WriteLease. ASSUME RouteInv, ClientInv, LeaseInv, NEW w \in Workers, NEW id \in Conns, NEW h, Write(w, id, h)
      PROVE  LeaseInv'
  <2>. USE <1>WriteLease
  <2>1. Ready(w, id) /\ h \in handles[conn[id].sess]
    BY DEF Write
  <2>2. h.f \in Files
    BY <2>1, RequestHandle
  <2>. QED
    BY <2>2, WriteAsks, <1>ChangingLease DEF Write, clientvars

<1>RenameLease. ASSUME RouteInv, ClientInv, LeaseInv, NEW w \in Workers, NEW id \in Conns, NEW h, NEW g \in Files, Rename(w, id, h, g)
      PROVE  LeaseInv'
  <2>. USE <1>RenameLease
  <2>1. PICK todo : todo = IF g = h.f THEN <<h.f>> ELSE <<h.f, g>>
    OBVIOUS
  <2>2. PICK resp : Asked(w, id, todo, h.key, "reply", h, resp)
    BY <2>1, RenameAsks DEF Changing
  <2>3. /\ \E k \in 1..Len(todo) : todo[k] = h.f
        /\ \E k \in 1..Len(todo) : todo[k] = g
    BY <2>1, SMTT(30)
  <2>4. ASSUME NEW x \in Files, NEW c \in Clients, ver'[x][c] # ver[x][c] PROVE c # h.key /\ x \in {h.f, g}
    <3>1. ver' = [y \in Files |-> IF y \in {h.f, g} THEN Newer(y, h.key) ELSE ver[y]]
      BY DEF Rename
    <3>2. x \in {h.f, g} /\ ver'[x] = Newer(x, h.key)
      BY <2>4, <3>1
    <3>3. Newer(x, h.key)[c] = IF c = h.key THEN ver[x][c] ELSE ver[x][c] + 1
      BY <2>4 DEF Newer
    <3>. QED
      BY <2>4, <3>2, <3>3
  <2>5. Follows(todo, h.key)
    BY <2>3, <2>4 DEF Follows
  <2>6. UNCHANGED <<conn, link, grants, belief, cache>>
    BY DEF Rename, clientvars
  <2>7. PICK key : key = h.key
    OBVIOUS
  <2>8. Asked(w, id, todo, key, "reply", h, resp) /\ Follows(todo, key)
    BY <2>2, <2>5, <2>7
  <2>. QED
    BY <2>6, <2>8, <1>ChangeLease

<1>ReadLease. ASSUME RouteInv, ClientInv, LeaseInv, NEW w \in Workers, NEW id \in Conns, NEW h, Read(w, id, h)
      PROVE  LeaseInv'
  <2>. USE <1>ReadLease
  <2>1. Ready(w, id) /\ h \in handles[conn[id].sess]
    BY DEF Read
  <2>2. h.f \in Files /\ conn[id].client \in Clients
    BY <2>1, RequestHandle, ReadyOpen
  <2>3. PICK a : a = [kind |-> "read", f |-> h.f, ver |-> ver[h.f][conn[id].client]]
    OBVIOUS
  <2>4. ver[h.f][conn[id].client] \in Nat
    BY <2>2, Side DEF SideOK
  <2>5. a \in Response /\ a.kind # "create" /\ a.f = h.f /\ a.ver = ver[h.f][conn[id].client]
    BY <2>2, <2>3, <2>4 DEF Response
  <2>6. Answers(id, a)
    BY <2>3, ReplyAnswers DEF Read
  <2>7. HeldOn /\ DueOn /\ UNCHANGED <<ver, grants, belief, cache>>
    BY IdleOn DEF Read, filevars
  <2>. QED
    BY <2>5, <2>6, <2>7, AnsweredLease

<1>DisposeLease. ASSUME RouteInv, ClientInv, LeaseInv, NEW w \in Workers, NEW id \in Conns, NEW h, NEW flag \in BOOLEAN,
             SetDisposition(w, id, h, flag)
      PROVE  LeaseInv'
  <2>. USE <1>DisposeLease
  <2>1. Ready(w, id) /\ h \in handles[conn[id].sess]
    BY DEF SetDisposition
  <2>2. h.f \in Files /\ [kind |-> "ack", f |-> h.f] \in Response
    BY <2>1, RequestHandle
  <2>3. CASE flag
    BY <2>2, <2>3, DisposeAsks, <1>ChangingLease DEF SetDisposition
  <2>4. CASE ~flag
    <3>1. PICK a : a = [kind |-> "ack", f |-> h.f]
      OBVIOUS
    <3>2. a \in Response /\ a.kind # "create" /\ a.kind # "read"
      BY <2>2, <3>1
    <3>3. Answers(id, a)
      BY <2>4, <3>1, ReplyAnswers DEF SetDisposition
    <3>4. HeldOn /\ DueOn /\ UNCHANGED <<ver, grants, belief, cache>>
      BY <2>4, IdleOn DEF SetDisposition
    <3>. QED
      BY <3>2, <3>3, <3>4, AnsweredLease
  <2>. QED
    BY <2>3, <2>4

<1>CloseLease. ASSUME Alone, RouteInv, OwnInv, HandleInv, ClientInv, ViewInv, LeaseInv, NEW w \in Workers, NEW id \in Conns,
             NEW h \in HandlesOf(id), Close(w, id, h)
      PROVE  LeaseInv'
  <2>. USE <1>CloseLease
  <2>1. Ready(w, id) /\ conn[id].state = "open" /\ grants' = Released(h) /\ UNCHANGED ver
    BY DEF Close, Ready, filevars
  <2>2. conn[id].sess = id /\ h \in handles[id] /\ h \in Handle /\ ~Unread(id, h.f)
    BY <2>1, OwnOpen, NamedHandle
  <2>3. PICK c : c = conn[id].client
    OBVIOUS
  <2>4. h.f \in Files /\ c \in Clients
    <3>1. h.f \in Files
      BY <2>2 DEF Handle
    <3>. QED
      BY <2>1, <2>3, <3>1, OpenClient
  <2>5. h.granted # "none" => h.key = conn[id].client
    BY <2>2 DEF HandleInv, HandlesOK
  <2>6. h.granted = "R" => belief'[c][h.f] = "none"
    <3>1. SUFFICES ASSUME h.granted = "R" PROVE belief'[c][h.f] = "none"
      OBVIOUS
    <3>2. belief[c][h.f] # "RH"
      BY <2>1, <2>2, <2>3, <3>1 DEF ViewInv, ViewOK
    <3>3. LastClose(id, h)
      BY <2>2 DEF HandleInv, HandlesOK, LastClose
    <3>4. Forget(c, h.f)
      BY <2>2, <2>3, <3>2, <3>3 DEF Close
    <3>. QED
      BY <2>4, <3>4, Forgets
  <2>7. /\ HeldOn /\ DueOn /\ \A i \in Conns : Keeps(i) /\ link'[i].up = link[i].up /\ conn'[i].deferred = conn[i].deferred
        /\ \A i \in Conns : link'[i].wire = link[i].wire
    <3>1. CASE h.doc
      <4>1. conn' = conn /\ link' = link
        BY <3>1 DEF Close
      <4>2. PICK todo : todo = <<h.f>>
        OBVIOUS
      <4>3. PICK key : key = h.key
        OBVIOUS
      <4>4. Changing(w, id, todo, h, "unlink")
        BY <3>1, <4>2, CloseAsks
      <4>5. PICK resp : Asked(w, id, todo, key, "unlink", h, resp)
        BY <4>3, <4>4 DEF Changing
      <4>6. HeldOn /\ DueOn
        BY <4>5, <1>AskedOn
      <4>. QED
        BY <4>1, <4>6 DEF Keeps
    <3>2. CASE ~h.doc
      <4>1. PICK a : a = [kind |-> "ack", f |-> h.f]
        OBVIOUS
      <4>2. a.kind = "ack"
        BY <4>1
      <4>3. Answers(id, a)
        BY <3>2, <4>1, ReplyAnswers DEF Close
      <4>4. HeldOn /\ DueOn
        BY <3>2, IdleOn DEF Close
      <4>. QED
        BY <4>2, <4>3, <4>4 DEF Answers
    <3>. QED
      BY <3>1, <3>2
  <2>8. ASSUME NEW i \in Conns PROVE Holds(i)
    <3>1. SUFFICES ASSUME NEW f \in Files, Granted(i, f), ~Granted(i, f)'
                   PROVE  \A j \in 0..Len(link[i].wire) : ~Origin(i, j, f)'
      BY DEF Holds
    <3>2. i = id /\ f = h.f /\ h.granted = "R"
      BY <2>1, <2>5, <2>8, <3>1, ReleasedHolds
    <3>3. ASSUME NEW j \in 0..Len(link[i].wire), Origin(i, j, f)' PROVE FALSE
      <4>1. CASE j = 0
        <5>1. conn'[i].client = c
          BY <2>3, <2>7, <3>2 DEF Keeps
        <5>. QED
          BY <2>6, <3>2, <3>3, <4>1, <5>1 DEF Origin
      <4>2. CASE j # 0
        <5>1. Len(link[i].wire) \in Nat
          BY Typed, SMTT(30) DEF LinkType
        <5>2. j \in 1..Len(link[i].wire)
          BY <3>3, <4>2, <5>1, SMTT(30)
        <5>3. link[i].wire[j].kind = "create" /\ link[i].wire[j].f = f
          BY <2>7, <3>3, <4>2 DEF Origin
        <5>. QED
          BY <2>2, <3>2, <5>2, <5>3 DEF Unread
      <4>. QED
        BY <4>1, <4>2
    <3>. QED
      BY <3>3
  <2>9. (\A i \in Conns : Heeds(i)) /\ \A i \in Conns : Current(i)
    BY <2>1, CloseLess, AllHeed, SameCurrent
  <2>10. ASSUME NEW i \in Conns PROVE LeaseOK(i)'
    <3>1. /\ Keeps(i) /\ (link'[i].up => link[i].up) /\ link'[i].wire = link[i].wire
          /\ conn'[i].deferred = conn[i].deferred /\ Holds(i) /\ Heeds(i) /\ Current(i)
      BY <2>7, <2>8, <2>9
    <3>. QED
      BY <2>7, <3>1, LeaseQuiet
  <2>. QED
    BY <2>10 DEF LeaseInv

<1>1. ASSUME NEW w \in Workers, NEW id \in Conns, Request(w, id) PROVE LeaseInv'
  <2>0. \A op : Options(op) \subseteq BOOLEAN
    BY DEF Options
  <2>1. load.files \subseteq Files /\ load.reqs \subseteq LeaseStates
    BY Side, LeasesAssumption DEF SideOK, LeaseStates
  <2>2. ASSUME NEW f \in load.files, NEW want \in load.reqs,
               NEW overwrite \in Options("overwrite"), NEW doc \in Options("delete_on_close"),
               CreateOpen(w, id, f, want, overwrite, doc)
        PROVE  LeaseInv'
    <3>1. f \in Files /\ want \in LeaseStates /\ overwrite \in BOOLEAN /\ doc \in BOOLEAN
      BY <2>0, <2>1, <2>2
    <3>. QED
      BY <1>1, <2>2, <3>1, <1>CreateLease
  <2>3. ASSUME NEW h, NEW g \in load.files, Rename(w, id, h, g) PROVE LeaseInv'
    <3>1. g \in Files
      BY <2>1, <2>3
    <3>. QED
      BY <1>1, <2>3, <3>1, <1>RenameLease
  <2>4. ASSUME NEW h \in HandlesOf(id), Read(w, id, h) \/ Write(w, id, h) \/ Close(w, id, h) PROVE LeaseInv'
    BY <1>1, <2>4, <1>ReadLease, <1>WriteLease, <1>CloseLease
  <2>5. ASSUME NEW h, NEW flag \in BOOLEAN, SetDisposition(w, id, h, flag) PROVE LeaseInv'
    BY <1>1, <2>5, <1>DisposeLease
  <2>. QED
    BY <1>1, <2>2, <2>3, <2>4, <2>5 DEF Request
<1>. QED
  BY <1>1

\* What a thread goes on with.
LEMMA ContinueLease ==
  ASSUME Alone, RouteInv, OwnInv, HandleInv, ClientInv, ViewInv, LeaseInv, \E w \in Workers : Continue(w)
  PROVE  LeaseInv'

<1>RespondLease. ASSUME RouteInv, OwnInv, HandleInv, ClientInv, LeaseInv, NEW w \in Workers, Respond(w)
      PROVE  LeaseInv'
  <2>. USE <1>RespondLease
  <2>1. PICK id : id = wk[w].id
    OBVIOUS
  <2>2. PICK resp : resp = wk[w].resp
    OBVIOUS
  <2>3. wk[w].pc = "reply" /\ wk[w].pc \notin {"break", "post", "signal", "deliver"} /\ wk[w].pc \in {"grant", "reply"}
    BY DEF Respond
  <2>4. id \in Conns /\ resp \in Response /\ Stage(wk[w]) = "reply" /\ wk[w].sess # None
    BY <2>1, <2>2, <2>3, LastStep
  <2>5. resp.kind \in {"wrote", "ack"}
    BY <2>2, <2>4 DEF HandleInv, AnswerOK
  <2>6. Answers(id, resp)
    BY <2>1, <2>2, <2>4, ReplyAnswers DEF Respond
  <2>7. \A v \in Workers : v # w => wk'[v] = wk[v]
    BY Typed DEF Respond
  <2>8. HeldOn /\ DueOn /\ UNCHANGED <<ver, grants, belief, cache>>
    BY <2>3, <2>7, FreeWorks DEF Respond, filevars
  <2>9. resp.kind # "create" /\ resp.kind # "read"
    BY <2>5
  <2>. QED
    BY <2>4, <2>6, <2>8, <2>9, AnsweredLease

<1>GrantLease. ASSUME RouteInv, OwnInv, HandleInv, ClientInv, LeaseInv, NEW w \in Workers, Grant(w)
      PROVE  LeaseInv'
  <2>. USE <1>GrantLease
  <2>1. PICK r : r = wk[w]
    OBVIOUS
  <2>2. PICK id : id = r.id
    OBVIOUS
  <2>3. r.pc = "grant" /\ r.pc \notin {"break", "post", "signal", "deliver"} /\ r.pc \in {"grant", "reply"}
    BY <2>1 DEF Grant
  <2>4. id \in Conns /\ r.resp \in Response /\ Stage(r) = "grant" /\ Serving(w, r)
    BY <2>1, <2>2, <2>3, LastStep
  <2>5. PICK h : h = r.h
    OBVIOUS
  <2>6. PICK resp : resp = r.resp
    OBVIOUS
  <2>7. h.granted # "none" => h.key = conn[id].client
    BY <2>2, <2>4, <2>5 DEF Serving
  <2>8. resp \in Response /\ resp.kind = "create" /\ resp.f = h.f /\ resp.granted = h.granted
    BY <2>1, <2>4, <2>5, <2>6 DEF HandleInv, AnswerOK
  <2>9. Answers(id, resp)
    BY <2>1, <2>2, <2>4, <2>6, ReplyAnswers DEF Grant
  <2>10. PICK n : n = [f |-> h.f, key |-> h.key, state |-> h.granted, loc |-> conn[id].loc, gen |-> conn[id].gen, id |-> id]
    OBVIOUS
  <2>11. n.f = h.f /\ n.key = h.key /\ n.id = id
    BY <2>10
  <2>12. grants' = IF h.granted = "none" THEN grants ELSE WithGrant(n)
    BY <2>1, <2>2, <2>5, <2>10 DEF Grant
  <2>13. h.granted # "none" => Granted(id, h.f)'
    <3>1. h.granted # "none" => n \in grants'
      BY <2>12 DEF WithGrant
    <3>. QED
      BY <2>11, <3>1 DEF Granted
  <2>14. ASSUME NEW i \in Conns PROVE Holds(i)
    <3>1. SUFFICES ASSUME NEW f \in Files, Granted(i, f) PROVE Granted(i, f)'
      BY DEF Holds
    <3>2. PICK g \in grants : g.f = f /\ g.id = i
      BY <3>1 DEF Granted
    <3>3. CASE g \in grants'
      BY <3>2, <3>3 DEF Granted
    <3>4. CASE g \notin grants'
      <4>1. h.granted # "none" /\ g.f = h.f /\ g.key = h.key
        BY <2>11, <2>12, <3>2, <3>4 DEF WithGrant
      <4>2. i = id
        BY <2>4, <2>7, <3>2, <4>1, GrantKey
      <4>. QED
        BY <2>13, <3>2, <4>1, <4>2
    <3>. QED
      BY <3>3, <3>4
  <2>15. \A v \in Workers : v # w => wk'[v] = wk[v]
    BY Typed DEF Grant
  <2>16. HeldOn /\ DueOn
    BY <2>1, <2>3, <2>15, FreeWorks DEF Grant
  <2>17. (\A i \in Conns : Heeds(i)) /\ \A i \in Conns : Current(i)
    BY SameLess, AllHeed, SameCurrent DEF Grant, filevars
  <2>18. ASSUME NEW i \in Conns PROVE LeaseOK(i)'
    <3>1. Keeps(i) /\ (link'[i].up => link[i].up) /\ conn'[i].deferred = conn[i].deferred
      BY <2>9 DEF Answers
    <3>2. PICK fs : Answered1(i, id, resp, fs)
      BY <2>4, <2>8, <2>9, AnswersSpeak
    <3>3. Told(i, fs)
      <4>1. CASE fs = <<>>
        BY <4>1, NoFrame DEF Told
      <4>2. CASE fs = <<resp>> /\ i = id
        <5>1. \A k \in 1..Len(fs) : fs[k] = resp
          BY <4>2, SMTT(30)
        <5>2. resp.kind # "read"
          BY <2>8
        <5>. QED
          BY <2>8, <2>13, <4>2, <5>1, <5>2 DEF Told
      <4>. QED
        BY <3>2, <4>1, <4>2 DEF Answered1
    <3>4. Speaks(i, fs) /\ Queues(i, fs)
      BY <3>1, <3>2 DEF Answered1, Queues, Queued
    <3>. QED
      BY <2>14, <2>16, <2>17, <3>1, <3>3, <3>4, LeaseKept
  <2>. QED
    BY <2>18 DEF LeaseInv

<1>PlainLease. ASSUME RouteInv, ClientInv, LeaseInv, NEW w \in Workers, Unlink(w) \/ PostSignal(w) \/ ArmWake(w)
      PROVE  LeaseInv'
  <2>. USE <1>PlainLease
  <2>1. UNCHANGED <<conn, link, ver, belief, cache, grants>> /\ mbox' = mbox
    BY DEF Unlink, PostSignal, ArmWake, clientvars, filevars
  <2>2. \A v \in Workers : v # w => wk'[v] = wk[v]
    BY Typed DEF Unlink, PostSignal, ArmWake
  <2>3. CASE Unlink(w) \/ PostSignal(w)
    <3>1. PICK p : wk' = [wk EXCEPT ![w].pc = p]
      BY <2>3 DEF Unlink, PostSignal
    <3>2. PICK r : r = wk[w]
      OBVIOUS
    <3>3. r \in ThreadState /\ wk'[w] = [r EXCEPT !.pc = p]
      BY <3>1, <3>2, Typed
    <3>4. wk'[w].msgs = r.msgs /\ wk'[w].inbox = r.inbox /\ wk'[w].todo = r.todo /\ wk'[w].except = r.except
      BY <3>3 DEF ThreadState
    <3>5. Works(w)
      BY <2>1, <2>2, <3>2, <3>4 DEF Works
    <3>. QED
      BY <2>1, <3>5, WorksOn, SameHolds, StillLease
  <2>4. CASE ArmWake(w)
    <3>1. PICK r : r = wk[w]
      OBVIOUS
    <3>2. r.inbox = <<>> /\ r = [Idle EXCEPT !.pc = "deliver", !.inbox = r.inbox]
      BY <2>4, <3>1 DEF ArmWake, RouteInv, ThreadOK
    <3>3. r.msgs = {} /\ r.todo = <<>>
      BY <3>2 DEF Idle
    <3>4. Works(w)
      BY <2>1, <2>2, <3>1, <3>2, <3>3 DEF Works
    <3>. QED
      BY <2>1, <3>4, WorksOn, SameHolds, StillLease
  <2>. QED
    BY <2>3, <2>4

\* A teardown takes the leases of a connection that is gone.
<1>TeardownLease. ASSUME RouteInv, OwnInv, HandleInv, ClientInv, LeaseInv, NEW w \in Workers,
             ReleaseConn(w) \/ \E h \in wk[w].rest : TeardownHandle(w, h)
      PROVE  LeaseInv'
  <2>. USE <1>TeardownLease
  <2>1. PICK id : id = wk[w].id
    OBVIOUS
  <2>2. wk[w].pc = "teardown" /\ wk[w].pc \notin {"break", "post", "signal", "deliver"} /\ wk[w].pc \notin {"idle", "deliver"}
    <3>1. wk[w].pc = "teardown"
      BY DEF ReleaseConn, TeardownHandle
    <3>. QED
      BY <3>1
  <2>3. Serving(w, wk[w]) /\ id \in Conns /\ Stage(wk[w]) = "teardown"
    <3>1. Serving(w, wk[w]) /\ id \in Conns
      BY <2>1, <2>2, ServedBorn
    <3>. QED
      BY <2>2, <3>1 DEF Stage
  <2>4. conn[id].state = "gone" /\ conn[id].loc \in Locs
    BY <2>1, <2>3 DEF Serving
  <2>5. UNCHANGED <<conn, link, ver, belief, cache>> /\ mbox' = mbox /\ \A v \in Workers : v # w => wk'[v] = wk[v]
    <3>1. UNCHANGED <<conn, link, ver, belief, cache>> /\ mbox' = mbox
      BY DEF ReleaseConn, TeardownHandle, clientvars, filevars
    <3>2. PICK x : wk' = [wk EXCEPT ![w] = x]
      BY DEF ReleaseConn, TeardownHandle
    <3>. QED
      BY <3>1, <3>2, Typed
  <2>6. HeldOn /\ DueOn
    BY <2>2, <2>5, FreeWorks
  <2>7. ASSUME NEW i \in Conns, conn[i].state = "open" PROVE Holds(i)
    <3>1. SUFFICES ASSUME NEW f \in Files, Granted(i, f) PROVE Granted(i, f)'
      BY DEF Holds
    <3>2. i # id
      BY <2>4, <2>7
    <3>3. CASE ReleaseConn(w)
      <4>1. PICK g \in grants : g.f = f /\ g.id = i
        BY <3>1 DEF Granted
      <4>2. PICK l : l = conn[id].loc
        OBVIOUS
      <4>3. slot[l] = id /\ slot[g.loc] = i
        BY <2>1, <2>3, <4>1, <4>2 DEF Serving, RouteInv, GrantsOK
      <4>4. grants' = {x \in grants : ~(x.loc = l /\ x.gen = gen[l])}
        BY <2>1, <3>3, <4>2 DEF ReleaseConn, WithoutConn
      <4>5. g \in grants'
        BY <3>2, <4>1, <4>3, <4>4
      <4>. QED
        BY <4>1, <4>5 DEF Granted
    <3>4. ASSUME NEW h \in wk[w].rest, TeardownHandle(w, h) PROVE Granted(i, f)'
      <4>1. h.granted # "none" => h.key = conn[id].client
        BY <2>1, <3>4 DEF HandleInv, RestOK
      <4>2. grants' = Released(h)
        BY <3>4 DEF TeardownHandle
      <4>. QED
        BY <2>3, <3>1, <3>2, <4>1, <4>2, ReleasedHolds
    <3>. QED
      BY <3>3, <3>4
  <2>. QED
    BY <2>5, <2>6, <2>7, StillLease

<1>PostLease. ASSUME RouteInv, ClientInv, LeaseInv, NEW w \in Workers, NEW m \in wk[w].msgs, PostPush(w, m)
      PROVE  LeaseInv'
  <2>. USE <1>PostLease
  <2>1. PICK r : r = wk[w]
    OBVIOUS
  <2>2. PICK to : to = m.loc[1]
    OBVIOUS
  <2>3. PICK q : q = mbox[to]
    OBVIOUS
  <2>4. r \in ThreadState /\ m \in LeaseGrant /\ to \in Workers /\ q \in Seq(LeaseGrant)
    <3>1. r \in ThreadState /\ m \in LeaseGrant
      BY <2>1, Typed, MsgTypes
    <3>2. to \in Workers
      BY <2>2, <3>1 DEF LeaseGrant, Locs
    <3>. QED
      BY <2>3, <3>1, <3>2, Typed
  <2>5. UNCHANGED <<conn, link, ver, belief, cache, grants>>
    BY DEF PostPush, clientvars, filevars
  <2>6. mbox'[to] = Append(q, m) /\ \A v \in Workers : v # to => mbox'[v] = mbox[v]
    BY <2>2, <2>3, <2>4, Typed DEF PostPush
  <2>7. /\ wk'[w] = [r EXCEPT !.pc = "signal", !.msgs = r.msgs \ {m}, !.signal = to]
        /\ \A v \in Workers : v # w => wk'[v] = wk[v]
    BY <2>1, <2>2, Typed DEF PostPush
  <2>8. /\ wk'[w].msgs = r.msgs \ {m} /\ wk'[w].inbox = r.inbox /\ wk'[w].todo = r.todo /\ wk'[w].except = r.except
    BY <2>4, <2>7 DEF ThreadState
  <2>9. /\ \A k \in 1..Len(q) : k \in 1..Len(Append(q, m)) /\ Append(q, m)[k] = q[k]
        /\ Len(q) + 1 \in 1..Len(Append(q, m)) /\ Append(q, m)[Len(q) + 1] = m
    BY <2>4, SMTT(30)
  <2>10. ASSUME NEW i \in Conns, NEW f \in Files, NEW v \in Workers, Held(v, i, f)
         PROVE  \E u \in Workers : Held(u, i, f)'
    <3>1. ASSUME NEW x \in wk[v].msgs, x.f = f, x.id = i PROVE \E u \in Workers : Held(u, i, f)'
      <4>1. CASE v = w /\ x = m
        <5>1. \E k \in 1..Len(mbox'[to]) : mbox'[to][k].f = f /\ mbox'[to][k].id = i
          BY <2>6, <2>9, <3>1, <4>1
        <5>. QED
          BY <2>4, <5>1 DEF Held
      <4>2. CASE v # w \/ x # m
        <5>1. x \in wk'[v].msgs
          BY <2>1, <2>7, <2>8, <3>1, <4>2
        <5>. QED
          BY <3>1, <5>1 DEF Held
      <4>. QED
        BY <4>1, <4>2
    <3>2. ASSUME NEW k \in 1..Len(mbox[v]), mbox[v][k].f = f, mbox[v][k].id = i PROVE Held(v, i, f)'
      <4>1. k \in 1..Len(mbox'[v]) /\ mbox'[v][k] = mbox[v][k]
        BY <2>3, <2>6, <2>9, <3>2
      <4>. QED
        BY <3>2, <4>1 DEF Held
    <3>3. ASSUME NEW k \in 1..Len(wk[v].inbox), wk[v].inbox[k].f = f, wk[v].inbox[k].id = i PROVE Held(v, i, f)'
      <4>1. wk'[v].inbox = wk[v].inbox
        BY <2>1, <2>7, <2>8
      <4>. QED
        BY <3>3, <4>1 DEF Held
    <3>. QED
      BY <2>10, <3>1, <3>2, <3>3 DEF Held
  <2>11. HeldOn
    BY <2>10 DEF HeldOn
  <2>12. \A v \in Workers : wk'[v].todo = wk[v].todo /\ wk'[v].except = wk[v].except
    BY <2>1, <2>7, <2>8
  <2>13. DueOn
    <3>1. SUFFICES ASSUME NEW c \in Clients, NEW f \in Files, BreakDue(c, f) PROVE BreakDue(c, f)'
      BY DEF DueOn
    <3>2. PICK v \in Workers : wk[v].except # c /\ \E k \in 1..Len(wk[v].todo) : wk[v].todo[k] = f
      BY <3>1 DEF BreakDue
    <3>. QED
      BY <2>12, <3>2 DEF BreakDue
  <2>. QED
    BY <2>5, <2>11, <2>13, SameHolds, StillLease

\* break_conflicts turns the leases it takes into messages.
<1>BreakLease. ASSUME RouteInv, ClientInv, LeaseInv, NEW w \in Workers, BreakConflicts(w)
      PROVE  LeaseInv'
  <2>. USE <1>BreakLease
  <2>1. PICK r : r = wk[w]
    OBVIOUS
  <2>2. PICK todo : todo = r.todo
    OBVIOUS
  <2>3. PICK bs : bs = Conflicts(Head(todo), r.except)
    OBVIOUS
  <2>4. r.pc = "break" /\ r \in ThreadState /\ Serving(w, r)
    <3>1. r.pc = "break"
      BY <2>1 DEF BreakConflicts
    <3>2. r.pc \notin {"idle", "deliver"}
      BY <3>1
    <3>. QED
      BY <2>1, <3>1, <3>2, Typed, ServedBorn
  <2>5. r.msgs = {} /\ r.inbox = <<>> /\ todo # <<>> /\ todo \in Seq(Files)
    BY <2>2, <2>4 DEF Serving, ThreadState
  <2>6. /\ grants' = grants \ bs /\ mbox' = mbox /\ UNCHANGED <<conn, link, ver, belief, cache>>
    BY <2>1, <2>2, <2>3 DEF BreakConflicts, clientvars, filevars
  <2>7. PICK r2 : r2 = [r EXCEPT !.todo = Tail(@), !.msgs = bs]
    OBVIOUS
  <2>8. PICK p : wk' = [wk EXCEPT ![w] = [r2 EXCEPT !.pc = p]]
    BY <2>1, <2>2, <2>3, <2>7 DEF BreakConflicts
  <2>9. wk'[w] = [r2 EXCEPT !.pc = p] /\ \A v \in Workers : v # w => wk'[v] = wk[v]
    BY <2>8, Typed
  <2>10. wk'[w].msgs = bs /\ wk'[w].todo = Tail(todo) /\ wk'[w].except = r.except /\ wk'[w].inbox = r.inbox
    BY <2>2, <2>4, <2>7, <2>9 DEF ThreadState
  <2>11. (\A i \in Conns : Heeds(i)) /\ \A i \in Conns : Speaks(i, <<>>)
    BY <2>6, SameLess, AllHeed, Quiet
  <2>12. ASSUME NEW i \in Conns, NEW f \in Files, NEW v \in Workers, Held(v, i, f) PROVE Held(v, i, f)'
    <3>1. CASE v # w
      BY <2>6, <2>9, <2>12, <3>1 DEF Held
    <3>2. CASE v = w
      <4>1. ~\E m \in wk[w].msgs : m.f = f /\ m.id = i
        BY <2>1, <2>5
      <4>2. ~\E k \in 1..Len(wk[w].inbox) : wk[w].inbox[k].f = f /\ wk[w].inbox[k].id = i
        BY <2>1, <2>5, NoFrame
      <4>3. \E k \in 1..Len(mbox[w]) : mbox[w][k].f = f /\ mbox[w][k].id = i
        BY <2>12, <3>2, <4>1, <4>2 DEF Held
      <4>. QED
        BY <2>6, <3>2, <4>3 DEF Held
    <3>. QED
      BY <3>1, <3>2
  <2>13. ASSUME NEW i \in Conns, NEW f \in Files PROVE Coming(i, f) => Coming(i, f)'
    <3>1. Queued(i, f) => Queued(i, f)'
      BY <2>6 DEF Queued
    <3>. QED
      BY <2>12, <2>13, <3>1 DEF Coming
  <2>14. ASSUME NEW i \in Conns, NEW g \in bs, g.id = i PROVE Coming(i, g.f)'
    BY <2>10, <2>14 DEF Coming, Held
  <2>15. ASSUME NEW i \in Conns, NEW f \in Files, Granted(i, f) PROVE Granted(i, f)' \/ Coming(i, f)'
    <3>1. PICK g \in grants : g.f = f /\ g.id = i
      BY <2>15 DEF Granted
    <3>2. CASE g \in bs
      BY <2>14, <2>15, <3>1, <3>2
    <3>3. CASE g \notin bs
      <4>1. g \in grants'
        BY <2>6, <3>1, <3>3
      <4>. QED
        BY <3>1, <4>1 DEF Granted
    <3>. QED
      BY <3>2, <3>3
  <2>16. ASSUME NEW i \in Conns, NEW f \in Files, BreakDue(conn[i].client, f), Granted(i, f), ~Coming(i, f)'
         PROVE  BreakDue(conn[i].client, f)'
    <3>1. PICK c : c = conn[i].client
      OBVIOUS
    <3>2. PICK v \in Workers : wk[v].except # c /\ \E k \in 1..Len(wk[v].todo) : wk[v].todo[k] = f
      BY <2>16, <3>1 DEF BreakDue
    <3>3. CASE v # w
      BY <2>6, <2>9, <3>1, <3>2, <3>3 DEF BreakDue
    <3>4. CASE v = w
      <4>1. PICK k \in 1..Len(todo) : todo[k] = f
        BY <2>1, <2>2, <3>2, <3>4
      <4>2. f # Head(todo)
        <5>1. PICK g \in grants : g.f = f /\ g.id = i
          BY <2>16 DEF Granted
        <5>2. g.key = c
          BY <3>1, <5>1 DEF RouteInv, GrantsOK, Addressed
        <5>3. g.key # r.except
          BY <2>1, <3>2, <3>4, <5>2
        <5>4. g \notin bs
          BY <2>14, <2>16, <5>1
        <5>. QED
          BY <2>3, <5>1, <5>3, <5>4 DEF Conflicts
      <4>3. \E n \in 1..Len(Tail(todo)) : Tail(todo)[n] = f
        <5>1. k # 1
          BY <2>5, <4>1, <4>2, SMTT(30)
        <5>2. k - 1 \in 1..Len(Tail(todo)) /\ Tail(todo)[k - 1] = todo[k]
          BY <2>5, <4>1, <5>1, SMTT(30)
        <5>. QED
          BY <4>1, <5>2
      <4>4. wk'[w].except # c
        BY <2>1, <2>10, <3>2, <3>4
      <4>. QED
        BY <2>6, <2>10, <3>1, <4>3, <4>4 DEF BreakDue
    <3>. QED
      BY <3>3, <3>4
  <2>17. ASSUME NEW i \in Conns PROVE LeaseOK(i)'
    <3>1. CASE ~(conn[i].state = "open" /\ link[i].up)
      BY <2>6, <3>1 DEF LeaseOK
    <3>2. CASE conn[i].state = "open" /\ link[i].up
      <4>1. ASSUME NEW f \in Files PROVE
              /\ Less(conn[i].client, f)
              /\ Granted(i, f) => Granted(i, f)' \/ Coming(i, f)'
              /\ Coming(i, f) => Coming(i, f)'
              /\ BreakDue(conn[i].client, f) => BreakDue(conn[i].client, f)' \/ (Granted(i, f) => Coming(i, f)')
              /\ ver'[f][conn[i].client] = ver[f][conn[i].client]
        <5>1. Less(conn[i].client, f)
          BY <2>11, <3>2, <4>1 DEF Heeds
        <5>2. BreakDue(conn[i].client, f) => BreakDue(conn[i].client, f)' \/ (Granted(i, f) => Coming(i, f)')
          BY <2>16, <2>17, <4>1
        <5>. QED
          BY <2>6, <2>13, <2>15, <2>17, <4>1, <5>1, <5>2
      <4>2. Carries(i, <<>>)
        BY <2>6, <2>11, <4>1, NoFrame DEF Carries
      <4>. QED
        BY <3>2, <4>2, Carry
    <3>. QED
      BY <3>1, <3>2
  <2>. QED
    BY <2>17 DEF LeaseInv

<1>DeliverLease. ASSUME RouteInv, ClientInv, LeaseInv, NEW w \in Workers, DeliverBreak(w)
      PROVE  LeaseInv'
  <2>. USE <1>DeliverLease
  <2>1. PICK q : q = wk[w].inbox
    OBVIOUS
  <2>2. q \in Seq(LeaseGrant) /\ q # <<>> /\ UNCHANGED <<mbox, grants, ver, belief, cache>>
    BY <2>1, Typed DEF DeliverBreak, ThreadState, filevars
  <2>3. wk'[w] = [wk[w] EXCEPT !.inbox = Tail(@)] /\ \A v \in Workers : v # w => wk'[v] = wk[v]
    BY Typed DEF DeliverBreak
  <2>4. /\ wk'[w].inbox = Tail(q) /\ wk'[w].msgs = wk[w].msgs /\ wk'[w].todo = wk[w].todo
        /\ wk'[w].except = wk[w].except
    BY <2>1, <2>3, Typed DEF ThreadState
  <2>5. \A k \in 1..Len(q) : k = 1 \/ (k - 1 \in 1..Len(Tail(q)) /\ Tail(q)[k - 1] = q[k])
    BY <2>2, SMTT(30)
  <2>6. \A v \in Workers : wk'[v].todo = wk[v].todo /\ wk'[v].except = wk[v].except
    BY <2>3, <2>4
  <2>7. \A i \in Conns : Heeds(i)
    BY <2>2, SameLess, AllHeed
  <2>8. ASSUME NEW i \in Conns, NEW f \in Files, NEW v \in Workers, Held(v, i, f), ~Held(v, i, f)'
        PROVE  wk[w].inbox[1].f = f /\ wk[w].inbox[1].id = i
    <3>1. v = w
      BY <2>2, <2>3, <2>8 DEF Held
    <3>2. PICK k \in 1..Len(q) : q[k].f = f /\ q[k].id = i
      BY <2>1, <2>2, <2>4, <2>8, <3>1 DEF Held
    <3>3. ASSUME k # 1 PROVE FALSE
      <4>1. k - 1 \in 1..Len(wk'[w].inbox) /\ wk'[w].inbox[k - 1].f = f /\ wk'[w].inbox[k - 1].id = i
        BY <2>4, <2>5, <3>2, <3>3
      <4>. QED
        BY <2>8, <3>1, <4>1 DEF Held
    <3>. QED
      BY <2>1, <3>2, <3>3
  <2>9. ASSUME NEW i \in Conns PROVE LeaseOK(i)'
    <3>1. Keeps(i) /\ link'[i].up = link[i].up
      BY <2>9, QueueKeeps, DeliverUp
    <3>2. CASE ~(conn[i].state = "open" /\ link[i].up)
      BY <3>1, <3>2 DEF LeaseOK, Keeps
    <3>3. CASE conn[i].state = "open" /\ link[i].up
      <4>1. PICK fs : /\ Passes(i, fs)
                      /\ \A f \in Files :
                           wk[w].inbox[1].f = f /\ wk[w].inbox[1].id = i /\ conn[i].state = "open" /\ link[i].up =>
                             Queued(i, f)' \/ \E n \in 1..Len(fs) : IsBreak(fs[n], f)
        BY <2>9, DeliverPasses
      <4>2. conn'[i].client = conn[i].client
        BY <3>1 DEF Keeps
      <4>3. ASSUME NEW f \in Files PROVE
              /\ Less(conn[i].client, f)
              /\ Granted(i, f) => Granted(i, f)'
              /\ Coming(i, f) => Coming(i, f)' \/ \E n \in 1..Len(fs) : IsBreak(fs[n], f)
              /\ BreakDue(conn[i].client, f) => BreakDue(conn[i].client, f)'
              /\ ver'[f][conn[i].client] = ver[f][conn[i].client]
        <5>1. Less(conn[i].client, f)
          BY <2>7, <3>3, <4>3 DEF Heeds
        <5>2. Granted(i, f) => Granted(i, f)'
          BY <2>2 DEF Granted
        <5>3. BreakDue(conn[i].client, f) => BreakDue(conn[i].client, f)'
          BY <2>6, <4>2 DEF BreakDue
        <5>4. CASE Queued(i, f)
          BY <2>2, <3>3, <4>1, <4>3, <5>1, <5>2, <5>3, <5>4 DEF Passes, Coming
        <5>5. ASSUME NEW v \in Workers, Held(v, i, f)
              PROVE  Coming(i, f)' \/ \E n \in 1..Len(fs) : IsBreak(fs[n], f)
          <6>1. CASE Held(v, i, f)'
            BY <5>5, <6>1 DEF Coming
          <6>2. CASE ~Held(v, i, f)'
            BY <2>8, <2>9, <3>3, <4>1, <4>3, <5>5, <6>2 DEF Coming
          <6>. QED
            BY <6>1, <6>2
        <5>6. CASE ~Queued(i, f)
          BY <2>2, <5>1, <5>2, <5>3, <5>5, <5>6 DEF Coming
        <5>. QED
          BY <5>4, <5>6
      <4>4. \A n \in 1..Len(fs) : fs[n].kind # "create" /\ fs[n].kind # "read"
        <5>1. \A n \in 1..Len(fs) : fs[n].kind = "break"
          BY <4>1 DEF Passes
        <5>. QED
          BY <5>1
      <4>5. Speaks(i, fs)
        BY <4>1 DEF Passes
      <4>6. Carries(i, fs)
        BY <4>2, <4>3, <4>4, <4>5 DEF Carries
      <4>. QED
        BY <3>3, <4>6, Carry
    <3>. QED
      BY <3>2, <3>3
  <2>. QED
    BY <2>9 DEF LeaseInv

<1>1. ASSUME NEW w \in Workers, Continue(w) PROVE LeaseInv'
  BY <1>1, <1>GrantLease, <1>RespondLease, <1>PlainLease, <1>BreakLease, <1>PostLease, <1>DeliverLease, <1>TeardownLease DEF Continue
<1>. QED
  BY <1>1

\* A connection ends, begins, or is done with a send.
LEMMA ConnLease ==
  ASSUME Alone, RouteInv, OwnInv, HandleInv, ClientInv, ViewInv, LeaseInv,
         \/ \E w \in Workers, id \in Conns : FinalizeClose(w, id)
         \/ \E id \in Conns : CloseConn(id) \/ SendDone(id)
         \/ \E l \in Locs, id \in Conns, s \in Conns, c \in Clients : Accept(l, id, c, s)
  PROVE  LeaseInv'

<1>SendLease. ASSUME RouteInv, ClientInv, LeaseInv, NEW id \in Conns, SendDone(id)
      PROVE  LeaseInv'
  <2>. USE <1>SendLease
  <2>1. HeldOn /\ DueOn /\ UNCHANGED <<ver, grants, belief, cache>>
    BY IdleOn DEF SendDone, filevars
  <2>2. (\A i \in Conns : Heeds(i)) /\ (\A i \in Conns : Holds(i)) /\ (\A i \in Conns : Current(i))
    BY <2>1, SameLess, AllHeed, SameHolds, SameCurrent
  <2>3. ASSUME NEW i \in Conns PROVE LeaseOK(i)'
    <3>1. Keeps(i) /\ link'[i].up = link[i].up
      BY <2>3, SendKeeps, SendUp
    <3>2. PICK fs : Passes(i, fs)
      BY <2>3, SendPasses
    <3>3. Told(i, fs)
      <4>1. \A n \in 1..Len(fs) : fs[n].kind = "break"
        BY <3>2 DEF Passes
      <4>2. \A n \in 1..Len(fs) : fs[n].kind # "create" /\ fs[n].kind # "read"
        BY <4>1
      <4>. QED
        BY <4>2 DEF Told
    <3>4. Speaks(i, fs) /\ (link[i].up => Queues(i, fs))
      BY <3>2 DEF Passes, Queues
    <3>. QED
      BY <2>1, <2>2, <3>1, <3>3, <3>4, LeaseKept
  <2>. QED
    BY <2>3 DEF LeaseInv

<1>EndLease. ASSUME RouteInv, OwnInv, ClientInv, LeaseInv, NEW id \in Conns, NEW w, CloseConn(id) \/ FinalizeClose(w, id),
             HeldOn, DueOn
      PROVE  LeaseInv'
  <2>. USE <1>EndLease
  <2>1. /\ \A i \in Conns : Keeps(i)
        /\ conn'[id].state # "open" /\ \A i \in Conns : i # id => conn'[i] = conn[i]
    BY EndKeeps
  <2>2. UNCHANGED <<link, ver, grants, belief, cache>>
    BY DEF CloseConn, FinalizeClose, clientvars, filevars
  <2>3. (\A i \in Conns : Heeds(i)) /\ (\A i \in Conns : Holds(i)) /\ (\A i \in Conns : Current(i))
    BY <2>2, SameLess, AllHeed, SameHolds, SameCurrent
  <2>4. ASSUME NEW i \in Conns, i # id PROVE LeaseOK(i)'
    BY <2>1, <2>2, <2>3, <2>4, LeaseQuiet
  <2>5. LeaseOK(id)'
    BY <2>1 DEF LeaseOK
  <2>. QED
    BY <2>4, <2>5 DEF LeaseInv

<1>JoinLease. ASSUME RouteInv, OwnInv, ClientInv, LeaseInv, NEW id \in Conns, NEW c \in Clients, Joins(id, c),
             UNCHANGED <<wk, mbox, ver, grants, belief, cache>>
      PROVE  LeaseInv'
  <2>. USE <1>JoinLease
  <2>1. (\A i \in Conns : Heeds(i)) /\ (\A i \in Conns : Holds(i)) /\ (\A i \in Conns : Current(i)) /\ HeldOn /\ DueOn
    BY SameLess, AllHeed, SameHolds, SameCurrent, IdleOn
  <2>2. ASSUME NEW i \in Conns, i # id PROVE LeaseOK(i)'
    <3>1. Keeps(i) /\ conn'[i] = conn[i] /\ link'[i] = link[i]
      BY <2>2 DEF Keeps, Joins
    <3>. QED
      BY <2>1, <2>2, <3>1, LeaseQuiet
  <2>3. LeaseOK(id)'
    <3>1. conn'[id].client = c /\ link'[id].wire = <<>> /\ Len(<<>>) = 0
      BY DEF Joins
    <3>2. \A f \in Files : belief'[c][f] = "none" /\ cache'[c][f] = NoCache
      BY DEF ClientInv, ClientOK, Joins
    <3>3. \A j \in 0..0 : j = 0
      BY SMTT(30)
    <3>4. Tracked(id)'
      BY <3>1, <3>2, <3>3 DEF Tracked, Origin
    <3>5. ReadsOK(id)'
      BY <3>1, NoFrame DEF ReadsOK
    <3>6. CacheOK(id)'
      BY <3>1, <3>2 DEF CacheOK, Stale
    <3>. QED
      BY <3>4, <3>5, <3>6 DEF LeaseOK
  <2>. QED
    BY <2>2, <2>3 DEF LeaseInv

<1>1. ASSUME NEW w \in Workers, NEW id \in Conns, FinalizeClose(w, id) PROVE LeaseInv'
  <2>1. wk[w].pc = "idle" /\ mbox' = mbox /\ \A v \in Workers : v # w => wk'[v] = wk[v]
    BY <1>1, Typed DEF FinalizeClose
  <2>2. wk[w].pc \notin {"break", "post", "signal", "deliver"}
    BY <2>1
  <2>. QED
    BY <1>1, <2>1, <2>2, FreeWorks, <1>EndLease
<1>2. ASSUME NEW id \in Conns, CloseConn(id) PROVE LeaseInv'
  <2>1. UNCHANGED <<wk, mbox>>
    BY <1>2 DEF CloseConn
  <2>. QED
    BY <1>2, <2>1, IdleOn, <1>EndLease
<1>3. ASSUME NEW l \in Locs, NEW id \in Conns, NEW s \in Conns, NEW c \in Clients, Accept(l, id, c, s) PROVE LeaseInv'
  BY <1>3, AcceptFacts, <1>JoinLease DEF Accept, filevars
<1>. QED
  BY <1>1, <1>2, <1>3, <1>SendLease

LEMMA LeaseStep ==
  ASSUME Alone, RouteInv, OwnInv, HandleInv, ClientInv, ViewInv, LeaseInv, Next
  PROVE  LeaseInv'
<1>1. ASSUME NEW w \in Workers, KernelWake(w) PROVE LeaseInv'
  BY <1>1, IdleOn, SameHolds, StillLease DEF KernelWake, clientvars, filevars
<1>. QED
  BY <1>1, PeerLease, RequestLease, ContinueLease, ConnLease, WakeLease DEF Next

LEMMA AloneInit ==
  ASSUME Init
  PROVE  AloneInv
<1>1. /\ \A i \in Conns : conn[i].state = "unborn" /\ conn[i].client = None /\ handles[i] = {}
      /\ (\A w \in Workers : wk[w] = Idle) /\ \A c \in Clients, f \in Files : belief[c][f] = "none" /\ cache[c][f] = NoCache
  BY DEF Init
<1>2. OwnInv
  BY <1>1 DEF OwnInv, OwnSession
<1>3. HandleInv
  <2>1. Idle.rest = {} /\ Idle.sess = None /\ Stage(Idle) # "grant"
    BY DEF Idle, Stage
  <2>2. \A h \in {} : FALSE
    OBVIOUS
  <2>. QED
    BY <1>1, <2>1, <2>2 DEF HandleInv, HandlesOK, RestOK, AnswerOK
<1>4. ClientInv
  BY <1>1 DEF ClientInv, ClientOK
<1>5. "unborn" # "open"
  OBVIOUS
<1>6. ViewInv /\ LeaseInv
  BY <1>1, <1>5 DEF ViewInv, ViewOK, LeaseInv, LeaseOK
<1>. QED
  BY <1>2, <1>3, <1>4, <1>6 DEF AloneInv

LEMMA AloneStep ==
  ASSUME Alone, RouteInv, AloneInv, [Next /\ UNCHANGED load]_allvars
  PROVE  AloneInv'
<1>1. CASE Next
  BY <1>1, OwnStep, HandleStep, ClientStep, ViewStep, LeaseStep DEF AloneInv
<1>2. CASE UNCHANGED allvars
  <2>1. UNCHANGED <<conn, handles, grants, mbox, wk, ver, link, belief, cache>>
    BY <1>2 DEF allvars, vars, servervars, filevars, clientvars
  <2>2. OwnInv' /\ ClientInv'
    BY <2>1 DEF AloneInv, OwnInv, OwnSession, ClientInv, ClientOK
  <2>5. HandleInv'
    <3>1. HandleInv
      BY DEF AloneInv
    <3>2. \A i \in Conns : HandlesOK(i)'
      BY <2>1, <3>1 DEF HandleInv, HandlesOK
    <3>3. \A w \in Workers : RestOK(w)'
      BY <2>1, <3>1 DEF HandleInv, RestOK
    <3>4. \A w \in Workers : AnswerOK(w)'
      BY <2>1, <3>1 DEF HandleInv, AnswerOK
    <3>. QED
      BY <3>2, <3>3, <3>4 DEF HandleInv
  <2>3. ViewInv'
    BY <2>1, ViewSame DEF AloneInv
  <2>4. LeaseInv'
    BY <2>1, IdleOn, SameHolds, StillLease DEF AloneInv
  <2>. QED
    BY <2>2, <2>3, <2>4, <2>5 DEF AloneInv
<1>. QED
  BY <1>1, <1>2

LEMMA AloneHolds ==
  ASSUME Alone
  PROVE  Spec => [](RouteInv /\ AloneInv)
<1>1. Init => RouteInv /\ AloneInv
  BY RouteInit, AloneInit
<1>2. RouteInv /\ AloneInv /\ [Next /\ UNCHANGED load]_allvars => RouteInv' /\ AloneInv'
  BY RouteStep, AloneStep
<1>. QED
  BY <1>1, <1>2, PTL DEF Spec

\* A break behind a frame of i is on its way to the client of i.
LEMMA BehindPends ==
  ASSUME RouteInv, NEW i \in Conns, NEW f \in Files, Behind(i, 0, f)
  PROVE  BreakPending(conn[i].client, f)
<1>1. PICK c : c = conn[i].client
  OBVIOUS
<1>2. Mine(i, c, conn[i].deferred) /\ Mine(i, c, link[i].wire)
  BY <1>1 DEF RouteInv, TxOK
<1>3. CASE Queued(i, f)
  <2>1. PICK k \in 1..Len(conn[i].deferred) : conn[i].deferred[k].f = f
    BY <1>3 DEF Queued
  <2>2. conn[i].deferred[k].kind = "break"
    <3>1. PICK q : q = conn[i].deferred
      OBVIOUS
    <3>2. q \in Seq(BreakFrame)
      BY <3>1, Typed DEF ConnType
    <3>. QED
      <4>1. q[k] \in BreakFrame
        BY <2>1, <3>1, <3>2, SMTT(30)
      <4>2. q[k].kind = "break"
        BY <4>1 DEF BreakFrame
      <4>. QED
        BY <3>1, <4>2
  <2>3. conn[i].deferred[k].key = c
    BY <1>2, <2>1, <2>2 DEF Mine
  <2>. QED
    BY <1>1, <2>1, <2>2, <2>3 DEF BreakPending
<1>4. ASSUME NEW w \in Workers, Held(w, i, f) PROVE BreakPending(c, f)
  <2>1. MsgsOK(w)
    BY <1>4 DEF RouteInv
  <2>2. CASE \E m \in wk[w].msgs : m.f = f /\ m.id = i
    <3>1. PICK m \in wk[w].msgs : m.f = f /\ m.id = i
      BY <2>2
    <3>2. m.key = c
      BY <1>1, <2>1, <3>1 DEF MsgsOK, Addressed
    <3>. QED
      BY <1>4, <3>1, <3>2 DEF BreakPending
  <2>3. CASE \E k \in 1..Len(mbox[w]) : mbox[w][k].f = f /\ mbox[w][k].id = i
    <3>1. PICK k \in 1..Len(mbox[w]) : mbox[w][k].f = f /\ mbox[w][k].id = i
      BY <2>3
    <3>2. mbox[w][k].key = c
      BY <1>1, <2>1, <3>1 DEF MsgsOK, Addressed
    <3>. QED
      BY <1>4, <3>1, <3>2 DEF BreakPending
  <2>4. CASE \E k \in 1..Len(wk[w].inbox) : wk[w].inbox[k].f = f /\ wk[w].inbox[k].id = i
    <3>1. PICK k \in 1..Len(wk[w].inbox) : wk[w].inbox[k].f = f /\ wk[w].inbox[k].id = i
      BY <2>4
    <3>2. wk[w].inbox[k].key = c
      BY <1>1, <2>1, <3>1 DEF MsgsOK, Addressed
    <3>. QED
      BY <1>4, <3>1, <3>2 DEF BreakPending
  <2>. QED
    BY <1>4, <2>2, <2>3, <2>4 DEF Held
<1>5. ASSUME NEW n \in (0 + 1)..Len(link[i].wire), IsBreak(link[i].wire[n], f) PROVE BreakPending(c, f)
  <2>1. n \in 1..Len(link[i].wire)
    BY <1>5, SMTT(30)
  <2>2. link[i].wire[n].kind = "break" /\ link[i].wire[n].f = f /\ link[i].wire[n].key = c
    BY <1>2, <1>5, <2>1 DEF IsBreak, Mine
  <2>. QED
    BY <2>1, <2>2 DEF BreakPending
<1>. QED
  BY <1>1, <1>3, <1>4, <1>5 DEF Behind, Coming

\* The connection that the client relies on.
LEMMA Relied ==
  ASSUME RouteInv, AloneInv, NEW c \in Clients, NEW f \in Files, belief[c][f] # "none", ~DropPending(c)
  PROVE  \E i \in Conns : conn[i].client = c /\ Tracked(i) /\ CacheOK(i) /\ Origin(i, 0, f)
<1>1. PICK i \in Conns : conn[i].client = c /\ link[i].up
  BY DEF AloneInv, ClientInv, ClientOK
<1>2. conn[i].state # "unborn" /\ conn[i].state \in States
  BY <1>1, UpBorn, Typed DEF ConnType
<1>3. conn[i].state \notin {"closing", "gone"}
  BY <1>1 DEF DropPending
<1>4. conn[i].state = "open"
  BY <1>2, <1>3 DEF States
<1>5. Origin(i, 0, f)
  BY <1>1 DEF Origin
<1>. QED
  BY <1>1, <1>4, <1>5 DEF AloneInv, LeaseInv, LeaseOK

\* A client with one connection and one open of a file at a time never believes in a
\* lease the server would not break: conflicts and the break's way through the mailboxes,
\* the deferred queue and the wire lose none of them, and the CREATE response that grants
\* a lease is never overtaken by its break.
THEOREM LeasesAreTracked ==
  ASSUME Alone
  PROVE  Spec => []LeaseTracked
<1>1. ASSUME RouteInv, AloneInv, NEW c \in Clients, NEW f \in Files, belief[c][f] # "none", ~DropPending(c)
      PROVE  (\E g \in grants : g.f = f /\ g.key = c) \/ BreakPending(c, f)
  <2>1. PICK i \in Conns : conn[i].client = c /\ Tracked(i) /\ CacheOK(i) /\ Origin(i, 0, f)
    BY <1>1, Relied
  <2>2. 0 \in 0..Len(link[i].wire)
    BY <1>1, Typed, SMTT(30) DEF LinkType
  <2>3. Granted(i, f) \/ Behind(i, 0, f)
    BY <2>1, <2>2 DEF Tracked
  <2>4. CASE Granted(i, f)
    BY <1>1, <2>1, <2>4 DEF Granted, RouteInv, GrantsOK, Addressed
  <2>5. CASE Behind(i, 0, f)
    BY <1>1, <2>1, <2>5, BehindPends
  <2>. QED
    BY <2>3, <2>4, <2>5
<1>2. RouteInv /\ AloneInv => LeaseTracked
  BY <1>1 DEF LeaseTracked
<1>. QED
  BY <1>2, AloneHolds, PTL

\* Such a client never relies on data that another has changed without a break, or the
\* end of its connection, being on the way: every operation that changes a file breaks
\* the leases of the other keys on it.
THEOREM CachesAreCoherent ==
  ASSUME Alone
  PROVE  Spec => []Coherent
<1>1. ASSUME RouteInv, AloneInv, NEW c \in Clients, NEW f \in Files, Stale(c, f), ~DropPending(c)
      PROVE  BreakDue(c, f) \/ BreakPending(c, f)
  <2>1. belief[c][f] # "none"
    BY <1>1 DEF Stale, AloneInv, ClientInv, ClientOK
  <2>2. PICK i \in Conns : conn[i].client = c /\ Tracked(i) /\ CacheOK(i) /\ Origin(i, 0, f)
    BY <1>1, <2>1, Relied
  <2>3. BreakDue(c, f) \/ Behind(i, 0, f)
    BY <1>1, <2>2 DEF CacheOK
  <2>4. CASE Behind(i, 0, f)
    BY <1>1, <2>2, <2>4, BehindPends
  <2>. QED
    BY <2>3, <2>4
<1>2. RouteInv /\ AloneInv => Coherent
  BY <1>1 DEF Coherent
<1>. QED
  BY <1>2, AloneHolds, PTL

==============================================================================
