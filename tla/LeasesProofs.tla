---------------------------- MODULE LeasesProofs -----------------------------
(***************************************************************************)
(* Proofs about leases, for every number of workers, slots, clients, files *)
(* and connections. RouteInv says that a break finds the connection it is  *)
(* for: the lease table names live connections only, no wake-up is lost,   *)
(* and nothing is left behind in a deferred queue. RouteStep has a step of *)
(* its own for each action of a thread, of a tx side, of a connection's    *)
(* life and of the client.                                                 *)
(***************************************************************************)
EXTENDS Leases, TLAPS

USE ZenonT(40)

------------------------------------------------------------------------------
(* The invariant *)

ConnType ==
  [state : States, client : Keys, sess : Conns \cup {None}, loc : Locs \cup {None},
   gen : 0..GEN_MAX, deferred : Seq(BreakFrame), sending : BOOLEAN]
LinkType == [up : BOOLEAN, wire : Seq(BreakFrame \cup Response)]

\* A connection that was accepted has its place for ever. It is in the slot, under the
\* slot's generation, until the slot is recycled, and every later occupant has a later
\* generation.
PlaceOK(i) ==
  /\ conn[i].state = "unborn" => conn[i].client = None /\ conn[i].sess = None /\ conn[i].loc = None
  /\ conn[i].state # "unborn" =>
       conn[i].client \in Clients /\ conn[i].sess \in Conns /\ conn[i].loc \in Locs /\ conn[i].gen \in 1..GEN_MAX
  /\ conn[i].state \in {"open", "closing"} => slot[conn[i].loc] = i
  /\ \A l \in Locs :
       /\ slot[l] = i => conn[i].state # "unborn" /\ conn[i].loc = l /\ conn[i].gen = gen[l]
       /\ conn[i].loc = l /\ slot[l] # i => conn[i].gen < gen[l] \/ (slot[l] = None /\ gen[l] = 1)

\* The breaks of q are connection i's, of leases under key c.
Mine(i, c, q) == \A k \in 1..Len(q) : q[k].kind = "break" => q[k].to = i /\ q[k].key = c

\* The tx side of connection i and the client's end of it.
TxOK(i) ==
  /\ ~conn[i].sending => conn[i].deferred = <<>>
  /\ conn[i].state = "unborn" => ~conn[i].sending /\ ~link[i].up
  /\ ~link[i].up => link[i].wire = <<>>
  /\ Mine(i, conn[i].client, conn[i].deferred)
  /\ Mine(i, conn[i].client, link[i].wire)

\* What the thread does when its breaks are made.
Stage(r) == IF r.pc \in {"break", "post", "signal"} THEN r.next ELSE r.pc

\* A thread in the middle of a request or a teardown: the connection is in a slot of this
\* worker, open while a request is served and gone while it is torn down.
Serving(w, r) ==
  /\ r.id \in Conns /\ conn[r.id].loc \in Locs /\ conn[r.id].loc[1] = w /\ slot[conn[r.id].loc] = r.id
  /\ r.inbox = <<>>
  /\ r.sess = None => conn[r.id].state = "gone" /\ Stage(r) \in {"unlink", "teardown"}
  /\ r.sess # None => /\ conn[r.id].state = "open" /\ r.sess = conn[r.id].sess /\ r.rest = {}
                      /\ Stage(r) \in {"grant", "unlink", "reply"} /\ r.resp \in Response
  /\ Stage(r) \in {"grant", "unlink"} => r.h \in Handle
  /\ Stage(r) = "grant" /\ r.h.granted # "none" => r.h.key = conn[r.id].client
  /\ r.pc = "break" => r.todo # <<>>
  /\ r.pc \notin {"break", "post", "signal"} => r.todo = <<>>
  /\ r.pc \notin {"post", "signal"} => r.msgs = {}
  /\ r.pc = "signal" => r.signal \in Workers

ThreadOK(w) ==
  /\ wk[w].pc = "idle" => wk[w] = Idle
  /\ wk[w].pc = "deliver" => wk[w] = [Idle EXCEPT !.pc = "deliver", !.inbox = wk[w].inbox]
  /\ wk[w].pc \notin {"idle", "deliver"} => Serving(w, wk[w])

\* A lease, or the message that breaks it, names the connection, its place, its generation
\* and its client's key.
Addressed(m) ==
  /\ conn[m.id].state # "unborn" /\ conn[m.id].loc = m.loc /\ conn[m.id].gen = m.gen
  /\ conn[m.id].client = m.key

MsgsOK(w) ==
  /\ \A m \in wk[w].msgs : Addressed(m)
  /\ \A k \in 1..Len(mbox[w]) : Addressed(mbox[w][k])
  /\ \A k \in 1..Len(wk[w].inbox) : Addressed(wk[w].inbox[k])

GrantsOK == \A g \in grants : Addressed(g) /\ slot[g.loc] = g.id /\ gen[g.loc] = g.gen

\* The Read on the eventfd is posted, has completed, or is about to be posted again; and
\* a queued break wakes the worker.
WakeOK(w) ==
  /\ armed[w] \/ cqe[w] \/ wk[w].pc = "deliver"
  /\ mbox[w] # <<>> =>
       \/ \E v \in Workers : wk[v].pc = "signal" /\ wk[v].signal = w
       \/ efd[w] /\ (armed[w] \/ wk[w].pc = "deliver")
       \/ cqe[w]

RouteInv ==
  /\ TypeOK /\ GrantsOK
  /\ \A i \in Conns : PlaceOK(i) /\ TxOK(i)
  /\ \A w \in Workers : ThreadOK(w) /\ MsgsOK(w) /\ WakeOK(w)

------------------------------------------------------------------------------
(* What a step leaves alone *)

\* Nobody comes, closes or goes.
SamePlaces ==
  /\ slot' = slot /\ gen' = gen
  /\ \A i \in Conns : /\ conn'[i].state = conn[i].state /\ conn'[i].client = conn[i].client
                      /\ conn'[i].sess = conn[i].sess /\ conn'[i].loc = conn[i].loc /\ conn'[i].gen = conn[i].gen

LEMMA Typed ==
  ASSUME RouteInv
  PROVE  /\ slot \in [Locs -> Conns \cup {None}] /\ gen \in [Locs -> 1..GEN_MAX]
         /\ conn \in [Conns -> ConnType] /\ handles \in [Conns -> SUBSET Handle] /\ grants \subseteq LeaseGrant
         /\ mbox \in [Workers -> Seq(LeaseGrant)] /\ wk \in [Workers -> ThreadState]
         /\ link \in [Conns -> LinkType]
BY DEF RouteInv, TypeOK, ConnType, LinkType

\* The messages under way are leases.
LEMMA MsgTypes ==
  ASSUME RouteInv, NEW v \in Workers
  PROVE  /\ \A m \in wk[v].msgs : m \in LeaseGrant /\ m.id \in Conns /\ Addressed(m)
         /\ \A k \in 1..Len(mbox[v]) : mbox[v][k] \in LeaseGrant /\ mbox[v][k].id \in Conns /\ Addressed(mbox[v][k])
         /\ \A k \in 1..Len(wk[v].inbox) :
              wk[v].inbox[k] \in LeaseGrant /\ wk[v].inbox[k].id \in Conns /\ Addressed(wk[v].inbox[k])
<1>1. wk[v].msgs \in SUBSET LeaseGrant /\ wk[v].inbox \in Seq(LeaseGrant)
  BY Typed DEF ThreadState
<1>2. mbox[v] \in Seq(LeaseGrant)
  BY Typed
<1>3. \A m : m \in LeaseGrant => m.id \in Conns
  BY DEF LeaseGrant
<1>4. /\ \A k \in 1..Len(mbox[v]) : mbox[v][k] \in LeaseGrant
      /\ \A k \in 1..Len(wk[v].inbox) : wk[v].inbox[k] \in LeaseGrant
  BY <1>1, <1>2, SMTT(30)
<1>5. MsgsOK(v)
  BY DEF RouteInv
<1>. QED
  BY <1>1, <1>3, <1>4, <1>5 DEF MsgsOK

LEMMA SameTx ==
  ASSUME RouteInv, NEW i \in Conns, conn'[i] = conn[i], link'[i] = link[i]
  PROVE  TxOK(i)'
<1>1. TxOK(i)
  BY DEF RouteInv
<1>. QED
  BY <1>1, SMTT(30) DEF TxOK, Mine

LEMMA MineJoin ==
  ASSUME NEW S, NEW q \in Seq(S), NEW p \in Seq(S), NEW i, NEW c, Mine(i, c, q), Mine(i, c, p)
  PROVE  Mine(i, c, q \o p)
BY SMTT(30) DEF Mine

LEMMA MineAppend ==
  ASSUME NEW S, NEW q \in Seq(S), NEW b \in S, NEW i, NEW c, Mine(i, c, q), b.to = i, b.key = c
  PROVE  Mine(i, c, Append(q, b))
BY SMTT(30) DEF Mine

LEMMA SamePlace ==
  ASSUME RouteInv, SamePlaces, NEW i \in Conns
  PROVE  PlaceOK(i)'
BY SMTT(30) DEF RouteInv, PlaceOK, SamePlaces

------------------------------------------------------------------------------
(* Handlers start, answer and end *)

LEMMA IdleType == Idle \in ThreadState
BY LeasesAssumption, SMTT(30) DEF Idle, ThreadState, Keys

\* What a request hands to break_leases.
Parts(id, todo, except, next, h, resp) ==
  /\ id \in Conns /\ todo \in Seq(Files) /\ except \in Keys /\ next \in {"grant", "unlink", "reply"}
  /\ h \in Handle /\ resp \in Response

FirstSteps == {"grant", "unlink", "reply", "break"}

\* A thread has begun or gone on with its work, and moved nobody.
Begun ==
  /\ wk' \in [Workers -> ThreadState]
  /\ \A v \in Workers : ThreadOK(v)' /\ MsgsOK(v)' /\ WakeOK(v)'

\* A request reaches break_leases, or passes it by.
Asks(w, id, todo, except, next, h, resp) ==
  /\ Parts(id, todo, except, next, h, resp) /\ Ready(w, id)
  /\ next = "grant" /\ h.granted # "none" => h.key = conn[id].client
  /\ wk' = [wk EXCEPT ![w] = [Breaking(id, todo, except, next, h, resp) EXCEPT
                                !.pc = IF todo = <<>> THEN next ELSE "break"]]
  /\ UNCHANGED <<slot, gen, conn, mbox, efd, armed, cqe>>

------------------------------------------------------------------------------
(* Requests *)

\* The types of what the routing of breaks does not depend on.
SideOK ==
  /\ load \in Workloads /\ handles \in [Conns -> SUBSET Handle]
  /\ efd \in [Workers -> BOOLEAN] /\ armed \in [Workers -> BOOLEAN] /\ cqe \in [Workers -> BOOLEAN]
  /\ ver \in [Files -> [Clients -> Nat]] /\ deleted \in [Files -> BOOLEAN]
  /\ belief \in [Clients -> [Files -> LeaseStates]]
  /\ cache \in [Clients -> [Files -> Nat \cup {NoCache}]]

LEMMA Side ==
  ASSUME RouteInv
  PROVE  SideOK
BY DEF RouteInv, TypeOK, SideOK

LEMMA ChangesType ==
  ASSUME RouteInv, NEW f \in Files, NEW key
  PROVE  /\ Changes(f, key) => ver' \in [Files -> [Clients -> Nat]]
         /\ Newer(f, key) \in [Clients -> Nat]
<1>1. ver \in [Files -> [Clients -> Nat]]
  BY Side DEF SideOK
<1>2. Newer(f, key) \in [Clients -> Nat]
  BY <1>1, SMTT(30) DEF Newer
<1>3. PICK n : n = Newer(f, key)
  OBVIOUS
<1>. QED
  BY <1>1, <1>2, <1>3 DEF Changes

LEMMA ReadyOpen ==
  ASSUME RouteInv, NEW w \in Workers, NEW id \in Conns, Ready(w, id)
  PROVE  /\ conn[id].state = "open" /\ conn[id].client \in Clients /\ conn[id].sess \in Conns
         /\ wk[w] = Idle /\ wk[w].pc = "idle" /\ \A h \in handles[conn[id].sess] : h \in Handle
<1>1. conn[id].state = "open" /\ wk[w].pc = "idle"
  BY DEF Ready
<1>2. conn[id].client \in Clients /\ conn[id].sess \in Conns
  BY <1>1 DEF RouteInv, PlaceOK
<1>. QED
  BY <1>1, <1>2, Typed DEF RouteInv, ThreadOK

------------------------------------------------------------------------------
(* The tx side *)

\* What is put on the queues of connection id, of the five fields of its place none.
LEMMA TxStep ==
  ASSUME RouteInv, UNCHANGED <<slot, gen>>, NEW id \in Conns, conn[id].state # "unborn",
         NEW q \in Seq(BreakFrame), NEW s \in BOOLEAN, NEW l \in LinkType,
         conn' = [conn EXCEPT ![id] = [@ EXCEPT !.deferred = q, !.sending = s]], link' = [link EXCEPT ![id] = l],
         ~s => q = <<>>, ~l.up => l.wire = <<>>, Mine(id, conn[id].client, q), Mine(id, conn[id].client, l.wire)
  PROVE  /\ SamePlaces /\ conn' \in [Conns -> ConnType] /\ link' \in [Conns -> LinkType]
         /\ \A i \in Conns : PlaceOK(i)' /\ TxOK(i)'
<1>1. /\ link' \in [Conns -> LinkType] /\ link'[id] = l /\ conn'[id] = [conn[id] EXCEPT !.deferred = q, !.sending = s]
      /\ \A i \in Conns : i # id => link'[i] = link[i] /\ conn'[i] = conn[i]
  BY Typed
<1>2. conn' \in [Conns -> ConnType]
  BY Typed DEF ConnType
<1>3. /\ conn'[id].state = conn[id].state /\ conn'[id].client = conn[id].client /\ conn'[id].sess = conn[id].sess
      /\ conn'[id].loc = conn[id].loc /\ conn'[id].gen = conn[id].gen /\ conn'[id].deferred = q
      /\ conn'[id].sending = s
  BY <1>1, Typed, SMTT(30) DEF ConnType
<1>4. SamePlaces
  BY <1>1, <1>3 DEF SamePlaces
<1>5. TxOK(id)'
  BY <1>1, <1>3, SMTT(30) DEF TxOK, Mine
<1>6. \A i \in Conns : i # id => TxOK(i)'
  BY <1>1, SameTx
<1>. QED
  BY <1>1, <1>2, <1>4, <1>5, <1>6, SamePlace

\* Frames put on the wire.
LEMMA SentFacts ==
  ASSUME NEW id, NEW c, NEW l \in LinkType, ~l.up => l.wire = <<>>, Mine(id, c, l.wire),
         NEW q \in Seq(BreakFrame), Mine(id, c, q)
  PROVE  /\ Sent(l, q) \in LinkType /\ Sent(l, q).up = l.up /\ (~l.up => Sent(l, q).wire = <<>>)
         /\ Mine(id, c, Sent(l, q).wire)
<1>1. PICK m : m = Sent(l, q)
  OBVIOUS
<1>2. q \in Seq(BreakFrame \cup Response) /\ l.wire \in Seq(BreakFrame \cup Response)
  BY SMTT(30) DEF LinkType
<1>3. CASE l.up
  <2>1. l.wire \o q \in Seq(BreakFrame \cup Response)
    BY <1>2, SMTT(30)
  <2>2. m \in LinkType /\ m.up = l.up /\ m.wire = l.wire \o q
    BY <1>1, <1>3, <2>1 DEF Sent, LinkType
  <2>3. Mine(id, c, l.wire \o q)
    BY <1>2, MineJoin
  <2>. QED
    BY <1>1, <1>3, <2>2, <2>3
<1>4. CASE ~l.up
  BY <1>4 DEF Sent
<1>. QED
  BY <1>3, <1>4

\* A message finds no other connection than the one its lease was granted on.
LEMMA OnlyHolder ==
  ASSUME RouteInv, NEW m \in LeaseGrant, Addressed(m), Deliverable(m)
  PROVE  slot[m.loc] = m.id /\ conn[m.id].state = "open"
<1>1. PICK i : i = slot[m.loc]
  OBVIOUS
<1>2. m.loc \in Locs /\ m.id \in Conns
  BY DEF LeaseGrant
<1>3. i \in Conns /\ conn[i].gen = m.gen /\ conn[i].state = "open"
  BY <1>1, <1>2, Typed DEF Deliverable
<1>4. conn[i].gen = gen[m.loc]
  BY <1>1, <1>2, <1>3 DEF RouteInv, PlaceOK
<1>5. conn[m.id].loc = m.loc /\ conn[m.id].gen = m.gen
  BY DEF Addressed
<1>6. slot[m.loc] # m.id => conn[m.id].gen < gen[m.loc] \/ slot[m.loc] = None
  BY <1>2, <1>5 DEF RouteInv, PlaceOK
<1>7. gen[m.loc] \in Int /\ slot[m.loc] # None
  BY <1>2, Typed, SMTT(30) DEF Deliverable
<1>8. ~(conn[m.id].gen < gen[m.loc])
  <2>1. PICK n : n = gen[m.loc]
    OBVIOUS
  <2>2. n \in Int /\ conn[m.id].gen = n
    BY <2>1, <1>3, <1>4, <1>5, <1>7
  <2>3. ~(n < n)
    BY <2>2, SMTT(30)
  <2>. QED
    BY <2>1, <2>2, <2>3
<1>. QED
  BY <1>1, <1>3, <1>6, <1>7, <1>8

\* What deliver_break does to the tx side of the holder.
LEMMA Delivered ==
  ASSUME RouteInv, NEW w \in Workers, DeliverBreak(w), NEW m \in LeaseGrant, m = Head(wk[w].inbox), Addressed(m),
         Deliverable(m)
  PROVE  /\ SamePlaces /\ conn' \in [Conns -> ConnType] /\ link' \in [Conns -> LinkType]
         /\ \A i \in Conns : PlaceOK(i)' /\ TxOK(i)'
<1>0. PICK id : id = slot[m.loc]
  OBVIOUS
<1>1. id = m.id /\ conn[id].state = "open" /\ id \in Conns
  <2>1. m.id \in Conns
    BY DEF LeaseGrant
  <2>. QED
    BY <1>0, <2>1, OnlyHolder
<1>20. PICK q : q = [conn[id] EXCEPT !.deferred =
                       Append(@, [kind |-> "break", f |-> m.f, key |-> m.key, to |-> m.id])]
  OBVIOUS
<1>21. /\ conn' = [conn EXCEPT ![id] = IF q.sending THEN q ELSE Flushed(q)]
       /\ link' = [link EXCEPT ![id] = IF q.sending THEN link[id] ELSE Sent(link[id], q.deferred)]
       /\ UNCHANGED <<slot, gen>>
  BY <1>0, <1>20 DEF DeliverBreak
<1>22. PICK c : c = conn[id].client
  OBVIOUS
<1>2. PICK d : d = conn[id]
  OBVIOUS
<1>3. d \in ConnType /\ d.deferred \in Seq(BreakFrame) /\ TxOK(id)
  BY <1>1, <1>2, Typed DEF ConnType, RouteInv
<1>4. PICK b : b = [kind |-> "break", f |-> m.f, key |-> m.key, to |-> m.id]
  OBVIOUS
<1>5. b \in BreakFrame /\ b.to = id /\ b.key = c
  <2>1. m.f \in Files /\ m.key \in Keys /\ m.id \in Conns
    BY DEF LeaseGrant
  <2>2. b \in BreakFrame /\ b.to = m.id /\ b.key = m.key
    BY <1>4, <2>1 DEF BreakFrame
  <2>. QED
    BY <1>1, <1>22, <2>2 DEF Addressed
<1>6. PICK D : D = Append(d.deferred, b)
  OBVIOUS
<1>7. D \in Seq(BreakFrame) /\ D # <<>> /\ Mine(id, c, D)
  <2>1. D \in Seq(BreakFrame) /\ D # <<>>
    BY <1>3, <1>5, <1>6, SMTT(30)
  <2>2. Mine(id, c, d.deferred)
    BY <1>2, <1>3, <1>22 DEF TxOK
  <2>. QED
    BY <2>1, <2>2, <1>3, <1>5, <1>6, MineAppend
<1>8. q = [d EXCEPT !.deferred = D] /\ q.deferred = D /\ q.sending = d.sending
  <2>1. q = [d EXCEPT !.deferred = D]
    BY <1>2, <1>4, <1>6, <1>20
  <2>. QED
    BY <1>3, <2>1 DEF ConnType
<1>9. PICK l : l = link[id]
  OBVIOUS
<1>10. l \in LinkType /\ (~l.up => l.wire = <<>>) /\ Mine(id, c, l.wire)
  BY <1>1, <1>3, <1>9, <1>22, Typed DEF TxOK
<1>11. CASE d.sending
  <2>1. q = [d EXCEPT !.deferred = D, !.sending = TRUE]
    BY <1>3, <1>8, <1>11 DEF ConnType
  <2>2. conn' = [conn EXCEPT ![id] = [@ EXCEPT !.deferred = D, !.sending = TRUE]] /\ link' = [link EXCEPT ![id] = l]
    BY <1>2, <1>8, <1>9, <1>11, <1>21, <2>1
  <2>. QED
    BY <1>1, <1>7, <1>10, <1>21, <1>22, <2>2, TxStep
<1>12. CASE ~d.sending
  <2>1. Flushed(q) = [d EXCEPT !.deferred = <<>>, !.sending = TRUE]
    BY <1>3, <1>7, <1>8 DEF Flushed, ConnType
  <2>2. PICK n : n = Sent(l, D)
    OBVIOUS
  <2>3. n \in LinkType /\ (~n.up => n.wire = <<>>) /\ Mine(id, c, n.wire)
    BY <1>7, <1>10, <2>2, SentFacts
  <2>4. conn' = [conn EXCEPT ![id] = [@ EXCEPT !.deferred = <<>>, !.sending = TRUE]] /\ link' = [link EXCEPT ![id] = n]
    BY <1>2, <1>8, <1>9, <1>12, <1>21, <2>1, <2>2
  <2>5. <<>> \in Seq(BreakFrame) /\ Mine(id, c, <<>>)
    BY SMTT(30) DEF Mine
  <2>. QED
    BY <1>1, <1>21, <1>22, <2>3, <2>4, <2>5, TxStep
<1>. QED
  BY <1>11, <1>12

------------------------------------------------------------------------------
(* The invariant holds *)

LEMMA RouteStep ==
  ASSUME RouteInv, [Next /\ UNCHANGED load]_allvars
  PROVE  RouteInv'

(* What a step leaves alone *)
<1>MineTail. ASSUME NEW S, NEW q \in Seq(S), q # <<>>, NEW i, NEW c, Mine(i, c, q)
      PROVE  Mine(i, c, Tail(q))
  BY <1>MineTail, SMTT(30) DEF Mine

<1>SameAddressed. ASSUME SamePlaces, NEW m, m.id \in Conns, Addressed(m)
      PROVE  Addressed(m)'
  BY <1>SameAddressed DEF Addressed, SamePlaces

<1>SameGrants. ASSUME RouteInv, SamePlaces, grants' \subseteq grants
      PROVE  GrantsOK' /\ grants' \subseteq LeaseGrant
  <2>. USE <1>SameGrants
  <2>1. \A g \in grants : g.id \in Conns
    BY Typed DEF LeaseGrant
  <2>2. ASSUME NEW g \in grants' PROVE Addressed(g)' /\ slot'[g.loc] = g.id /\ gen'[g.loc] = g.gen
    BY <2>1, <2>2, <1>SameAddressed DEF RouteInv, GrantsOK, SamePlaces
  <2>. QED
    BY <2>2, Typed DEF GrantsOK

<1>SameThread. ASSUME RouteInv, SamePlaces, NEW v \in Workers, wk'[v] = wk[v]
      PROVE  ThreadOK(v)'
  <2>. USE <1>SameThread
  <2>1. ThreadOK(v)
    BY DEF RouteInv
  <2>2. Serving(v, wk[v]) => Serving(v, wk[v])'
    BY DEF Serving, SamePlaces
  <2>. QED
    BY <2>1, <2>2 DEF ThreadOK, Serving

<1>SameMsgs. ASSUME RouteInv, SamePlaces, NEW v \in Workers, wk'[v].msgs \subseteq wk[v].msgs, mbox'[v] = mbox[v],
             wk'[v].inbox = wk[v].inbox \/ wk'[v].inbox = <<>>
      PROVE  MsgsOK(v)'
  <2>. USE <1>SameMsgs
  <2>1. /\ \A m \in wk[v].msgs : m.id \in Conns /\ Addressed(m)
        /\ \A k \in 1..Len(mbox[v]) : mbox[v][k].id \in Conns /\ Addressed(mbox[v][k])
        /\ \A k \in 1..Len(wk[v].inbox) : wk[v].inbox[k].id \in Conns /\ Addressed(wk[v].inbox[k])
    BY MsgTypes
  <2>2. \A m : m.id \in Conns /\ Addressed(m) => Addressed(m)'
    BY <1>SameAddressed
  <2>3. \A k : ~(k \in 1..Len(<<>>))
    BY SMTT(30)
  <2>. QED
    BY <2>1, <2>2, <2>3 DEF MsgsOK

<1>SameWake. ASSUME RouteInv, NEW w \in Workers, NEW r, wk' = [wk EXCEPT ![w] = r], UNCHANGED <<mbox, efd, armed, cqe>>,
             wk[w].pc \notin {"signal", "deliver"}
      PROVE  \A v \in Workers : WakeOK(v)'
  <2>. USE <1>SameWake
  <2>1. \A v \in Workers : v # w => wk'[v] = wk[v]
    BY Typed
  <2>. QED
    BY <2>1, SMTT(30) DEF RouteInv, WakeOK

\* A thread takes a step that moves nobody.
<1>ThreadStep. ASSUME RouteInv, SamePlaces, NEW w \in Workers, NEW r \in ThreadState, wk' = [wk EXCEPT ![w] = r],
             ThreadOK(w)'
      PROVE  wk' \in [Workers -> ThreadState] /\ \A v \in Workers : ThreadOK(v)'
  <2>. USE <1>ThreadStep
  <2>1. wk' \in [Workers -> ThreadState] /\ \A v \in Workers : v # w => wk'[v] = wk[v]
    BY Typed
  <2>. QED
    BY <2>1, <1>SameThread

<1>ThreadMsgs. ASSUME RouteInv, SamePlaces, NEW w \in Workers, NEW r, wk' = [wk EXCEPT ![w] = r], mbox' = mbox,
             r.msgs \subseteq wk[w].msgs, r.inbox = wk[w].inbox \/ r.inbox = <<>>
      PROVE  \A v \in Workers : MsgsOK(v)'
  <2>. USE <1>ThreadMsgs
  <2>1. wk'[w] = r /\ \A v \in Workers : v # w => wk'[v] = wk[v]
    BY Typed
  <2>2. MsgsOK(w)'
    BY <2>1, <1>SameMsgs
  <2>3. ASSUME NEW v \in Workers, v # w PROVE MsgsOK(v)'
    <3>1. wk'[v].msgs \subseteq wk[v].msgs /\ mbox'[v] = mbox[v] /\ wk'[v].inbox = wk[v].inbox
      BY <2>1, <2>3
    <3>. QED
      BY <3>1, <1>SameMsgs
  <2>. QED
    BY <2>2, <2>3

(* Handlers start, answer and end *)
<1>ThreadType. ASSUME NEW id, NEW todo, NEW except, NEW next, NEW h, NEW resp, Parts(id, todo, except, next, h, resp),
             NEW p, p \in FirstSteps, NEW s, s \in Conns, NEW r,
             r = [pc |-> p, id |-> id, sess |-> s, todo |-> todo, except |-> except, msgs |-> {}, signal |-> None,
                  next |-> next, h |-> h, resp |-> resp, rest |-> {}, inbox |-> <<>>]
      PROVE  r \in ThreadState
  BY <1>ThreadType, SMTT(30) DEF ThreadState, Parts, FirstSteps

<1>TornDown. ASSUME NEW y \in ThreadState, NEW h \in Handle, NEW x,
             x = [y EXCEPT !.h = h, !.except = h.key, !.next = "unlink", !.todo = <<h.f>>, !.pc = "break"]
      PROVE  x \in ThreadState /\ x.pc = "break" /\ x.msgs = y.msgs
  <2>. USE <1>TornDown
  <2>1. h.key \in Keys /\ h.f \in Files /\ <<h.f>> \in Seq(Files)
    BY SMTT(30) DEF Handle
  <2>. QED
    BY <2>1 DEF ThreadState

<1>Starts. ASSUME RouteInv, NEW w \in Workers, NEW id, NEW todo, NEW except, NEW next, NEW h, NEW resp,
             Asks(w, id, todo, except, next, h, resp)
      PROVE  Begun
  <2>. USE <1>Starts
  <2>0. /\ id \in Conns /\ todo \in Seq(Files) /\ except \in Keys /\ next \in {"grant", "unlink", "reply"}
        /\ h \in Handle /\ resp \in Response /\ Parts(id, todo, except, next, h, resp)
        /\ next = "grant" /\ h.granted # "none" => h.key = conn[id].client
    BY DEF Asks, Parts
  <2>13. PICK r : r = [Breaking(id, todo, except, next, h, resp) EXCEPT !.pc = IF todo = <<>> THEN next ELSE "break"]
    OBVIOUS
  <2>14. wk' = [wk EXCEPT ![w] = r] /\ UNCHANGED <<slot, gen, conn, mbox, efd, armed, cqe>>
    BY <2>13 DEF Asks
  <2>1. SamePlaces
    BY <2>14 DEF SamePlaces
  <2>2. wk[w] = Idle /\ conn[id].state = "open" /\ conn[id].loc[1] = w
    BY <2>0 DEF Asks, Ready, RouteInv, ThreadOK
  <2>3. conn[id].sess \in Conns /\ conn[id].loc \in Locs /\ slot[conn[id].loc] = id
    BY <2>0, <2>2 DEF RouteInv, PlaceOK
  <2>4. r = [pc |-> IF todo = <<>> THEN next ELSE "break", id |-> id, sess |-> conn[id].sess, todo |-> todo,
             except |-> except, msgs |-> {}, signal |-> None, next |-> next, h |-> h, resp |-> resp,
             rest |-> {}, inbox |-> <<>>]
    BY <2>13 DEF Breaking, Idle
  <2>5. r \in ThreadState
    <3>0. PICK s : s = conn[id].sess
      OBVIOUS
    <3>1. PICK p : p = IF todo = <<>> THEN next ELSE "break"
      OBVIOUS
    <3>2. p \in FirstSteps
      BY <2>0, <3>1 DEF FirstSteps
    <3>3. r = [pc |-> p, id |-> id, sess |-> s, todo |-> todo, except |-> except, msgs |-> {}, signal |-> None,
               next |-> next, h |-> h, resp |-> resp, rest |-> {}, inbox |-> <<>>]
      BY <2>4, <3>0, <3>1
    <3>4. s \in Conns
      BY <2>3, <3>0
    <3>. QED
      BY <2>0, <3>2, <3>3, <3>4, <1>ThreadType
  <2>6. wk'[w] = r
    BY <2>14, Typed
  <2>7. Serving(w, r)
    BY <2>0, <2>2, <2>3, <2>4, LeasesAssumption DEF Serving, Stage
  <2>8. Serving(w, r)'
    BY <2>7, <2>14 DEF Serving
  <2>9. r.pc \notin {"idle", "deliver"}
    BY <2>0, <2>4
  <2>10. ThreadOK(w)'
    BY <2>6, <2>8, <2>9 DEF ThreadOK
  <2>11. r.msgs \subseteq wk[w].msgs /\ r.inbox = <<>>
    BY <2>4
  <2>12. wk[w].pc \notin {"signal", "deliver"}
    BY <2>2, SMTT(30) DEF Idle
  <2>. QED
    BY <2>1, <2>5, <2>10, <2>11, <2>12, <2>14, <1>ThreadStep, <1>ThreadMsgs, <1>SameWake DEF Begun

\* A response leaves the tx side sending.
<1>Replies. ASSUME RouteInv, NEW id \in Conns, conn[id].state = "open", NEW frame \in Response, Reply(id, frame),
             UNCHANGED <<slot, gen>>
      PROVE  /\ SamePlaces /\ conn' \in [Conns -> ConnType] /\ link' \in [Conns -> LinkType]
             /\ \A i \in Conns : PlaceOK(i)' /\ TxOK(i)'
  <2>. USE <1>Replies
  <2>1. PICK l : l = link[id]
    OBVIOUS
  <2>2. l \in LinkType
    BY <2>1, Typed
  <2>3. PICK fs : fs = IF frame.kind = "ack" THEN <<>> ELSE <<frame>>
    OBVIOUS
  <2>4. fs \in Seq(BreakFrame \cup Response) /\ \A k \in 1..Len(fs) : fs[k].kind # "break"
    <3>1. frame.kind # "break"
      BY DEF Response
    <3>2. CASE frame.kind = "ack"
      BY <2>3, <3>2, SMTT(30)
    <3>3. CASE frame.kind # "ack"
      <4>1. fs = <<frame>> /\ frame \in BreakFrame \cup Response
        BY <2>3, <3>3
      <4>. QED
        BY <3>1, <4>1, SMTT(30)
    <3>. QED
      BY <3>2, <3>3
  <2>5. PICK m : m = Sent(l, fs)
    OBVIOUS
  <2>6. m \in LinkType /\ m.up = l.up /\ (l.up => m.wire = l.wire \o fs) /\ (~l.up => m.wire = l.wire)
    <3>1. l.wire \o fs \in Seq(BreakFrame \cup Response)
      BY <2>2, <2>4, SMTT(30) DEF LinkType
    <3>2. CASE l.up
      BY <3>1, <3>2, <2>2, <2>5 DEF Sent, LinkType
    <3>3. CASE ~l.up
      BY <3>3, <2>2, <2>5 DEF Sent
    <3>. QED
      BY <3>2, <3>3
  <2>7. link' = [link EXCEPT ![id] = m] /\ conn' = [conn EXCEPT ![id].sending = TRUE]
    BY <2>1, <2>3, <2>5 DEF Reply
  <2>8. /\ link' \in [Conns -> LinkType] /\ link'[id] = m
        /\ \A i \in Conns : i # id => link'[i] = link[i] /\ conn'[i] = conn[i]
    BY <2>6, <2>7, Typed
  <2>9. conn' \in [Conns -> ConnType] /\ conn'[id] = [conn[id] EXCEPT !.sending = TRUE]
    BY <2>7, Typed DEF ConnType
  <2>10. /\ conn'[id].state = "open" /\ conn'[id].client = conn[id].client /\ conn'[id].sess = conn[id].sess
         /\ conn'[id].loc = conn[id].loc /\ conn'[id].gen = conn[id].gen /\ conn'[id].deferred = conn[id].deferred
         /\ conn'[id].sending
    BY <2>9, Typed DEF ConnType
  <2>11. SamePlaces
    BY <2>8, <2>10 DEF SamePlaces
  <2>12. Mine(id, conn[id].client, m.wire)
    <3>0. PICK c : c = conn[id].client
      OBVIOUS
    <3>1. Mine(id, c, l.wire) /\ l.wire \in Seq(BreakFrame \cup Response)
      BY <2>1, <2>2, <3>0 DEF RouteInv, TxOK, LinkType
    <3>2. Mine(id, c, fs)
      BY <2>4 DEF Mine
    <3>3. Mine(id, c, l.wire \o fs)
      BY <3>1, <3>2, <2>4, MineJoin
    <3>. QED
      BY <3>0, <3>1, <3>3, <2>6
  <2>13. TxOK(id)'
    <3>1. TxOK(id)
      BY DEF RouteInv
    <3>2. Mine(id, conn[id].client, conn'[id].deferred) /\ (~m.up => m.wire = <<>>)
      BY <3>1, <2>1, <2>6, <2>10 DEF TxOK
    <3>. QED
      BY <2>8, <2>10, <2>12, <3>2 DEF TxOK, Mine
  <2>14. \A i \in Conns : i # id => TxOK(i)'
    BY <2>8, SameTx
  <2>. QED
    BY <2>8, <2>9, <2>11, <2>13, <2>14, SamePlace

\* A thread is done: it has nothing left to break or to deliver.
<1>Ends. ASSUME RouteInv, SamePlaces, NEW w \in Workers, wk' = [wk EXCEPT ![w] = Idle], UNCHANGED <<mbox, efd, armed, cqe>>,
             wk[w].pc \notin {"signal", "deliver"}
      PROVE  /\ wk' \in [Workers -> ThreadState]
             /\ \A v \in Workers : ThreadOK(v)' /\ MsgsOK(v)' /\ WakeOK(v)'
  <2>. USE <1>Ends
  <2>1. wk'[w] = Idle
    BY Typed
  <2>2. ThreadOK(w)'
    BY <2>1, SMTT(30) DEF ThreadOK, Idle
  <2>3. Idle.msgs \subseteq wk[w].msgs /\ Idle.inbox = <<>>
    BY DEF Idle
  <2>4. PICK r : r = Idle
    OBVIOUS
  <2>. QED
    BY <2>2, <2>3, <2>4, IdleType, <1>ThreadStep, <1>ThreadMsgs, <1>SameWake

<1>Joined. ASSUME SideOK', slot' \in [Locs -> Conns \cup {None}], gen' \in [Locs -> 1..GEN_MAX],
             conn' \in [Conns -> ConnType], grants' \subseteq LeaseGrant, GrantsOK',
             mbox' \in [Workers -> Seq(LeaseGrant)], wk' \in [Workers -> ThreadState], link' \in [Conns -> LinkType],
             \A i \in Conns : PlaceOK(i)' /\ TxOK(i)',
             \A w \in Workers : ThreadOK(w)' /\ MsgsOK(w)' /\ WakeOK(w)'
      PROVE  RouteInv'
  BY <1>Joined DEF RouteInv, TypeOK, SideOK, ConnType, LinkType

\* The invariant after a step that leaves the slots, the tx sides and the mailboxes alone.
<1>Undisturbed. ASSUME RouteInv, UNCHANGED <<slot, gen, conn, link, mbox>>, SideOK', grants' \subseteq grants,
             wk' \in [Workers -> ThreadState], \A w \in Workers : ThreadOK(w)' /\ MsgsOK(w)' /\ WakeOK(w)'
      PROVE  RouteInv'
  <2>. USE <1>Undisturbed
  <2>1. SamePlaces
    BY DEF SamePlaces
  <2>2. \A i \in Conns : PlaceOK(i)' /\ TxOK(i)'
    BY <2>1, SamePlace, SameTx
  <2>3. GrantsOK' /\ grants' \subseteq LeaseGrant
    BY <2>1, <1>SameGrants
  <2>4. /\ slot' \in [Locs -> Conns \cup {None}] /\ gen' \in [Locs -> 1..GEN_MAX] /\ conn' \in [Conns -> ConnType]
        /\ mbox' \in [Workers -> Seq(LeaseGrant)] /\ link' \in [Conns -> LinkType]
    BY Typed
  <2>. QED
    BY <2>2, <2>3, <2>4, <1>Joined

\* And after one that only moves frames on a tx side.
<1>TxRest. ASSUME RouteInv, SamePlaces, conn' \in [Conns -> ConnType], link' \in [Conns -> LinkType],
             \A i \in Conns : PlaceOK(i)' /\ TxOK(i)',
             UNCHANGED <<slot, gen, mbox, efd, armed, cqe, wk>>, SideOK', grants' \subseteq grants
      PROVE  RouteInv'
  <2>. USE <1>TxRest
  <2>1. GrantsOK' /\ grants' \subseteq LeaseGrant
    BY <1>SameGrants
  <2>2. /\ slot' \in [Locs -> Conns \cup {None}] /\ gen' \in [Locs -> 1..GEN_MAX]
        /\ mbox' \in [Workers -> Seq(LeaseGrant)] /\ wk' \in [Workers -> ThreadState]
    BY Typed
  <2>3. ASSUME NEW v \in Workers PROVE ThreadOK(v)' /\ MsgsOK(v)' /\ WakeOK(v)'
    <3>1. wk'[v] = wk[v] /\ wk'[v].msgs \subseteq wk[v].msgs /\ mbox'[v] = mbox[v] /\ wk'[v].inbox = wk[v].inbox
      OBVIOUS
    <3>2. WakeOK(v)'
      BY <2>3 DEF RouteInv, WakeOK
    <3>. QED
      BY <2>3, <3>1, <3>2, <1>SameThread, <1>SameMsgs
  <2>. QED
    BY <2>1, <2>2, <2>3, <1>Joined

\* A request is answered at once.
<1>Answered. ASSUME RouteInv, NEW id \in Conns, conn[id].state = "open", NEW frame \in Response, Reply(id, frame),
             UNCHANGED <<slot, gen, mbox, efd, armed, cqe, wk>>, SideOK', grants' \subseteq grants
      PROVE  RouteInv'
  BY <1>Answered, <1>Replies, <1>TxRest

\* A request that changed a file breaks the other holders of todo.
<1>Breaks. ASSUME RouteInv, NEW w \in Workers, NEW id \in Conns, Ready(w, id), NEW todo \in Seq(Files), todo # <<>>,
             NEW except \in Keys, NEW next \in {"unlink", "reply"}, NEW h \in Handle, NEW resp \in Response,
             wk' = [wk EXCEPT ![w] = Breaking(id, todo, except, next, h, resp)],
             UNCHANGED <<slot, gen, conn, mbox, efd, armed, cqe>>
      PROVE  Begun
  <2>. USE <1>Breaks
  <2>1. Breaking(id, todo, except, next, h, resp)
          = [Breaking(id, todo, except, next, h, resp) EXCEPT !.pc = IF todo = <<>> THEN next ELSE "break"]
    BY DEF Breaking, Idle
  <2>2. Parts(id, todo, except, next, h, resp) /\ next # "grant"
    BY DEF Parts
  <2>3. Asks(w, id, todo, except, next, h, resp)
    BY <2>1, <2>2 DEF Asks
  <2>. QED
    BY <2>3, <1>Starts

(* Requests *)
<1>CreateOpenStep. ASSUME RouteInv, UNCHANGED load, NEW w \in Workers, NEW id \in Conns, NEW f \in Files, NEW want \in LeaseStates,
             NEW overwrite \in BOOLEAN, NEW doc \in BOOLEAN, CreateOpen(w, id, f, want, overwrite, doc)
      PROVE  RouteInv'
  <2>. USE <1>CreateOpenStep
  <2>1. Ready(w, id)
    BY DEF CreateOpen
  <2>2. PICK c : c = conn[id].client
    OBVIOUS
  <2>3. PICK key : key = IF want = "none" THEN None ELSE c
    OBVIOUS
  <2>4. c \in Clients /\ key \in Keys /\ (want # "none" => key = c)
    BY <2>1, <2>2, <2>3, ReadyOpen DEF Keys
  <2>5. PICK Free : Free = {n \in 1..MaxOpens : \A h \in handles[conn[id].sess] : h.f = f => h.no # n}
    OBVIOUS
  <2>6. PICK no : no = CHOOSE n \in Free : TRUE
    OBVIOUS
  <2>7. no \in 1..MaxOpens
    <3>1. Free # {}
      BY <2>5 DEF CreateOpen
    <3>. QED
      BY <3>1, <2>5, <2>6
  <2>8. PICK h : h = [f |-> f, no |-> no, key |-> key, granted |-> want, doc |-> doc]
    OBVIOUS
  <2>9. h \in Handle /\ h.granted = want /\ h.key = key
    BY <2>4, <2>7, <2>8 DEF Handle
  <2>10. ver' \in [Files -> [Clients -> Nat]]
    BY <2>3, ChangesType, Side DEF CreateOpen, SideOK
  <2>11. PICK resp : resp = [kind |-> "create", f |-> f, no |-> no, granted |-> want, ver |-> ver'[f][c]]
    OBVIOUS
  <2>12. resp \in Response
    BY <2>4, <2>7, <2>10, <2>11 DEF Response
  <2>13. PICK todo : todo = IF overwrite THEN <<f>> ELSE <<>>
    OBVIOUS
  <2>14. todo \in Seq(Files)
    BY <2>13, SMTT(30)
  <2>15. PICK b : b = Breaking(id, todo, key, "grant", h, resp)
    OBVIOUS
  <2>16. b.todo = todo /\ b.next = "grant"
    BY <2>15 DEF Breaking, Idle
  <2>17. wk' = [wk EXCEPT ![w] = [b EXCEPT !.pc = AfterBreak(b)]]
    BY <2>2, <2>3, <2>5, <2>6, <2>8, <2>11, <2>13, <2>15 DEF CreateOpen
  <2>18. PICK r : r = [b EXCEPT !.pc = IF todo = <<>> THEN "grant" ELSE "break"]
    OBVIOUS
  <2>19. wk' = [wk EXCEPT ![w] = r]
    BY <2>16, <2>17, <2>18 DEF AfterBreak
  <2>20. UNCHANGED <<slot, gen, conn, handles, grants, mbox, efd, armed, cqe, deleted, link, belief, cache>>
    BY DEF CreateOpen, clientvars
  <2>21. /\ wk' \in [Workers -> ThreadState]
         /\ \A v \in Workers : ThreadOK(v)' /\ MsgsOK(v)' /\ WakeOK(v)'
    <3>1. Parts(id, todo, key, "grant", h, resp) /\ ("grant" = "grant" /\ h.granted # "none" => h.key = conn[id].client)
      BY <2>2, <2>4, <2>9, <2>12, <2>14 DEF Parts
    <3>2. r = [Breaking(id, todo, key, "grant", h, resp) EXCEPT !.pc = IF todo = <<>> THEN "grant" ELSE "break"]
      BY <2>15, <2>18
    <3>3. Asks(w, id, todo, key, "grant", h, resp)
      BY <3>1, <3>2, <2>1, <2>19, <2>20 DEF Asks
    <3>4. Begun
      BY <3>3, <1>Starts
    <3>. QED
      BY <3>4 DEF Begun
  <2>22. SideOK'
    BY <2>10, <2>20, Side DEF SideOK
  <2>. QED
    BY <2>20, <2>21, <2>22, <1>Undisturbed

<1>ReadStep. ASSUME RouteInv, UNCHANGED load, NEW w \in Workers, NEW id \in Conns, NEW h, Read(w, id, h)
      PROVE  RouteInv'
  <2>. USE <1>ReadStep
  <2>1. Ready(w, id) /\ h \in handles[conn[id].sess]
    BY DEF Read
  <2>2. conn[id].state = "open" /\ conn[id].client \in Clients /\ h.f \in Files
    BY <2>1, ReadyOpen DEF Handle
  <2>3. PICK m : m = [kind |-> "read", f |-> h.f, ver |-> ver[h.f][conn[id].client]]
    OBVIOUS
  <2>4. m \in Response
    BY <2>2, <2>3, Side, SMTT(30) DEF SideOK, Response
  <2>5. /\ Reply(id, m)
        /\ UNCHANGED <<slot, gen, handles, grants, mbox, efd, armed, cqe, wk, ver, deleted, belief, cache>>
    BY <2>3 DEF Read, filevars
  <2>6. SideOK' /\ grants' \subseteq grants
    BY <2>5, Side DEF SideOK
  <2>. QED
    BY <2>2, <2>4, <2>5, <2>6, <1>Answered

<1>WriteStep. ASSUME RouteInv, UNCHANGED load, NEW w \in Workers, NEW id \in Conns, NEW h, Write(w, id, h)
      PROVE  RouteInv'
  <2>. USE <1>WriteStep
  <2>1. Ready(w, id) /\ h \in handles[conn[id].sess]
    BY DEF Write
  <2>2. h \in Handle /\ h.f \in Files /\ h.key \in Keys
    BY <2>1, ReadyOpen DEF Handle
  <2>3. PICK resp : resp = [kind |-> "wrote", f |-> h.f]
    OBVIOUS
  <2>4. resp \in Response /\ <<h.f>> \in Seq(Files) /\ <<h.f>> # <<>>
    BY <2>2, <2>3, SMTT(30) DEF Response
  <2>5. /\ wk' = [wk EXCEPT ![w] = Breaking(id, <<h.f>>, h.key, "reply", h, resp)] /\ Changes(h.f, h.key)
        /\ UNCHANGED <<slot, gen, conn, handles, grants, mbox, efd, armed, cqe, deleted, link, belief, cache>>
    BY <2>3 DEF Write, clientvars
  <2>6. SideOK'
    BY <2>2, <2>5, Side, ChangesType DEF SideOK
  <2>7. /\ wk' \in [Workers -> ThreadState]
        /\ \A v \in Workers : ThreadOK(v)' /\ MsgsOK(v)' /\ WakeOK(v)'
    BY <2>1, <2>2, <2>4, <2>5, <1>Breaks DEF Begun
  <2>. QED
    BY <2>5, <2>6, <2>7, <1>Undisturbed

<1>RenameStep. ASSUME RouteInv, UNCHANGED load, NEW w \in Workers, NEW id \in Conns, NEW h, NEW g \in Files, Rename(w, id, h, g)
      PROVE  RouteInv'
  <2>. USE <1>RenameStep
  <2>1. Ready(w, id) /\ h \in handles[conn[id].sess]
    BY DEF Rename
  <2>2. h \in Handle /\ h.f \in Files /\ h.key \in Keys
    BY <2>1, ReadyOpen DEF Handle
  <2>3. PICK resp : resp = [kind |-> "ack", f |-> h.f]
    OBVIOUS
  <2>4. PICK todo : todo = IF g = h.f THEN <<h.f>> ELSE <<h.f, g>>
    OBVIOUS
  <2>5. resp \in Response /\ todo \in Seq(Files) /\ todo # <<>>
    BY <2>2, <2>3, <2>4, SMTT(30) DEF Response
  <2>6. /\ wk' = [wk EXCEPT ![w] = Breaking(id, todo, h.key, "reply", h, resp)]
        /\ UNCHANGED <<slot, gen, conn, handles, grants, mbox, efd, armed, cqe, link, belief, cache>>
    BY <2>3, <2>4 DEF Rename, clientvars
  <2>7. ver' \in [Files -> [Clients -> Nat]]
    <3>1. ver' = [x \in Files |-> IF x \in {h.f, g} THEN Newer(x, h.key) ELSE ver[x]]
      BY DEF Rename
    <3>2. ASSUME NEW x \in Files PROVE Newer(x, h.key) \in [Clients -> Nat] /\ ver[x] \in [Clients -> Nat]
      BY <3>2, ChangesType, Side DEF SideOK
    <3>. QED
      BY <3>1, <3>2
  <2>8. deleted' \in [Files -> BOOLEAN]
    BY Side DEF Rename, SideOK
  <2>9. SideOK'
    BY <2>6, <2>7, <2>8, Side DEF SideOK
  <2>10. /\ wk' \in [Workers -> ThreadState]
         /\ \A v \in Workers : ThreadOK(v)' /\ MsgsOK(v)' /\ WakeOK(v)'
    BY <2>1, <2>2, <2>5, <2>6, <1>Breaks DEF Begun
  <2>. QED
    BY <2>6, <2>9, <2>10, <1>Undisturbed

<1>SetDispositionStep. ASSUME RouteInv, UNCHANGED load, NEW w \in Workers, NEW id \in Conns, NEW h, NEW flag \in BOOLEAN,
             SetDisposition(w, id, h, flag)
      PROVE  RouteInv'
  <2>. USE <1>SetDispositionStep
  <2>1. Ready(w, id) /\ h \in handles[conn[id].sess]
    BY DEF SetDisposition
  <2>2. conn[id].state = "open" /\ conn[id].sess \in Conns /\ h \in Handle /\ h.f \in Files /\ h.key \in Keys
    BY <2>1, ReadyOpen DEF Handle
  <2>3. PICK resp : resp = [kind |-> "ack", f |-> h.f]
    OBVIOUS
  <2>4. resp \in Response /\ <<h.f>> \in Seq(Files) /\ <<h.f>> # <<>>
    BY <2>2, <2>3, SMTT(30) DEF Response
  <2>5. handles' \in [Conns -> SUBSET Handle]
    <3>1. [h EXCEPT !.doc = flag] \in Handle
      BY <2>2 DEF Handle
    <3>2. PICK H : H = (handles[conn[id].sess] \ {h}) \cup {[h EXCEPT !.doc = flag]}
      OBVIOUS
    <3>3. H \subseteq Handle
      BY <3>1, <3>2, <2>2, Typed
    <3>4. handles' = [handles EXCEPT ![conn[id].sess] = H]
      BY <3>2 DEF SetDisposition
    <3>. QED
      BY <3>3, <3>4, Typed
  <2>6. UNCHANGED <<slot, gen, grants, mbox, efd, armed, cqe, deleted, belief, cache>>
    BY DEF SetDisposition
  <2>7. CASE flag
    <3>1. /\ wk' = [wk EXCEPT ![w] = Breaking(id, <<h.f>>, h.key, "reply", h, resp)] /\ Changes(h.f, h.key)
          /\ UNCHANGED <<conn, link>>
      BY <2>3, <2>7 DEF SetDisposition
    <3>2. SideOK'
      BY <2>2, <2>5, <2>6, <3>1, Side, ChangesType DEF SideOK
    <3>3. /\ wk' \in [Workers -> ThreadState]
          /\ \A v \in Workers : ThreadOK(v)' /\ MsgsOK(v)' /\ WakeOK(v)'
      BY <2>1, <2>2, <2>4, <2>6, <3>1, <1>Breaks DEF Begun
    <3>. QED
      BY <2>6, <3>1, <3>2, <3>3, <1>Undisturbed
  <2>8. CASE ~flag
    <3>1. Reply(id, resp) /\ UNCHANGED <<wk, ver>>
      BY <2>3, <2>8 DEF SetDisposition
    <3>2. SideOK' /\ grants' \subseteq grants
      BY <2>5, <2>6, <3>1, Side DEF SideOK
    <3>. QED
      BY <2>2, <2>4, <2>6, <3>1, <3>2, <1>Answered
  <2>. QED
    BY <2>7, <2>8

<1>ForgetType. ASSUME RouteInv, NEW c \in Clients, NEW f \in Files, Forget(c, f)
      PROVE  /\ belief' \in [Clients -> [Files -> LeaseStates]]
             /\ cache' \in [Clients -> [Files -> Nat \cup {NoCache}]]
  BY <1>ForgetType, Side DEF Forget, SideOK, LeaseStates

<1>CloseStep. ASSUME RouteInv, UNCHANGED load, NEW w \in Workers, NEW id \in Conns, NEW h, Close(w, id, h)
      PROVE  RouteInv'
  <2>. USE <1>CloseStep
  <2>1. Ready(w, id) /\ h \in handles[conn[id].sess]
    BY DEF Close
  <2>2. /\ conn[id].state = "open" /\ conn[id].sess \in Conns /\ conn[id].client \in Clients
        /\ h \in Handle /\ h.f \in Files /\ h.key \in Keys
    BY <2>1, ReadyOpen DEF Handle
  <2>3. PICK resp : resp = [kind |-> "ack", f |-> h.f]
    OBVIOUS
  <2>4. resp \in Response /\ <<h.f>> \in Seq(Files) /\ <<h.f>> # <<>>
    BY <2>2, <2>3, SMTT(30) DEF Response
  <2>5. handles' \in [Conns -> SUBSET Handle]
    BY <2>2, Typed DEF Close
  <2>6. grants' \subseteq grants /\ UNCHANGED <<slot, gen, mbox, efd, armed, cqe, ver, deleted>>
    BY DEF Close, Released, WithoutKey, filevars
  <2>7. /\ belief' \in [Clients -> [Files -> LeaseStates]]
        /\ cache' \in [Clients -> [Files -> Nat \cup {NoCache}]]
    <3>1. PICK c : c = conn[id].client
      OBVIOUS
    <3>2. Forget(c, h.f) \/ UNCHANGED <<belief, cache>>
      BY <3>1 DEF Close
    <3>. QED
      BY <3>1, <3>2, <2>2, <1>ForgetType, Side DEF SideOK
  <2>8. SideOK'
    BY <2>5, <2>6, <2>7, Side DEF SideOK
  <2>9. CASE h.doc
    <3>1. /\ wk' = [wk EXCEPT ![w] = Breaking(id, <<h.f>>, h.key, "unlink", h, resp)]
          /\ UNCHANGED <<conn, link>>
      BY <2>3, <2>9 DEF Close
    <3>2. /\ wk' \in [Workers -> ThreadState]
          /\ \A v \in Workers : ThreadOK(v)' /\ MsgsOK(v)' /\ WakeOK(v)'
      BY <2>1, <2>2, <2>4, <2>6, <3>1, <1>Breaks DEF Begun
    <3>. QED
      BY <2>6, <2>8, <3>1, <3>2, <1>Undisturbed
  <2>10. CASE ~h.doc
    <3>1. Reply(id, resp) /\ UNCHANGED wk
      BY <2>3, <2>10 DEF Close
    <3>. QED
      BY <2>2, <2>4, <2>6, <2>8, <3>1, <1>Answered
  <2>. QED
    BY <2>9, <2>10

<1>GrantStep. ASSUME RouteInv, UNCHANGED load, NEW w \in Workers, Grant(w)
      PROVE  RouteInv'
  <2>. USE <1>GrantStep
  <2>1. PICK r : r = wk[w]
    OBVIOUS
  <2>2. r.pc = "grant" /\ r \in ThreadState /\ Serving(w, r)
    BY <2>1, Typed DEF Grant, RouteInv, ThreadOK
  <2>3. /\ r.sess # None /\ r.id \in Conns /\ conn[r.id].state = "open" /\ r.sess = conn[r.id].sess
        /\ r.resp \in Response /\ r.h \in Handle /\ slot[conn[r.id].loc] = r.id /\ conn[r.id].loc \in Locs
        /\ (r.h.granted # "none" => r.h.key = conn[r.id].client)
    BY <2>2 DEF Serving, Stage
  <2>4. PICK l : l = conn[r.id]
    OBVIOUS
  <2>5. l.client \in Clients /\ l.sess \in Conns /\ l.gen \in 1..GEN_MAX /\ gen[l.loc] = l.gen
    BY <2>3, <2>4 DEF RouteInv, PlaceOK
  <2>6. PICK g : g = [f |-> r.h.f, key |-> r.h.key, state |-> r.h.granted, loc |-> l.loc, gen |-> l.gen, id |-> r.id]
    OBVIOUS
  <2>7. g \in LeaseGrant
    BY <2>3, <2>4, <2>5, <2>6 DEF LeaseGrant, Handle
  <2>8. /\ handles' = [handles EXCEPT ![r.sess] = @ \cup {r.h}] /\ Reply(r.id, r.resp) /\ wk' = [wk EXCEPT ![w] = Idle]
        /\ grants' = (IF r.h.granted = "none" THEN grants ELSE WithGrant(g))
        /\ UNCHANGED <<slot, gen, mbox, efd, armed, cqe, ver, deleted, belief, cache>>
    BY <2>1, <2>4, <2>6 DEF Grant, filevars
  <2>9. /\ SamePlaces /\ conn' \in [Conns -> ConnType] /\ link' \in [Conns -> LinkType]
        /\ \A i \in Conns : PlaceOK(i)' /\ TxOK(i)'
    BY <2>3, <2>8, <1>Replies
  <2>10. /\ wk' \in [Workers -> ThreadState]
         /\ \A v \in Workers : ThreadOK(v)' /\ MsgsOK(v)' /\ WakeOK(v)'
    BY <2>1, <2>2, <2>8, <2>9, <1>Ends
  <2>11. grants' \subseteq LeaseGrant /\ GrantsOK'
    <3>1. \A x \in grants' : x \in grants \/ (x = g /\ r.h.granted # "none")
      BY <2>8 DEF WithGrant
    <3>2. r.h.granted # "none" => Addressed(g) /\ g.id \in Conns /\ slot[g.loc] = g.id /\ gen[g.loc] = g.gen
      BY <2>3, <2>4, <2>5, <2>6 DEF Addressed
    <3>3. \A x \in grants : x.id \in Conns
      BY Typed DEF LeaseGrant
    <3>4. ASSUME NEW x \in grants' PROVE Addressed(x)' /\ slot'[x.loc] = x.id /\ gen'[x.loc] = x.gen
      BY <2>9, <3>1, <3>2, <3>3, <3>4, <1>SameAddressed DEF RouteInv, GrantsOK, SamePlaces
    <3>. QED
      BY <2>7, <3>1, <3>4, Typed DEF GrantsOK
  <2>12. SideOK'
    <3>1. handles' \in [Conns -> SUBSET Handle]
      BY <2>3, <2>4, <2>5, <2>8, Typed
    <3>. QED
      BY <2>8, <3>1, Side DEF SideOK
  <2>13. /\ slot' \in [Locs -> Conns \cup {None}] /\ gen' \in [Locs -> 1..GEN_MAX]
         /\ mbox' \in [Workers -> Seq(LeaseGrant)]
    BY <2>8, Typed
  <2>. QED
    BY <2>9, <2>10, <2>11, <2>12, <2>13, <1>Joined

(* A thread goes on *)
<1>RespondStep. ASSUME RouteInv, UNCHANGED load, NEW w \in Workers, Respond(w)
      PROVE  RouteInv'
  <2>. USE <1>RespondStep
  <2>1. PICK r : r = wk[w]
    OBVIOUS
  <2>2. r.pc = "reply" /\ r \in ThreadState /\ Serving(w, r)
    BY <2>1, Typed DEF Respond, RouteInv, ThreadOK
  <2>3. r.id \in Conns /\ conn[r.id].state = "open" /\ r.resp \in Response
    BY <2>2 DEF Serving, Stage
  <2>4. /\ Reply(r.id, r.resp) /\ wk' = [wk EXCEPT ![w] = Idle]
        /\ UNCHANGED <<slot, gen, handles, grants, mbox, efd, armed, cqe, ver, deleted, belief, cache>>
    BY <2>1 DEF Respond, filevars
  <2>5. /\ SamePlaces /\ conn' \in [Conns -> ConnType] /\ link' \in [Conns -> LinkType]
        /\ \A i \in Conns : PlaceOK(i)' /\ TxOK(i)'
    BY <2>3, <2>4, <1>Replies
  <2>6. /\ wk' \in [Workers -> ThreadState]
        /\ \A v \in Workers : ThreadOK(v)' /\ MsgsOK(v)' /\ WakeOK(v)'
    BY <2>1, <2>2, <2>4, <2>5, <1>Ends
  <2>7. grants' \subseteq grants
    BY <2>4
  <2>8. grants' \subseteq LeaseGrant /\ GrantsOK'
    BY <2>5, <2>7, <1>SameGrants
  <2>9. SideOK'
    BY <2>4, Side DEF SideOK
  <2>10. /\ slot' \in [Locs -> Conns \cup {None}] /\ gen' \in [Locs -> 1..GEN_MAX]
         /\ mbox' \in [Workers -> Seq(LeaseGrant)]
    BY <2>4, Typed
  <2>. QED
    BY <2>5, <2>6, <2>8, <2>9, <2>10, <1>Joined

\* A thread that goes on with what it serves, and touches neither connections nor mailboxes.
<1>GoesOn. ASSUME RouteInv, NEW w \in Workers, NEW r \in ThreadState, wk' = [wk EXCEPT ![w] = r], Serving(w, r),
             r.pc \notin {"idle", "deliver"}, wk[w].pc \notin {"signal", "deliver"}, r.msgs \subseteq wk[w].msgs,
             UNCHANGED <<slot, gen, conn, link, mbox, efd, armed, cqe>>, SideOK', grants' \subseteq grants
      PROVE  RouteInv'
  <2>. USE <1>GoesOn
  <2>1. SamePlaces
    BY DEF SamePlaces
  <2>2. wk'[w] = r
    BY Typed
  <2>3. Serving(w, r)' /\ r.inbox = <<>>
    BY DEF Serving
  <2>4. ThreadOK(w)'
    BY <2>2, <2>3 DEF ThreadOK
  <2>5. /\ wk' \in [Workers -> ThreadState] /\ \A v \in Workers : ThreadOK(v)'
    BY <2>1, <2>4, <1>ThreadStep
  <2>6. \A v \in Workers : MsgsOK(v)' /\ WakeOK(v)'
    BY <2>1, <2>3, <1>ThreadMsgs, <1>SameWake
  <2>. QED
    BY <2>5, <2>6, <1>Undisturbed

<1>UnlinkStep. ASSUME RouteInv, UNCHANGED load, NEW w \in Workers, Unlink(w)
      PROVE  RouteInv'
  <2>. USE <1>UnlinkStep
  <2>1. PICK r : r = wk[w]
    OBVIOUS
  <2>2. r.pc = "unlink" /\ r \in ThreadState /\ Serving(w, r)
    BY <2>1, Typed DEF Unlink, RouteInv, ThreadOK
  <2>3. PICK x : x = [r EXCEPT !.pc = IF conn[r.id].state = "open" THEN "reply" ELSE "teardown"]
    OBVIOUS
  <2>4. x \in ThreadState /\ x.pc \notin {"idle", "deliver"} /\ x.msgs = r.msgs
    BY <2>2, <2>3 DEF ThreadState
  <2>5. Serving(w, x)
    BY <2>2, <2>3 DEF Serving, Stage, ThreadState
  <2>6. wk' = [wk EXCEPT ![w] = x]
    BY <2>1, <2>3 DEF Unlink
  <2>7. /\ deleted' = [deleted EXCEPT ![wk[w].h.f] = TRUE]
        /\ UNCHANGED <<slot, gen, conn, handles, grants, mbox, efd, armed, cqe, ver, link, belief, cache>>
    BY DEF Unlink, clientvars
  <2>8. SideOK' /\ grants' \subseteq grants
    <3>1. deleted' \in [Files -> BOOLEAN]
      BY <2>7, Side DEF SideOK
    <3>. QED
      BY <2>7, <3>1, Side DEF SideOK
  <2>9. wk[w].pc \notin {"signal", "deliver"} /\ x.msgs \subseteq wk[w].msgs
    BY <2>1, <2>2, <2>4
  <2>. QED
    BY <2>4, <2>5, <2>6, <2>7, <2>8, <2>9, <1>GoesOn

<1>TeardownHandleStep. ASSUME RouteInv, UNCHANGED load, NEW w \in Workers, NEW h, TeardownHandle(w, h)
      PROVE  RouteInv'
  <2>. USE <1>TeardownHandleStep
  <2>1. PICK r : r = wk[w]
    OBVIOUS
  <2>2. r.pc = "teardown" /\ r \in ThreadState /\ Serving(w, r) /\ h \in r.rest
    BY <2>1, Typed DEF TeardownHandle, RouteInv, ThreadOK
  <2>3. h \in Handle /\ r.sess = None
    BY <2>2 DEF ThreadState, Serving, Stage
  <2>0. PICK y : y = [r EXCEPT !.rest = @ \ {h}]
    OBVIOUS
  <2>4. PICK x : x = IF h.doc THEN [y EXCEPT !.h = h, !.except = h.key, !.next = "unlink", !.todo = <<h.f>>, !.pc = "break"]
                     ELSE y
    OBVIOUS
  <2>5. x \in ThreadState /\ x.pc \notin {"idle", "deliver"} /\ x.msgs = r.msgs
    <3>1. CASE h.doc
      <4>1. h.key \in Keys /\ h.f \in Files /\ <<h.f>> \in Seq(Files) /\ r.rest \ {h} \in SUBSET Handle
        BY <2>2, <2>3, SMTT(30) DEF Handle, ThreadState
      <4>2. y \in ThreadState /\ y.msgs = r.msgs
        BY <4>1, <2>0, <2>2 DEF ThreadState
      <4>3. x = [y EXCEPT !.h = h, !.except = h.key, !.next = "unlink", !.todo = <<h.f>>, !.pc = "break"]
        BY <3>1, <2>4
      <4>. QED
        <5>1. x \in ThreadState /\ x.pc = "break" /\ x.msgs = y.msgs
          BY <4>2, <4>3, <2>3, <1>TornDown
        <5>. QED
          BY <4>2, <5>1
    <3>2. CASE ~h.doc
      BY <3>2, <2>0, <2>2, <2>3, <2>4 DEF ThreadState
    <3>. QED
      BY <3>1, <3>2
  <2>6. Serving(w, x)
    <3>1. CASE h.doc
      BY <3>1, <2>0, <2>2, <2>3, <2>4 DEF Serving, Stage, ThreadState
    <3>2. CASE ~h.doc
      BY <3>2, <2>0, <2>2, <2>3, <2>4 DEF Serving, Stage, ThreadState
    <3>. QED
      BY <3>1, <3>2
  <2>7. wk' = [wk EXCEPT ![w] = x]
    BY <2>0, <2>1, <2>4 DEF TeardownHandle
  <2>8. /\ grants' \subseteq grants
        /\ UNCHANGED <<slot, gen, conn, handles, mbox, efd, armed, cqe, ver, deleted, link, belief, cache>>
    BY DEF TeardownHandle, Released, WithoutKey, filevars, clientvars
  <2>9. SideOK'
    BY <2>8, Side DEF SideOK
  <2>10. wk[w].pc \notin {"signal", "deliver"} /\ x.msgs \subseteq wk[w].msgs
    BY <2>1, <2>2, <2>5
  <2>. QED
    BY <2>5, <2>6, <2>7, <2>8, <2>9, <2>10, <1>GoesOn

(* break_leases and the mailboxes *)
<1>BreakConflictsStep. ASSUME RouteInv, UNCHANGED load, NEW w \in Workers, BreakConflicts(w)
      PROVE  RouteInv'
  <2>. USE <1>BreakConflictsStep
  <2>1. PICK r : r = wk[w]
    OBVIOUS
  <2>2. r.pc = "break" /\ r \in ThreadState /\ Serving(w, r) /\ r.todo # <<>> /\ r.todo \in Seq(Files)
    BY <2>1, Typed DEF BreakConflicts, RouteInv, ThreadOK, Serving, ThreadState
  <2>3. PICK bs : bs = Conflicts(Head(r.todo), r.except)
    OBVIOUS
  <2>4. bs \subseteq grants /\ bs \subseteq LeaseGrant
    BY <2>3, Typed DEF Conflicts
  <2>5. PICK y : y = [r EXCEPT !.todo = Tail(@), !.msgs = bs]
    OBVIOUS
  <2>6. PICK x : x = [y EXCEPT !.pc = IF bs = {} THEN AfterBreak(y) ELSE "post"]
    OBVIOUS
  <2>7. Tail(r.todo) \in Seq(Files)
    BY <2>2, SMTT(30)
  <2>8. r.next \in {"grant", "unlink", "reply", "teardown"}
    BY <2>2 DEF Serving, Stage
  <2>9. x = [r EXCEPT !.todo = Tail(r.todo), !.msgs = bs, !.pc = IF bs = {} THEN IF Tail(r.todo) = <<>> THEN r.next ELSE "break"
                                                           ELSE "post"]
    BY <2>2, <2>5, <2>6 DEF AfterBreak, ThreadState
  <2>10. x \in ThreadState /\ x.pc \notin {"idle", "deliver"} /\ x.msgs = bs /\ x.inbox = r.inbox
    <3>1. PICK p : p = IF bs = {} THEN IF Tail(r.todo) = <<>> THEN r.next ELSE "break" ELSE "post"
      OBVIOUS
    <3>2. p \in {"break", "post", "grant", "unlink", "reply", "teardown"}
      BY <2>8, <3>1
    <3>3. x = [r EXCEPT !.todo = Tail(r.todo), !.msgs = bs, !.pc = p]
      BY <2>9, <3>1
    <3>. QED
      BY <3>2, <3>3, <2>2, <2>4, <2>7 DEF ThreadState
  <2>11. Serving(w, x)
    BY <2>2, <2>4, <2>7, <2>8, <2>9 DEF Serving, Stage, ThreadState
  <2>12. /\ wk' = [wk EXCEPT ![w] = x] /\ grants' = grants \ bs
         /\ UNCHANGED <<slot, gen, conn, handles, mbox, efd, armed, cqe, ver, deleted, link, belief, cache>>
    BY <2>1, <2>3, <2>5, <2>6 DEF BreakConflicts, filevars, clientvars
  <2>13. SideOK' /\ grants' \subseteq grants /\ SamePlaces
    BY <2>12, Side DEF SideOK, SamePlaces
  <2>14. wk'[w] = x /\ \A v \in Workers : v # w => wk'[v] = wk[v]
    BY <2>12, Typed
  <2>15. ThreadOK(w)'
    <3>1. Serving(w, x)'
      BY <2>11, <2>12 DEF Serving
    <3>. QED
      BY <2>10, <2>14, <3>1 DEF ThreadOK
  <2>16. wk' \in [Workers -> ThreadState] /\ \A v \in Workers : ThreadOK(v)'
    BY <2>10, <2>12, <2>13, <2>15, <1>ThreadStep
  <2>17. \A v \in Workers : WakeOK(v)'
    BY <2>1, <2>2, <2>12, <1>SameWake
  <2>18. ASSUME NEW v \in Workers PROVE MsgsOK(v)'
    <3>1. CASE v # w
      <4>1. wk'[v].msgs \subseteq wk[v].msgs /\ mbox'[v] = mbox[v] /\ wk'[v].inbox = wk[v].inbox
        BY <2>12, <2>14, <2>18, <3>1
      <4>. QED
        BY <2>13, <2>18, <4>1, <1>SameMsgs
    <3>2. CASE v = w
      <4>1. \A m \in bs : Addressed(m)
        BY <2>4 DEF RouteInv, GrantsOK
      <4>2. MsgsOK(w)
        BY DEF RouteInv
      <4>. QED
        <5>1. \A z : Addressed(z)' <=> Addressed(z)
          BY <2>12 DEF Addressed
        <5>2. wk'[w].msgs = bs /\ wk'[w].inbox = wk[w].inbox /\ mbox'[w] = mbox[w]
          BY <2>1, <2>10, <2>12, <2>14
        <5>. QED
          BY <3>2, <4>1, <4>2, <5>1, <5>2 DEF MsgsOK
    <3>. QED
      BY <3>1, <3>2
  <2>. QED
    BY <2>12, <2>13, <2>16, <2>17, <2>18, <1>Undisturbed

<1>PostPushStep. ASSUME RouteInv, UNCHANGED load, NEW w \in Workers, NEW m \in wk[w].msgs, PostPush(w, m)
      PROVE  RouteInv'
  <2>. USE <1>PostPushStep
  <2>1. PICK r : r = wk[w]
    OBVIOUS
  <2>2. r.pc = "post" /\ r \in ThreadState /\ Serving(w, r) /\ r.msgs \subseteq LeaseGrant
    BY <2>1, Typed DEF PostPush, RouteInv, ThreadOK, ThreadState
  <2>3. m \in LeaseGrant /\ Addressed(m) /\ m.loc[1] \in Workers
    BY <2>1, <2>2 DEF LeaseGrant, Locs, RouteInv, MsgsOK
  <2>4. PICK u : u = m.loc[1]
    OBVIOUS
  <2>5. PICK x : x = [r EXCEPT !.pc = "signal", !.msgs = r.msgs \ {m}, !.signal = u]
    OBVIOUS
  <2>6. x \in ThreadState /\ x.pc = "signal" /\ x.signal = u /\ x.msgs \subseteq r.msgs /\ x.inbox = r.inbox
    BY <2>2, <2>3, <2>4, <2>5 DEF ThreadState
  <2>7. Serving(w, x)
    BY <2>2, <2>3, <2>4, <2>5 DEF Serving, Stage, ThreadState
  <2>8. /\ wk' = [wk EXCEPT ![w] = x] /\ mbox' = [mbox EXCEPT ![u] = Append(@, m)]
        /\ UNCHANGED <<slot, gen, conn, handles, grants, efd, armed, cqe, ver, deleted, link, belief, cache>>
    BY <2>1, <2>4, <2>5 DEF PostPush, filevars, clientvars
  <2>9. SideOK' /\ grants' \subseteq grants /\ SamePlaces
    BY <2>8, Side DEF SideOK, SamePlaces
  <2>10. wk'[w] = x /\ \A v \in Workers : v # w => wk'[v] = wk[v]
    BY <2>8, Typed
  <2>11. /\ mbox' \in [Workers -> Seq(LeaseGrant)] /\ mbox'[u] = Append(mbox[u], m)
         /\ \A v \in Workers : v # u => mbox'[v] = mbox[v]
    BY <2>3, <2>4, <2>8, Typed, SMTT(30)
  <2>12. ThreadOK(w)'
    <3>1. Serving(w, x)'
      BY <2>7, <2>8 DEF Serving
    <3>. QED
      BY <2>6, <2>10, <3>1 DEF ThreadOK
  <2>13. wk' \in [Workers -> ThreadState] /\ \A v \in Workers : ThreadOK(v)'
    BY <2>6, <2>8, <2>9, <2>12, <1>ThreadStep
  <2>14. ASSUME NEW v \in Workers PROVE WakeOK(v)'
    <3>1. WakeOK(v)
      BY DEF RouteInv
    <3>2. wk[w].pc = "post"
      BY <2>1, <2>2
    <3>3. wk'[v].pc = "deliver" <=> wk[v].pc = "deliver"
      BY <2>6, <2>10, <3>2
    <3>4. CASE v = u
      BY <3>1, <3>3, <3>4, <2>6, <2>8, <2>10 DEF WakeOK
    <3>5. CASE v # u
      BY <3>1, <3>2, <3>3, <3>5, <2>6, <2>8, <2>10, <2>11 DEF WakeOK
    <3>. QED
      BY <3>4, <3>5
  <2>15. ASSUME NEW v \in Workers PROVE MsgsOK(v)'
    <3>1. MsgsOK(v) /\ mbox[v] \in Seq(LeaseGrant)
      BY Typed DEF RouteInv
    <3>2. wk'[v].msgs \subseteq wk[v].msgs /\ wk'[v].inbox = wk[v].inbox
      BY <2>1, <2>6, <2>10
    <3>3. \A y : Addressed(y)' <=> Addressed(y)
      BY <2>8 DEF Addressed
    <3>4. \A k \in 1..Len(mbox'[v]) : Addressed(mbox'[v][k])
      <4>1. CASE v = u
        <5>1. \A k \in 1..Len(mbox[v]) : Addressed(mbox[v][k])
          BY <3>1 DEF MsgsOK
        <5>. QED
          BY <3>1, <4>1, <5>1, <2>3, <2>11, SMTT(30)
      <4>2. CASE v # u
        BY <3>1, <4>2, <2>11, <2>15 DEF MsgsOK
      <4>. QED
        BY <4>1, <4>2
    <3>. QED
      BY <3>1, <3>2, <3>3, <3>4 DEF MsgsOK
  <2>16. \A i \in Conns : PlaceOK(i)' /\ TxOK(i)'
    BY <2>8, <2>9, SamePlace, SameTx
  <2>17. GrantsOK' /\ grants' \subseteq LeaseGrant
    BY <2>9, <1>SameGrants
  <2>18. /\ slot' \in [Locs -> Conns \cup {None}] /\ gen' \in [Locs -> 1..GEN_MAX] /\ conn' \in [Conns -> ConnType]
         /\ link' \in [Conns -> LinkType]
    BY <2>8, Typed
  <2>. QED
    BY <2>9, <2>11, <2>13, <2>14, <2>15, <2>16, <2>17, <2>18, <1>Joined

<1>PostSignalStep. ASSUME RouteInv, UNCHANGED load, NEW w \in Workers, PostSignal(w)
      PROVE  RouteInv'
  <2>. USE <1>PostSignalStep
  <2>1. PICK r : r = wk[w]
    OBVIOUS
  <2>2. r.pc = "signal" /\ r \in ThreadState /\ Serving(w, r) /\ r.signal \in Workers
    BY <2>1, Typed DEF PostSignal, RouteInv, ThreadOK, Serving
  <2>3. PICK x : x = [r EXCEPT !.pc = IF r.msgs = {} THEN AfterBreak(r) ELSE "post"]
    OBVIOUS
  <2>4. r.next \in {"grant", "unlink", "reply", "teardown"}
    BY <2>2 DEF Serving, Stage
  <2>5. x \in ThreadState /\ x.pc \notin {"idle", "deliver", "signal"} /\ x.msgs = r.msgs /\ x.inbox = r.inbox
    <3>1. PICK p : p = IF r.msgs = {} THEN AfterBreak(r) ELSE "post"
      OBVIOUS
    <3>2. p \in {"break", "post", "grant", "unlink", "reply", "teardown"}
      BY <2>4, <3>1, SMTT(30) DEF AfterBreak
    <3>. QED
      BY <2>2, <2>3, <3>1, <3>2, SMTT(30) DEF ThreadState
  <2>6. Serving(w, x)
    BY <2>2, <2>3, <2>4 DEF Serving, Stage, ThreadState, AfterBreak
  <2>7. /\ wk' = [wk EXCEPT ![w] = x] /\ efd' = [efd EXCEPT ![r.signal] = TRUE]
        /\ UNCHANGED <<slot, gen, conn, handles, grants, mbox, armed, cqe, ver, deleted, link, belief, cache>>
    BY <2>1, <2>3 DEF PostSignal, filevars, clientvars
  <2>8. /\ efd' \in [Workers -> BOOLEAN] /\ efd'[r.signal]
        /\ \A v \in Workers : v # r.signal => efd'[v] = efd[v]
    BY <2>2, <2>7, Side DEF SideOK
  <2>9. SideOK' /\ grants' \subseteq grants /\ SamePlaces
    BY <2>7, <2>8, Side DEF SideOK, SamePlaces
  <2>10. wk'[w] = x /\ \A v \in Workers : v # w => wk'[v] = wk[v]
    BY <2>7, Typed
  <2>11. ThreadOK(w)'
    <3>1. Serving(w, x)'
      BY <2>6, <2>7 DEF Serving
    <3>. QED
      BY <2>5, <2>10, <3>1 DEF ThreadOK
  <2>12. wk' \in [Workers -> ThreadState] /\ \A v \in Workers : ThreadOK(v)'
    BY <2>5, <2>7, <2>9, <2>11, <1>ThreadStep
  <2>13. ASSUME NEW v \in Workers PROVE WakeOK(v)'
    <3>1. WakeOK(v)
      BY DEF RouteInv
    <3>2. wk[w].pc = "signal" /\ wk[w].signal = r.signal
      BY <2>1, <2>2
    <3>3. wk'[v].pc = "deliver" <=> wk[v].pc = "deliver"
      BY <2>5, <2>10, <3>2
    <3>4. CASE v = r.signal
      BY <3>1, <3>3, <3>4, <2>7, <2>8 DEF WakeOK
    <3>5. CASE v # r.signal
      BY <3>1, <3>2, <3>3, <3>5, <2>7, <2>8, <2>10 DEF WakeOK
    <3>. QED
      BY <3>4, <3>5
  <2>14. \A v \in Workers : MsgsOK(v)'
    <3>1. x.msgs \subseteq wk[w].msgs /\ x.inbox = wk[w].inbox
      BY <2>1, <2>5
    <3>. QED
      BY <3>1, <2>7, <2>9, <1>ThreadMsgs
  <2>. QED
    BY <2>7, <2>9, <2>12, <2>13, <2>14, <1>Undisturbed

<1>KernelWakeStep. ASSUME RouteInv, UNCHANGED load, NEW w \in Workers, KernelWake(w)
      PROVE  RouteInv'
  <2>. USE <1>KernelWakeStep
  <2>1. /\ efd' = [efd EXCEPT ![w] = FALSE] /\ armed' = [armed EXCEPT ![w] = FALSE] /\ cqe' = [cqe EXCEPT ![w] = TRUE]
        /\ UNCHANGED <<slot, gen, conn, handles, grants, mbox, wk, ver, deleted, link, belief, cache>>
    BY DEF KernelWake, filevars, clientvars
  <2>2. /\ efd' \in [Workers -> BOOLEAN] /\ armed' \in [Workers -> BOOLEAN] /\ cqe' \in [Workers -> BOOLEAN] /\ cqe'[w]
        /\ \A v \in Workers : v # w => efd'[v] = efd[v] /\ armed'[v] = armed[v] /\ cqe'[v] = cqe[v]
    BY <2>1, Side DEF SideOK
  <2>3. SideOK' /\ grants' \subseteq grants /\ SamePlaces
    BY <2>1, <2>2, Side DEF SideOK, SamePlaces
  <2>4. ASSUME NEW v \in Workers PROVE WakeOK(v)'
    <3>1. WakeOK(v)
      BY DEF RouteInv
    <3>. QED
      BY <3>1, <2>1, <2>2 DEF WakeOK
  <2>5. ASSUME NEW v \in Workers PROVE ThreadOK(v)' /\ MsgsOK(v)'
    <3>1. wk'[v] = wk[v] /\ wk'[v].msgs \subseteq wk[v].msgs /\ mbox'[v] = mbox[v] /\ wk'[v].inbox = wk[v].inbox
      BY <2>1
    <3>. QED
      BY <2>3, <2>5, <3>1, <1>SameThread, <1>SameMsgs
  <2>6. wk' \in [Workers -> ThreadState]
    BY <2>1, Typed
  <2>. QED
    BY <2>1, <2>3, <2>4, <2>5, <2>6, <1>Undisturbed

<1>OnWakeStep. ASSUME RouteInv, UNCHANGED load, NEW w \in Workers, OnWake(w)
      PROVE  RouteInv'
  <2>. USE <1>OnWakeStep
  <2>1. PICK q : q = mbox[w]
    OBVIOUS
  <2>2. PICK x : x = [Idle EXCEPT !.pc = "deliver", !.inbox = q]
    OBVIOUS
  <2>3. /\ wk' = [wk EXCEPT ![w] = x] /\ mbox' = [mbox EXCEPT ![w] = <<>>] /\ cqe' = [cqe EXCEPT ![w] = FALSE]
        /\ wk[w].pc = "idle" /\ cqe[w]
        /\ UNCHANGED <<slot, gen, conn, handles, grants, efd, armed, ver, deleted, link, belief, cache>>
    BY <2>1, <2>2 DEF OnWake, filevars, clientvars
  <2>4. q \in Seq(LeaseGrant)
    BY <2>1, Typed
  <2>5. x \in ThreadState /\ x.pc = "deliver" /\ x.inbox = q /\ x.msgs = {}
    BY <2>2, <2>4, IdleType DEF ThreadState, Idle
  <2>6. /\ wk'[w] = x /\ \A v \in Workers : v # w => wk'[v] = wk[v]
        /\ mbox' \in [Workers -> Seq(LeaseGrant)] /\ mbox'[w] = <<>> /\ \A v \in Workers : v # w => mbox'[v] = mbox[v]
        /\ cqe' \in [Workers -> BOOLEAN] /\ \A v \in Workers : v # w => cqe'[v] = cqe[v]
    BY <2>3, Typed, Side, SMTT(30) DEF SideOK
  <2>7. SideOK' /\ grants' \subseteq grants /\ SamePlaces
    BY <2>3, <2>6, Side DEF SideOK, SamePlaces
  <2>8. ThreadOK(w)'
    BY <2>2, <2>5, <2>6 DEF ThreadOK
  <2>9. wk' \in [Workers -> ThreadState] /\ \A v \in Workers : ThreadOK(v)'
    BY <2>3, <2>5, <2>7, <2>8, <1>ThreadStep
  <2>10. ASSUME NEW v \in Workers PROVE WakeOK(v)'
    <3>1. WakeOK(v)
      BY DEF RouteInv
    <3>2. CASE v = w
      BY <3>2, <2>5, <2>6 DEF WakeOK
    <3>3. CASE v # w
      BY <3>1, <3>3, <2>3, <2>6 DEF WakeOK
    <3>. QED
      BY <3>2, <3>3
  <2>11. ASSUME NEW v \in Workers PROVE MsgsOK(v)'
    <3>1. CASE v # w
      <4>1. wk'[v].msgs \subseteq wk[v].msgs /\ mbox'[v] = mbox[v] /\ wk'[v].inbox = wk[v].inbox
        BY <2>6, <2>11, <3>1
      <4>. QED
        BY <2>7, <2>11, <4>1, <1>SameMsgs
    <3>2. CASE v = w
      <4>1. \A k \in 1..Len(q) : Addressed(q[k])
        BY <2>1 DEF RouteInv, MsgsOK
      <4>2. \A y : Addressed(y)' <=> Addressed(y)
        BY <2>3 DEF Addressed
      <4>. QED
        BY <3>2, <4>1, <4>2, <2>5, <2>6, SMTT(30) DEF MsgsOK
    <3>. QED
      BY <3>1, <3>2
  <2>12. \A i \in Conns : PlaceOK(i)' /\ TxOK(i)'
    BY <2>3, <2>7, SamePlace, SameTx
  <2>13. GrantsOK' /\ grants' \subseteq LeaseGrant
    BY <2>7, <1>SameGrants
  <2>14. /\ slot' \in [Locs -> Conns \cup {None}] /\ gen' \in [Locs -> 1..GEN_MAX] /\ conn' \in [Conns -> ConnType]
         /\ link' \in [Conns -> LinkType]
    BY <2>3, Typed
  <2>. QED
    BY <2>6, <2>7, <2>9, <2>10, <2>11, <2>12, <2>13, <2>14, <1>Joined

<1>ArmWakeStep. ASSUME RouteInv, UNCHANGED load, NEW w \in Workers, ArmWake(w)
      PROVE  RouteInv'
  <2>. USE <1>ArmWakeStep
  <2>1. /\ wk' = [wk EXCEPT ![w] = Idle] /\ armed' = [armed EXCEPT ![w] = TRUE] /\ wk[w].pc = "deliver"
        /\ UNCHANGED <<slot, gen, conn, handles, grants, mbox, efd, cqe, ver, deleted, link, belief, cache>>
    BY DEF ArmWake, filevars, clientvars
  <2>2. /\ wk'[w] = Idle /\ \A v \in Workers : v # w => wk'[v] = wk[v]
        /\ armed' \in [Workers -> BOOLEAN] /\ armed'[w] /\ \A v \in Workers : v # w => armed'[v] = armed[v]
    BY <2>1, Typed, Side DEF SideOK
  <2>3. SideOK' /\ grants' \subseteq grants /\ SamePlaces
    BY <2>1, <2>2, Side DEF SideOK, SamePlaces
  <2>4. ThreadOK(w)'
    BY <2>2, SMTT(30) DEF ThreadOK, Idle
  <2>5. PICK x : x = Idle
    OBVIOUS
  <2>6. wk' \in [Workers -> ThreadState] /\ \A v \in Workers : ThreadOK(v)'
    BY <2>1, <2>3, <2>4, <2>5, IdleType, <1>ThreadStep
  <2>7. \A v \in Workers : MsgsOK(v)'
    <3>1. x.msgs \subseteq wk[w].msgs /\ x.inbox = <<>>
      BY <2>5 DEF Idle
    <3>. QED
      BY <3>1, <2>1, <2>3, <2>5, <1>ThreadMsgs
  <2>8. ASSUME NEW v \in Workers PROVE WakeOK(v)'
    <3>1. WakeOK(v)
      BY DEF RouteInv
    <3>2. \A u \in Workers : wk[u].pc = "signal" => wk'[u] = wk[u]
      BY <2>1, <2>2
    <3>3. CASE v = w
      BY <3>1, <3>2, <3>3, <2>1, <2>2 DEF WakeOK
    <3>4. CASE v # w
      BY <3>1, <3>2, <3>4, <2>1, <2>2 DEF WakeOK
    <3>. QED
      BY <3>3, <3>4
  <2>. QED
    BY <2>1, <2>3, <2>6, <2>7, <2>8, <1>Undisturbed

(* The tx side *)
<1>SendDoneStep. ASSUME RouteInv, UNCHANGED load, NEW id \in Conns, SendDone(id)
      PROVE  RouteInv'
  <2>. USE <1>SendDoneStep
  <2>1. PICK d : d = conn[id]
    OBVIOUS
  <2>2. d \in ConnType /\ d.deferred \in Seq(BreakFrame) /\ conn[id].state # "unborn"
    BY <2>1, Typed DEF ConnType, SendDone
  <2>3. PICK l : l = link[id]
    OBVIOUS
  <2>4. PICK m : m = Sent(l, d.deferred)
    OBVIOUS
  <2>12. PICK c : c = conn[id].client
    OBVIOUS
  <2>5. l \in LinkType /\ (~l.up => l.wire = <<>>) /\ Mine(id, c, l.wire) /\ Mine(id, c, d.deferred)
    BY <2>1, <2>3, <2>12, Typed DEF RouteInv, TxOK
  <2>6. m \in LinkType /\ (~m.up => m.wire = <<>>) /\ Mine(id, c, m.wire)
    BY <2>2, <2>4, <2>5, SentFacts
  <2>7. PICK s : s = (d.deferred # <<>>)
    OBVIOUS
  <2>8. /\ conn' = [conn EXCEPT ![id] = [@ EXCEPT !.deferred = <<>>, !.sending = s]]
        /\ link' = [link EXCEPT ![id] = m]
        /\ UNCHANGED <<slot, gen, handles, grants, mbox, efd, armed, cqe, wk, ver, deleted, belief, cache>>
    BY <2>1, <2>3, <2>4, <2>7 DEF SendDone, Flushed, filevars
  <2>9. <<>> \in Seq(BreakFrame) /\ Mine(id, c, <<>>) /\ s \in BOOLEAN
    BY <2>7, SMTT(30) DEF Mine
  <2>10. /\ SamePlaces /\ conn' \in [Conns -> ConnType] /\ link' \in [Conns -> LinkType]
         /\ \A i \in Conns : PlaceOK(i)' /\ TxOK(i)'
    BY <2>2, <2>6, <2>8, <2>9, <2>12, TxStep
  <2>11. SideOK' /\ grants' \subseteq grants
    BY <2>8, Side DEF SideOK
  <2>. QED
    BY <2>8, <2>10, <2>11, <1>TxRest

<1>DeliverBreakStep. ASSUME RouteInv, UNCHANGED load, NEW w \in Workers, DeliverBreak(w)
      PROVE  RouteInv'
  <2>. USE <1>DeliverBreakStep
  <2>1. PICK r : r = wk[w]
    OBVIOUS
  <2>2. r.pc = "deliver" /\ r \in ThreadState /\ r.inbox \in Seq(LeaseGrant) /\ r.inbox # <<>>
    BY <2>1, Typed DEF DeliverBreak, ThreadState
  <2>3. PICK m : m = Head(r.inbox)
    OBVIOUS
  <2>4. \A k \in 1..Len(r.inbox) : Addressed(r.inbox[k])
    BY <2>1 DEF RouteInv, MsgsOK
  <2>5. m \in LeaseGrant /\ Addressed(m) /\ m.loc \in Locs
    <3>1. m = r.inbox[1] /\ 1 \in 1..Len(r.inbox) /\ m \in LeaseGrant
      BY <2>2, <2>3, SMTT(30)
    <3>2. m.loc \in Locs
      BY <3>1 DEF LeaseGrant
    <3>. QED
      BY <3>1, <3>2, <2>4
  <2>6. PICK x : x = [r EXCEPT !.inbox = Tail(@)]
    OBVIOUS
  <2>7. x \in ThreadState /\ x.pc = "deliver" /\ x.inbox = Tail(r.inbox) /\ x.msgs = r.msgs
    <3>1. Tail(r.inbox) \in Seq(LeaseGrant)
      BY <2>2, SMTT(30)
    <3>. QED
      BY <2>2, <2>6, <3>1 DEF ThreadState
  <2>8. /\ wk' = [wk EXCEPT ![w] = x]
        /\ UNCHANGED <<slot, gen, handles, grants, mbox, efd, armed, cqe, ver, deleted, belief, cache>>
    BY <2>1, <2>6 DEF DeliverBreak, filevars
  <2>9. SideOK' /\ grants' \subseteq grants
    BY <2>8, Side DEF SideOK
  <2>10. /\ SamePlaces /\ conn' \in [Conns -> ConnType] /\ link' \in [Conns -> LinkType]
         /\ \A i \in Conns : PlaceOK(i)' /\ TxOK(i)'
    <3>1. CASE Deliverable(m)
      BY <2>1, <2>3, <2>5, <3>1, Delivered
    <3>2. CASE ~Deliverable(m)
      <4>1. UNCHANGED <<conn, link>>
        BY <2>1, <2>3, <3>2 DEF DeliverBreak
      <4>2. SamePlaces
        BY <2>8, <4>1 DEF SamePlaces
      <4>. QED
        BY <2>8, <4>1, <4>2, SamePlace, SameTx, Typed
    <3>. QED
      BY <3>1, <3>2
  <2>11. wk'[w] = x /\ \A v \in Workers : v # w => wk'[v] = wk[v]
    BY <2>8, Typed
  <2>12. ThreadOK(w)'
    <3>1. r = [Idle EXCEPT !.pc = "deliver", !.inbox = r.inbox]
      BY <2>1, <2>2 DEF RouteInv, ThreadOK
    <3>2. x = [Idle EXCEPT !.pc = "deliver", !.inbox = x.inbox]
      BY <3>1, <2>6, <2>7 DEF Idle
    <3>. QED
      BY <3>2, <2>7, <2>11 DEF ThreadOK
  <2>13. wk' \in [Workers -> ThreadState] /\ \A v \in Workers : ThreadOK(v)'
    BY <2>7, <2>8, <2>10, <2>12, <1>ThreadStep
  <2>14. ASSUME NEW v \in Workers PROVE WakeOK(v)'
    <3>1. \A u \in Workers : wk'[u].pc = wk[u].pc /\ (wk[u].pc = "signal" => wk'[u] = wk[u])
      BY <2>1, <2>2, <2>7, <2>11
    <3>2. WakeOK(v)
      BY DEF RouteInv
    <3>. QED
      BY <3>1, <3>2, <2>8 DEF WakeOK
  <2>15. ASSUME NEW v \in Workers PROVE MsgsOK(v)'
    <3>1. CASE v # w
      <4>1. wk'[v].msgs \subseteq wk[v].msgs /\ mbox'[v] = mbox[v] /\ wk'[v].inbox = wk[v].inbox
        BY <2>8, <2>11, <2>15, <3>1
      <4>. QED
        BY <2>10, <2>15, <4>1, <1>SameMsgs
    <3>2. CASE v = w
      <4>1. \A k \in 1..Len(x.inbox) : x.inbox[k] \in LeaseGrant /\ Addressed(x.inbox[k])
        BY <2>2, <2>4, <2>7, SMTT(30)
      <4>2. \A y : y \in LeaseGrant => y.id \in Conns
        BY DEF LeaseGrant
      <4>3. \A k \in 1..Len(x.inbox) : Addressed(x.inbox[k])'
        BY <4>1, <4>2, <2>10, <1>SameAddressed
      <4>4. \A y \in wk[w].msgs : y.id \in Conns /\ Addressed(y)
        BY MsgTypes
      <4>5. \A y \in wk'[w].msgs : Addressed(y)'
        BY <4>4, <2>1, <2>7, <2>10, <2>11, <1>SameAddressed
      <4>6. \A k \in 1..Len(mbox[w]) : mbox[w][k].id \in Conns /\ Addressed(mbox[w][k])
        BY MsgTypes
      <4>7. \A k \in 1..Len(mbox[w])' : Addressed(mbox[w][k])'
        BY <4>6, <2>8, <2>10, <1>SameAddressed
      <4>. QED
        BY <3>2, <4>3, <4>5, <4>7, <2>11 DEF MsgsOK
    <3>. QED
      BY <3>1, <3>2
  <2>16. GrantsOK' /\ grants' \subseteq LeaseGrant
    BY <2>9, <2>10, <1>SameGrants
  <2>17. /\ slot' \in [Locs -> Conns \cup {None}] /\ gen' \in [Locs -> 1..GEN_MAX]
         /\ mbox' \in [Workers -> Seq(LeaseGrant)]
    BY <2>8, Typed
  <2>. QED
    BY <2>9, <2>10, <2>13, <2>14, <2>15, <2>16, <2>17, <1>Joined

(* The client *)
<1>ClientRecvStep. ASSUME RouteInv, UNCHANGED load, NEW id \in Conns, ClientRecv(id)
      PROVE  RouteInv'
  <2>. USE <1>ClientRecvStep
  <2>0. PICK c : c = conn[id].client
    OBVIOUS
  <2>1. PICK l : l = link[id]
    OBVIOUS
  <2>2. l \in LinkType /\ l.up /\ l.wire # <<>> /\ l.wire \in Seq(BreakFrame \cup Response) /\ Mine(id, c, l.wire)
    BY <2>1, <2>0, Typed DEF LinkType, ClientRecv, RouteInv, TxOK
  <2>3. PICK n : n = [l EXCEPT !.wire = Tail(@)]
    OBVIOUS
  <2>4. n \in LinkType /\ n.up /\ n.wire = Tail(l.wire) /\ Mine(id, c, n.wire)
    <3>1. Tail(l.wire) \in Seq(BreakFrame \cup Response) /\ Mine(id, c, Tail(l.wire))
      BY <2>2, <1>MineTail, SMTT(30)
    <3>. QED
      BY <2>2, <2>3, <3>1 DEF LinkType
  <2>5. conn[id].state # "unborn" /\ conn[id].client \in Clients
    BY <2>1, <2>2 DEF RouteInv, TxOK, PlaceOK
  <2>6. /\ link' = [link EXCEPT ![id] = n]
        /\ UNCHANGED <<slot, gen, conn, handles, grants, mbox, efd, armed, cqe, wk, ver, deleted>>
    BY <2>1, <2>3 DEF ClientRecv, servervars, filevars
  <2>7. /\ link' \in [Conns -> LinkType] /\ link'[id] = n /\ \A i \in Conns : i # id => link'[i] = link[i]
    BY <2>4, <2>6, Typed
  <2>8. SamePlaces
    BY <2>6 DEF SamePlaces
  <2>9. \A i \in Conns : TxOK(i)'
    <3>1. TxOK(id)'
      <4>1. TxOK(id)
        BY DEF RouteInv
      <4>. QED
        BY <4>1, <2>0, <2>4, <2>5, <2>6, <2>7 DEF TxOK
    <3>2. \A i \in Conns : i # id => TxOK(i)'
      BY <2>6, <2>7, SameTx
    <3>. QED
      BY <3>1, <3>2
  <2>10. /\ belief' \in [Clients -> [Files -> LeaseStates]]
         /\ cache' \in [Clients -> [Files -> Nat \cup {NoCache}]]
    <3>1. PICK m : m = Head(l.wire)
      OBVIOUS
    <3>3. m \in BreakFrame \cup Response /\ c \in Clients
      BY <2>0, <2>2, <2>5, <3>1, SMTT(30)
    <3>4. CASE m.kind = "create"
      <4>1. m.f \in Files /\ m.granted \in LeaseStates /\ m.ver \in Nat
        BY <3>3, <3>4 DEF BreakFrame, Response
      <4>2. OnCreate(c, m)
        BY <2>1, <3>1, <2>0, <3>4 DEF ClientRecv
      <4>. QED
        BY <3>3, <4>1, <4>2, Side DEF OnCreate, SideOK
    <3>5. CASE m.kind = "read"
      <4>1. m.f \in Files /\ m.ver \in Nat
        BY <3>3, <3>5 DEF BreakFrame, Response
      <4>2. OnRead(c, m)
        BY <2>1, <3>1, <2>0, <3>5 DEF ClientRecv
      <4>. QED
        BY <3>3, <4>1, <4>2, Side DEF OnRead, SideOK
    <3>6. CASE m.kind = "break"
      <4>1. m.f \in Files
        BY <3>3, <3>6 DEF BreakFrame, Response
      <4>2. Forget(c, m.f)
        BY <2>1, <3>1, <2>0, <3>6 DEF ClientRecv
      <4>. QED
        BY <3>3, <4>1, <4>2, <1>ForgetType
    <3>7. CASE m.kind \notin {"create", "read", "break"}
      <4>1. UNCHANGED <<belief, cache>>
        BY <2>1, <3>1, <3>7 DEF ClientRecv
      <4>. QED
        BY <4>1, Side DEF SideOK
    <3>. QED
      BY <3>4, <3>5, <3>6, <3>7
  <2>11. SideOK' /\ grants' \subseteq grants /\ conn' \in [Conns -> ConnType]
    BY <2>6, <2>10, Side, Typed DEF SideOK
  <2>. QED
    BY <2>6, <2>7, <2>8, <2>9, <2>11, SamePlace, <1>TxRest

<1>ClientDownStep. ASSUME RouteInv, UNCHANGED load, NEW id \in Conns, ClientDown(id)
      PROVE  RouteInv'
  <2>. USE <1>ClientDownStep
  <2>1. /\ link[id].up /\ link' = [link EXCEPT ![id] = [up |-> FALSE, wire |-> <<>>]]
        /\ UNCHANGED <<slot, gen, conn, handles, grants, mbox, efd, armed, cqe, wk, ver, deleted>>
    BY DEF ClientDown, servervars, filevars
  <2>2. /\ link' \in [Conns -> LinkType] /\ ~link'[id].up /\ link'[id].wire = <<>>
        /\ \A i \in Conns : i # id => link'[i] = link[i]
    BY <2>1, Typed, SMTT(30) DEF LinkType
  <2>3. SamePlaces
    BY <2>1 DEF SamePlaces
  <2>4. \A i \in Conns : TxOK(i)'
    <3>1. TxOK(id)'
      <4>1. TxOK(id)
        BY DEF RouteInv
      <4>. QED
        BY <4>1, <2>1, <2>2, SMTT(30) DEF TxOK, Mine
    <3>2. \A i \in Conns : i # id => TxOK(i)'
      BY <2>1, <2>2, SameTx
    <3>. QED
      BY <3>1, <3>2
  <2>5. /\ belief' \in [Clients -> [Files -> LeaseStates]]
        /\ cache' \in [Clients -> [Files -> Nat \cup {NoCache}]]
    <3>1. PICK c : c = conn[id].client
      OBVIOUS
    <3>2. \/ UNCHANGED <<belief, cache>>
          \/ /\ belief' = [belief EXCEPT ![c] = [f \in Files |-> "none"]]
             /\ cache' = [cache EXCEPT ![c] = [f \in Files |-> NoCache]]
      BY <3>1 DEF ClientDown
    <3>3. [f \in Files |-> "none"] \in [Files -> LeaseStates] /\ [f \in Files |-> NoCache] \in [Files -> Nat \cup {NoCache}]
      BY DEF LeaseStates
    <3>. QED
      BY <3>2, <3>3, Side DEF SideOK
  <2>6. SideOK' /\ grants' \subseteq grants /\ conn' \in [Conns -> ConnType]
    BY <2>1, <2>5, Side, Typed DEF SideOK
  <2>. QED
    BY <2>1, <2>2, <2>3, <2>4, <2>6, SamePlace, <1>TxRest

(* Connections come and go *)
\* The threads that a step does not run, when it moves no connection that they serve.
<1>OtherThread. ASSUME RouteInv, NEW v \in Workers, wk'[v] = wk[v],
             wk[v].pc \notin {"idle", "deliver"} =>
               /\ conn'[wk[v].id] = conn[wk[v].id] /\ slot'[conn[wk[v].id].loc] = slot[conn[wk[v].id].loc]
      PROVE  ThreadOK(v)'
  <2>. USE <1>OtherThread
  <2>1. ThreadOK(v)
    BY DEF RouteInv
  <2>2. wk[v].pc \notin {"idle", "deliver"} => Serving(v, wk[v])'
    BY <2>1 DEF ThreadOK, Serving
  <2>. QED
    BY <2>1, <2>2 DEF ThreadOK

\* A lease and a message stay addressed while connections that were born keep their places.
<1>OtherMsgs. ASSUME RouteInv, NEW v \in Workers, wk'[v].msgs \subseteq wk[v].msgs, mbox'[v] = mbox[v],
             wk'[v].inbox = wk[v].inbox \/ wk'[v].inbox = <<>>,
             \A i \in Conns : conn[i].state # "unborn" =>
               /\ conn'[i].state # "unborn" /\ conn'[i].loc = conn[i].loc /\ conn'[i].gen = conn[i].gen
               /\ conn'[i].client = conn[i].client
      PROVE  MsgsOK(v)' /\ \A m \in LeaseGrant : Addressed(m) => Addressed(m)'
  <2>. USE <1>OtherMsgs
  <2>1. \A m \in LeaseGrant : Addressed(m) => Addressed(m)'
    BY DEF Addressed, LeaseGrant
  <2>2. /\ \A m \in wk[v].msgs : m \in LeaseGrant /\ Addressed(m)
        /\ \A k \in 1..Len(mbox[v]) : mbox[v][k] \in LeaseGrant /\ Addressed(mbox[v][k])
        /\ \A k \in 1..Len(wk[v].inbox) : wk[v].inbox[k] \in LeaseGrant /\ Addressed(wk[v].inbox[k])
    BY MsgTypes
  <2>3. \A k : ~(k \in 1..Len(<<>>))
    BY SMTT(30)
  <2>. QED
    BY <2>1, <2>2, <2>3 DEF MsgsOK

<1>AcceptStep. ASSUME RouteInv, UNCHANGED load, NEW l \in Locs, NEW id \in Conns, NEW s \in Conns, NEW c \in Clients,
             Accept(l, id, c, s)
      PROVE  RouteInv'
  <2>. USE <1>AcceptStep
  <2>1. /\ slot[l] = None /\ (gen[l] = 1 => \A i \in Conns : conn[i].loc # l) /\ conn[id].state = "unborn"
        /\ slot' = [slot EXCEPT ![l] = id] /\ link' = [link EXCEPT ![id].up = TRUE]
        /\ conn' = [conn EXCEPT ![id] = [@ EXCEPT !.client = c, !.sess = s, !.loc = l, !.gen = gen[l], !.state = "open"]]
        /\ UNCHANGED <<gen, handles, grants, mbox, efd, armed, cqe, wk, ver, deleted, belief, cache>>
    BY DEF Accept, filevars
  <2>2. gen[l] \in 1..GEN_MAX /\ None \notin Conns /\ id # None
    BY Typed, LeasesAssumption
  <2>3. /\ slot' \in [Locs -> Conns \cup {None}] /\ slot'[l] = id /\ \A k \in Locs : k # l => slot'[k] = slot[k]
    BY <2>1, Typed
  <2>4. /\ conn' \in [Conns -> ConnType] /\ \A i \in Conns : i # id => conn'[i] = conn[i]
        /\ conn'[id] = [conn[id] EXCEPT !.client = c, !.sess = s, !.loc = l, !.gen = gen[l], !.state = "open"]
    <3>1. PICK x : x = [conn[id] EXCEPT !.client = c, !.sess = s, !.loc = l, !.gen = gen[l], !.state = "open"]
      OBVIOUS
    <3>2. c \in Keys /\ gen[l] \in 0..GEN_MAX /\ "open" \in States
      BY <2>2, SMTT(30) DEF Keys, States
    <3>3. x \in ConnType
      BY <3>1, <3>2, Typed DEF ConnType
    <3>4. conn' = [conn EXCEPT ![id] = x]
      BY <2>1, <3>1
    <3>. QED
      BY <3>1, <3>3, <3>4, Typed
  <2>5. /\ conn'[id].client = c /\ conn'[id].sess = s /\ conn'[id].loc = l /\ conn'[id].gen = gen[l]
        /\ conn'[id].state = "open" /\ conn'[id].deferred = conn[id].deferred /\ conn'[id].sending = conn[id].sending
    BY <2>4, Typed, SMTT(30) DEF ConnType
  <2>6. /\ link' \in [Conns -> LinkType] /\ link'[id].up /\ link'[id].wire = link[id].wire
        /\ \A i \in Conns : i # id => link'[i] = link[i]
    BY <2>1, Typed DEF LinkType
  <2>7. PlaceOK(id)'
    <3>1. \A k \in Locs : slot[k] # id
      BY <2>1 DEF RouteInv, PlaceOK
    <3>. QED
      BY <3>1, <2>1, <2>2, <2>3, <2>5 DEF PlaceOK
  <2>8. ASSUME NEW i \in Conns, i # id PROVE PlaceOK(i)'
    <3>1. PlaceOK(i) /\ conn'[i] = conn[i] /\ i # None
      BY <2>2, <2>4, <2>8 DEF RouteInv
    <3>2. conn[i].loc = l => conn[i].gen < gen[l]
      BY <3>1, <2>1, <2>8 DEF PlaceOK
    <3>3. conn[i].state \in {"open", "closing"} => conn[i].loc # l /\ conn[i].loc \in Locs
      BY <3>1, <2>1 DEF PlaceOK
    <3>. QED
      BY <3>1, <3>2, <3>3, <2>1, <2>3, <2>8, SMTT(30) DEF PlaceOK
  <2>9. ASSUME NEW i \in Conns PROVE TxOK(i)'
    <3>1. TxOK(i)
      BY <2>9 DEF RouteInv
    <3>2. CASE i = id
      BY <3>1, <3>2, <2>1, <2>5, <2>6, SMTT(30) DEF TxOK, Mine
    <3>3. CASE i # id
      BY <3>3, <2>4, <2>6, <2>9, SameTx
    <3>. QED
      BY <3>2, <3>3
  <2>10. /\ SideOK' /\ gen' \in [Locs -> 1..GEN_MAX] /\ grants' \subseteq LeaseGrant
         /\ mbox' \in [Workers -> Seq(LeaseGrant)] /\ wk' \in [Workers -> ThreadState]
    BY <2>1, Side, Typed DEF SideOK
  <2>11. \A i \in Conns : conn[i].state # "unborn" =>
             /\ conn'[i].state # "unborn" /\ conn'[i].loc = conn[i].loc /\ conn'[i].gen = conn[i].gen
             /\ conn'[i].client = conn[i].client
    BY <2>1, <2>4
  <2>12. ASSUME NEW v \in Workers PROVE ThreadOK(v)' /\ MsgsOK(v)' /\ WakeOK(v)'
    <3>1. wk'[v] = wk[v] /\ wk'[v].msgs \subseteq wk[v].msgs /\ mbox'[v] = mbox[v] /\ wk'[v].inbox = wk[v].inbox
      BY <2>1
    <3>2. WakeOK(v)'
      BY <2>1, <2>12 DEF RouteInv, WakeOK
    <3>3. ASSUME wk[v].pc \notin {"idle", "deliver"}
          PROVE conn'[wk[v].id] = conn[wk[v].id] /\ slot'[conn[wk[v].id].loc] = slot[conn[wk[v].id].loc]
      <4>1. wk[v].id \in Conns /\ conn[wk[v].id].loc \in Locs /\ slot[conn[wk[v].id].loc] = wk[v].id
        BY <2>12, <3>3 DEF RouteInv, ThreadOK, Serving
      <4>2. conn[wk[v].id].state # "unborn"
        BY <4>1 DEF RouteInv, PlaceOK
      <4>. QED
        BY <4>1, <4>2, <2>1, <2>2, <2>3, <2>4
    <3>4. ThreadOK(v)'
      BY <2>12, <3>1, <3>3, <1>OtherThread
    <3>. QED
      BY <2>11, <2>12, <3>1, <3>2, <3>4, <1>OtherMsgs
  <2>13. GrantsOK'
    <3>1. ASSUME NEW g \in grants PROVE Addressed(g)' /\ slot'[g.loc] = g.id /\ gen'[g.loc] = g.gen
      <4>1. Addressed(g) /\ slot[g.loc] = g.id /\ gen[g.loc] = g.gen
        BY <3>1 DEF RouteInv, GrantsOK
      <4>2. g \in LeaseGrant /\ g.loc \in Locs /\ g.id \in Conns
        BY <3>1, Typed DEF LeaseGrant
      <4>3. Addressed(g)'
        BY <4>1, <4>2, <2>11 DEF Addressed
      <4>. QED
        BY <4>1, <4>2, <4>3, <2>1, <2>2, <2>3
    <3>. QED
      BY <3>1, <2>1 DEF GrantsOK
  <2>. QED
    BY <2>3, <2>4, <2>6, <2>7, <2>8, <2>9, <2>10, <2>12, <2>13, <1>Joined

\* A connection that no thread serves changes its state.
<1>StateStep. ASSUME RouteInv, NEW id \in Conns, NEW t \in {"closing", "gone"}, conn[id].state \in {"open", "closing"},
             conn' = [conn EXCEPT ![id].state = t], UNCHANGED <<slot, gen, grants, mbox, link>>
      PROVE  /\ conn' \in [Conns -> ConnType] /\ \A i \in Conns : PlaceOK(i)' /\ TxOK(i)'
             /\ GrantsOK' /\ \A i \in Conns : i # id => conn'[i] = conn[i]
             /\ conn'[id].state = t /\ conn'[id].sess = conn[id].sess
             /\ \A i \in Conns : conn[i].state # "unborn" =>
                  /\ conn'[i].state # "unborn" /\ conn'[i].loc = conn[i].loc /\ conn'[i].gen = conn[i].gen
                  /\ conn'[i].client = conn[i].client
  <2>. USE <1>StateStep
  <2>1. /\ conn' \in [Conns -> ConnType] /\ \A i \in Conns : i # id => conn'[i] = conn[i]
        /\ conn'[id] = [conn[id] EXCEPT !.state = t]
    <3>1. conn \in [Conns -> ConnType] /\ t \in States
      BY Typed DEF States
    <3>2. conn'[id] = [conn[id] EXCEPT !.state = t] /\ \A i \in Conns : i # id => conn'[i] = conn[i]
      BY <3>1
    <3>3. [conn[id] EXCEPT !.state = t] \in ConnType
      BY <3>1, SMTT(30) DEF ConnType
    <3>. QED
      BY <3>1, <3>2, <3>3
  <2>2. /\ conn'[id].client = conn[id].client /\ conn'[id].sess = conn[id].sess /\ conn'[id].loc = conn[id].loc
        /\ conn'[id].gen = conn[id].gen /\ conn'[id].state = t /\ conn'[id].deferred = conn[id].deferred
        /\ conn'[id].sending = conn[id].sending
    BY <2>1, Typed DEF ConnType
  <2>3. ASSUME NEW i \in Conns PROVE PlaceOK(i)' /\ TxOK(i)'
    <3>1. PlaceOK(i) /\ TxOK(i)
      BY <2>3 DEF RouteInv
    <3>2. CASE i = id
      BY <3>1, <3>2, <2>2, SMTT(30) DEF PlaceOK, TxOK, Mine
    <3>3. CASE i # id
      BY <3>1, <3>3, <2>1, <2>3, SameTx DEF PlaceOK
    <3>. QED
      BY <3>2, <3>3
  <2>4. \A i \in Conns : conn[i].state # "unborn" =>
                /\ conn'[i].state # "unborn" /\ conn'[i].loc = conn[i].loc /\ conn'[i].gen = conn[i].gen
                /\ conn'[i].client = conn[i].client
    BY <2>1, <2>2
  <2>5. GrantsOK'
    <3>1. \A g \in grants : g.id \in Conns
      BY Typed DEF LeaseGrant
    <3>. QED
      BY <3>1, <2>4, SMTT(30) DEF RouteInv, GrantsOK, Addressed
  <2>. QED
    BY <2>1, <2>2, <2>3, <2>4, <2>5

<1>Unserved. ASSUME RouteInv, NEW v \in Workers, wk[v].pc \notin {"idle", "deliver"}, NEW id \in Conns,
             wk[conn[id].loc[1]].pc = "idle"
      PROVE  wk[v].id \in Conns /\ wk[v].id # id
  <2>. USE <1>Unserved
  <2>1. conn[wk[v].id].loc[1] = v /\ wk[v].id \in Conns
    BY DEF RouteInv, ThreadOK, Serving
  <2>. QED
    BY <2>1

<1>CloseConnStep. ASSUME RouteInv, UNCHANGED load, NEW id \in Conns, CloseConn(id)
      PROVE  RouteInv'
  <2>. USE <1>CloseConnStep
  <2>1. /\ conn[id].state = "open" /\ wk[conn[id].loc[1]].pc = "idle" /\ conn' = [conn EXCEPT ![id].state = "closing"]
        /\ UNCHANGED <<slot, gen, handles, grants, mbox, efd, armed, cqe, wk, ver, deleted, link, belief, cache>>
    BY DEF CloseConn, filevars, clientvars
  <2>2. /\ conn' \in [Conns -> ConnType] /\ \A i \in Conns : PlaceOK(i)' /\ TxOK(i)'
        /\ GrantsOK' /\ \A i \in Conns : i # id => conn'[i] = conn[i]
        /\ \A i \in Conns : conn[i].state # "unborn" =>
             /\ conn'[i].state # "unborn" /\ conn'[i].loc = conn[i].loc /\ conn'[i].gen = conn[i].gen
             /\ conn'[i].client = conn[i].client
    <3>1. "closing" \in {"closing", "gone"} /\ conn[id].state \in {"open", "closing"}
      BY <2>1
    <3>. QED
      BY <3>1, <2>1, <1>StateStep
  <2>3. ASSUME NEW v \in Workers PROVE ThreadOK(v)' /\ MsgsOK(v)' /\ WakeOK(v)'
    <3>1. wk'[v] = wk[v] /\ wk'[v].msgs \subseteq wk[v].msgs /\ mbox'[v] = mbox[v] /\ wk'[v].inbox = wk[v].inbox
      BY <2>1
    <3>2. WakeOK(v)'
      BY <2>1, <2>3 DEF RouteInv, WakeOK
    <3>3. wk[v].pc \notin {"idle", "deliver"} =>
            conn'[wk[v].id] = conn[wk[v].id] /\ slot'[conn[wk[v].id].loc] = slot[conn[wk[v].id].loc]
      <4>1. wk[v].pc \notin {"idle", "deliver"} => wk[v].id \in Conns /\ wk[v].id # id
        BY <2>1, <2>3, <1>Unserved
      <4>. QED
        BY <4>1, <2>1, <2>2
    <3>4. ThreadOK(v)'
      BY <2>3, <3>1, <3>3, <1>OtherThread
    <3>. QED
      BY <2>2, <2>3, <3>1, <3>2, <3>4, <1>OtherMsgs
  <2>4. /\ SideOK' /\ slot' \in [Locs -> Conns \cup {None}] /\ gen' \in [Locs -> 1..GEN_MAX] /\ grants' \subseteq LeaseGrant
        /\ mbox' \in [Workers -> Seq(LeaseGrant)] /\ wk' \in [Workers -> ThreadState] /\ link' \in [Conns -> LinkType]
    BY <2>1, Side, Typed DEF SideOK
  <2>. QED
    BY <2>2, <2>3, <2>4, <1>Joined

<1>FinalizeCloseStep. ASSUME RouteInv, UNCHANGED load, NEW w \in Workers, NEW id \in Conns, FinalizeClose(w, id)
      PROVE  RouteInv'
  <2>. USE <1>FinalizeCloseStep
  <2>1. PICK rest : rest = IF \A i \in Conns \ {id} : conn[i].sess = conn[id].sess => conn[i].state \notin {"open", "closing"}
                           THEN handles[conn[id].sess] ELSE {}
    OBVIOUS
  <2>2. PICK x : x = [Breaking(id, <<>>, None, "teardown", None, None)
                        EXCEPT !.pc = "teardown", !.sess = None, !.rest = rest]
    OBVIOUS
  <2>3. /\ conn[id].state = "closing" /\ conn[id].loc[1] = w /\ wk[w].pc = "idle"
        /\ wk' = [wk EXCEPT ![w] = x] /\ conn' = [conn EXCEPT ![id].state = "gone"]
        /\ UNCHANGED <<slot, gen, grants, mbox, efd, armed, cqe, ver, deleted, link, belief, cache>>
    BY <2>1, <2>2 DEF FinalizeClose, filevars, clientvars
  <2>4. conn[id].sess \in Conns /\ conn[id].loc \in Locs /\ slot[conn[id].loc] = id
    BY <2>3 DEF RouteInv, PlaceOK
  <2>5. rest \subseteq Handle
    BY <2>1, <2>4, Typed
  <2>6. x = [pc |-> "teardown", id |-> id, sess |-> None, todo |-> <<>>, except |-> None, msgs |-> {}, signal |-> None,
             next |-> "teardown", h |-> None, resp |-> None, rest |-> rest, inbox |-> <<>>]
    BY <2>2 DEF Breaking, Idle
  <2>7. x \in ThreadState
    BY <2>5, <2>6, SMTT(30) DEF ThreadState, Keys
  <2>8. /\ conn' \in [Conns -> ConnType] /\ \A i \in Conns : PlaceOK(i)' /\ TxOK(i)'
        /\ GrantsOK' /\ \A i \in Conns : i # id => conn'[i] = conn[i]
        /\ conn'[id].state = "gone"
        /\ \A i \in Conns : conn[i].state # "unborn" =>
             /\ conn'[i].state # "unborn" /\ conn'[i].loc = conn[i].loc /\ conn'[i].gen = conn[i].gen
             /\ conn'[i].client = conn[i].client
    <3>1. "gone" \in {"closing", "gone"} /\ conn[id].state \in {"open", "closing"}
      BY <2>3
    <3>. QED
      BY <3>1, <2>3, <1>StateStep
  <2>9. wk' \in [Workers -> ThreadState] /\ wk'[w] = x /\ \A v \in Workers : v # w => wk'[v] = wk[v]
    BY <2>3, <2>7, Typed
  <2>10. ThreadOK(w)'
    <3>1. conn'[id].loc = conn[id].loc
      BY <2>3, <2>8
    <3>2. Serving(w, x)'
      BY <3>1, <2>3, <2>4, <2>6, <2>8 DEF Serving, Stage
    <3>. QED
      BY <3>2, <2>6, <2>9, SMTT(30) DEF ThreadOK
  <2>11. ASSUME NEW v \in Workers, v # w PROVE ThreadOK(v)'
    <3>1. wk[v].pc \notin {"idle", "deliver"} =>
            conn'[wk[v].id] = conn[wk[v].id] /\ slot'[conn[wk[v].id].loc] = slot[conn[wk[v].id].loc]
      <4>1. wk[v].pc \notin {"idle", "deliver"} => wk[v].id \in Conns /\ wk[v].id # id
        BY <2>3, <2>11, <1>Unserved
      <4>. QED
        BY <4>1, <2>3, <2>8
    <3>. QED
      BY <2>9, <2>11, <3>1, <1>OtherThread
  <2>12. ASSUME NEW v \in Workers PROVE MsgsOK(v)'
    <3>1. wk'[v].msgs \subseteq wk[v].msgs /\ mbox'[v] = mbox[v] /\ (wk'[v].inbox = wk[v].inbox \/ wk'[v].inbox = <<>>)
      BY <2>3, <2>6, <2>9
    <3>. QED
      BY <2>8, <2>12, <3>1, <1>OtherMsgs
  <2>13. \A v \in Workers : WakeOK(v)'
    BY <2>3, <1>SameWake
  <2>14. handles' \in [Conns -> SUBSET Handle]
    BY <2>4, Typed DEF FinalizeClose
  <2>15. /\ SideOK' /\ slot' \in [Locs -> Conns \cup {None}] /\ gen' \in [Locs -> 1..GEN_MAX] /\ grants' \subseteq LeaseGrant
         /\ mbox' \in [Workers -> Seq(LeaseGrant)] /\ link' \in [Conns -> LinkType]
    BY <2>3, <2>14, Side, Typed DEF SideOK
  <2>. QED
    BY <2>8, <2>9, <2>10, <2>11, <2>12, <2>13, <2>15, <1>Joined

<1>ReleaseConnStep. ASSUME RouteInv, UNCHANGED load, NEW w \in Workers, ReleaseConn(w)
      PROVE  RouteInv'
  <2>. USE <1>ReleaseConnStep
  <2>1. PICK r : r = wk[w]
    OBVIOUS
  <2>2. r.pc = "teardown" /\ r \in ThreadState /\ Serving(w, r)
    BY <2>1, Typed DEF ReleaseConn, RouteInv, ThreadOK
  <2>3. PICK id : id = r.id
    OBVIOUS
  <2>4. id \in Conns /\ conn[id].state = "gone" /\ conn[id].loc \in Locs /\ conn[id].loc[1] = w /\ slot[conn[id].loc] = id
    BY <2>2, <2>3 DEF Serving, Stage
  <2>5. PICK l : l = conn[id].loc
    OBVIOUS
  <2>6. /\ grants' = WithoutConn(l, gen[l]) /\ gen' = [gen EXCEPT ![l] = NextGen(@)] /\ slot' = [slot EXCEPT ![l] = None]
        /\ wk' = [wk EXCEPT ![w] = Idle]
        /\ UNCHANGED <<conn, handles, mbox, efd, armed, cqe, ver, deleted, link, belief, cache>>
    BY <2>1, <2>3, <2>5 DEF ReleaseConn, filevars, clientvars
  <2>7. PICK n : n = NextGen(gen[l])
    OBVIOUS
  <2>8. gen[l] \in 1..GEN_MAX /\ n \in 1..GEN_MAX /\ (n > gen[l] \/ n = 1) /\ None \notin Conns
    BY <2>4, <2>5, <2>7, Typed, LeasesAssumption, SMTT(30) DEF NextGen
  <2>9. /\ slot' \in [Locs -> Conns \cup {None}] /\ slot'[l] = None /\ \A k \in Locs : k # l => slot'[k] = slot[k]
        /\ gen' \in [Locs -> 1..GEN_MAX] /\ gen'[l] = n /\ \A k \in Locs : k # l => gen'[k] = gen[k]
    BY <2>4, <2>5, <2>6, <2>7, <2>8, Typed
  <2>10. ASSUME NEW i \in Conns PROVE PlaceOK(i)'
    <3>1. PlaceOK(i) /\ i # None
      BY <2>8, <2>10 DEF RouteInv
    <3>2. conn[i].loc = l => conn[i].gen <= gen[l] /\ conn[i].gen \in Nat
      <4>1. conn[i].gen \in Nat
        BY <2>10, Typed, SMTT(30) DEF ConnType
      <4>. QED
        BY <4>1, <3>1, <2>4, <2>5, <2>8, SMTT(30) DEF PlaceOK
    <3>3. conn[i].state \in {"open", "closing"} => conn[i].loc # l /\ conn[i].loc \in Locs
      BY <3>1, <2>4, <2>5 DEF PlaceOK
    <3>4. \A k \in Locs : slot'[k] = i => k # l /\ slot[k] = i
      BY <3>1, <2>9
    <3>5. conn[i].loc = l => conn[i].gen < n \/ n = 1
      BY <3>2, <2>8, SMTT(30)
    <3>. QED
      BY <3>1, <3>3, <3>4, <3>5, <2>6, <2>9 DEF PlaceOK
  <2>11. ASSUME NEW i \in Conns PROVE TxOK(i)'
    BY <2>6, <2>11 DEF RouteInv, TxOK, Mine
  <2>12. \A i \in Conns : conn[i].state # "unborn" =>
             /\ conn'[i].state # "unborn" /\ conn'[i].loc = conn[i].loc /\ conn'[i].gen = conn[i].gen
             /\ conn'[i].client = conn[i].client
    BY <2>6
  <2>13. wk' \in [Workers -> ThreadState] /\ wk'[w] = Idle /\ \A v \in Workers : v # w => wk'[v] = wk[v]
    BY <2>6, IdleType, Typed
  <2>14. ThreadOK(w)'
    BY <2>13, SMTT(30) DEF ThreadOK, Idle
  <2>15. ASSUME NEW v \in Workers, v # w PROVE ThreadOK(v)'
    <3>1. wk[v].pc \notin {"idle", "deliver"} =>
            conn'[wk[v].id] = conn[wk[v].id] /\ slot'[conn[wk[v].id].loc] = slot[conn[wk[v].id].loc]
      <4>1. wk[v].pc \notin {"idle", "deliver"} => conn[wk[v].id].loc \in Locs /\ conn[wk[v].id].loc[1] = v
        BY <2>15 DEF RouteInv, ThreadOK, Serving
      <4>. QED
        BY <4>1, <2>4, <2>5, <2>6, <2>9, <2>15
    <3>. QED
      BY <2>13, <2>15, <3>1, <1>OtherThread
  <2>16. ASSUME NEW v \in Workers PROVE MsgsOK(v)'
    <3>1. wk'[v].msgs \subseteq wk[v].msgs /\ mbox'[v] = mbox[v] /\ (wk'[v].inbox = wk[v].inbox \/ wk'[v].inbox = <<>>)
      BY <2>6, <2>13 DEF Idle
    <3>. QED
      BY <2>12, <2>16, <3>1, <1>OtherMsgs
  <2>17. \A v \in Workers : WakeOK(v)'
    <3>1. PICK x : x = Idle
      OBVIOUS
    <3>. QED
      BY <3>1, <2>1, <2>2, <2>6, <1>SameWake
  <2>18. GrantsOK' /\ grants' \subseteq LeaseGrant
    <3>1. grants' \subseteq grants /\ \A g \in grants' : ~(g.loc = l /\ g.gen = gen[l])
      BY <2>6 DEF WithoutConn
    <3>2. ASSUME NEW g \in grants' PROVE Addressed(g)' /\ slot'[g.loc] = g.id /\ gen'[g.loc] = g.gen
      <4>1. Addressed(g) /\ slot[g.loc] = g.id /\ gen[g.loc] = g.gen
        BY <3>1, <3>2 DEF RouteInv, GrantsOK
      <4>2. g.loc \in Locs /\ g.id \in Conns
        BY <3>1, <3>2, Typed DEF LeaseGrant
      <4>3. g.loc # l
        BY <3>1, <3>2, <4>1
      <4>. QED
        BY <4>1, <4>2, <4>3, <2>6, <2>9 DEF Addressed
    <3>. QED
      BY <3>1, <3>2, Typed DEF GrantsOK
  <2>19. /\ SideOK' /\ conn' \in [Conns -> ConnType]
         /\ mbox' \in [Workers -> Seq(LeaseGrant)] /\ link' \in [Conns -> LinkType]
    BY <2>6, Side, Typed DEF SideOK
  <2>. QED
    BY <2>9, <2>10, <2>11, <2>13, <2>14, <2>15, <2>16, <2>17, <2>18, <2>19, <1>Joined

(* Together *)
<1>RequestStep. ASSUME RouteInv, UNCHANGED load, NEW w \in Workers, NEW id \in Conns, Request(w, id)
      PROVE  RouteInv'
  <2>. USE <1>RequestStep
  <2>1. load.files \subseteq Files /\ load.reqs \subseteq LeaseStates
    BY Side, LeasesAssumption DEF SideOK, LeaseStates
  <2>2. \A op : Options(op) \subseteq BOOLEAN
    BY DEF Options
  <2>3. ASSUME NEW f \in load.files, NEW want \in load.reqs,
               NEW overwrite \in Options("overwrite"), NEW doc \in Options("delete_on_close"),
               CreateOpen(w, id, f, want, overwrite, doc)
        PROVE RouteInv'
    BY <2>1, <2>2, <2>3, <1>CreateOpenStep, SMTT(30)
  <2>4. ASSUME NEW h \in HandlesOf(id), Read(w, id, h) \/ Write(w, id, h) \/ Close(w, id, h)
        PROVE RouteInv'
    BY <2>4, <1>ReadStep, <1>WriteStep, <1>CloseStep
  <2>5. ASSUME NEW h \in HandlesOf(id), NEW g \in load.files, Rename(w, id, h, g)
        PROVE RouteInv'
    BY <2>1, <2>5, <1>RenameStep
  <2>6. ASSUME NEW h \in HandlesOf(id), NEW flag \in BOOLEAN, SetDisposition(w, id, h, flag)
        PROVE RouteInv'
    BY <2>6, <1>SetDispositionStep
  <2>. QED
    BY <2>3, <2>4, <2>5, <2>6 DEF Request

<1>ContinueStep. ASSUME RouteInv, UNCHANGED load, NEW w \in Workers, Continue(w)
      PROVE  RouteInv'
  BY <1>ContinueStep, <1>GrantStep, <1>UnlinkStep, <1>RespondStep, <1>BreakConflictsStep, <1>PostSignalStep, <1>PostPushStep, <1>DeliverBreakStep,
     <1>ArmWakeStep, <1>ReleaseConnStep, <1>TeardownHandleStep DEF Continue

<1>IdleStep. ASSUME RouteInv, UNCHANGED allvars
      PROVE  RouteInv'
  <2>. USE <1>IdleStep
  <2>1. /\ UNCHANGED <<load, slot, gen, conn, handles, grants, mbox, efd, armed, cqe, wk>>
        /\ UNCHANGED <<ver, deleted, link, belief, cache>>
    BY DEF allvars, vars, servervars, filevars, clientvars
  <2>2. SideOK' /\ grants' \subseteq grants /\ conn' \in [Conns -> ConnType] /\ link' \in [Conns -> LinkType]
    BY <2>1, Side, Typed DEF SideOK
  <2>3. SamePlaces
    BY <2>1 DEF SamePlaces
  <2>4. \A i \in Conns : PlaceOK(i)' /\ TxOK(i)'
    BY <2>1, <2>3, SamePlace, SameTx
  <2>. QED
    BY <2>1, <2>2, <2>3, <2>4, <1>TxRest

<1>1. CASE UNCHANGED allvars
  BY <1>1, <1>IdleStep
<1>2. ASSUME UNCHANGED load, NEW w \in Workers, NEW id \in Conns, Request(w, id) \/ FinalizeClose(w, id)
      PROVE RouteInv'
  BY <1>2, <1>RequestStep, <1>FinalizeCloseStep
<1>3. ASSUME UNCHANGED load, NEW w \in Workers, Continue(w) \/ KernelWake(w) \/ OnWake(w)
      PROVE RouteInv'
  BY <1>3, <1>ContinueStep, <1>KernelWakeStep, <1>OnWakeStep
<1>4. ASSUME UNCHANGED load, NEW id \in Conns, SendDone(id) \/ CloseConn(id) \/ ClientRecv(id) \/ ClientDown(id)
      PROVE RouteInv'
  BY <1>4, <1>SendDoneStep, <1>CloseConnStep, <1>ClientRecvStep, <1>ClientDownStep
<1>5. ASSUME UNCHANGED load, NEW l \in Locs, NEW id \in Conns, NEW s \in Conns, NEW c \in Clients, Accept(l, id, c, s)
      PROVE RouteInv'
  BY <1>5, <1>AcceptStep
<1>. QED
  BY <1>1, <1>2, <1>3, <1>4, <1>5 DEF Next

LEMMA RouteInit ==
  ASSUME Init
  PROVE  RouteInv
<1>1. TypeOK
  <2>1. load \in Workloads /\ slot \in [Locs -> Conns \cup {None}] /\ gen \in [Locs -> 1..GEN_MAX]
    BY LeasesAssumption, SMTT(30) DEF Init
  <2>2. conn \in [Conns -> [state : States, client : Keys, sess : Conns \cup {None}, loc : Locs \cup {None},
                            gen : 0..GEN_MAX, deferred : Seq(BreakFrame), sending : BOOLEAN]]
    BY LeasesAssumption, SMTT(30) DEF Init, States, Keys
  <2>3. handles \in [Conns -> SUBSET Handle] /\ grants \subseteq LeaseGrant /\ mbox \in [Workers -> Seq(LeaseGrant)]
    BY SMTT(30) DEF Init
  <2>4. /\ efd \in [Workers -> BOOLEAN] /\ armed \in [Workers -> BOOLEAN] /\ cqe \in [Workers -> BOOLEAN]
        /\ wk \in [Workers -> ThreadState]
    BY IdleType DEF Init
  <2>5. ver \in [Files -> [Clients -> Nat]] /\ deleted \in [Files -> BOOLEAN]
    BY DEF Init
  <2>6. link \in [Conns -> [up : BOOLEAN, wire : Seq(BreakFrame \cup Response)]]
    BY SMTT(30) DEF Init
  <2>7. belief \in [Clients -> [Files -> LeaseStates]] /\ cache \in [Clients -> [Files -> Nat \cup {NoCache}]]
    BY DEF Init, LeaseStates, NoCache
  <2>. QED
    BY <2>1, <2>2, <2>3, <2>4, <2>5, <2>6, <2>7 DEF TypeOK
<1>2. GrantsOK
  BY DEF Init, GrantsOK
<1>3. \A i \in Conns : PlaceOK(i) /\ TxOK(i)
  <2>1. ASSUME NEW i \in Conns PROVE PlaceOK(i)
    <3>1. conn[i].state = "unborn" /\ conn[i].client = None /\ conn[i].sess = None /\ conn[i].loc = None /\ conn[i].gen = 0
      BY DEF Init
    <3>2. \A l \in Locs : slot[l] = None /\ gen[l] = 1
      BY DEF Init
    <3>. QED
      BY <3>1, <3>2, LeasesAssumption DEF PlaceOK
  <2>2. ASSUME NEW i \in Conns PROVE TxOK(i)
    BY SMTT(30) DEF Init, TxOK, Mine
  <2>. QED
    BY <2>1, <2>2
<1>4. \A w \in Workers : ThreadOK(w) /\ MsgsOK(w) /\ WakeOK(w)
  BY SMTT(30) DEF Init, ThreadOK, MsgsOK, WakeOK, Idle
<1>. QED
  BY <1>1, <1>2, <1>3, <1>4 DEF RouteInv

\* RouteInv holds in every reachable state.
LEMMA RouteHolds == Spec => []RouteInv
<1>1. Init => RouteInv
  BY RouteInit
<1>2. RouteInv /\ [Next /\ UNCHANGED load]_allvars => RouteInv'
  BY RouteStep
<1>. QED
  BY <1>1, <1>2, PTL DEF Spec

\* The lease table never names a connection that is gone: teardown (end_session, then
\* release_conn) takes every grant of a connection before its slot is used again.
THEOREM GrantsAreLive == Spec => []NoDeadGrant
<1>1. RouteInv => NoDeadGrant
  BY DEF RouteInv, GrantsOK, NoDeadGrant
<1>. QED
  BY <1>1, RouteHolds, PTL

\* deliver_break's generation test suffices: a break is queued on, and sent by, only the
\* connection its lease was granted on, however slots were recycled while it waited.
THEOREM BreaksReachHolders == Spec => []BreakRouted
<1>1. RouteInv => BreakRouted
  BY DEF RouteInv, TxOK, Mine, BreakRouted
<1>. QED
  BY <1>1, RouteHolds, PTL

\* Mailbox::post and on_wake together lose no wake-up: while a mailbox has a message, the
\* eventfd write, its completion or on_wake's drain is still to come.
THEOREM WakesArrive == Spec => []NoLostWake
<1>1. RouteInv => NoLostWake
  BY DEF RouteInv, WakeOK, NoLostWake
<1>. QED
  BY <1>1, RouteHolds, PTL

\* drive leaves nothing in the deferred queue of a connection that is not sending.
THEOREM DeferredLeave == Spec => []NothingStuck
<1>1. RouteInv => NothingStuck
  BY DEF RouteInv, TxOK, NothingStuck
<1>. QED
  BY <1>1, RouteHolds, PTL

==============================================================================
