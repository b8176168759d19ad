----------------------------- MODULE LeasesAlone -----------------------------
(***************************************************************************)
(* What a step makes of clients that are Alone, for every number of        *)
(* workers, slots, clients, files and connections, in five layers: a       *)
(* session is its connection's own (OwnInv), it has one open of a file     *)
(* (HandleInv), a client relies on nothing without a connection            *)
(* (ClientInv), and what CREATE responses say agrees with the handle table *)
(* (ViewInv); these four are shown to be kept here. The fifth, LeaseInv,   *)
(* is defined here, with the lemma Carry that says what of a step keeps it *)
(* for a connection; LeasesCoherence shows that every action does.         *)
(***************************************************************************)
EXTENDS LeasesProofs

USE ZenonT(40)

------------------------------------------------------------------------------
(* Clients with one connection, and one open of a file at a time *)

Alone == MaxOpens = 1 /\ MaxChannels = 1 /\ ~Reconnects /\ ~MetaCached

\* The session is the connection's own, and so is the client.
OwnSession(i) ==
  /\ conn[i].state # "unborn" => conn[i].sess = i
  /\ \A j \in Conns : conn[i].client = conn[j].client /\ conn[i].client # None => i = j

\* The opens of a connection's session: one of a file, leased under the client's key.
HandlesOK(i) ==
  /\ conn[i].state = "unborn" => handles[i] = {}
  /\ \A h \in handles[i] : h.granted # "none" => h.key = conn[i].client
  /\ \A h, x \in handles[i] : h.f = x.f => h = x

\* The same of the opens a teardown has left to close.
RestOK(w) == \A h \in wk[w].rest : h.granted # "none" => h.key = conn[wk[w].id].client

\* The request under way answers what it did, and a CREATE under way opens a file that
\* the session has no open of.
AnswerOK(w) ==
  /\ Stage(wk[w]) = "grant" =>
       /\ wk[w].resp.kind = "create" /\ wk[w].resp.f = wk[w].h.f /\ wk[w].resp.granted = wk[w].h.granted
       /\ \A x \in handles[wk[w].sess] : x.f # wk[w].h.f
  /\ Stage(wk[w]) \in {"reply", "unlink"} /\ wk[w].sess # None => wk[w].resp.kind \in {"wrote", "ack"}

\* A client relies on nothing without a connection, and caches nothing without a lease.
ClientOK(c) ==
  \A f \in Files :
    /\ belief[c][f] # "none" => \E i \in Conns : conn[i].client = c /\ link[i].up
    /\ cache[c][f] # NoCache => belief[c][f] # "none"

\* A CREATE response for f is in flight on connection i.
Unread(i, f) == \E k \in 1..Len(link[i].wire) : link[i].wire[k].kind = "create" /\ link[i].wire[k].f = f

\* What the CREATE responses in flight say is in the handle table, and a lease on an open
\* handle is the lease the client believes in once it has read the response.
ViewOK(i) ==
  conn[i].state = "open" =>
    /\ \A k \in 1..Len(link[i].wire) : link[i].wire[k].kind = "create" =>
         \E h \in handles[i] : h.f = link[i].wire[k].f /\ h.granted = link[i].wire[k].granted
    /\ \A h \in handles[i] : h.granted = "R" /\ belief[conn[i].client][h.f] = "RH" => Unread(i, h.f)

OwnInv == \A i \in Conns : OwnSession(i)
HandleInv == (\A i \in Conns : HandlesOK(i)) /\ \A w \in Workers : RestOK(w) /\ AnswerOK(w)
ClientInv == \A c \in Clients : ClientOK(c)
ViewInv == \A i \in Conns : ViewOK(i)

------------------------------------------------------------------------------
(* Who serves whom *)

\* Connection i keeps its client and session, and does not open.
Keeps(i) ==
  /\ conn'[i].client = conn[i].client /\ conn'[i].sess = conn[i].sess
  /\ (conn'[i].state = "unborn" <=> conn[i].state = "unborn")
  /\ (conn'[i].state = "open" => conn[i].state = "open")

LEMMA SameKeeps ==
  ASSUME SamePlaces
  PROVE  \A i \in Conns : Keeps(i)
BY DEF SamePlaces, Keeps

\* What a response does to the connections.
Answers(id, frame) ==
  /\ \A i \in Conns : /\ Keeps(i) /\ conn'[i].state = conn[i].state /\ conn'[i].deferred = conn[i].deferred
                      /\ link'[i].up = link[i].up
                      /\ i # id => link'[i] = link[i]
  /\ \/ link'[id].wire = link[id].wire /\ (frame.kind = "ack" \/ ~link[id].up)
     \/ link'[id].wire = link[id].wire \o <<frame>> /\ frame.kind # "ack" /\ link[id].up

LEMMA ReplyAnswers ==
  ASSUME RouteInv, NEW id \in Conns, NEW frame, Reply(id, frame)
  PROVE  Answers(id, frame)
<1>1. PICK l : l = link[id]
  OBVIOUS
<1>2. l \in LinkType /\ l.wire \in Seq(BreakFrame \cup Response)
  BY <1>1, Typed DEF LinkType
<1>3. PICK m : m = Sent(l, IF frame.kind = "ack" THEN <<>> ELSE <<frame>>)
  OBVIOUS
<1>4. link'[id] = m /\ \A i \in Conns : i # id => link'[i] = link[i]
  BY <1>1, <1>3, Typed DEF Reply
<1>5. m.up = l.up
  BY <1>2, <1>3 DEF Sent, LinkType
<1>6. \/ m.wire = l.wire /\ (frame.kind = "ack" \/ ~l.up)
      \/ m.wire = l.wire \o <<frame>> /\ frame.kind # "ack" /\ l.up
  <2>1. CASE ~l.up
    BY <1>3, <2>1 DEF Sent
  <2>2. CASE l.up
    <3>1. m.wire = l.wire \o (IF frame.kind = "ack" THEN <<>> ELSE <<frame>>)
      BY <1>2, <1>3, <2>2 DEF Sent, LinkType
    <3>2. l.wire \o <<>> = l.wire
      BY <1>2, SMTT(30)
    <3>. QED
      BY <2>2, <3>1, <3>2
  <2>. QED
    BY <2>1, <2>2
<1>7. /\ conn'[id] = [conn[id] EXCEPT !.sending = TRUE]
      /\ \A i \in Conns : i # id => conn'[i] = conn[i]
  BY Typed DEF Reply
<1>8. /\ conn'[id].client = conn[id].client /\ conn'[id].sess = conn[id].sess /\ conn'[id].state = conn[id].state
      /\ conn'[id].deferred = conn[id].deferred
  BY <1>7, Typed DEF ConnType
<1>. QED
  BY <1>1, <1>4, <1>5, <1>6, <1>7, <1>8 DEF Answers, Keeps

LEMMA QueueKeeps ==
  ASSUME RouteInv, NEW w \in Workers, DeliverBreak(w)
  PROVE  \A i \in Conns : Keeps(i)
<1>1. PICK r : r = wk[w]
  OBVIOUS
<1>2. r.pc = "deliver" /\ r \in ThreadState /\ r.inbox \in Seq(LeaseGrant) /\ r.inbox # <<>>
  BY <1>1, Typed DEF DeliverBreak, ThreadState
<1>3. PICK m : m = Head(r.inbox)
  OBVIOUS
<1>4. m = r.inbox[1] /\ 1 \in 1..Len(r.inbox) /\ m \in LeaseGrant
  BY <1>2, <1>3, SMTT(30)
<1>5. Addressed(m)
  BY <1>1, <1>4, MsgTypes
<1>6. CASE Deliverable(m)
  BY <1>1, <1>3, <1>4, <1>5, <1>6, Delivered, SameKeeps
<1>7. CASE ~Deliverable(m)
  BY <1>1, <1>3, <1>7 DEF DeliverBreak, Keeps
<1>. QED
  BY <1>6, <1>7

LEMMA SendKeeps ==
  ASSUME RouteInv, NEW id \in Conns, SendDone(id)
  PROVE  \A i \in Conns : Keeps(i)
<1>1. conn'[id] = Flushed(conn[id]) /\ \A i \in Conns : i # id => conn'[i] = conn[i]
  BY Typed DEF SendDone
<1>2. /\ conn'[id].client = conn[id].client /\ conn'[id].sess = conn[id].sess /\ conn'[id].state = conn[id].state
  BY <1>1, Typed, SMTT(30) DEF ConnType, Flushed
<1>. QED
  BY <1>1, <1>2 DEF Keeps

LEMMA EndKeeps ==
  ASSUME RouteInv, NEW id \in Conns, NEW w, CloseConn(id) \/ FinalizeClose(w, id)
  PROVE  /\ \A i \in Conns : Keeps(i)
         /\ conn'[id].state # "open" /\ \A i \in Conns : i # id => conn'[i] = conn[i]
<1>1. PICK s : s \in {"closing", "gone"} /\ conn' = [conn EXCEPT ![id].state = s]
  BY DEF CloseConn, FinalizeClose
<1>2. conn'[id] = [conn[id] EXCEPT !.state = s] /\ \A i \in Conns : i # id => conn'[i] = conn[i]
  BY <1>1, Typed
<1>3. conn'[id].client = conn[id].client /\ conn'[id].sess = conn[id].sess /\ conn'[id].state = s
  BY <1>1, <1>2, Typed, SMTT(30) DEF ConnType
<1>4. conn[id].state # "unborn" /\ conn'[id].state # "unborn" /\ conn'[id].state # "open"
  BY <1>1, <1>3 DEF CloseConn, FinalizeClose
<1>. QED
  BY <1>2, <1>3, <1>4 DEF Keeps

\* A client that has no connection and never had one connects.
Joins(id, c) ==
  /\ conn[id].state = "unborn" /\ \A i \in Conns : conn[i].client # c
  /\ \A i \in Conns : i # id => conn'[i] = conn[i] /\ link'[i] = link[i]
  /\ conn'[id].client = c /\ conn'[id].sess = id /\ conn'[id].state = "open"
  /\ link'[id].up /\ link'[id].wire = <<>>

LEMMA AcceptFacts ==
  ASSUME Alone, RouteInv, NEW l \in Locs, NEW id \in Conns, NEW c \in Clients, NEW s \in Conns, Accept(l, id, c, s)
  PROVE  Joins(id, c)
<1>1. PICK S : S = {i \in Conns : conn[i].client = c /\ link[i].up}
  OBVIOUS
<1>2. ~\E up \in [1..1 -> S] : \A m, n \in 1..1 : up[m] = up[n] => m = n
  BY <1>1 DEF Accept, MayConnect, Alone
<1>3. S = {}
  <2>1. SUFFICES ASSUME NEW i \in S PROVE FALSE
    OBVIOUS
  <2>2. [n \in 1..1 |-> i] \in [1..1 -> S] /\ \A m, n \in 1..1 : m = n
    BY SMTT(30)
  <2>. QED
    BY <1>2, <2>2
<1>4. s = id
  <2>1. ASSUME NEW i \in Conns, conn[i].client = c, link[i].up PROVE FALSE
    BY <1>1, <1>3, <2>1
  <2>. QED
    BY <2>1 DEF Accept
<1>5. conn[id].state = "unborn" /\ \A i \in Conns : conn[i].client # c
  BY <1>4 DEF Accept, Alone
<1>6. /\ \A i \in Conns : i # id => conn'[i] = conn[i] /\ link'[i] = link[i]
      /\ conn'[id] = [conn[id] EXCEPT !.client = c, !.sess = s, !.loc = l, !.gen = gen[l], !.state = "open"]
      /\ link'[id] = [link[id] EXCEPT !.up = TRUE]
  BY Typed DEF Accept
<1>7. conn'[id].client = c /\ conn'[id].sess = s /\ conn'[id].state = "open"
  BY <1>6, Typed, SMTT(30) DEF ConnType
<1>8. link'[id].up /\ link'[id].wire = link[id].wire
  BY <1>6, Typed, SMTT(30) DEF LinkType
<1>9. link[id].wire = <<>>
  BY <1>5 DEF RouteInv, TxOK
<1>. QED
  BY <1>4, <1>5, <1>6, <1>7, <1>8, <1>9 DEF Joins

\* Nobody comes or goes, on either end.
Stays == \A i \in Conns : Keeps(i) /\ link'[i].up = link[i].up

\* A connection is accepted.
Accepts == \E l \in Locs, id, s \in Conns, c \in Clients : Accept(l, id, c, s)

LEMMA SentUp ==
  ASSUME RouteInv, NEW id \in Conns, NEW q, link' = [link EXCEPT ![id] = Sent(link[id], q)]
  PROVE  \A i \in Conns : link'[i].up = link[i].up
<1>1. link'[id] = Sent(link[id], q) /\ \A i \in Conns : i # id => link'[i] = link[i]
  BY Typed
<1>2. Sent(link[id], q).up = link[id].up
  BY Typed DEF Sent, LinkType
<1>. QED
  BY <1>1, <1>2

LEMMA DeliverUp ==
  ASSUME RouteInv, NEW w \in Workers, DeliverBreak(w)
  PROVE  \A i \in Conns : link'[i].up = link[i].up
<1>1. PICK m : m = Head(wk[w].inbox)
  OBVIOUS
<1>2. CASE ~Deliverable(m)
  BY <1>1, <1>2 DEF DeliverBreak
<1>3. CASE Deliverable(m)
  <2>1. PICK id : id = slot[m.loc]
    OBVIOUS
  <2>2. PICK q : q = [conn[id] EXCEPT !.deferred =
                        Append(@, [kind |-> "break", f |-> m.f, key |-> m.key, to |-> m.id])]
    OBVIOUS
  <2>3. link' = [link EXCEPT ![id] = IF q.sending THEN link[id] ELSE Sent(link[id], q.deferred)]
    BY <1>1, <1>3, <2>1, <2>2 DEF DeliverBreak
  <2>4. m \in LeaseGrant
    <3>1. wk[w].inbox \in Seq(LeaseGrant) /\ wk[w].inbox # <<>>
      BY Typed DEF ThreadState, DeliverBreak
    <3>. QED
      BY <1>1, <3>1, SMTT(30)
  <2>5. id \in Conns
    BY <1>3, <2>1, <2>4, Typed DEF Deliverable, LeaseGrant
  <2>6. CASE q.sending
    BY <2>3, <2>5, <2>6, Typed
  <2>7. CASE ~q.sending
    <3>1. PICK d : d = q.deferred
      OBVIOUS
    <3>2. link' = [link EXCEPT ![id] = Sent(link[id], d)]
      BY <2>3, <2>7, <3>1
    <3>. QED
      BY <2>5, <3>2, SentUp
  <2>. QED
    BY <2>6, <2>7
<1>. QED
  BY <1>2, <1>3

LEMMA SendUp ==
  ASSUME RouteInv, NEW id \in Conns, SendDone(id)
  PROVE  \A i \in Conns : link'[i].up = link[i].up
<1>1. PICK q : q = conn[id].deferred
  OBVIOUS
<1>2. link' = [link EXCEPT ![id] = Sent(link[id], q)]
  BY <1>1 DEF SendDone
<1>. QED
  BY <1>2, SentUp

LEMMA AnswersStay ==
  ASSUME NEW id \in Conns, NEW frame, Answers(id, frame)
  PROVE  Stays
BY DEF Answers, Stays

LEMMA SameStays ==
  ASSUME UNCHANGED <<conn, link>>
  PROVE  Stays
BY DEF Stays, Keeps

LEMMA RequestStays ==
  ASSUME RouteInv, NEW w \in Workers, NEW id \in Conns, Request(w, id)
  PROVE  Stays
<1>1. ASSUME NEW frame, Reply(id, frame) PROVE Stays
  BY <1>1, ReplyAnswers, AnswersStay
<1>2. ASSUME NEW f, NEW want, NEW o, NEW d, CreateOpen(w, id, f, want, o, d) PROVE Stays
  BY <1>2, SameStays DEF CreateOpen, clientvars
<1>3. ASSUME NEW h, Read(w, id, h) PROVE Stays
  BY <1>1, <1>3 DEF Read
<1>4. ASSUME NEW h, Write(w, id, h) PROVE Stays
  BY <1>4, SameStays DEF Write, clientvars
<1>5. ASSUME NEW h, NEW g, Rename(w, id, h, g) PROVE Stays
  BY <1>5, SameStays DEF Rename, clientvars
<1>6. ASSUME NEW h, NEW flag, SetDisposition(w, id, h, flag) PROVE Stays
  BY <1>1, <1>6, SameStays DEF SetDisposition
<1>7. ASSUME NEW h, Close(w, id, h) PROVE Stays
  BY <1>1, <1>7, SameStays DEF Close
<1>. QED
  BY <1>2, <1>3, <1>4, <1>5, <1>6, <1>7 DEF Request

LEMMA ContinueStays ==
  ASSUME RouteInv, NEW w \in Workers, Continue(w)
  PROVE  Stays
<1>1. CASE Grant(w) \/ Respond(w)
  <2>1. PICK r : r = wk[w]
    OBVIOUS
  <2>2. Reply(r.id, r.resp) /\ r.pc \in {"grant", "reply"}
    BY <1>1, <2>1 DEF Grant, Respond
  <2>3. r.id \in Conns
    BY <2>1, <2>2 DEF RouteInv, ThreadOK, Serving
  <2>. QED
    BY <2>2, <2>3, ReplyAnswers, AnswersStay
<1>2. CASE DeliverBreak(w)
  BY <1>2, QueueKeeps, DeliverUp DEF Stays
<1>3. CASE \/ Unlink(w) \/ BreakConflicts(w) \/ PostSignal(w) \/ (\E m \in wk[w].msgs : PostPush(w, m))
           \/ ArmWake(w) \/ ReleaseConn(w) \/ \E h \in wk[w].rest : TeardownHandle(w, h)
  <2>1. UNCHANGED <<conn, link>>
    BY <1>3 DEF Unlink, BreakConflicts, PostSignal, PostPush, ArmWake, ReleaseConn, TeardownHandle, clientvars
  <2>. QED
    BY <2>1, SameStays
<1>. QED
  BY <1>1, <1>2, <1>3 DEF Continue

LEMMA OwnStep ==
  ASSUME Alone, RouteInv, OwnInv, Next
  PROVE  OwnInv'

<1>NextKeeps. ASSUME RouteInv, Next
      PROVE  Accepts \/ \A i \in Conns : Keeps(i)
  <2>. USE <1>NextKeeps
  <2>1. ASSUME UNCHANGED conn PROVE \A i \in Conns : Keeps(i)
    BY <2>1 DEF Keeps
  <2>2. ASSUME NEW w \in Workers, KernelWake(w) \/ OnWake(w) PROVE \A i \in Conns : Keeps(i)
    BY <2>1, <2>2 DEF KernelWake, OnWake
  <2>3. ASSUME NEW id \in Conns, ClientRecv(id) \/ ClientDown(id) PROVE \A i \in Conns : Keeps(i)
    BY <2>1, <2>3 DEF ClientRecv, ClientDown, servervars
  <2>4. Stays => \A i \in Conns : Keeps(i)
    BY DEF Stays
  <2>. QED
    BY <2>2, <2>3, <2>4, RequestStays, ContinueStays, SendKeeps, EndKeeps DEF Next, Accepts

<1>1. CASE \A i \in Conns : Keeps(i)
  BY <1>1 DEF OwnInv, OwnSession, Keeps
<1>2. CASE Accepts
  <2>1. PICK l \in Locs, id \in Conns, s \in Conns, c \in Clients : Accept(l, id, c, s)
    BY <1>2 DEF Accepts
  <2>2. Joins(id, c)
    BY <2>1, AcceptFacts
  <2>3. /\ \A i \in Conns : i # id => conn'[i] = conn[i] /\ conn[i].client # c
        /\ conn'[id].client = c /\ conn'[id].sess = id
    BY <2>2 DEF Joins
  <2>4. ASSUME NEW i \in Conns PROVE conn'[i].state # "unborn" => conn'[i].sess = i
    BY <2>3, <2>4 DEF OwnInv, OwnSession
  <2>5. ASSUME NEW i \in Conns, NEW j \in Conns, conn'[i].client = conn'[j].client, conn'[i].client # None PROVE i = j
    BY <2>3, <2>5, SMTT(30) DEF OwnInv, OwnSession
  <2>. QED
    BY <2>4, <2>5 DEF OwnInv, OwnSession
<1>. QED
  BY <1>1, <1>2, <1>NextKeeps

------------------------------------------------------------------------------
(* Requests that reach break_leases *)

\* Thread w, idle before, is at work on the request.
Asked(w, id, todo, except, next, h, resp) ==
  /\ wk[w] = Idle /\ conn' = conn /\ mbox' = mbox
  /\ id \in Conns /\ conn[id].state = "open" /\ conn[id].loc[1] = w
  /\ \A v \in Workers : v # w => wk'[v] = wk[v]
  /\ wk'[w].id = id /\ wk'[w].sess = conn[id].sess /\ wk'[w].todo = todo /\ wk'[w].except = except
  /\ wk'[w].h = h /\ wk'[w].resp = resp /\ wk'[w].rest = {} /\ wk'[w].msgs = {} /\ wk'[w].inbox = <<>>
  /\ Stage(wk'[w]) = next

LEMMA AsksFacts ==
  ASSUME RouteInv, NEW w \in Workers, NEW id, NEW todo, NEW except, NEW next, NEW h, NEW resp,
         Asks(w, id, todo, except, next, h, resp)
  PROVE  Asked(w, id, todo, except, next, h, resp)
<1>1. id \in Conns /\ next \in {"grant", "unlink", "reply"} /\ conn' = conn /\ mbox' = mbox
  BY DEF Asks, Parts
<1>2. wk[w] = Idle /\ conn[id].state = "open" /\ conn[id].loc[1] = w
  BY DEF Asks, Ready, RouteInv, ThreadOK
<1>3. PICK r : r = [Breaking(id, todo, except, next, h, resp) EXCEPT !.pc = IF todo = <<>> THEN next ELSE "break"]
  OBVIOUS
<1>4. r = [pc |-> IF todo = <<>> THEN next ELSE "break", id |-> id, sess |-> conn[id].sess, todo |-> todo,
           except |-> except, msgs |-> {}, signal |-> None, next |-> next, h |-> h, resp |-> resp,
           rest |-> {}, inbox |-> <<>>]
  BY <1>3 DEF Breaking, Idle
<1>5. wk'[w] = r /\ \A v \in Workers : v # w => wk'[v] = wk[v]
  BY <1>3, Typed DEF Asks
<1>6. /\ r.id = id /\ r.sess = conn[id].sess /\ r.todo = todo /\ r.except = except /\ r.h = h /\ r.resp = resp
      /\ r.rest = {} /\ r.msgs = {} /\ r.inbox = <<>> /\ r.next = next
      /\ r.pc = IF todo = <<>> THEN next ELSE "break"
  BY <1>4
<1>7. Stage(r) = next
  BY <1>1, <1>6 DEF Stage
<1>. QED
  BY <1>1, <1>2, <1>5, <1>6, <1>7 DEF Asked

LEMMA BreaksAsk ==
  ASSUME RouteInv, NEW w \in Workers, NEW id \in Conns, Ready(w, id), NEW todo \in Seq(Files), todo # <<>>,
         NEW except \in Keys, NEW next \in {"unlink", "reply"}, NEW h \in Handle, NEW resp \in Response,
         wk' = [wk EXCEPT ![w] = Breaking(id, todo, except, next, h, resp)],
         UNCHANGED <<slot, gen, conn, mbox, efd, armed, cqe>>
  PROVE  Asked(w, id, todo, except, next, h, resp)
<1>1. Breaking(id, todo, except, next, h, resp)
        = [Breaking(id, todo, except, next, h, resp) EXCEPT !.pc = IF todo = <<>> THEN next ELSE "break"]
  BY DEF Breaking, Idle
<1>2. Parts(id, todo, except, next, h, resp) /\ next # "grant"
  BY DEF Parts
<1>3. Asks(w, id, todo, except, next, h, resp)
  BY <1>1, <1>2 DEF Asks
<1>. QED
  BY <1>3, AsksFacts

\* CREATE, up to what it will answer.
Creating(w, id, f, want, overwrite) ==
  \E todo, key, h, resp :
    /\ Asked(w, id, todo, key, "grant", h, resp)
    /\ todo = (IF overwrite THEN <<f>> ELSE <<>>)
    /\ key = (IF want = "none" THEN None ELSE conn[id].client)
    /\ h.f = f /\ h.granted = want
    /\ resp.kind = "create" /\ resp.f = f /\ resp.granted = want

\* A request through handle h that changes the files in todo.
Changing(w, id, todo, h, next) ==
  \E resp : Asked(w, id, todo, h.key, next, h, resp) /\ resp.kind \in {"wrote", "ack"}

LEMMA CreateAsks ==
  ASSUME RouteInv, NEW w \in Workers, NEW id \in Conns, NEW f \in Files, NEW want \in LeaseStates,
         NEW overwrite \in BOOLEAN, NEW doc \in BOOLEAN, CreateOpen(w, id, f, want, overwrite, doc)
  PROVE  Creating(w, id, f, want, overwrite)
<1>1. Ready(w, id)
  BY DEF CreateOpen
<1>2. PICK c : c = conn[id].client
  OBVIOUS
<1>3. PICK key : key = IF want = "none" THEN None ELSE c
  OBVIOUS
<1>4. c \in Clients /\ key \in Keys /\ (want # "none" => key = c)
  BY <1>1, <1>2, <1>3, ReadyOpen DEF Keys
<1>5. PICK Free : Free = {n \in 1..MaxOpens : \A h \in handles[conn[id].sess] : h.f = f => h.no # n}
  OBVIOUS
<1>6. PICK no : no = CHOOSE n \in Free : TRUE
  OBVIOUS
<1>7. no \in 1..MaxOpens
  <2>1. Free # {}
    BY <1>5 DEF CreateOpen
  <2>. QED
    BY <2>1, <1>5, <1>6
<1>8. PICK h : h = [f |-> f, no |-> no, key |-> key, granted |-> want, doc |-> doc]
  OBVIOUS
<1>9. h \in Handle /\ h.f = f /\ h.granted = want /\ h.key = key
  BY <1>4, <1>7, <1>8 DEF Handle
<1>10. ver' \in [Files -> [Clients -> Nat]]
  BY <1>3, ChangesType, Side DEF CreateOpen, SideOK
<1>11. PICK resp : resp = [kind |-> "create", f |-> f, no |-> no, granted |-> want, ver |-> ver'[f][c]]
  OBVIOUS
<1>12. resp \in Response /\ resp.kind = "create" /\ resp.f = f /\ resp.granted = want
  BY <1>4, <1>7, <1>10, <1>11 DEF Response
<1>13. PICK todo : todo = IF overwrite THEN <<f>> ELSE <<>>
  OBVIOUS
<1>14. todo \in Seq(Files)
  BY <1>13, SMTT(30)
<1>15. PICK b : b = Breaking(id, todo, key, "grant", h, resp)
  OBVIOUS
<1>16. b.todo = todo /\ b.next = "grant"
  BY <1>15 DEF Breaking, Idle
<1>17. wk' = [wk EXCEPT ![w] = [b EXCEPT !.pc = AfterBreak(b)]]
  BY <1>2, <1>3, <1>5, <1>6, <1>8, <1>11, <1>13, <1>15 DEF CreateOpen
<1>18. wk' = [wk EXCEPT ![w] = [b EXCEPT !.pc = IF todo = <<>> THEN "grant" ELSE "break"]]
  BY <1>16, <1>17 DEF AfterBreak
<1>19. UNCHANGED <<slot, gen, conn, mbox, efd, armed, cqe>>
  BY DEF CreateOpen
<1>20. Parts(id, todo, key, "grant", h, resp) /\ ("grant" = "grant" /\ h.granted # "none" => h.key = conn[id].client)
  BY <1>2, <1>4, <1>9, <1>12, <1>14 DEF Parts
<1>21. Asks(w, id, todo, key, "grant", h, resp)
  BY <1>1, <1>15, <1>18, <1>19, <1>20 DEF Asks
<1>22. Asked(w, id, todo, key, "grant", h, resp)
  BY <1>21, AsksFacts
<1>. QED
  BY <1>2, <1>3, <1>9, <1>12, <1>13, <1>22 DEF Creating

\* The request's handle and lease key.
LEMMA RequestHandle ==
  ASSUME RouteInv, NEW w \in Workers, NEW id \in Conns, Ready(w, id), NEW h \in handles[conn[id].sess]
  PROVE  /\ h \in Handle /\ h.f \in Files /\ h.key \in Keys /\ <<h.f>> \in Seq(Files) /\ <<h.f>> # <<>>
         /\ [kind |-> "wrote", f |-> h.f] \in Response /\ [kind |-> "ack", f |-> h.f] \in Response
<1>1. h \in Handle /\ h.f \in Files /\ h.key \in Keys
  BY ReadyOpen DEF Handle
<1>. QED
  BY <1>1, SMTT(30) DEF Response

LEMMA WriteAsks ==
  ASSUME RouteInv, NEW w \in Workers, NEW id \in Conns, NEW h, Write(w, id, h)
  PROVE  Changing(w, id, <<h.f>>, h, "reply")
<1>1. Ready(w, id) /\ h \in handles[conn[id].sess]
  BY DEF Write
<1>2. PICK resp : resp = [kind |-> "wrote", f |-> h.f]
  OBVIOUS
<1>3. /\ wk' = [wk EXCEPT ![w] = Breaking(id, <<h.f>>, h.key, "reply", h, resp)]
      /\ UNCHANGED <<slot, gen, conn, mbox, efd, armed, cqe>>
  BY <1>2 DEF Write
<1>4. Asked(w, id, <<h.f>>, h.key, "reply", h, resp)
  BY <1>1, <1>2, <1>3, RequestHandle, BreaksAsk
<1>. QED
  BY <1>2, <1>4, SMTT(30) DEF Changing

LEMMA RenameAsks ==
  ASSUME RouteInv, NEW w \in Workers, NEW id \in Conns, NEW h, NEW g \in Files, Rename(w, id, h, g)
  PROVE  Changing(w, id, IF g = h.f THEN <<h.f>> ELSE <<h.f, g>>, h, "reply")
<1>1. Ready(w, id) /\ h \in handles[conn[id].sess]
  BY DEF Rename
<1>2. PICK resp : resp = [kind |-> "ack", f |-> h.f]
  OBVIOUS
<1>3. PICK todo : todo = IF g = h.f THEN <<h.f>> ELSE <<h.f, g>>
  OBVIOUS
<1>4. todo \in Seq(Files) /\ todo # <<>>
  <2>1. h.f \in Files
    BY <1>1, RequestHandle
  <2>. QED
    BY <2>1, <1>3, SMTT(30)
<1>5. /\ wk' = [wk EXCEPT ![w] = Breaking(id, todo, h.key, "reply", h, resp)]
      /\ UNCHANGED <<slot, gen, conn, mbox, efd, armed, cqe>>
  BY <1>2, <1>3 DEF Rename
<1>6. Asked(w, id, todo, h.key, "reply", h, resp)
  BY <1>1, <1>2, <1>4, <1>5, RequestHandle, BreaksAsk
<1>. QED
  BY <1>2, <1>3, <1>6, SMTT(30) DEF Changing

LEMMA DisposeAsks ==
  ASSUME RouteInv, NEW w \in Workers, NEW id \in Conns, NEW h, SetDisposition(w, id, h, TRUE)
  PROVE  Changing(w, id, <<h.f>>, h, "reply")
<1>1. Ready(w, id) /\ h \in handles[conn[id].sess]
  BY DEF SetDisposition
<1>2. PICK resp : resp = [kind |-> "ack", f |-> h.f]
  OBVIOUS
<1>3. /\ wk' = [wk EXCEPT ![w] = Breaking(id, <<h.f>>, h.key, "reply", h, resp)]
      /\ UNCHANGED <<slot, gen, conn, mbox, efd, armed, cqe>>
  BY <1>2 DEF SetDisposition
<1>4. Asked(w, id, <<h.f>>, h.key, "reply", h, resp)
  BY <1>1, <1>2, <1>3, RequestHandle, BreaksAsk
<1>. QED
  BY <1>2, <1>4, SMTT(30) DEF Changing

LEMMA CloseAsks ==
  ASSUME RouteInv, NEW w \in Workers, NEW id \in Conns, NEW h, Close(w, id, h), h.doc
  PROVE  Changing(w, id, <<h.f>>, h, "unlink")
<1>1. Ready(w, id) /\ h \in handles[conn[id].sess]
  BY DEF Close
<1>2. PICK resp : resp = [kind |-> "ack", f |-> h.f]
  OBVIOUS
<1>3. /\ wk' = [wk EXCEPT ![w] = Breaking(id, <<h.f>>, h.key, "unlink", h, resp)]
      /\ UNCHANGED <<slot, gen, conn, mbox, efd, armed, cqe>>
  BY <1>2 DEF Close
<1>4. Asked(w, id, <<h.f>>, h.key, "unlink", h, resp)
  BY <1>1, <1>2, <1>3, RequestHandle, BreaksAsk
<1>. QED
  BY <1>2, <1>4, SMTT(30) DEF Changing

------------------------------------------------------------------------------
(* The opens of a session *)

\* Whoever was accepted stays the client of its connection.
BornKept ==
  \A i \in Conns : /\ conn'[i].state = "unborn" => conn[i].state = "unborn"
                   /\ conn[i].state # "unborn" => conn'[i].client = conn[i].client

LEMMA KeptBorn ==
  ASSUME \A i \in Conns : Keeps(i)
  PROVE  BornKept
BY DEF Keeps, BornKept

LEMMA JoinsBorn ==
  ASSUME NEW id \in Conns, NEW c, Joins(id, c)
  PROVE  BornKept
BY DEF Joins, BornKept

LEMMA ServedBorn ==
  ASSUME RouteInv, NEW v \in Workers, wk[v].pc \notin {"idle", "deliver"}
  PROVE  /\ Serving(v, wk[v]) /\ wk[v].id \in Conns /\ conn[wk[v].id].state # "unborn"
         /\ conn[wk[v].id].loc[1] = v
<1>1. Serving(v, wk[v])
  BY DEF RouteInv, ThreadOK
<1>2. PICK i : i = wk[v].id
  OBVIOUS
<1>3. i \in Conns /\ conn[i].loc \in Locs /\ slot[conn[i].loc] = i /\ conn[i].loc[1] = v
  BY <1>1, <1>2 DEF Serving
<1>4. conn[i].state # "unborn"
  BY <1>3 DEF RouteInv, PlaceOK
<1>. QED
  BY <1>1, <1>2, <1>3, <1>4

\* Thread v goes on with what it does, or is done with it.
Still(v) ==
  /\ wk'[v].rest = {} \/ (wk'[v].rest \subseteq wk[v].rest /\ wk'[v].id = wk[v].id)
  /\ \/ Stage(wk'[v]) \notin {"grant", "reply", "unlink"}
     \/ Stage(wk'[v]) # "grant" /\ wk'[v].sess = None
     \/ /\ wk'[v].sess = wk[v].sess /\ wk'[v].resp = wk[v].resp /\ wk'[v].h = wk[v].h
        /\ Stage(wk'[v]) = Stage(wk[v]) \/ (Stage(wk'[v]) = "reply" /\ Stage(wk[v]) = "unlink")

\* No open of a file appears in session s.
NoNewFile(s) == \A x \in handles'[s] : \E y \in handles[s] : y.f = x.f

LEMMA HandleStep ==
  ASSUME Alone, RouteInv, OwnInv, HandleInv, Next
  PROVE  HandleInv'

<1>AnswersKeep. ASSUME NEW id \in Conns, NEW frame, Answers(id, frame)
      PROVE  \A i \in Conns : Keeps(i)
  BY <1>AnswersKeep DEF Answers

\* A thread that waits or delivers has nothing to tear down.
<1>RestServed. ASSUME RouteInv, NEW v \in Workers, wk[v].rest # {}
      PROVE  wk[v].pc \notin {"idle", "deliver"}
  <2>. USE <1>RestServed
  <2>1. wk[v].pc = "idle" => wk[v].rest = {}
    <3>1. Idle.rest = {}
      BY DEF Idle
    <3>. QED
      BY <3>1 DEF RouteInv, ThreadOK
  <2>2. wk[v].pc = "deliver" => wk[v].rest = {}
    BY DEF RouteInv, ThreadOK, Idle
  <2>. QED
    BY <2>1, <2>2

\* A CREATE under way works on its own connection's session.
<1>GrantStage. ASSUME RouteInv, OwnInv, NEW v \in Workers, Stage(wk[v]) = "grant"
      PROVE  /\ wk[v].sess \in Conns /\ wk[v].sess = wk[v].id /\ conn[wk[v].sess].loc[1] = v
  <2>. USE <1>GrantStage
  <2>1. wk[v].pc \notin {"idle", "deliver"}
    BY DEF Stage
  <2>2. Serving(v, wk[v]) /\ wk[v].id \in Conns /\ conn[wk[v].id].state # "unborn" /\ conn[wk[v].id].loc[1] = v
    BY <2>1, ServedBorn
  <2>3. wk[v].sess # None
    BY <2>2 DEF Serving
  <2>4. wk[v].sess = conn[wk[v].id].sess
    BY <2>2, <2>3 DEF Serving
  <2>5. conn[wk[v].id].sess = wk[v].id
    BY <2>2 DEF OwnInv, OwnSession
  <2>. QED
    BY <2>2, <2>4, <2>5

<1>SameStill. ASSUME NEW v \in Workers, wk'[v] = wk[v]
      PROVE  Still(v)
  BY <1>SameStill DEF Still

<1>OneStill. ASSUME RouteInv, NEW w \in Workers, NEW x, wk' = [wk EXCEPT ![w] = x], Still(w)
      PROVE  \A v \in Workers : Still(v)
  <2>. USE <1>OneStill
  <2>1. \A v \in Workers : v # w => wk'[v] = wk[v]
    BY Typed
  <2>. QED
    BY <2>1, <1>SameStill

<1>ThreadStill. ASSUME RouteInv, HandleInv, NEW v \in Workers, BornKept, Still(v),
             Stage(wk'[v]) = "grant" => NoNewFile(wk'[v].sess)
      PROVE  RestOK(v)' /\ AnswerOK(v)'
  <2>. USE <1>ThreadStill
  <2>1. RestOK(v)'
    <3>1. CASE wk'[v].rest = {}
      BY <3>1 DEF RestOK
    <3>2. CASE wk'[v].rest # {}
      <4>1. wk'[v].rest \subseteq wk[v].rest /\ wk'[v].id = wk[v].id /\ wk[v].rest # {}
        BY <3>2 DEF Still
      <4>2. conn'[wk[v].id].client = conn[wk[v].id].client
        BY <4>1, <1>RestServed, ServedBorn DEF BornKept
      <4>. QED
        BY <4>1, <4>2 DEF HandleInv, RestOK
    <3>. QED
      BY <3>1, <3>2
  <2>2. AnswerOK(v)'
    <3>1. AnswerOK(v)
      BY DEF HandleInv
    <3>2. CASE Stage(wk'[v]) \notin {"grant", "reply", "unlink"}
      BY <3>2 DEF AnswerOK
    <3>3. CASE Stage(wk'[v]) # "grant" /\ wk'[v].sess = None
      BY <3>3 DEF AnswerOK
    <3>4. CASE /\ wk'[v].sess = wk[v].sess /\ wk'[v].resp = wk[v].resp /\ wk'[v].h = wk[v].h
               /\ Stage(wk'[v]) = "reply" /\ Stage(wk[v]) = "unlink"
      BY <3>1, <3>4 DEF AnswerOK
    <3>5. CASE /\ wk'[v].sess = wk[v].sess /\ wk'[v].resp = wk[v].resp /\ wk'[v].h = wk[v].h
               /\ Stage(wk'[v]) = Stage(wk[v])
      <4>1. Stage(wk[v]) = "grant" => \A x \in handles'[wk[v].sess] : x.f # wk[v].h.f
        <5>1. SUFFICES ASSUME Stage(wk[v]) = "grant", NEW x \in handles'[wk[v].sess] PROVE x.f # wk[v].h.f
          OBVIOUS
        <5>2. NoNewFile(wk[v].sess)
          BY <3>5, <5>1
        <5>3. PICK y \in handles[wk[v].sess] : y.f = x.f
          BY <5>1, <5>2 DEF NoNewFile
        <5>. QED
          BY <3>1, <5>1, <5>3 DEF AnswerOK
      <4>. QED
        BY <3>1, <3>5, <4>1 DEF AnswerOK
    <3>. QED
      BY <3>2, <3>3, <3>4, <3>5 DEF Still
  <2>. QED
    BY <2>1, <2>2

<1>HandlesKept. ASSUME HandleInv, BornKept, NEW i \in Conns, handles'[i] = handles[i]
      PROVE  HandlesOK(i)'
  <2>. USE <1>HandlesKept
  <2>1. HandlesOK(i)
    BY DEF HandleInv
  <2>2. CASE conn[i].state = "unborn"
    BY <2>1, <2>2 DEF HandlesOK
  <2>3. CASE conn[i].state # "unborn"
    BY <2>1, <2>3 DEF HandlesOK, BornKept
  <2>. QED
    BY <2>2, <2>3

<1>AllStill. ASSUME RouteInv, HandleInv, BornKept, handles' = handles, \A v \in Workers : Still(v)
      PROVE  HandleInv'
  <2>. USE <1>AllStill
  <2>1. \A s : NoNewFile(s)
    BY DEF NoNewFile
  <2>. QED
    BY <2>1, <1>ThreadStill, <1>HandlesKept DEF HandleInv

\* The opens of session id change by what thread w does.
<1>OwnHandles. ASSUME RouteInv, OwnInv, HandleInv, BornKept, NEW w \in Workers, NEW id \in Conns, conn[id].loc[1] = w,
             \A s \in Conns : s # id => handles'[s] = handles[s],
             \A v \in Workers : v # w => wk'[v] = wk[v],
             HandlesOK(id)', RestOK(w)', AnswerOK(w)'
      PROVE  HandleInv'
  <2>. USE <1>OwnHandles
  <2>1. ASSUME NEW v \in Workers, v # w PROVE RestOK(v)' /\ AnswerOK(v)'
    <3>1. wk'[v] = wk[v] /\ Still(v)
      BY <2>1, <1>SameStill
    <3>2. Stage(wk'[v]) = "grant" => NoNewFile(wk'[v].sess)
      <4>1. SUFFICES ASSUME Stage(wk[v]) = "grant" PROVE NoNewFile(wk[v].sess)
        BY <3>1
      <4>2. wk[v].sess \in Conns /\ conn[wk[v].sess].loc[1] = v
        BY <4>1, <1>GrantStage
      <4>3. wk[v].sess # id
        BY <4>2, <2>1
      <4>. QED
        BY <4>2, <4>3 DEF NoNewFile
    <3>. QED
      BY <3>1, <3>2, <2>1, <1>ThreadStill
  <2>2. \A i \in Conns : HandlesOK(i)'
    BY <1>HandlesKept
  <2>. QED
    BY <2>1, <2>2 DEF HandleInv

\* A request starts.
<1>AskedHandles. ASSUME RouteInv, OwnInv, HandleInv, NEW w \in Workers,
             NEW id, NEW todo, NEW except, NEW next, NEW h, NEW resp, Asked(w, id, todo, except, next, h, resp),
             next = "grant" => /\ resp.kind = "create" /\ resp.f = h.f /\ resp.granted = h.granted
                               /\ \A x \in handles'[conn[id].sess] : x.f # h.f,
             next # "grant" => resp.kind \in {"wrote", "ack"},
             \A s \in Conns : s # id => handles'[s] = handles[s], HandlesOK(id)'
      PROVE  HandleInv'
  <2>. USE <1>AskedHandles
  <2>1. BornKept /\ id \in Conns /\ conn[id].loc[1] = w /\ \A v \in Workers : v # w => wk'[v] = wk[v]
    BY DEF Asked, BornKept
  <2>2. RestOK(w)'
    BY DEF RestOK, Asked
  <2>3. AnswerOK(w)'
    BY DEF AnswerOK, Asked
  <2>. QED
    BY <2>1, <2>2, <2>3, <1>OwnHandles

<1>Workload. ASSUME RouteInv
      PROVE  load.files \subseteq Files /\ load.reqs \subseteq LeaseStates /\ \A op : Options(op) \subseteq BOOLEAN
  <2>. USE <1>Workload
  <2>1. load.files \subseteq Files /\ load.reqs \subseteq LeaseStates
    BY Side, LeasesAssumption DEF SideOK, LeaseStates
  <2>2. \A op : Options(op) \subseteq BOOLEAN
    BY DEF Options
  <2>. QED
    BY <2>1, <2>2

<1>CreateHandles. ASSUME Alone, RouteInv, OwnInv, HandleInv, NEW w \in Workers, NEW id \in Conns, NEW f \in Files,
             NEW want \in LeaseStates, NEW overwrite \in BOOLEAN, NEW doc \in BOOLEAN,
             CreateOpen(w, id, f, want, overwrite, doc)
      PROVE  HandleInv'
  <2>. USE <1>CreateHandles
  <2>0. Creating(w, id, f, want, overwrite)
    BY CreateAsks
  <2>1. PICK todo, key, h, resp :
          /\ Asked(w, id, todo, key, "grant", h, resp)
          /\ todo = (IF overwrite THEN <<f>> ELSE <<>>)
          /\ key = (IF want = "none" THEN None ELSE conn[id].client)
          /\ h.f = f /\ h.granted = want
          /\ resp.kind = "create" /\ resp.f = f /\ resp.granted = want
    BY <2>0 DEF Creating
  <2>2. handles' = handles /\ BornKept /\ Ready(w, id)
    BY DEF CreateOpen, BornKept
  <2>3. ASSUME NEW x \in handles[conn[id].sess] PROVE x.f # f
    <3>1. x \in Handle
      BY <2>2, <2>3, ReadyOpen
    <3>2. x.no = 1 /\ MaxOpens = 1
      BY <3>1, SMTT(30) DEF Handle, Alone
    <3>3. PICK n \in 1..MaxOpens : \A y \in handles[conn[id].sess] : y.f = f => y.no # n
      BY DEF CreateOpen
    <3>4. n = 1
      BY <3>2, <3>3, SMTT(30)
    <3>. QED
      BY <2>3, <3>2, <3>3, <3>4
  <2>4. HandlesOK(id)'
    BY <2>2, <1>HandlesKept
  <2>. QED
    BY <2>1, <2>2, <2>3, <2>4, <1>AskedHandles

\* The handle a request names is the session's own.
<1>OwnHandle. ASSUME RouteInv, OwnInv, NEW w \in Workers, NEW id \in Conns, Ready(w, id)
      PROVE  conn[id].sess = id /\ conn[id].state = "open" /\ conn[id].loc[1] = w
  <2>. USE <1>OwnHandle
  <2>1. conn[id].state = "open" /\ conn[id].loc[1] = w
    BY DEF Ready
  <2>2. conn[id].state # "unborn"
    BY <2>1
  <2>. QED
    BY <2>1, <2>2 DEF OwnInv, OwnSession

<1>AnsweredHandles. ASSUME RouteInv, OwnInv, HandleInv, NEW w \in Workers, NEW id \in Conns, Ready(w, id), NEW frame, Reply(id, frame),
             wk' = wk, \A s \in Conns : s # id => handles'[s] = handles[s], HandlesOK(id)'
      PROVE  HandleInv'
  <2>. USE <1>AnsweredHandles
  <2>1. conn[id].loc[1] = w /\ BornKept
    BY <1>OwnHandle, ReplyAnswers, <1>AnswersKeep, KeptBorn
  <2>2. wk[w] = Idle
    BY ReadyOpen
  <2>3. RestOK(w)' /\ AnswerOK(w)'
    BY <2>2, SMTT(30) DEF RestOK, AnswerOK, Idle, Stage
  <2>. QED
    BY <2>1, <2>3, <1>OwnHandles

<1>DisposeHandles. ASSUME RouteInv, OwnInv, HandleInv, NEW w \in Workers, NEW id \in Conns, NEW h, NEW flag \in BOOLEAN,
             SetDisposition(w, id, h, flag)
      PROVE  HandleInv'
  <2>. USE <1>DisposeHandles
  <2>1. Ready(w, id) /\ h \in handles[id] /\ conn[id].sess = id /\ conn[id].state # "unborn"
    BY <1>OwnHandle DEF SetDisposition
  <2>2. PICK x : x = [h EXCEPT !.doc = flag]
    OBVIOUS
  <2>3. h \in Handle /\ x.f = h.f /\ x.granted = h.granted /\ x.key = h.key
    <3>1. h \in Handle
      BY <2>1, ReadyOpen
    <3>. QED
      BY <3>1, <2>2 DEF Handle
  <2>4. handles'[id] = (handles[id] \ {h}) \cup {x} /\ \A s \in Conns : s # id => handles'[s] = handles[s]
    BY <2>1, <2>2, Typed DEF SetDisposition
  <2>5. BornKept
    BY ReplyAnswers, <1>AnswersKeep, KeptBorn DEF SetDisposition, BornKept
  <2>6. HandlesOK(id)'
    <3>1. HandlesOK(id)
      BY DEF HandleInv
    <3>2. conn'[id].state # "unborn" /\ conn'[id].client = conn[id].client
      BY <2>1, <2>5 DEF BornKept
    <3>3. \A y \in handles'[id] : y.granted # "none" => y.key = conn'[id].client
      BY <2>1, <2>3, <2>4, <3>1, <3>2 DEF HandlesOK
    <3>4. \A y, z \in handles'[id] : y.f = z.f => y = z
      BY <2>1, <2>3, <2>4, <3>1 DEF HandlesOK
    <3>. QED
      BY <3>2, <3>3, <3>4 DEF HandlesOK
  <2>7. CASE flag = TRUE
    <3>1. Changing(w, id, <<h.f>>, h, "reply") /\ "reply" # "grant"
      BY <2>7, DisposeAsks
    <3>. QED
      BY <3>1, <2>4, <2>6, <1>AskedHandles DEF Changing
  <2>8. CASE flag = FALSE
    <3>1. UNCHANGED wk /\ \E frame : Reply(id, frame)
      BY <2>8 DEF SetDisposition
    <3>. QED
      BY <3>1, <2>1, <2>4, <2>6, <1>AnsweredHandles
  <2>. QED
    BY <2>7, <2>8

<1>CloseHandles. ASSUME RouteInv, OwnInv, HandleInv, NEW w \in Workers, NEW id \in Conns, NEW h, Close(w, id, h)
      PROVE  HandleInv'
  <2>. USE <1>CloseHandles
  <2>1. Ready(w, id) /\ conn[id].sess = id /\ conn[id].state # "unborn"
    BY <1>OwnHandle DEF Close
  <2>2. handles'[id] = handles[id] \ {h} /\ \A s \in Conns : s # id => handles'[s] = handles[s]
    BY <2>1, Typed DEF Close
  <2>3. BornKept
    BY ReplyAnswers, <1>AnswersKeep, KeptBorn DEF Close, BornKept
  <2>4. HandlesOK(id)'
    <3>1. HandlesOK(id)
      BY DEF HandleInv
    <3>2. conn'[id].state # "unborn" /\ conn'[id].client = conn[id].client
      BY <2>1, <2>3 DEF BornKept
    <3>. QED
      BY <2>2, <3>1, <3>2 DEF HandlesOK
  <2>5. CASE h.doc
    <3>1. Changing(w, id, <<h.f>>, h, "unlink") /\ "unlink" # "grant"
      BY <2>5, CloseAsks
    <3>. QED
      BY <3>1, <2>2, <2>4, <1>AskedHandles DEF Changing
  <2>6. CASE ~h.doc
    <3>1. UNCHANGED wk /\ \E frame : Reply(id, frame)
      BY <2>6 DEF Close
    <3>. QED
      BY <3>1, <2>1, <2>2, <2>4, <1>AnsweredHandles
  <2>. QED
    BY <2>5, <2>6

\* WRITE and rename leave the opens alone.
<1>ChangeHandles. ASSUME RouteInv, OwnInv, HandleInv, NEW w \in Workers, NEW id \in Conns, NEW h,
             Write(w, id, h) \/ \E g \in Files : Rename(w, id, h, g)
      PROVE  HandleInv'
  <2>. USE <1>ChangeHandles
  <2>1. handles' = handles /\ BornKept
    BY DEF Write, Rename, BornKept
  <2>2. PICK todo : Changing(w, id, todo, h, "reply")
    BY WriteAsks, RenameAsks
  <2>3. HandlesOK(id)' /\ "reply" # "grant"
    BY <2>1, <1>HandlesKept
  <2>. QED
    BY <2>1, <2>2, <2>3, <1>AskedHandles DEF Changing

<1>ReadHandles. ASSUME RouteInv, OwnInv, HandleInv, NEW w \in Workers, NEW id \in Conns, NEW h, Read(w, id, h)
      PROVE  HandleInv'
  <2>. USE <1>ReadHandles
  <2>1. UNCHANGED <<wk, handles>> /\ Ready(w, id) /\ \E frame : Reply(id, frame)
    BY DEF Read
  <2>2. BornKept
    BY <2>1, ReplyAnswers, <1>AnswersKeep, KeptBorn
  <2>3. HandlesOK(id)'
    BY <2>1, <2>2, <1>HandlesKept
  <2>. QED
    BY <2>1, <2>3, <1>AnsweredHandles

<1>RequestHandles. ASSUME Alone, RouteInv, OwnInv, HandleInv, NEW w \in Workers, NEW id \in Conns, Request(w, id)
      PROVE  HandleInv'
  <2>. USE <1>RequestHandles
  <2>1. load.files \subseteq Files /\ load.reqs \subseteq LeaseStates /\ \A op : Options(op) \subseteq BOOLEAN
    BY <1>Workload
  <2>2. \A flag \in BOOLEAN : \A h : SetDisposition(w, id, h, flag) => HandleInv'
    BY <1>DisposeHandles
  <2>3. CASE \E f \in load.files, want \in load.reqs :
               \E overwrite \in Options("overwrite"), doc \in Options("delete_on_close") :
                 CreateOpen(w, id, f, want, overwrite, doc)
    <3>1. PICK f \in load.files, want \in load.reqs :
               \E overwrite \in Options("overwrite"), doc \in Options("delete_on_close") :
                 CreateOpen(w, id, f, want, overwrite, doc)
      BY <2>3
    <3>2. PICK overwrite \in Options("overwrite"), doc \in Options("delete_on_close") :
                 CreateOpen(w, id, f, want, overwrite, doc)
      BY <3>1
    <3>3. f \in Files /\ want \in LeaseStates /\ overwrite \in BOOLEAN /\ doc \in BOOLEAN
      BY <2>1
    <3>. QED
      BY <3>2, <3>3, <1>CreateHandles
  <2>4. CASE \E h \in HandlesOf(id) : \/ Read(w, id, h) \/ Write(w, id, h) \/ Close(w, id, h)
                                     \/ \E g \in load.files : Rename(w, id, h, g)
    BY <2>1, <2>4, <1>ReadHandles, <1>ChangeHandles, <1>CloseHandles
  <2>. QED
    BY <2>2, <2>3, <2>4 DEF Request

<1>GrantHandles. ASSUME RouteInv, OwnInv, HandleInv, NEW w \in Workers, Grant(w)
      PROVE  HandleInv'
  <2>. USE <1>GrantHandles
  <2>1. PICK r : r = wk[w]
    OBVIOUS
  <2>2. r.pc = "grant" /\ Stage(r) = "grant"
    BY <2>1 DEF Grant, Stage
  <2>3. PICK id : id = r.id
    OBVIOUS
  <2>4. r.sess = id /\ id \in Conns /\ conn[id].loc[1] = w /\ Serving(w, r) /\ conn[id].state # "unborn"
    BY <2>1, <2>2, <2>3, <1>GrantStage, ServedBorn
  <2>5. /\ handles'[id] = handles[id] \cup {r.h} /\ \A s \in Conns : s # id => handles'[s] = handles[s]
        /\ wk'[w] = Idle /\ \A v \in Workers : v # w => wk'[v] = wk[v]
    BY <2>1, <2>4, Typed DEF Grant
  <2>6. BornKept
    BY <2>1, <2>3, <2>4, ReplyAnswers, <1>AnswersKeep, KeptBorn DEF Grant
  <2>7. HandlesOK(id)'
    <3>1. HandlesOK(id) /\ AnswerOK(w)
      BY <2>4 DEF HandleInv
    <3>2. conn'[id].state # "unborn" /\ conn'[id].client = conn[id].client
      BY <2>4, <2>6 DEF BornKept
    <3>3. r.h.granted # "none" => r.h.key = conn[id].client
      BY <2>2, <2>3, <2>4 DEF Serving
    <3>4. \A x \in handles[id] : x.f # r.h.f
      BY <2>1, <2>2, <2>4, <3>1 DEF AnswerOK
    <3>5. \A y \in handles'[id] : y.granted # "none" => y.key = conn'[id].client
      BY <2>5, <3>1, <3>2, <3>3 DEF HandlesOK
    <3>6. \A y, z \in handles'[id] : y.f = z.f => y = z
      BY <2>5, <3>1, <3>4 DEF HandlesOK
    <3>. QED
      BY <3>2, <3>5, <3>6 DEF HandlesOK
  <2>8. RestOK(w)' /\ AnswerOK(w)'
    BY <2>5, SMTT(30) DEF RestOK, AnswerOK, Idle, Stage
  <2>. QED
    BY <2>4, <2>5, <2>6, <2>7, <2>8, <1>OwnHandles

<1>FinalizeHandles. ASSUME RouteInv, OwnInv, HandleInv, NEW w \in Workers, NEW id \in Conns, FinalizeClose(w, id)
      PROVE  HandleInv'
  <2>. USE <1>FinalizeHandles
  <2>1. conn[id].state = "closing" /\ conn[id].loc[1] = w /\ wk[w].pc = "idle"
    BY DEF FinalizeClose
  <2>2. conn[id].sess = id /\ BornKept /\ conn'[id].client = conn[id].client
    <3>1. conn[id].state # "unborn"
      BY <2>1
    <3>. QED
      BY <3>1, EndKeeps, KeptBorn DEF OwnInv, OwnSession, BornKept
  <2>3. /\ handles'[id] \subseteq handles[id] /\ \A s \in Conns : s # id => handles'[s] = handles[s]
    BY <2>2, Typed DEF FinalizeClose
  <2>4. PICK R : /\ R \subseteq handles[id]
                 /\ wk' = [wk EXCEPT ![w] = [Breaking(id, <<>>, None, "teardown", None, None)
                                     EXCEPT !.pc = "teardown", !.sess = None, !.rest = R]]
    BY <2>2 DEF FinalizeClose
  <2>5. PICK x : x = [Breaking(id, <<>>, None, "teardown", None, None) EXCEPT !.pc = "teardown", !.sess = None, !.rest = R]
    OBVIOUS
  <2>6. x.pc = "teardown" /\ x.rest = R /\ x.id = id
    BY <2>5 DEF Breaking, Idle
  <2>7. wk'[w] = x /\ \A v \in Workers : v # w => wk'[v] = wk[v]
    BY <2>4, <2>5, Typed
  <2>8. HandlesOK(id) /\ HandlesOK(id)'
    <3>1. HandlesOK(id)
      BY DEF HandleInv
    <3>2. conn'[id].state # "unborn"
      BY <2>1, <2>2 DEF BornKept
    <3>. QED
      BY <2>2, <2>3, <3>1, <3>2 DEF HandlesOK
  <2>9. RestOK(w)'
    BY <2>2, <2>4, <2>6, <2>7, <2>8 DEF RestOK, HandlesOK
  <2>10. AnswerOK(w)'
    BY <2>6, <2>7 DEF AnswerOK, Stage
  <2>. QED
    BY <2>1, <2>2, <2>3, <2>7, <2>8, <2>9, <2>10, <1>OwnHandles

\* Steps with nothing but the thread's place in its work.
<1>PlainStill. ASSUME RouteInv, NEW w \in Workers, NEW r, r = wk[w], NEW x, wk' = [wk EXCEPT ![w] = x],
             x.rest \subseteq r.rest, x.id = r.id,
             x.sess = r.sess, x.resp = r.resp, x.h = r.h, Stage(x) = Stage(r)
      PROVE  \A v \in Workers : Still(v)
  <2>. USE <1>PlainStill
  <2>1. wk'[w] = x
    BY Typed
  <2>2. Still(w)
    BY <2>1 DEF Still
  <2>. QED
    BY <2>2, <1>OneStill

<1>DoneStill. ASSUME RouteInv, NEW w \in Workers, NEW x, wk' = [wk EXCEPT ![w] = x], x.rest = {},
             x.pc \in {"idle", "deliver"}
      PROVE  \A v \in Workers : Still(v)
  <2>. USE <1>DoneStill
  <2>1. wk'[w] = x
    BY Typed
  <2>2. Stage(x) \notin {"grant", "reply", "unlink"}
    BY DEF Stage
  <2>3. Still(w)
    BY <2>1, <2>2 DEF Still
  <2>. QED
    BY <2>3, <1>OneStill

<1>UnlinkStill. ASSUME RouteInv, NEW w \in Workers, Unlink(w)
      PROVE  \A v \in Workers : Still(v)
  <2>. USE <1>UnlinkStill
  <2>1. PICK r : r = wk[w]
    OBVIOUS
  <2>2. PICK p : p \in {"reply", "teardown"} /\ wk' = [wk EXCEPT ![w] = [r EXCEPT !.pc = p]]
    BY <2>1 DEF Unlink
  <2>3. PICK x : x = [r EXCEPT !.pc = p]
    OBVIOUS
  <2>4. r.pc = "unlink" /\ r \in ThreadState
    BY <2>1, Typed DEF Unlink
  <2>5. x.pc = p /\ x.rest = r.rest /\ x.id = r.id /\ x.sess = r.sess /\ x.resp = r.resp /\ x.h = r.h
    BY <2>3, <2>4 DEF ThreadState
  <2>6. Stage(r) = "unlink" /\ Stage(x) = p
    BY <2>2, <2>4, <2>5 DEF Stage
  <2>7. wk' = [wk EXCEPT ![w] = x] /\ wk'[w] = x
    BY <2>2, <2>3, Typed
  <2>8. Still(w)
    BY <2>1, <2>2, <2>5, <2>6, <2>7 DEF Still
  <2>. QED
    BY <2>7, <2>8, <1>OneStill

<1>BreakStill. ASSUME RouteInv, NEW w \in Workers, BreakConflicts(w)
      PROVE  \A v \in Workers : Still(v)
  <2>. USE <1>BreakStill
  <2>1. PICK r : r = wk[w]
    OBVIOUS
  <2>2. r.pc = "break" /\ r \in ThreadState /\ Serving(w, r)
    BY <2>1, Typed DEF BreakConflicts, RouteInv, ThreadOK
  <2>3. Stage(r) = r.next /\ r.next \in {"grant", "unlink", "reply", "teardown"}
    BY <2>2 DEF Serving, Stage
  <2>4. PICK bs : bs = Conflicts(Head(r.todo), r.except)
    OBVIOUS
  <2>5. PICK y : y = [r EXCEPT !.todo = Tail(@), !.msgs = bs]
    OBVIOUS
  <2>6. PICK p : p = IF bs = {} THEN AfterBreak(y) ELSE "post"
    OBVIOUS
  <2>7. PICK x : x = [y EXCEPT !.pc = p]
    OBVIOUS
  <2>8. wk' = [wk EXCEPT ![w] = x]
    BY <2>1, <2>4, <2>5, <2>6, <2>7 DEF BreakConflicts
  <2>9. y.next = r.next
    BY <2>2, <2>5 DEF ThreadState
  <2>10. p \in {"post", "break"} \/ p = r.next
    BY <2>6, <2>9 DEF AfterBreak
  <2>11. /\ x.pc = p /\ x.rest = r.rest /\ x.id = r.id /\ x.sess = r.sess /\ x.resp = r.resp /\ x.h = r.h
         /\ x.next = r.next
    BY <2>2, <2>5, <2>7 DEF ThreadState
  <2>12. Stage(x) = Stage(r)
    BY <2>3, <2>10, <2>11 DEF Stage
  <2>. QED
    BY <2>1, <2>8, <2>11, <2>12, <1>PlainStill

<1>PostStill. ASSUME RouteInv, NEW w \in Workers, PostSignal(w) \/ \E m \in wk[w].msgs : PostPush(w, m)
      PROVE  \A v \in Workers : Still(v)
  <2>. USE <1>PostStill
  <2>1. PICK r : r = wk[w]
    OBVIOUS
  <2>2. r.pc \in {"post", "signal"} /\ r \in ThreadState
    BY <2>1, Typed DEF PostSignal, PostPush
  <2>3. Serving(w, r)
    BY <2>1, <2>2 DEF RouteInv, ThreadOK
  <2>4. Stage(r) = r.next /\ r.next \in {"grant", "unlink", "reply", "teardown"}
    BY <2>2, <2>3 DEF Serving, Stage
  <2>5. CASE PostSignal(w)
    <3>1. PICK p : p = IF r.msgs = {} THEN AfterBreak(r) ELSE "post"
      OBVIOUS
    <3>2. PICK x : x = [r EXCEPT !.pc = p]
      OBVIOUS
    <3>3. wk' = [wk EXCEPT ![w] = x]
      BY <2>1, <2>5, <3>1, <3>2 DEF PostSignal
    <3>4. p \in {"post", "break"} \/ p = r.next
      BY <3>1 DEF AfterBreak
    <3>5. /\ x.pc = p /\ x.rest = r.rest /\ x.id = r.id /\ x.sess = r.sess /\ x.resp = r.resp /\ x.h = r.h
          /\ x.next = r.next
      BY <2>2, <3>2 DEF ThreadState
    <3>6. Stage(x) = Stage(r)
      BY <2>4, <3>4, <3>5 DEF Stage
    <3>. QED
      BY <2>1, <3>3, <3>5, <3>6, <1>PlainStill
  <2>6. ASSUME NEW m, PostPush(w, m) PROVE \A v \in Workers : Still(v)
    <3>1. PICK x : x = [r EXCEPT !.pc = "signal", !.msgs = r.msgs \ {m}, !.signal = m.loc[1]]
      OBVIOUS
    <3>2. wk' = [wk EXCEPT ![w] = x]
      BY <2>1, <2>6, <3>1 DEF PostPush
    <3>3. /\ x.pc = "signal" /\ x.rest = r.rest /\ x.id = r.id /\ x.sess = r.sess /\ x.resp = r.resp /\ x.h = r.h
          /\ x.next = r.next
      BY <2>2, <3>1 DEF ThreadState
    <3>4. Stage(x) = Stage(r)
      BY <2>4, <3>3 DEF Stage
    <3>. QED
      BY <2>1, <3>2, <3>3, <3>4, <1>PlainStill
  <2>. QED
    BY <2>5, <2>6

<1>WakeStill. ASSUME RouteInv, NEW w \in Workers,
             Respond(w) \/ ArmWake(w) \/ ReleaseConn(w) \/ OnWake(w) \/ DeliverBreak(w)
      PROVE  \A v \in Workers : Still(v)
  <2>. USE <1>WakeStill
  <2>1. CASE Respond(w) \/ ArmWake(w) \/ ReleaseConn(w)
    <3>1. wk' = [wk EXCEPT ![w] = Idle]
      BY <2>1 DEF Respond, ArmWake, ReleaseConn
    <3>2. Idle.rest = {} /\ Idle.pc \in {"idle", "deliver"}
      BY DEF Idle
    <3>. QED
      BY <3>1, <3>2, <1>DoneStill
  <2>2. CASE OnWake(w)
    <3>1. PICK x : x = [Idle EXCEPT !.pc = "deliver", !.inbox = mbox[w]]
      OBVIOUS
    <3>2. wk' = [wk EXCEPT ![w] = x]
      BY <2>2, <3>1 DEF OnWake
    <3>3. x.rest = {} /\ x.pc \in {"idle", "deliver"}
      BY <3>1 DEF Idle
    <3>. QED
      BY <3>2, <3>3, <1>DoneStill
  <2>3. CASE DeliverBreak(w)
    <3>1. PICK r : r = wk[w]
      OBVIOUS
    <3>2. PICK x : x = [r EXCEPT !.inbox = Tail(@)]
      OBVIOUS
    <3>3. wk' = [wk EXCEPT ![w] = x] /\ r.pc = "deliver" /\ r \in ThreadState
      BY <2>3, <3>1, <3>2, Typed DEF DeliverBreak
    <3>4. x.rest = r.rest /\ x.pc = r.pc
      BY <3>2, <3>3 DEF ThreadState
    <3>5. x.rest = {} /\ x.pc \in {"idle", "deliver"}
      BY <3>1, <3>3, <3>4, <1>RestServed
    <3>. QED
      BY <3>3, <3>5, <1>DoneStill
  <2>. QED
    BY <2>1, <2>2, <2>3

<1>TeardownStill. ASSUME RouteInv, NEW w \in Workers, NEW h, TeardownHandle(w, h)
      PROVE  \A v \in Workers : Still(v)
  <2>. USE <1>TeardownStill
  <2>1. PICK r : r = wk[w]
    OBVIOUS
  <2>2. r.pc = "teardown" /\ r \in ThreadState /\ Serving(w, r)
    BY <2>1, Typed DEF TeardownHandle, RouteInv, ThreadOK
  <2>3. Stage(r) = "teardown" /\ r.sess = None
    BY <2>2 DEF Serving, Stage
  <2>4. PICK y : y = [r EXCEPT !.rest = @ \ {h}]
    OBVIOUS
  <2>5. y.pc = r.pc /\ y.rest = r.rest \ {h} /\ y.id = r.id /\ y.sess = r.sess /\ y.resp = r.resp /\ y.h = r.h
    BY <2>2, <2>4 DEF ThreadState
  <2>6. CASE ~h.doc
    <3>1. wk' = [wk EXCEPT ![w] = y]
      BY <2>1, <2>4, <2>6 DEF TeardownHandle
    <3>2. Stage(y) = Stage(r) /\ y.rest \subseteq r.rest
      BY <2>2, <2>5 DEF Stage
    <3>. QED
      BY <2>1, <2>5, <3>1, <3>2, <1>PlainStill
  <2>7. CASE h.doc
    <3>1. PICK x : x = [y EXCEPT !.h = h, !.except = h.key, !.next = "unlink", !.todo = <<h.f>>, !.pc = "break"]
      OBVIOUS
    <3>2. wk' = [wk EXCEPT ![w] = x]
      BY <2>1, <2>4, <2>7, <3>1 DEF TeardownHandle
    <3>3. x.pc = "break" /\ x.next = "unlink" /\ x.rest = y.rest /\ x.id = r.id /\ x.sess = r.sess
      BY <2>2, <2>4, <3>1 DEF ThreadState
    <3>4. Stage(x) = "unlink" /\ x.sess = None
      BY <2>3, <3>3 DEF Stage
    <3>5. wk'[w] = x
      BY <3>2, Typed
    <3>6. Still(w)
      BY <2>1, <2>5, <3>3, <3>4, <3>5 DEF Still
    <3>. QED
      BY <3>2, <3>6, <1>OneStill
  <2>. QED
    BY <2>6, <2>7

<1>1. ASSUME NEW w \in Workers, Continue(w) PROVE HandleInv'
  <2>1. BornKept
    BY <1>1, ContinueStays, KeptBorn DEF Stays
  <2>2. CASE Grant(w)
    BY <1>1, <2>2, <1>GrantHandles
  <2>3. CASE \/ Unlink(w) \/ BreakConflicts(w) \/ PostSignal(w) \/ (\E m \in wk[w].msgs : PostPush(w, m))
             \/ ArmWake(w) \/ ReleaseConn(w) \/ Respond(w) \/ DeliverBreak(w) \/ \E h \in wk[w].rest : TeardownHandle(w, h)
    <3>1. handles' = handles
      BY <2>3 DEF Unlink, BreakConflicts, PostSignal, PostPush, ArmWake, ReleaseConn, Respond, DeliverBreak,
                         TeardownHandle
    <3>2. \A v \in Workers : Still(v)
      BY <1>1, <2>3, <1>UnlinkStill, <1>BreakStill, <1>PostStill, <1>WakeStill, <1>TeardownStill
    <3>. QED
      BY <2>1, <3>1, <3>2, <1>AllStill
  <2>. QED
    BY <1>1, <2>2, <2>3 DEF Continue
<1>2. ASSUME NEW w \in Workers, OnWake(w) PROVE HandleInv'
  <2>1. BornKept /\ handles' = handles
    BY <1>2 DEF OnWake, BornKept
  <2>. QED
    BY <1>2, <2>1, <1>WakeStill, <1>AllStill
<1>3. ASSUME UNCHANGED <<handles, wk>>, BornKept PROVE HandleInv'
  BY <1>3, <1>SameStill, <1>AllStill
<1>4. ASSUME NEW w \in Workers, KernelWake(w) PROVE HandleInv'
  BY <1>3, <1>4 DEF KernelWake, BornKept
<1>5. ASSUME NEW id \in Conns, SendDone(id) \/ CloseConn(id) PROVE HandleInv'
  <2>1. BornKept
    BY <1>5, SendKeeps, EndKeeps, KeptBorn
  <2>. QED
    BY <1>3, <1>5, <2>1 DEF SendDone, CloseConn
<1>6. ASSUME NEW id \in Conns, ClientRecv(id) \/ ClientDown(id) PROVE HandleInv'
  BY <1>3, <1>6 DEF ClientRecv, ClientDown, servervars, BornKept
<1>7. ASSUME NEW l \in Locs, NEW id \in Conns, NEW s \in Conns, NEW c \in Clients, Accept(l, id, c, s) PROVE HandleInv'
  <2>1. BornKept
    BY <1>7, AcceptFacts, JoinsBorn
  <2>. QED
    BY <1>3, <1>7, <2>1 DEF Accept
<1>. QED
  BY <1>1, <1>2, <1>4, <1>5, <1>6, <1>7, <1>RequestHandles, <1>FinalizeHandles DEF Next

------------------------------------------------------------------------------
(* What the client relies on *)

\* The client's view of f is what it was, or it no longer has one.
Less(c, f) ==
  \/ belief'[c][f] = belief[c][f] /\ cache'[c][f] = cache[c][f]
  \/ belief'[c][f] = "none" /\ cache'[c][f] = NoCache

LEMMA SameLess ==
  ASSUME UNCHANGED <<belief, cache>>
  PROVE  \A c \in Clients, f \in Files : Less(c, f)
BY DEF Less

LEMMA Forgets ==
  ASSUME RouteInv, NEW c \in Clients, NEW f \in Files, Forget(c, f)
  PROVE  /\ belief'[c][f] = "none" /\ cache'[c][f] = NoCache
         /\ \A d \in Clients, g \in Files :
              d # c \/ g # f => belief'[d][g] = belief[d][g] /\ cache'[d][g] = cache[d][g]
<1>1. belief \in [Clients -> [Files -> LeaseStates]] /\ cache \in [Clients -> [Files -> Nat \cup {NoCache}]]
  BY Side DEF SideOK
<1>2. belief'[c][f] = "none" /\ cache'[c][f] = NoCache
  BY <1>1 DEF Forget
<1>3. ASSUME NEW d \in Clients, NEW g \in Files, d # c \/ g # f
      PROVE  belief'[d][g] = belief[d][g] /\ cache'[d][g] = cache[d][g]
  BY <1>1, <1>3 DEF Forget
<1>. QED
  BY <1>2, <1>3

LEMMA ForgetLess ==
  ASSUME RouteInv, NEW c \in Clients, NEW f \in Files, Forget(c, f)
  PROVE  \A d \in Clients, g \in Files : Less(d, g)
BY Forgets DEF Less

\* A client that is up is known.
LEMMA UpBorn ==
  ASSUME RouteInv, NEW i \in Conns, link[i].up
  PROVE  conn[i].state # "unborn" /\ conn[i].client \in Clients
BY DEF RouteInv, TxOK, PlaceOK

\* The client of id reads frame m.
Received(id, m) ==
  /\ UNCHANGED <<servervars, filevars>>
  /\ link[id].up /\ link[id].wire # <<>> /\ m = Head(link[id].wire) /\ m.f \in Files
  /\ link'[id].up /\ link'[id].wire = Tail(link[id].wire) /\ \A i \in Conns : i # id => link'[i] = link[i]
  /\ \A d \in Clients, f \in Files :
       d # conn[id].client \/ f # m.f => belief'[d][f] = belief[d][f] /\ cache'[d][f] = cache[d][f]
  /\ m.kind = "create" =>
       /\ belief'[conn[id].client][m.f] = IF m.granted = "none" THEN belief[conn[id].client][m.f] ELSE m.granted
       /\ cache'[conn[id].client][m.f] = cache[conn[id].client][m.f]
  /\ m.kind = "read" =>
       /\ belief'[conn[id].client][m.f] = belief[conn[id].client][m.f]
       /\ cache'[conn[id].client][m.f] =
            IF belief[conn[id].client][m.f] = "none" THEN cache[conn[id].client][m.f] ELSE m.ver
  /\ m.kind = "break" => belief'[conn[id].client][m.f] = "none" /\ cache'[conn[id].client][m.f] = NoCache
  /\ m.kind \notin {"create", "read", "break"} =>
       /\ belief'[conn[id].client][m.f] = belief[conn[id].client][m.f]
       /\ cache'[conn[id].client][m.f] = cache[conn[id].client][m.f]

LEMMA RecvFacts ==
  ASSUME Alone, RouteInv, NEW id \in Conns, ClientRecv(id)
  PROVE  \E m : Received(id, m)
<1>1. PICK m : m = Head(link[id].wire)
  OBVIOUS
<1>2. PICK c : c = conn[id].client
  OBVIOUS
<1>3. link[id].up /\ link[id].wire # <<>> /\ c \in Clients
  BY <1>2, UpBorn DEF ClientRecv
<1>4. m \in BreakFrame \cup Response
  <2>1. link[id].wire \in Seq(BreakFrame \cup Response)
    BY Typed DEF LinkType
  <2>. QED
    BY <1>1, <1>3, <2>1, SMTT(30)
<1>5. m.f \in Files
  BY <1>4 DEF BreakFrame, Response
<1>6. link'[id].up /\ link'[id].wire = Tail(link[id].wire) /\ \A i \in Conns : i # id => link'[i] = link[i]
  <2>1. link'[id] = [link[id] EXCEPT !.wire = Tail(@)] /\ \A i \in Conns : i # id => link'[i] = link[i]
    BY Typed DEF ClientRecv
  <2>2. link'[id].up = link[id].up /\ link'[id].wire = Tail(link[id].wire)
    BY <2>1, Typed DEF LinkType
  <2>. QED
    BY <1>3, <2>1, <2>2
<1>7. belief \in [Clients -> [Files -> LeaseStates]] /\ cache \in [Clients -> [Files -> Nat \cup {NoCache}]]
  BY Side DEF SideOK
<1>8. UNCHANGED <<servervars, filevars>>
  BY DEF ClientRecv
<1>9. CASE m.kind = "create"
  <2>1. OnCreate(c, m)
    BY <1>1, <1>2, <1>9 DEF ClientRecv
  <2>2. cache' = cache
    BY <2>1 DEF OnCreate, Alone
  <2>3. CASE m.granted = "none"
    <3>1. belief' = belief
      BY <2>1, <2>3 DEF OnCreate
    <3>2. m.kind \notin {"read", "break"} /\ m.kind \in {"create", "read", "break"}
      BY <1>9
    <3>. QED
      BY <1>1, <1>3, <1>5, <1>6, <1>8, <1>9, <2>2, <2>3, <3>1, <3>2 DEF Received
  <2>4. CASE m.granted # "none"
    <3>1. belief' = [belief EXCEPT ![c][m.f] = m.granted]
      BY <2>1, <2>4 DEF OnCreate
    <3>2. /\ belief'[c][m.f] = m.granted
          /\ \A d \in Clients, f \in Files : d # c \/ f # m.f => belief'[d][f] = belief[d][f]
      BY <1>3, <1>5, <1>7, <3>1
    <3>3. m.kind # "read" /\ m.kind # "break" /\ m.kind \in {"create", "read", "break"}
      BY <1>9
    <3>. QED
      BY <1>1, <1>2, <1>3, <1>5, <1>6, <1>8, <1>9, <2>2, <2>4, <3>2, <3>3 DEF Received
  <2>. QED
    BY <2>3, <2>4
<1>10. CASE m.kind = "read"
  <2>1. OnRead(c, m)
    BY <1>1, <1>2, <1>10 DEF ClientRecv
  <2>2. belief' = belief
    BY <2>1 DEF OnRead
  <2>3. cache'[c][m.f] = IF belief[c][m.f] = "none" THEN cache[c][m.f] ELSE m.ver
    BY <1>3, <1>5, <1>7, <2>1 DEF OnRead
  <2>4. \A d \in Clients, f \in Files : d # c \/ f # m.f => cache'[d][f] = cache[d][f]
    BY <1>3, <1>5, <1>7, <2>1 DEF OnRead
  <2>5. m.kind # "create" /\ m.kind # "break" /\ m.kind \in {"create", "read", "break"}
    BY <1>10
  <2>. QED
    BY <1>1, <1>2, <1>3, <1>5, <1>6, <1>8, <1>10, <2>2, <2>3, <2>4, <2>5 DEF Received
<1>11. CASE m.kind = "break"
  <2>1. Forget(c, m.f)
    BY <1>1, <1>2, <1>11 DEF ClientRecv
  <2>2. /\ belief'[c][m.f] = "none" /\ cache'[c][m.f] = NoCache
        /\ \A d \in Clients, g \in Files :
             d # c \/ g # m.f => belief'[d][g] = belief[d][g] /\ cache'[d][g] = cache[d][g]
    BY <1>3, <1>5, <2>1, Forgets
  <2>3. m.kind # "create" /\ m.kind # "read" /\ m.kind \in {"create", "read", "break"}
    BY <1>11
  <2>. QED
    BY <1>1, <1>2, <1>3, <1>5, <1>6, <1>8, <1>11, <2>2, <2>3 DEF Received
<1>12. CASE m.kind \notin {"create", "read", "break"}
  <2>1. UNCHANGED <<belief, cache>>
    BY <1>1, <1>12 DEF ClientRecv
  <2>2. m.kind # "create" /\ m.kind # "read" /\ m.kind # "break"
    BY <1>12
  <2>. QED
    BY <1>1, <1>3, <1>5, <1>6, <1>8, <1>12, <2>1, <2>2 DEF Received
<1>. QED
  BY <1>9, <1>10, <1>11, <1>12

\* The client of id goes, and relies on nothing more.
Left(id) ==
  /\ UNCHANGED <<servervars, filevars>> /\ ~link'[id].up /\ link'[id].wire = <<>> /\ \A i \in Conns : i # id => link'[i] = link[i]
  /\ \A f \in Files : belief'[conn[id].client][f] = "none" /\ cache'[conn[id].client][f] = NoCache
  /\ \A d \in Clients : d # conn[id].client => belief'[d] = belief[d] /\ cache'[d] = cache[d]

LEMMA DownFacts ==
  ASSUME RouteInv, OwnInv, NEW id \in Conns, ClientDown(id)
  PROVE  Left(id)
<1>1. PICK c : c = conn[id].client
  OBVIOUS
<1>2. link[id].up /\ c \in Clients
  BY <1>1, UpBorn DEF ClientDown
<1>3. ~\E i \in Conns \ {id} : link[i].up /\ conn[i].client = c
  BY <1>1, <1>2, LeasesAssumption DEF OwnInv, OwnSession
<1>4. /\ belief' = [belief EXCEPT ![c] = [f \in Files |-> "none"]]
      /\ cache' = [cache EXCEPT ![c] = [f \in Files |-> NoCache]]
  BY <1>1, <1>3 DEF ClientDown
<1>5. belief \in [Clients -> [Files -> LeaseStates]] /\ cache \in [Clients -> [Files -> Nat \cup {NoCache}]]
  BY Side DEF SideOK
<1>6. /\ \A f \in Files : belief'[c][f] = "none" /\ cache'[c][f] = NoCache
      /\ \A d \in Clients : d # c => belief'[d] = belief[d] /\ cache'[d] = cache[d]
  BY <1>2, <1>4, <1>5
<1>7. ~link'[id].up /\ link'[id].wire = <<>> /\ \A i \in Conns : i # id => link'[i] = link[i]
  BY Typed DEF ClientDown
<1>8. UNCHANGED <<servervars, filevars>>
  BY DEF ClientDown
<1>. QED
  BY <1>1, <1>6, <1>7, <1>8 DEF Left

LEMMA CloseLess ==
  ASSUME RouteInv, NEW w \in Workers, NEW id \in Conns, NEW h, Close(w, id, h)
  PROVE  \A c \in Clients, f \in Files : Less(c, f)
<1>1. Ready(w, id) /\ h \in handles[conn[id].sess]
  BY DEF Close
<1>2. PICK c : c = conn[id].client
  OBVIOUS
<1>3. c \in Clients /\ h.f \in Files
  BY <1>1, <1>2, ReadyOpen, RequestHandle
<1>4. Forget(c, h.f) \/ UNCHANGED <<belief, cache>>
  BY <1>2 DEF Close
<1>. QED
  BY <1>3, <1>4, ForgetLess, SameLess

LEMMA ClientStep ==
  ASSUME Alone, RouteInv, OwnInv, ClientInv, Next
  PROVE  ClientInv'

<1>ClientsKept. ASSUME RouteInv, ClientInv, BornKept, \A i \in Conns : link[i].up => link'[i].up,
             \A c \in Clients, f \in Files : Less(c, f)
      PROVE  ClientInv'
  <2>. USE <1>ClientsKept
  <2>1. ASSUME NEW c \in Clients, NEW f \in Files, belief'[c][f] # "none"
        PROVE  \E i \in Conns : conn'[i].client = c /\ link'[i].up
    <3>1. belief[c][f] # "none"
      BY <2>1 DEF Less
    <3>2. PICK i \in Conns : conn[i].client = c /\ link[i].up
      BY <2>1, <3>1 DEF ClientInv, ClientOK
    <3>3. conn'[i].client = c
      BY <3>2, UpBorn DEF BornKept
    <3>. QED
      BY <3>2, <3>3
  <2>2. ASSUME NEW c \in Clients, NEW f \in Files, cache'[c][f] # NoCache
        PROVE  belief'[c][f] # "none"
    <3>1. Less(c, f)
      BY <2>2
    <3>2. cache'[c][f] = cache[c][f] /\ belief'[c][f] = belief[c][f]
      BY <2>2, <3>1 DEF Less
    <3>. QED
      BY <2>2, <3>2 DEF ClientInv, ClientOK
  <2>. QED
    BY <2>1, <2>2 DEF ClientInv, ClientOK

<1>RequestLess. ASSUME RouteInv, NEW w \in Workers, NEW id \in Conns, Request(w, id)
      PROVE  \A c \in Clients, f \in Files : Less(c, f)
  <2>. USE <1>RequestLess
  <2>1. ASSUME NEW h, Close(w, id, h) PROVE \A c \in Clients, f \in Files : Less(c, f)
    BY <2>1, CloseLess
  <2>2. ASSUME UNCHANGED <<belief, cache>> PROVE \A c \in Clients, f \in Files : Less(c, f)
    BY <2>2, SameLess
  <2>3. ASSUME NEW f, NEW want, NEW o, NEW d, CreateOpen(w, id, f, want, o, d)
        PROVE  \A c \in Clients, g \in Files : Less(c, g)
    BY <2>2, <2>3 DEF CreateOpen, clientvars
  <2>4. ASSUME NEW h, Read(w, id, h) \/ Write(w, id, h) PROVE \A c \in Clients, f \in Files : Less(c, f)
    BY <2>2, <2>4 DEF Read, Write, clientvars
  <2>5. ASSUME NEW h, NEW g, Rename(w, id, h, g) \/ SetDisposition(w, id, h, g)
        PROVE  \A c \in Clients, f \in Files : Less(c, f)
    BY <2>2, <2>5 DEF Rename, SetDisposition, clientvars
  <2>. QED
    BY <2>1, <2>3, <2>4, <2>5 DEF Request

<1>ContinueSame. ASSUME NEW w \in Workers, Continue(w)
      PROVE  UNCHANGED <<ver, belief, cache>>
  BY <1>ContinueSame DEF Continue, Grant, Unlink, Respond, BreakConflicts, PostSignal, PostPush, DeliverBreak, ArmWake,
               ReleaseConn, TeardownHandle, filevars, clientvars

<1>1. ASSUME Stays, \A c \in Clients, f \in Files : Less(c, f) PROVE ClientInv'
  BY <1>1, KeptBorn, <1>ClientsKept DEF Stays
<1>2. ASSUME NEW w \in Workers, NEW id \in Conns, Request(w, id) PROVE ClientInv'
  BY <1>1, <1>2, RequestStays, <1>RequestLess
<1>3. ASSUME NEW w \in Workers, Continue(w) PROVE ClientInv'
  BY <1>1, <1>3, ContinueStays, <1>ContinueSame, SameLess
<1>4. ASSUME UNCHANGED <<link, belief, cache>>, \A i \in Conns : Keeps(i) PROVE ClientInv'
  BY <1>4, SameLess, KeptBorn, <1>ClientsKept
<1>5. ASSUME NEW w \in Workers, KernelWake(w) \/ OnWake(w) PROVE ClientInv'
  BY <1>4, <1>5 DEF KernelWake, OnWake, clientvars, Keeps
<1>6. ASSUME NEW w \in Workers, NEW id \in Conns, FinalizeClose(w, id) PROVE ClientInv'
  BY <1>4, <1>6, EndKeeps DEF FinalizeClose, clientvars
<1>11. ASSUME NEW id \in Conns, CloseConn(id) PROVE ClientInv'
  BY <1>4, <1>11, EndKeeps DEF CloseConn, clientvars
<1>7. ASSUME NEW id \in Conns, SendDone(id) PROVE ClientInv'
  BY <1>1, <1>7, SendKeeps, SendUp, SameLess DEF SendDone, Stays
<1>8. ASSUME NEW l \in Locs, NEW id \in Conns, NEW s \in Conns, NEW c \in Clients, Accept(l, id, c, s) PROVE ClientInv'
  <2>1. Joins(id, c) /\ BornKept
    BY <1>8, AcceptFacts, JoinsBorn
  <2>2. \A i \in Conns : link[i].up => link'[i].up
    BY <2>1 DEF Joins
  <2>. QED
    BY <1>8, <2>1, <2>2, SameLess, <1>ClientsKept DEF Accept
<1>9. ASSUME NEW id \in Conns, ClientRecv(id) PROVE ClientInv'
  <2>1. PICK m : Received(id, m)
    BY <1>9, RecvFacts
  <2>2. PICK c : c = conn[id].client
    OBVIOUS
  <2>3. /\ conn' = conn /\ link[id].up /\ link'[id].up /\ \A i \in Conns : link[i].up => link'[i].up
        /\ \A d \in Clients, f \in Files :
             d # c \/ f # m.f => belief'[d][f] = belief[d][f] /\ cache'[d][f] = cache[d][f]
    BY <2>1, <2>2 DEF Received, servervars
  <2>4. ASSUME NEW d \in Clients, NEW f \in Files, belief'[d][f] # "none"
        PROVE  \E i \in Conns : conn'[i].client = d /\ link'[i].up
    <3>1. CASE d = c
      BY <2>2, <2>3, <3>1
    <3>2. CASE d # c
      <4>0. belief[d][f] # "none" /\ ClientOK(d)
        BY <2>3, <2>4, <3>2 DEF ClientInv
      <4>1. PICK i \in Conns : conn[i].client = d /\ link[i].up
        BY <2>4, <4>0 DEF ClientOK
      <4>. QED
        BY <4>1, <2>3, SMTT(30)
    <3>. QED
      BY <3>1, <3>2
  <2>5. ASSUME NEW d \in Clients, NEW f \in Files, cache'[d][f] # NoCache
        PROVE  belief'[d][f] # "none"
    <3>1. CASE d # c \/ f # m.f
      <4>1. belief'[d][f] = belief[d][f] /\ cache[d][f] # NoCache /\ ClientOK(d)
        BY <2>3, <2>5, <3>1 DEF ClientInv
      <4>. QED
        BY <2>5, <4>1 DEF ClientOK
    <3>2. CASE d = c /\ f = m.f
      <4>1. cache[c][f] # NoCache => belief[c][f] # "none"
        BY <2>5, <3>2 DEF ClientInv, ClientOK
      <4>2. CASE m.kind = "create"
        BY <2>1, <2>2, <2>5, <3>2, <4>1, <4>2 DEF Received
      <4>3. CASE m.kind = "read"
        BY <2>1, <2>2, <2>5, <3>2, <4>1, <4>3 DEF Received
      <4>4. CASE m.kind = "break"
        BY <2>1, <2>2, <2>5, <3>2, <4>4 DEF Received
      <4>5. CASE m.kind \notin {"create", "read", "break"}
        BY <2>1, <2>2, <2>5, <3>2, <4>1, <4>5 DEF Received
      <4>. QED
        BY <4>2, <4>3, <4>4, <4>5
    <3>. QED
      BY <3>1, <3>2
  <2>. QED
    BY <2>4, <2>5 DEF ClientInv, ClientOK
<1>10. ASSUME NEW id \in Conns, ClientDown(id) PROVE ClientInv'
  <2>1. Left(id)
    BY <1>10, DownFacts
  <2>2. ASSUME NEW d \in Clients, NEW f \in Files
        PROVE  /\ belief'[d][f] # "none" => \E i \in Conns : conn'[i].client = d /\ link'[i].up
               /\ cache'[d][f] # NoCache => belief'[d][f] # "none"
    <3>1. CASE d = conn[id].client
      BY <2>1, <2>2, <3>1 DEF Left
    <3>2. CASE d # conn[id].client
      <4>1. conn' = conn /\ belief'[d] = belief[d] /\ cache'[d] = cache[d] /\ \A i \in Conns : i # id => link'[i] = link[i]
        BY <2>1, <2>2, <3>2 DEF Left, servervars
      <4>2. \A i \in Conns : conn[i].client = d /\ link[i].up => conn'[i].client = d /\ link'[i].up
        BY <4>1, <3>2
      <4>3. ClientOK(d)
        BY <2>2 DEF ClientInv
      <4>4. /\ belief[d][f] # "none" => \E i \in Conns : conn[i].client = d /\ link[i].up
            /\ cache[d][f] # NoCache => belief[d][f] # "none"
        BY <2>2, <4>3 DEF ClientOK
      <4>. QED
        BY <4>1, <4>2, <4>4
    <3>. QED
      BY <3>1, <3>2
  <2>. QED
    BY <2>2 DEF ClientInv, ClientOK
<1>. QED
  BY <1>2, <1>3, <1>5, <1>6, <1>7, <1>8, <1>9, <1>10, <1>11 DEF Next

------------------------------------------------------------------------------
(* What goes on the wire *)

IsBreak(m, f) == m.kind = "break" /\ m.f = f

\* A break of i's lease on f is deferred.
Queued(i, f) == \E k \in 1..Len(conn[i].deferred) : conn[i].deferred[k].f = f

\* The frames fs are added to what is in flight to the client of i.
Speaks(i, fs) ==
  /\ fs \in Seq(BreakFrame \cup Response) /\ Len(fs) \in Nat
  /\ link'[i].wire = link[i].wire \o fs

\* What was in flight stays where it was, fs behind it.
Longer(i, fs) ==
  /\ Len(link[i].wire) \in Nat /\ Len(link'[i].wire) = Len(link[i].wire) + Len(fs)
  /\ \A k \in 1..Len(link[i].wire) : k \in 1..Len(link'[i].wire) /\ link'[i].wire[k] = link[i].wire[k]
  /\ \A k \in 1..Len(link'[i].wire) : k \in 1..Len(link[i].wire) \/ \E n \in 1..Len(fs) : k = Len(link[i].wire) + n
  /\ \A n \in 1..Len(fs) : /\ Len(link[i].wire) + n \in 1..Len(link'[i].wire)
                           /\ link'[i].wire[Len(link[i].wire) + n] = fs[n]

LEMMA SpeaksLonger ==
  ASSUME RouteInv, NEW i \in Conns, NEW fs, Speaks(i, fs)
  PROVE  Longer(i, fs)
<1>1. PICK a : a = link[i].wire
  OBVIOUS
<1>2. PICK b : b = link'[i].wire
  OBVIOUS
<1>3. PICK T : T = BreakFrame \cup Response
  OBVIOUS
<1>4. a \in Seq(T) /\ fs \in Seq(T) /\ b = a \o fs
  BY <1>1, <1>2, <1>3, Typed DEF LinkType, Speaks
<1>5. /\ Len(a) \in Nat /\ Len(b) = Len(a) + Len(fs)
      /\ \A k \in 1..Len(a) : k \in 1..Len(b) /\ b[k] = a[k]
      /\ \A n \in 1..Len(fs) : Len(a) + n \in 1..Len(b) /\ b[Len(a) + n] = fs[n]
  BY <1>4, SMTT(30)
<1>6. ASSUME NEW k \in 1..Len(b) PROVE k \in 1..Len(a) \/ \E n \in 1..Len(fs) : k = Len(a) + n
  <2>1. k \in 1..Len(a) \/ (k - Len(a) \in 1..Len(fs) /\ k = Len(a) + (k - Len(a)))
    BY <1>4, SMTT(30)
  <2>. QED
    BY <2>1
<1>. QED
  BY <1>1, <1>2, <1>5, <1>6 DEF Longer

LEMMA Quiet ==
  ASSUME RouteInv, NEW i \in Conns, link'[i].wire = link[i].wire
  PROVE  Speaks(i, <<>>)
<1>1. PICK a : a = link[i].wire
  OBVIOUS
<1>2. a \in Seq(BreakFrame \cup Response)
  BY <1>1, Typed DEF LinkType
<1>3. a \o <<>> = a /\ <<>> \in Seq(BreakFrame \cup Response) /\ Len(<<>>) \in Nat
  BY <1>2, SMTT(30)
<1>. QED
  BY <1>1, <1>3 DEF Speaks

\* A response adds itself or, when it is a plain one, nothing.
Answered1(i, id, frame, fs) ==
  /\ Speaks(i, fs)
  /\ \/ fs = <<>> /\ (i # id \/ frame.kind = "ack" \/ ~link[i].up)
     \/ fs = <<frame>> /\ i = id /\ frame.kind # "ack"

LEMMA AnswersSpeak ==
  ASSUME RouteInv, NEW id \in Conns, NEW frame \in Response, Answers(id, frame), NEW i \in Conns
  PROVE  \E fs : Answered1(i, id, frame, fs)
<1>0. \/ link'[i].wire = link[i].wire /\ (i # id \/ frame.kind = "ack" \/ ~link[i].up)
      \/ link'[i].wire = link[i].wire \o <<frame>> /\ i = id /\ frame.kind # "ack"
  BY DEF Answers
<1>1. CASE link'[i].wire = link[i].wire /\ (i # id \/ frame.kind = "ack" \/ ~link[i].up)
  BY <1>1, Quiet DEF Answered1
<1>2. CASE link'[i].wire = link[i].wire \o <<frame>> /\ i = id /\ frame.kind # "ack"
  <2>1. i = id /\ frame.kind # "ack" /\ link'[i].wire = link[i].wire \o <<frame>>
    BY <1>2
  <2>2. <<frame>> \in Seq(BreakFrame \cup Response) /\ Len(<<frame>>) \in Nat
    BY SMTT(30)
  <2>3. Speaks(i, <<frame>>)
    BY <2>1, <2>2 DEF Speaks
  <2>. QED
    BY <2>1, <2>3 DEF Answered1
<1>. QED
  BY <1>0, <1>1, <1>2

\* Only breaks are added, and none that was deferred is lost to a client that is there.
Passes(i, fs) ==
  /\ Speaks(i, fs) /\ \A n \in 1..Len(fs) : fs[n].kind = "break"
  /\ \A f \in Files : Queued(i, f) /\ link[i].up => Queued(i, f)' \/ \E n \in 1..Len(fs) : IsBreak(fs[n], f)

LEMMA QuietPasses ==
  ASSUME RouteInv, NEW i \in Conns, link'[i].wire = link[i].wire, conn'[i].deferred = conn[i].deferred
  PROVE  Passes(i, <<>>)
<1>1. \A f : Queued(i, f) => Queued(i, f)'
  BY DEF Queued
<1>2. ~\E n \in 1..Len(<<>>) : TRUE
  BY SMTT(30)
<1>. QED
  BY <1>1, <1>2, Quiet DEF Passes

\* The deferred queue q goes out.
LEMMA FlushPasses ==
  ASSUME RouteInv, NEW i \in Conns, NEW q \in Seq(BreakFrame), link'[i] = Sent(link[i], q)
  PROVE  \E fs : /\ Speaks(i, fs) /\ \A n \in 1..Len(fs) : fs[n].kind = "break"
                 /\ link[i].up => fs = q
<1>1. PICK l : l = link[i]
  OBVIOUS
<1>2. l \in LinkType /\ l.wire \in Seq(BreakFrame \cup Response)
  BY <1>1, Typed DEF LinkType
<1>3. CASE ~l.up
  <2>1. Sent(l, q) = l
    BY <1>3 DEF Sent
  <2>2. ~\E n \in 1..Len(<<>>) : TRUE
    BY SMTT(30)
  <2>. QED
    BY <1>1, <1>3, <2>1, <2>2, Quiet
<1>4. CASE l.up
  <2>1. Sent(l, q).wire = l.wire \o q
    BY <1>2, <1>4 DEF Sent, LinkType
  <2>2. q \in Seq(BreakFrame \cup Response) /\ Len(q) \in Nat
    BY SMTT(30)
  <2>3. \A n \in 1..Len(q) : q[n].kind = "break"
    <3>1. \A n \in 1..Len(q) : q[n] \in BreakFrame
      BY SMTT(30)
    <3>2. \A b \in BreakFrame : b.kind = "break"
      BY DEF BreakFrame
    <3>. QED
      BY <3>1, <3>2
  <2>. QED
    BY <1>1, <2>1, <2>2, <2>3 DEF Speaks
<1>. QED
  BY <1>3, <1>4

LEMMA SendPasses ==
  ASSUME RouteInv, NEW id \in Conns, SendDone(id), NEW i \in Conns
  PROVE  \E fs : Passes(i, fs)
<1>1. /\ conn' = [conn EXCEPT ![id] = Flushed(@)]
      /\ link' = [link EXCEPT ![id] = Sent(@, conn[id].deferred)]
  BY DEF SendDone
<1>2. CASE i # id
  <2>1. conn'[i] = conn[i] /\ link'[i] = link[i]
    BY <1>1, <1>2, Typed
  <2>. QED
    BY <2>1, QuietPasses
<1>3. CASE i = id
  <2>1. PICK q : q = conn[i].deferred
    OBVIOUS
  <2>2. q \in Seq(BreakFrame)
    BY <2>1, Typed DEF ConnType
  <2>3. link'[i] = Sent(link[i], q)
    BY <1>1, <1>3, <2>1, Typed
  <2>4. PICK fs : /\ Speaks(i, fs) /\ \A n \in 1..Len(fs) : fs[n].kind = "break"
                  /\ link[i].up => fs = q
    BY <2>2, <2>3, FlushPasses
  <2>5. \A f \in Files : Queued(i, f) /\ link[i].up => \E n \in 1..Len(fs) : IsBreak(fs[n], f)
    BY <2>1, <2>4 DEF Queued, IsBreak
  <2>. QED
    BY <2>4, <2>5 DEF Passes
<1>. QED
  BY <1>2, <1>3

\* deliver_break takes the first message m of the inbox. It goes to the connection m
\* names, if that is still open.
LEMMA DeliverPasses ==
  ASSUME RouteInv, NEW w \in Workers, DeliverBreak(w), NEW i \in Conns
  PROVE  \E fs : /\ Passes(i, fs)
                 /\ \A f \in Files :
                      wk[w].inbox[1].f = f /\ wk[w].inbox[1].id = i /\ conn[i].state = "open" /\ link[i].up =>
                        Queued(i, f)' \/ \E n \in 1..Len(fs) : IsBreak(fs[n], f)
<1>1. PICK r : r = wk[w]
  OBVIOUS
<1>2. r \in ThreadState /\ r.inbox \in Seq(LeaseGrant) /\ r.inbox # <<>>
  BY <1>1, Typed DEF DeliverBreak, ThreadState
<1>3. PICK m : m = Head(r.inbox)
  OBVIOUS
<1>4. m = r.inbox[1] /\ 1 \in 1..Len(r.inbox) /\ m \in LeaseGrant
  BY <1>2, <1>3, SMTT(30)
<1>5. Addressed(m) /\ m.id \in Conns
  BY <1>1, <1>4, MsgTypes
<1>6. m.loc \in Locs /\ m.f \in Files /\ m.key \in Keys
  BY <1>4 DEF LeaseGrant
<1>7. conn[m.id].state = "open" => Deliverable(m)
  <2>1. SUFFICES ASSUME conn[m.id].state = "open" PROVE Deliverable(m)
    OBVIOUS
  <2>2. slot[m.loc] = m.id /\ conn[m.id].gen = m.gen
    <3>1. conn[m.id].state \in {"open", "closing"}
      BY <2>1
    <3>. QED
      BY <1>5, <3>1 DEF RouteInv, PlaceOK, Addressed
  <2>3. m.id # None
    BY <1>5, LeasesAssumption
  <2>. QED
    BY <2>1, <2>2, <2>3 DEF Deliverable
<1>8. CASE ~Deliverable(m)
  <2>1. conn' = conn /\ link' = link
    BY <1>1, <1>3, <1>8 DEF DeliverBreak
  <2>. QED
    BY <1>1, <1>4, <1>7, <1>8, <2>1, QuietPasses
<1>9. CASE Deliverable(m)
  <2>1. slot[m.loc] = m.id
    BY <1>4, <1>5, <1>9, OnlyHolder
  <2>2. PICK id : id = m.id
    OBVIOUS
  <2>3. PICK q : q = [conn[id] EXCEPT !.deferred =
                        Append(@, [kind |-> "break", f |-> m.f, key |-> m.key, to |-> m.id])]
    OBVIOUS
  <2>4. /\ conn' = [conn EXCEPT ![id] = IF q.sending THEN q ELSE Flushed(q)]
        /\ link' = [link EXCEPT ![id] = IF q.sending THEN link[id] ELSE Sent(link[id], q.deferred)]
    BY <1>1, <1>3, <1>9, <2>1, <2>2, <2>3 DEF DeliverBreak
  <2>5. /\ conn'[id] = IF q.sending THEN q ELSE Flushed(q)
        /\ link'[id] = IF q.sending THEN link[id] ELSE Sent(link[id], q.deferred)
        /\ \A j \in Conns : j # id => conn'[j] = conn[j] /\ link'[j] = link[j]
    BY <1>5, <2>2, <2>4, Typed
  <2>6. CASE i # id
    BY <1>1, <1>4, <2>2, <2>5, <2>6, QuietPasses
  <2>7. CASE i = id
    <3>1. PICK d : d = conn[i].deferred
      OBVIOUS
    <3>2. PICK b : b = [kind |-> "break", f |-> m.f, key |-> m.key, to |-> m.id]
      OBVIOUS
    <3>3. d \in Seq(BreakFrame) /\ b \in BreakFrame /\ b.f = m.f
      BY <1>5, <1>6, <3>1, <3>2, Typed DEF ConnType, BreakFrame
    <3>4. q.deferred = Append(d, b)
      BY <2>3, <2>7, <3>1, <3>2, Typed DEF ConnType
    <3>5. PICK D : D = Append(d, b)
      OBVIOUS
    <3>6. /\ D \in Seq(BreakFrame) /\ \A k \in 1..Len(d) : k \in 1..Len(D) /\ D[k] = d[k]
          /\ \E k \in 1..Len(D) : D[k] = b
      <4>1. Len(d) + 1 \in 1..Len(D) /\ D[Len(d) + 1] = b
        BY <3>3, <3>5, SMTT(30)
      <4>. QED
        BY <3>3, <3>5, <4>1, SMTT(30)
    <3>7. \A f : Queued(i, f) \/ f = m.f => \E k \in 1..Len(D) : D[k].f = f
      BY <3>1, <3>3, <3>6 DEF Queued
    <3>8. CASE q.sending
      <4>1. conn'[i].deferred = D /\ link'[i].wire = link[i].wire
        BY <2>5, <2>7, <3>4, <3>5, <3>8
      <4>2. \A f : Queued(i, f) \/ f = m.f => Queued(i, f)'
        BY <3>7, <4>1 DEF Queued
      <4>3. ~\E n \in 1..Len(<<>>) : TRUE
        BY SMTT(30)
      <4>. QED
        BY <1>1, <1>4, <4>1, <4>2, <4>3, Quiet DEF Passes
    <3>9. CASE ~q.sending
      <4>1. link'[i] = Sent(link[i], D)
        BY <2>5, <2>7, <3>4, <3>5, <3>9
      <4>2. PICK fs : /\ Speaks(i, fs) /\ \A n \in 1..Len(fs) : fs[n].kind = "break"
                      /\ link[i].up => fs = D
        BY <3>6, <4>1, FlushPasses
      <4>3. \A f : (Queued(i, f) \/ f = m.f) /\ link[i].up => \E n \in 1..Len(fs) : IsBreak(fs[n], f)
        BY <3>7, <4>2 DEF IsBreak
      <4>. QED
        BY <1>1, <1>4, <4>2, <4>3 DEF Passes
    <3>. QED
      BY <3>8, <3>9
  <2>. QED
    BY <2>6, <2>7
<1>. QED
  BY <1>8, <1>9

------------------------------------------------------------------------------
(* What the client is told of its leases *)

\* The client of i relies on nothing new.
Heeds(i) == conn[i].state = "open" => \A f \in Files : Less(conn[i].client, f)

LEMMA OpenClient ==
  ASSUME RouteInv, NEW i \in Conns, conn[i].state = "open"
  PROVE  conn[i].client \in Clients /\ conn[i].client # None
<1>1. conn[i].state # "unborn"
  OBVIOUS
<1>2. conn[i].client \in Clients
  BY <1>1 DEF RouteInv, PlaceOK
<1>. QED
  BY <1>2, LeasesAssumption

LEMMA AllHeed ==
  ASSUME RouteInv, \A c \in Clients, f \in Files : Less(c, f)
  PROVE  \A i \in Conns : Heeds(i)
BY OpenClient DEF Heeds

\* The leases of session i's opens stay what they are.
SameLeases(i) ==
  /\ \A h \in handles[i] : \E x \in handles'[i] : x.f = h.f /\ x.granted = h.granted
  /\ \A x \in handles'[i] : \E h \in handles[i] : x.f = h.f /\ x.granted = h.granted

LEMMA NoFrame == \A n \in 1..Len(<<>>) : FALSE
BY SMTT(30)

LEMMA ViewSame ==
  ASSUME RouteInv, ViewInv, UNCHANGED <<conn, link, handles, belief, cache>>
  PROVE  ViewInv'
BY DEF ViewInv, ViewOK, Unread

LEMMA OwnOpen ==
  ASSUME RouteInv, OwnInv, NEW w \in Workers, NEW id \in Conns, Ready(w, id)
  PROVE  conn[id].sess = id
<1>1. conn[id].state = "open"
  BY DEF Ready
<1>2. conn[id].state # "unborn"
  BY <1>1
<1>. QED
  BY <1>2 DEF OwnInv, OwnSession

\* A request names a handle whose CREATE response the client has read.
LEMMA NamedHandle ==
  ASSUME Alone, RouteInv, OwnInv, NEW w \in Workers, NEW id \in Conns, Ready(w, id), NEW h \in HandlesOf(id)
  PROVE  h \in handles[id] /\ h \in Handle /\ ~Unread(id, h.f)
<1>1. conn[id].sess = id /\ conn[id].state = "open"
  BY OwnOpen DEF Ready
<1>2. h \in handles[id]
  BY <1>1 DEF HandlesOf
<1>3. h \in Handle /\ h.no = 1
  BY <1>2, Typed, SMTT(30) DEF Handle, Alone
<1>4. ~\E k \in 1..Len(link[id].wire) :
         link[id].wire[k].kind = "create" /\ link[id].wire[k].f = h.f /\ link[id].wire[k].no = h.no
  BY <1>1 DEF HandlesOf
<1>5. ASSUME NEW k \in 1..Len(link[id].wire), link[id].wire[k].kind = "create" PROVE link[id].wire[k].no = 1
  <2>1. PICK m : m = link[id].wire[k]
    OBVIOUS
  <2>2. link[id].wire \in Seq(BreakFrame \cup Response)
    BY Typed DEF LinkType
  <2>3. m \in BreakFrame \cup Response /\ m.kind = "create"
    BY <1>5, <2>1, <2>2, SMTT(30)
  <2>4. m.no \in 1..MaxOpens
    BY <2>3 DEF BreakFrame, Response
  <2>. QED
    BY <2>1, <2>4, SMTT(30) DEF Alone
<1>. QED
  BY <1>2, <1>3, <1>4, <1>5 DEF Unread

\* The thread that serves a request, at its last step.
LEMMA LastStep ==
  ASSUME RouteInv, OwnInv, NEW w \in Workers, wk[w].pc \in {"grant", "reply"}
  PROVE  /\ Serving(w, wk[w]) /\ wk[w].id \in Conns /\ wk[w].sess = wk[w].id /\ wk[w].resp \in Response
         /\ conn[wk[w].id].state = "open" /\ Stage(wk[w]) = wk[w].pc /\ wk[w].sess # None
<1>1. wk[w].pc \notin {"idle", "deliver"} /\ wk[w].pc \notin {"break", "post", "signal"}
  OBVIOUS
<1>2. Serving(w, wk[w]) /\ wk[w].id \in Conns
  BY <1>1, ServedBorn
<1>3. Stage(wk[w]) = wk[w].pc
  BY <1>1 DEF Stage
<1>4. wk[w].sess # None
  BY <1>2, <1>3 DEF Serving
<1>5. conn[wk[w].id].state = "open" /\ wk[w].sess = conn[wk[w].id].sess /\ wk[w].resp \in Response
  BY <1>2, <1>4 DEF Serving
<1>6. conn[wk[w].id].state # "unborn"
  BY <1>5
<1>7. conn[wk[w].id].sess = wk[w].id
  BY <1>2, <1>6 DEF OwnInv, OwnSession
<1>. QED
  BY <1>2, <1>3, <1>4, <1>5, <1>7

\* The frames behind the first move up.
Shifts(id) ==
  /\ Len(link[id].wire) \in Nat /\ 1 \in 1..Len(link[id].wire) /\ Len(link'[id].wire) = Len(link[id].wire) - 1
  /\ \A k \in 1..Len(link'[id].wire) : k + 1 \in 1..Len(link[id].wire) /\ link'[id].wire[k] = link[id].wire[k + 1]
  /\ \A k \in 1..Len(link[id].wire) : k = 1 \/ k - 1 \in 1..Len(link'[id].wire)
  /\ \A k \in 1..Len(link[id].wire) : k - 1 + 1 = k

LEMMA RecvShifts ==
  ASSUME RouteInv, NEW id \in Conns, NEW m, Received(id, m)
  PROVE  Shifts(id) /\ m = link[id].wire[1]
<1>1. PICK a : a = link[id].wire
  OBVIOUS
<1>2. PICK b : b = link'[id].wire
  OBVIOUS
<1>3. PICK T : T = BreakFrame \cup Response
  OBVIOUS
<1>4. a \in Seq(T) /\ a # <<>> /\ b = Tail(a) /\ m = Head(a)
  BY <1>1, <1>2, <1>3, Typed DEF LinkType, Received
<1>5. /\ Len(a) \in Nat /\ 1 \in 1..Len(a) /\ Len(b) = Len(a) - 1 /\ m = a[1]
      /\ \A k \in 1..Len(b) : k + 1 \in 1..Len(a) /\ b[k] = a[k + 1]
      /\ \A k \in 1..Len(a) : k = 1 \/ k - 1 \in 1..Len(b)
      /\ \A k \in 1..Len(a) : k - 1 + 1 = k
  BY <1>4, SMTT(30)
<1>. QED
  BY <1>1, <1>2, <1>5 DEF Shifts

\* Another client's view is its own.
LEMMA RecvHeeds ==
  ASSUME RouteInv, OwnInv, NEW id \in Conns, NEW m, Received(id, m), NEW i \in Conns, i # id
  PROVE  Heeds(i)
<1>1. ASSUME conn[i].state = "open", NEW f \in Files PROVE Less(conn[i].client, f)
  <2>1. conn[i].client \in Clients /\ conn[i].client # conn[id].client
    BY <1>1, OpenClient DEF OwnInv, OwnSession
  <2>. QED
    BY <1>1, <2>1 DEF Received, Less
<1>. QED
  BY <1>1 DEF Heeds

LEMMA LeftHeeds ==
  ASSUME RouteInv, OwnInv, NEW id \in Conns, Left(id), NEW i \in Conns, i # id
  PROVE  Heeds(i)
<1>1. ASSUME conn[i].state = "open", NEW f \in Files PROVE Less(conn[i].client, f)
  <2>1. conn[i].client \in Clients /\ conn[i].client # conn[id].client
    BY <1>1, OpenClient DEF OwnInv, OwnSession
  <2>. QED
    BY <1>1, <2>1 DEF Left, Less
<1>. QED
  BY <1>1 DEF Heeds

LEMMA ViewStep ==
  ASSUME Alone, RouteInv, OwnInv, HandleInv, ClientInv, ViewInv, Next
  PROVE  ViewInv'

<1>SameHandles. ASSUME NEW i \in Conns, handles'[i] = handles[i]
      PROVE  SameLeases(i)
  BY <1>SameHandles DEF SameLeases

<1>UnreadKept. ASSUME NEW i \in Conns, NEW fs, Longer(i, fs), NEW f, Unread(i, f)
      PROVE  Unread(i, f)'
  BY <1>UnreadKept DEF Longer, Unread

<1>ViewKept. ASSUME RouteInv, ViewInv, NEW i \in Conns, Keeps(i), Heeds(i), SameLeases(i), NEW fs, Speaks(i, fs),
             \A n \in 1..Len(fs) : fs[n].kind # "create"
      PROVE  ViewOK(i)'
  <2>. USE <1>ViewKept
  <2>1. SUFFICES ASSUME conn'[i].state = "open" PROVE ViewOK(i)'
    BY DEF ViewOK
  <2>2. conn[i].state = "open" /\ ViewOK(i) /\ Longer(i, fs) /\ conn'[i].client = conn[i].client
    BY <2>1, SpeaksLonger DEF Keeps, ViewInv
  <2>3. ASSUME NEW k \in 1..Len(link'[i].wire), link'[i].wire[k].kind = "create"
        PROVE  \E h \in handles'[i] : h.f = link'[i].wire[k].f /\ h.granted = link'[i].wire[k].granted
    <3>1. k \in 1..Len(link[i].wire)
      <4>1. SUFFICES ASSUME NEW n \in 1..Len(fs), k = Len(link[i].wire) + n PROVE FALSE
        BY <2>2, <2>3 DEF Longer
      <4>. QED
        BY <2>2, <2>3, <4>1 DEF Longer
    <3>2. link'[i].wire[k] = link[i].wire[k]
      BY <2>2, <3>1 DEF Longer
    <3>3. PICK h \in handles[i] : h.f = link[i].wire[k].f /\ h.granted = link[i].wire[k].granted
      BY <2>2, <2>3, <3>1, <3>2 DEF ViewOK
    <3>4. PICK x \in handles'[i] : x.f = h.f /\ x.granted = h.granted
      BY <3>3 DEF SameLeases
    <3>. QED
      BY <3>2, <3>3, <3>4
  <2>4. ASSUME NEW x \in handles'[i], x.granted = "R", belief'[conn[i].client][x.f] = "RH"
        PROVE  Unread(i, x.f)'
    <3>1. PICK h \in handles[i] : x.f = h.f /\ x.granted = h.granted
      BY <2>4 DEF SameLeases
    <3>2. h.f \in Files
      BY <3>1, Typed, SMTT(30) DEF Handle
    <3>3. Less(conn[i].client, h.f)
      BY <2>2, <3>2 DEF Heeds
    <3>4. belief[conn[i].client][h.f] = "RH"
      BY <2>4, <3>1, <3>3 DEF Less
    <3>5. Unread(i, h.f)
      BY <2>2, <2>4, <3>1, <3>4 DEF ViewOK
    <3>. QED
      BY <2>2, <3>1, <3>5, <1>UnreadKept
  <2>. QED
    BY <2>2, <2>3, <2>4 DEF ViewOK

\* Nothing is sent to the client of i.
<1>ViewQuiet. ASSUME RouteInv, ViewInv, NEW i \in Conns, Keeps(i), Heeds(i), SameLeases(i), link'[i].wire = link[i].wire
      PROVE  ViewOK(i)'
  BY <1>ViewQuiet, Quiet, NoFrame, <1>ViewKept

<1>ViewAnswered. ASSUME RouteInv, ViewInv, NEW id \in Conns, NEW frame \in Response, Answers(id, frame), frame.kind # "create",
             \A i \in Conns : SameLeases(i), \A i \in Conns : Heeds(i)
      PROVE  ViewInv'
  <2>. USE <1>ViewAnswered
  <2>1. ASSUME NEW i \in Conns PROVE ViewOK(i)'
    <3>1. PICK fs : Answered1(i, id, frame, fs)
      BY AnswersSpeak
    <3>2. \A n \in 1..Len(fs) : fs[n].kind # "create"
      <4>1. CASE fs = <<>>
        BY <4>1, NoFrame
      <4>2. CASE fs = <<frame>>
        BY <4>2, SMTT(30)
      <4>. QED
        BY <3>1, <4>1, <4>2 DEF Answered1
    <3>3. Speaks(i, fs) /\ Keeps(i)
      BY <3>1 DEF Answered1, Answers
    <3>. QED
      BY <3>2, <3>3, <1>ViewKept
  <2>. QED
    BY <2>1 DEF ViewInv

<1>ViewPassed. ASSUME RouteInv, ViewInv, UNCHANGED <<handles, belief, cache>>, \A i \in Conns : Keeps(i) /\ \E fs : Passes(i, fs)
      PROVE  ViewInv'
  <2>. USE <1>ViewPassed
  <2>1. \A i \in Conns : Heeds(i)
    BY SameLess, AllHeed
  <2>2. ASSUME NEW i \in Conns PROVE ViewOK(i)'
    <3>1. PICK fs : Passes(i, fs)
      OBVIOUS
    <3>2. \A n \in 1..Len(fs) : fs[n].kind # "create"
      <4>1. \A n \in 1..Len(fs) : fs[n].kind = "break"
        BY <3>1 DEF Passes
      <4>. QED
        BY <4>1
    <3>3. Speaks(i, fs) /\ SameLeases(i)
      BY <3>1, <1>SameHandles DEF Passes
    <3>. QED
      BY <2>1, <3>2, <3>3, <1>ViewKept
  <2>. QED
    BY <2>2 DEF ViewInv

<1>DisposeView. ASSUME RouteInv, OwnInv, ViewInv, NEW w \in Workers, NEW id \in Conns, NEW h, NEW flag \in BOOLEAN,
             SetDisposition(w, id, h, flag)
      PROVE  ViewInv'
  <2>. USE <1>DisposeView
  <2>1. Ready(w, id) /\ h \in handles[conn[id].sess] /\ conn[id].sess = id
    BY OwnOpen DEF SetDisposition
  <2>2. h \in Handle /\ [kind |-> "ack", f |-> h.f] \in Response
    BY <2>1, RequestHandle
  <2>3. PICK x : x = [h EXCEPT !.doc = flag]
    OBVIOUS
  <2>4. x.f = h.f /\ x.granted = h.granted
    BY <2>2, <2>3 DEF Handle
  <2>5. handles'[id] = (handles[id] \ {h}) \cup {x} /\ \A i \in Conns : i # id => handles'[i] = handles[i]
    BY <2>1, <2>3, Typed DEF SetDisposition
  <2>6. SameLeases(id)
    BY <2>1, <2>4, <2>5 DEF SameLeases
  <2>7. \A i \in Conns : SameLeases(i)
    BY <2>5, <2>6, <1>SameHandles
  <2>8. \A i \in Conns : Heeds(i)
    BY SameLess, AllHeed DEF SetDisposition
  <2>9. CASE UNCHANGED <<conn, link>>
    <3>1. \A i \in Conns : Keeps(i)
      BY <2>9 DEF Keeps
    <3>. QED
      BY <2>7, <2>8, <2>9, <3>1, <1>ViewQuiet DEF ViewInv
  <2>10. CASE Reply(id, [kind |-> "ack", f |-> h.f])
    <3>1. PICK a : a = [kind |-> "ack", f |-> h.f]
      OBVIOUS
    <3>2. a \in Response /\ a.kind # "create"
      BY <2>2, <3>1
    <3>3. Answers(id, a)
      BY <2>10, <3>1, ReplyAnswers
    <3>. QED
      BY <2>7, <2>8, <3>2, <3>3, <1>ViewAnswered
  <2>. QED
    BY <2>9, <2>10 DEF SetDisposition

<1>CloseView. ASSUME Alone, RouteInv, OwnInv, ViewInv, NEW w \in Workers, NEW id \in Conns, NEW h \in HandlesOf(id), Close(w, id, h)
      PROVE  ViewInv'
  <2>. USE <1>CloseView
  <2>1. Ready(w, id) /\ conn[id].state = "open"
    BY DEF Close, Ready
  <2>2. conn[id].sess = id /\ h \in handles[id] /\ h \in Handle /\ ~Unread(id, h.f)
    BY <2>1, OwnOpen, NamedHandle
  <2>3. handles'[id] = handles[id] \ {h} /\ \A i \in Conns : i # id => handles'[i] = handles[i]
    BY <2>2, Typed DEF Close
  <2>4. \A i \in Conns : Heeds(i)
    BY CloseLess, AllHeed
  <2>5. (\A i \in Conns : Keeps(i)) /\ \A i \in Conns : link'[i].wire = link[i].wire
    <3>1. CASE UNCHANGED <<conn, link>>
      BY <3>1 DEF Keeps
    <3>2. CASE Reply(id, [kind |-> "ack", f |-> h.f])
      <4>1. PICK a : a = [kind |-> "ack", f |-> h.f]
        OBVIOUS
      <4>2. a.kind = "ack"
        BY <4>1
      <4>3. Answers(id, a)
        BY <3>2, <4>1, ReplyAnswers
      <4>. QED
        BY <4>2, <4>3 DEF Answers
    <3>. QED
      BY <3>1, <3>2 DEF Close
  <2>6. ASSUME NEW i \in Conns, i # id PROVE ViewOK(i)'
    BY <2>3, <2>4, <2>5, <2>6, <1>SameHandles, <1>ViewQuiet
  <2>7. ViewOK(id)'
    <3>1. ViewOK(id) /\ conn'[id].client = conn[id].client
      BY <2>5 DEF ViewInv, Keeps
    <3>2. ASSUME NEW k \in 1..Len(link[id].wire), link[id].wire[k].kind = "create"
          PROVE  \E x \in handles'[id] : x.f = link[id].wire[k].f /\ x.granted = link[id].wire[k].granted
      <4>1. PICK x \in handles[id] : x.f = link[id].wire[k].f /\ x.granted = link[id].wire[k].granted
        BY <2>1, <3>1, <3>2 DEF ViewOK
      <4>2. x # h
        BY <2>2, <3>2, <4>1 DEF Unread
      <4>. QED
        BY <2>3, <4>1, <4>2
    <3>3. ASSUME NEW x \in handles'[id], x.granted = "R", belief'[conn[id].client][x.f] = "RH"
          PROVE  Unread(id, x.f)'
      <4>1. x \in handles[id] /\ x.f \in Files
        BY <2>3, <3>3, Typed, SMTT(30) DEF Handle
      <4>2. Less(conn[id].client, x.f)
        BY <2>1, <2>4, <4>1 DEF Heeds
      <4>3. belief[conn[id].client][x.f] = "RH"
        BY <3>3, <4>2 DEF Less
      <4>4. Unread(id, x.f)
        BY <2>1, <3>1, <3>3, <4>1, <4>3 DEF ViewOK
      <4>. QED
        BY <2>5, <4>4 DEF Unread
    <3>. QED
      BY <2>5, <3>1, <3>2, <3>3 DEF ViewOK
  <2>. QED
    BY <2>6, <2>7 DEF ViewInv

\* A client whose only connection is down believes in nothing.
<1>DownBelief. ASSUME RouteInv, OwnInv, ClientInv, NEW i \in Conns, conn[i].state # "unborn", ~link[i].up, NEW f \in Files
      PROVE  belief[conn[i].client][f] = "none"
  <2>. USE <1>DownBelief
  <2>1. conn[i].client \in Clients /\ conn[i].client # None
    BY LeasesAssumption, SMTT(30) DEF RouteInv, PlaceOK
  <2>2. ASSUME NEW j \in Conns, conn[j].client = conn[i].client, link[j].up PROVE FALSE
    BY <2>1, <2>2 DEF OwnInv, OwnSession
  <2>. QED
    BY <2>1, <2>2 DEF ClientInv, ClientOK

<1>GrantView. ASSUME RouteInv, OwnInv, HandleInv, ClientInv, ViewInv, NEW w \in Workers, Grant(w)
      PROVE  ViewInv'
  <2>. USE <1>GrantView
  <2>1. PICK r : r = wk[w]
    OBVIOUS
  <2>2. PICK id : id = r.id
    OBVIOUS
  <2>3. r.pc = "grant"
    BY <2>1 DEF Grant
  <2>4. /\ id \in Conns /\ r.sess = id /\ r.resp \in Response /\ conn[id].state = "open" /\ Stage(r) = "grant"
        /\ Serving(w, r)
    BY <2>1, <2>2, <2>3, LastStep
  <2>5. PICK h : h = r.h
    OBVIOUS
  <2>6. PICK resp : resp = r.resp
    OBVIOUS
  <2>7. h \in Handle /\ h.f \in Files
    <3>1. h \in Handle
      BY <2>4, <2>5 DEF Serving
    <3>. QED
      BY <3>1 DEF Handle
  <2>8. resp \in Response /\ resp.kind = "create" /\ resp.f = h.f /\ resp.granted = h.granted
    BY <2>1, <2>4, <2>5, <2>6 DEF HandleInv, AnswerOK
  <2>9. Answers(id, resp)
    BY <2>1, <2>2, <2>4, <2>6, ReplyAnswers DEF Grant
  <2>10. handles'[id] = handles[id] \cup {h} /\ \A i \in Conns : i # id => handles'[i] = handles[i]
    BY <2>1, <2>4, <2>5, Typed DEF Grant
  <2>11. belief' = belief /\ \A i \in Conns : Heeds(i)
    BY SameLess, AllHeed DEF Grant
  <2>12. ASSUME NEW i \in Conns, i # id PROVE ViewOK(i)'
    <3>1. Keeps(i) /\ link'[i].wire = link[i].wire
      BY <2>9, <2>12 DEF Answers
    <3>. QED
      BY <2>10, <2>11, <2>12, <3>1, <1>SameHandles, <1>ViewQuiet
  <2>13. ViewOK(id)'
    <3>1. ViewOK(id) /\ conn'[id].client = conn[id].client
      BY <2>4, <2>9 DEF ViewInv, Answers, Keeps
    <3>2. PICK fs : Answered1(id, id, resp, fs)
      BY <2>4, <2>8, <2>9, AnswersSpeak
    <3>3. Longer(id, fs)
      BY <2>4, <3>2, SpeaksLonger DEF Answered1
    <3>4. h \in handles'[id] /\ \A x \in handles[id] : x \in handles'[id]
      BY <2>10
    <3>5. \A n \in 1..Len(fs) : fs[n] = resp
      <4>1. CASE fs = <<>>
        BY <4>1, NoFrame
      <4>2. CASE fs = <<resp>>
        BY <4>2, SMTT(30)
      <4>. QED
        BY <3>2, <4>1, <4>2 DEF Answered1
    <3>6. ASSUME NEW k \in 1..Len(link'[id].wire), link'[id].wire[k].kind = "create"
          PROVE  \E x \in handles'[id] : x.f = link'[id].wire[k].f /\ x.granted = link'[id].wire[k].granted
      <4>1. CASE k \in 1..Len(link[id].wire)
        <5>1. link'[id].wire[k] = link[id].wire[k]
          BY <3>3, <4>1 DEF Longer
        <5>2. PICK x \in handles[id] : x.f = link[id].wire[k].f /\ x.granted = link[id].wire[k].granted
          BY <2>4, <3>1, <3>6, <4>1, <5>1 DEF ViewOK
        <5>. QED
          BY <3>4, <5>1, <5>2
      <4>2. ASSUME NEW n \in 1..Len(fs), k = Len(link[id].wire) + n
            PROVE  \E x \in handles'[id] : x.f = link'[id].wire[k].f /\ x.granted = link'[id].wire[k].granted
        <5>1. link'[id].wire[k] = resp
          BY <3>3, <3>5, <4>2 DEF Longer
        <5>. QED
          BY <2>8, <3>4, <5>1
      <4>. QED
        BY <3>3, <3>6, <4>1, <4>2 DEF Longer
    <3>7. ASSUME NEW x \in handles'[id], x.granted = "R", belief[conn[id].client][x.f] = "RH"
          PROVE  Unread(id, x.f)'
      <4>1. CASE x \in handles[id]
        BY <2>4, <3>1, <3>3, <3>7, <4>1, <1>UnreadKept DEF ViewOK
      <4>2. CASE x = h
        <5>1. link[id].up
          <6>1. belief[conn[id].client][h.f] # "none" /\ conn[id].state # "unborn"
            BY <2>4, <3>7, <4>2
          <6>. QED
            BY <2>4, <2>7, <6>1, <1>DownBelief
        <5>2. fs = <<resp>>
          BY <2>8, <3>2, <5>1 DEF Answered1
        <5>3. 1 \in 1..Len(fs)
          BY <5>2, SMTT(30)
        <5>5. /\ Len(link[id].wire) + 1 \in 1..Len(link'[id].wire) /\ fs[1] = resp
              /\ link'[id].wire[Len(link[id].wire) + 1] = fs[1]
          BY <3>3, <3>5, <5>3 DEF Longer
        <5>4. PICK k \in 1..Len(link'[id].wire) : link'[id].wire[k] = resp
          BY <5>5
        <5>. QED
          BY <2>8, <4>2, <5>4 DEF Unread
      <4>. QED
        BY <2>10, <3>7, <4>1, <4>2
    <3>. QED
      BY <2>11, <3>1, <3>6, <3>7 DEF ViewOK
  <2>. QED
    BY <2>12, <2>13 DEF ViewInv

<1>RespondView. ASSUME RouteInv, OwnInv, HandleInv, ViewInv, NEW w \in Workers, Respond(w)
      PROVE  ViewInv'
  <2>. USE <1>RespondView
  <2>1. PICK id : id = wk[w].id
    OBVIOUS
  <2>2. PICK resp : resp = wk[w].resp
    OBVIOUS
  <2>3. wk[w].pc = "reply"
    BY DEF Respond
  <2>4. id \in Conns /\ resp \in Response /\ Stage(wk[w]) = "reply" /\ wk[w].sess # None
    BY <2>1, <2>2, <2>3, LastStep
  <2>5. resp.kind \in {"wrote", "ack"}
    BY <2>2, <2>4 DEF HandleInv, AnswerOK
  <2>6. Answers(id, resp)
    BY <2>1, <2>2, <2>4, ReplyAnswers DEF Respond
  <2>7. (\A i \in Conns : SameLeases(i)) /\ \A i \in Conns : Heeds(i)
    BY SameLess, AllHeed, <1>SameHandles DEF Respond
  <2>8. resp.kind # "create"
    BY <2>5
  <2>. QED
    BY <2>4, <2>6, <2>7, <2>8, <1>ViewAnswered

<1>ReadView. ASSUME RouteInv, ViewInv, NEW w \in Workers, NEW id \in Conns, NEW h, Read(w, id, h)
      PROVE  ViewInv'
  <2>. USE <1>ReadView
  <2>1. Ready(w, id) /\ h \in handles[conn[id].sess]
    BY DEF Read
  <2>2. h.f \in Files /\ conn[id].client \in Clients
    BY <2>1, RequestHandle, ReadyOpen
  <2>3. PICK a : a = [kind |-> "read", f |-> h.f, ver |-> ver[h.f][conn[id].client]]
    OBVIOUS
  <2>4. ver[h.f][conn[id].client] \in Nat
    BY <2>2, Side DEF SideOK
  <2>5. a \in Response /\ a.kind # "create"
    BY <2>2, <2>3, <2>4 DEF Response
  <2>6. Answers(id, a)
    BY <2>3, ReplyAnswers DEF Read
  <2>7. (\A i \in Conns : SameLeases(i)) /\ \A i \in Conns : Heeds(i)
    BY SameLess, AllHeed, <1>SameHandles DEF Read
  <2>. QED
    BY <2>5, <2>6, <2>7, <1>ViewAnswered

<1>EndView. ASSUME RouteInv, OwnInv, ViewInv, NEW id \in Conns, NEW w, CloseConn(id) \/ FinalizeClose(w, id)
      PROVE  ViewInv'
  <2>. USE <1>EndView
  <2>1. /\ \A i \in Conns : Keeps(i)
        /\ conn'[id].state # "open" /\ \A i \in Conns : i # id => conn'[i] = conn[i]
    BY EndKeeps
  <2>2. link' = link /\ belief' = belief /\ cache' = cache /\ conn[id].state # "unborn"
    <3>1. link' = link /\ belief' = belief /\ cache' = cache /\ conn[id].state \in {"open", "closing"}
      BY DEF CloseConn, FinalizeClose, clientvars
    <3>. QED
      BY <3>1
  <2>3. conn[id].sess = id
    BY <2>2 DEF OwnInv, OwnSession
  <2>4. \A i \in Conns : i # id => handles'[i] = handles[i]
    BY <2>3, Typed DEF CloseConn, FinalizeClose
  <2>5. \A i \in Conns : Heeds(i)
    BY <2>2, SameLess, AllHeed
  <2>6. ASSUME NEW i \in Conns, i # id PROVE ViewOK(i)'
    BY <2>1, <2>2, <2>4, <2>5, <2>6, <1>SameHandles, <1>ViewQuiet
  <2>7. ViewOK(id)'
    BY <2>1 DEF ViewOK
  <2>. QED
    BY <2>6, <2>7 DEF ViewInv

<1>RecvView. ASSUME RouteInv, OwnInv, HandleInv, ViewInv, NEW id \in Conns, NEW m, Received(id, m)
      PROVE  ViewInv'
  <2>. USE <1>RecvView
  <2>1. /\ conn' = conn /\ handles' = handles /\ \A i \in Conns : i # id => link'[i] = link[i]
        /\ m.f \in Files
    BY DEF Received, servervars
  <2>2. ASSUME NEW i \in Conns, i # id PROVE ViewOK(i)'
    <3>1. Keeps(i) /\ SameLeases(i) /\ Heeds(i) /\ link'[i].wire = link[i].wire
      BY <2>1, <2>2, RecvHeeds, <1>SameHandles DEF Keeps
    <3>. QED
      BY <3>1, <1>ViewQuiet
  <2>3. ASSUME conn[id].state = "open" PROVE ViewOK(id)'
    <3>1. ViewOK(id) /\ Shifts(id) /\ m = link[id].wire[1]
      BY RecvShifts DEF ViewInv
    <3>2. PICK c : c = conn[id].client
      OBVIOUS
    <3>3. c \in Clients
      BY <2>3, <3>2, OpenClient
    <3>4. ASSUME NEW k \in 1..Len(link'[id].wire), link'[id].wire[k].kind = "create"
          PROVE  \E h \in handles[id] : h.f = link'[id].wire[k].f /\ h.granted = link'[id].wire[k].granted
      <4>1. k + 1 \in 1..Len(link[id].wire) /\ link'[id].wire[k] = link[id].wire[k + 1]
        BY <3>1, <3>4 DEF Shifts
      <4>. QED
        BY <2>3, <3>1, <3>4, <4>1 DEF ViewOK
    <3>5. ASSUME NEW h \in handles[id], h.granted = "R", belief'[c][h.f] = "RH"
          PROVE  Unread(id, h.f)'
      <4>0. h.f \in Files /\ "R" # "RH" /\ "none" # "RH" /\ h.granted # "RH"
        BY <3>5, Typed, SMTT(30) DEF Handle
      <4>1. ~(m.kind = "create" /\ m.f = h.f) /\ belief[c][h.f] = "RH"
        <5>1. CASE h.f # m.f
          BY <3>2, <3>3, <3>5, <4>0, <5>1 DEF Received
        <5>2. CASE h.f = m.f
          <6>1. CASE m.kind = "create"
            <7>1. PICK x \in handles[id] : x.f = m.f /\ x.granted = m.granted
              BY <2>3, <3>1, <6>1 DEF ViewOK, Shifts
            <7>2. x = h
              BY <5>2, <7>1 DEF HandleInv, HandlesOK
            <7>3. belief'[c][m.f] = m.granted
              BY <3>2, <3>5, <6>1, <7>1, <7>2 DEF Received
            <7>. QED
              BY <3>5, <4>0, <5>2, <7>1, <7>2, <7>3
          <6>2. CASE m.kind # "create"
            <7>1. m.kind # "break"
              BY <3>2, <3>5, <4>0, <5>2 DEF Received
            <7>2. belief'[c][m.f] = belief[c][m.f]
              BY <3>2, <6>2, <7>1 DEF Received
            <7>. QED
              BY <3>5, <5>2, <6>2, <7>2
          <6>. QED
            BY <6>1, <6>2
        <5>. QED
          BY <5>1, <5>2
      <4>2. PICK k \in 1..Len(link[id].wire) : link[id].wire[k].kind = "create" /\ link[id].wire[k].f = h.f
        BY <2>3, <3>1, <3>2, <3>5, <4>1 DEF ViewOK, Unread
      <4>3. k # 1
        BY <3>1, <4>1, <4>2
      <4>4. k - 1 \in 1..Len(link'[id].wire) /\ link'[id].wire[k - 1] = link[id].wire[k]
        BY <3>1, <4>2, <4>3 DEF Shifts
      <4>. QED
        BY <4>2, <4>4 DEF Unread
    <3>. QED
      BY <2>1, <3>2, <3>4, <3>5 DEF ViewOK
  <2>4. ASSUME conn[id].state # "open" PROVE ViewOK(id)'
    BY <2>1, <2>4 DEF ViewOK
  <2>. QED
    BY <2>2, <2>3, <2>4 DEF ViewInv

<1>DownView. ASSUME RouteInv, OwnInv, ViewInv, NEW id \in Conns, Left(id)
      PROVE  ViewInv'
  <2>. USE <1>DownView
  <2>1. /\ conn' = conn /\ handles' = handles /\ \A i \in Conns : i # id => link'[i] = link[i]
        /\ link'[id].wire = <<>> /\ \A f \in Files : belief'[conn[id].client][f] = "none"
    BY DEF Left, servervars
  <2>2. ASSUME NEW i \in Conns, i # id PROVE ViewOK(i)'
    <3>1. Keeps(i) /\ SameLeases(i) /\ Heeds(i) /\ link'[i].wire = link[i].wire
      BY <2>1, <2>2, LeftHeeds, <1>SameHandles DEF Keeps
    <3>. QED
      BY <3>1, <1>ViewQuiet
  <2>3. ViewOK(id)'
    <3>1. \A h \in handles[id] : h.f \in Files
      BY Typed, SMTT(30) DEF Handle
    <3>2. "none" # "RH"
      OBVIOUS
    <3>. QED
      BY <2>1, <3>1, <3>2, NoFrame DEF ViewOK
  <2>. QED
    BY <2>2, <2>3 DEF ViewInv

<1>JoinView. ASSUME RouteInv, HandleInv, ViewInv, NEW id \in Conns, NEW c \in Clients, Joins(id, c),
             UNCHANGED <<handles, belief, cache>>
      PROVE  ViewInv'
  <2>. USE <1>JoinView
  <2>1. \A i \in Conns : Heeds(i)
    BY SameLess, AllHeed
  <2>2. ASSUME NEW i \in Conns, i # id PROVE ViewOK(i)'
    <3>1. Keeps(i) /\ SameLeases(i) /\ link'[i].wire = link[i].wire
      BY <2>2, <1>SameHandles DEF Keeps, Joins
    <3>. QED
      BY <2>1, <3>1, <1>ViewQuiet
  <2>3. ViewOK(id)'
    <3>1. handles'[id] = {} /\ link'[id].wire = <<>>
      BY DEF Joins, HandleInv, HandlesOK
    <3>2. \A h \in {} : FALSE
      OBVIOUS
    <3>. QED
      BY <3>1, <3>2, NoFrame DEF ViewOK
  <2>. QED
    BY <2>2, <2>3 DEF ViewInv

<1>1. ASSUME NEW w \in Workers, NEW id \in Conns, Request(w, id) PROVE ViewInv'
  <2>1. ASSUME NEW f, NEW want, NEW o, NEW d, CreateOpen(w, id, f, want, o, d) PROVE ViewInv'
    BY <2>1, ViewSame DEF CreateOpen, clientvars
  <2>2. ASSUME NEW h, Write(w, id, h) PROVE ViewInv'
    BY <2>2, ViewSame DEF Write, clientvars
  <2>3. ASSUME NEW h, NEW g, Rename(w, id, h, g) PROVE ViewInv'
    BY <2>3, ViewSame DEF Rename, clientvars
  <2>. QED
    BY <1>1, <2>1, <2>2, <2>3, <1>ReadView, <1>DisposeView, <1>CloseView DEF Request
<1>2. ASSUME NEW w \in Workers, Continue(w) PROVE ViewInv'
  <2>1. CASE Grant(w)
    BY <2>1, <1>GrantView
  <2>2. CASE Respond(w)
    BY <2>2, <1>RespondView
  <2>3. CASE DeliverBreak(w)
    BY <2>3, QueueKeeps, DeliverPasses, <1>ViewPassed DEF DeliverBreak
  <2>4. CASE \/ Unlink(w) \/ BreakConflicts(w) \/ PostSignal(w) \/ (\E m \in wk[w].msgs : PostPush(w, m))
             \/ ArmWake(w) \/ ReleaseConn(w) \/ \E h \in wk[w].rest : TeardownHandle(w, h)
    <3>1. UNCHANGED <<conn, link, handles, belief, cache>>
      BY <2>4 DEF Unlink, BreakConflicts, PostSignal, PostPush, ArmWake, ReleaseConn, TeardownHandle, clientvars
    <3>. QED
      BY <3>1, ViewSame
  <2>. QED
    BY <1>2, <2>1, <2>2, <2>3, <2>4 DEF Continue
<1>3. ASSUME NEW w \in Workers, KernelWake(w) \/ OnWake(w) PROVE ViewInv'
  BY <1>3, ViewSame DEF KernelWake, OnWake, clientvars
<1>4. ASSUME NEW w, NEW id \in Conns, FinalizeClose(w, id) \/ CloseConn(id) PROVE ViewInv'
  BY <1>4, <1>EndView
<1>5. ASSUME NEW id \in Conns, SendDone(id) PROVE ViewInv'
  BY <1>5, SendKeeps, SendPasses, <1>ViewPassed DEF SendDone
<1>6. ASSUME NEW l \in Locs, NEW id \in Conns, NEW s \in Conns, NEW c \in Clients, Accept(l, id, c, s) PROVE ViewInv'
  BY <1>6, AcceptFacts, <1>JoinView DEF Accept
<1>7. ASSUME NEW id \in Conns, ClientRecv(id) PROVE ViewInv'
  <2>1. PICK m : Received(id, m)
    BY <1>7, RecvFacts
  <2>. QED
    BY <2>1, <1>RecvView
<1>8. ASSUME NEW id \in Conns, ClientDown(id) PROVE ViewInv'
  BY <1>8, DownFacts, <1>DownView
<1>. QED
  BY <1>1, <1>2, <1>3, <1>4, <1>5, <1>6, <1>7, <1>8 DEF Next

------------------------------------------------------------------------------
(* Leases, breaks and what is cached *)

\* The client of i believes in a lease on f now (j = 0), or will on reading frame j.
Origin(i, j, f) ==
  IF j = 0 THEN belief[conn[i].client][f] # "none"
  ELSE link[i].wire[j].kind = "create" /\ link[i].wire[j].f = f /\ link[i].wire[j].granted # "none"

Granted(i, f) == \E g \in grants : g.f = f /\ g.id = i

\* A break of i's lease on f is with thread w or in its mailbox; or it is that or deferred.
Held(w, i, f) ==
  \/ \E m \in wk[w].msgs : m.f = f /\ m.id = i
  \/ \E k \in 1..Len(mbox[w]) : mbox[w][k].f = f /\ mbox[w][k].id = i
  \/ \E k \in 1..Len(wk[w].inbox) : wk[w].inbox[k].f = f /\ wk[w].inbox[k].id = i
Coming(i, f) == Queued(i, f) \/ \E w \in Workers : Held(w, i, f)

\* Thread w has changed f and not yet reached the break of c's lease on it.
Due(w, c, f) == wk[w].except # c /\ \E k \in 1..Len(wk[w].todo) : wk[w].todo[k] = f

\* A break will reach the client of i after frame j.
Behind(i, j, f) ==
  Coming(i, f) \/ \E n \in (j + 1)..Len(link[i].wire) : IsBreak(link[i].wire[n], f)

Tracked(i) ==
  \A f \in Files, j \in 0..Len(link[i].wire) : Origin(i, j, f) => Granted(i, f) \/ Behind(i, j, f)

\* What a READ response in flight says is current, or a break follows it, or the client
\* will not cache it.
ReadsOK(i) ==
  \A f \in Files, k \in 1..Len(link[i].wire) :
    link[i].wire[k].kind = "read" /\ link[i].wire[k].f = f /\ link[i].wire[k].ver # ver[f][conn[i].client] =>
      \/ BreakDue(conn[i].client, f) \/ Behind(i, k, f)
      \/ \A j \in 0..(k - 1) : Origin(i, j, f) => \E n \in (j + 1)..(k - 1) : IsBreak(link[i].wire[n], f)

CacheOK(i) ==
  \A f \in Files : Stale(conn[i].client, f) => BreakDue(conn[i].client, f) \/ Behind(i, 0, f)

LeaseOK(i) == conn[i].state = "open" /\ link[i].up => Tracked(i) /\ ReadsOK(i) /\ CacheOK(i)

LeaseInv == \A i \in Conns : LeaseOK(i)

AloneInv == OwnInv /\ HandleInv /\ ClientInv /\ ViewInv /\ LeaseInv

------------------------------------------------------------------------------
(* A connection comes through a step *)

\* The open connection i, its client there, comes through the step: the frames fs are
\* added, the client relies on nothing new, and no lease or break is lost on the way.
Carries(i, fs) ==
  /\ Speaks(i, fs) /\ conn'[i].client = conn[i].client
  /\ \A f \in Files :
       /\ Less(conn[i].client, f)
       /\ Granted(i, f) =>
            \/ Granted(i, f)' \/ Coming(i, f)'
            \/ \A j \in 0..Len(link[i].wire) : ~Origin(i, j, f)'
       /\ Coming(i, f) => Coming(i, f)' \/ \E n \in 1..Len(fs) : IsBreak(fs[n], f)
       /\ BreakDue(conn[i].client, f) => BreakDue(conn[i].client, f)' \/ (Granted(i, f) => Coming(i, f)')
       /\ ver'[f][conn[i].client] = ver[f][conn[i].client] \/ BreakDue(conn[i].client, f)'
  /\ \A n \in 1..Len(fs) :
       /\ fs[n].kind = "create" /\ fs[n].granted # "none" => Granted(i, fs[n].f)'
       /\ fs[n].kind = "read" => fs[n].ver = ver'[fs[n].f][conn[i].client]

LEMMA Carry ==
  ASSUME RouteInv, ClientInv, LeaseInv
  PROVE  \A i \in Conns : \A fs : conn[i].state = "open" /\ link[i].up /\ Carries(i, fs) => LeaseOK(i)'

\* A break that follows frame j still does.
<1>BehindKept. ASSUME NEW i \in Conns, NEW fs, Longer(i, fs), Len(fs) \in Nat, NEW f \in Files, NEW j \in 0..Len(link[i].wire),
             Coming(i, f) => Coming(i, f)' \/ \E n \in 1..Len(fs) : IsBreak(fs[n], f), Behind(i, j, f)
      PROVE  Behind(i, j, f)'
  <2>. USE <1>BehindKept
  <2>0. Len(link[i].wire) \in Nat /\ Len(link'[i].wire) = Len(link[i].wire) + Len(fs)
    BY DEF Longer
  <2>1. CASE Coming(i, f)'
    BY <2>1 DEF Behind
  <2>2. ASSUME NEW n \in 1..Len(fs), IsBreak(fs[n], f) PROVE Behind(i, j, f)'
    <3>1. PICK N : N = Len(link[i].wire)
      OBVIOUS
    <3>2. N + n \in (j + 1)..Len(link'[i].wire)
      BY <2>0, <2>2, <3>1, SMTT(30)
    <3>3. link'[i].wire[N + n] = fs[n]
      BY <2>2, <3>1 DEF Longer
    <3>. QED
      BY <2>2, <3>2, <3>3 DEF Behind, IsBreak
  <2>3. ASSUME NEW n \in (j + 1)..Len(link[i].wire), IsBreak(link[i].wire[n], f) PROVE Behind(i, j, f)'
    <3>1. n \in 1..Len(link[i].wire) /\ n \in (j + 1)..Len(link'[i].wire)
      BY <2>0, <2>3, SMTT(30)
    <3>2. link'[i].wire[n] = link[i].wire[n]
      BY <3>1 DEF Longer
    <3>. QED
      BY <2>3, <3>1, <3>2 DEF Behind, IsBreak
  <2>. QED
    BY <2>1, <2>2, <2>3 DEF Behind

\* What the client will believe on reading an old frame, it would have believed before.
<1>OriginKept. ASSUME NEW i \in Conns, NEW fs, Longer(i, fs), conn'[i].client = conn[i].client, NEW f, Less(conn[i].client, f),
             NEW j \in 0..Len(link[i].wire), Origin(i, j, f)'
      PROVE  Origin(i, j, f)
  <2>. USE <1>OriginKept
  <2>1. CASE j = 0
    BY <2>1 DEF Origin, Less
  <2>2. CASE j # 0
    <3>1. j \in 1..Len(link[i].wire)
      BY <2>2, SMTT(30) DEF Longer
    <3>2. link'[i].wire[j] = link[i].wire[j]
      BY <3>1 DEF Longer
    <3>. QED
      BY <2>2, <3>2 DEF Origin
  <2>. QED
    BY <2>1, <2>2

<1>CarryTracked. ASSUME RouteInv, NEW i \in Conns, NEW fs, Carries(i, fs), Longer(i, fs), Len(fs) \in Nat, Tracked(i)
      PROVE  Tracked(i)'
  <2>. USE <1>CarryTracked
  <2>0. Len(link[i].wire) \in Nat /\ conn'[i].client = conn[i].client
    BY DEF Longer, Carries
  <2>1. SUFFICES ASSUME NEW f \in Files, NEW j \in 0..Len(link'[i].wire), Origin(i, j, f)'
                 PROVE  Granted(i, f)' \/ Behind(i, j, f)'
    BY DEF Tracked
  <2>2. CASE j \in 0..Len(link[i].wire)
    <3>1. Less(conn[i].client, f)
      BY <2>1 DEF Carries
    <3>2. Origin(i, j, f)
      BY <2>0, <2>1, <2>2, <3>1, <1>OriginKept
    <3>3. Granted(i, f) \/ Behind(i, j, f)
      BY <2>1, <2>2, <3>2 DEF Tracked
    <3>4. CASE Granted(i, f)
      <4>1. Granted(i, f)' \/ Coming(i, f)'
        BY <2>1, <2>2, <3>4 DEF Carries
      <4>. QED
        BY <4>1 DEF Behind
    <3>5. CASE Behind(i, j, f)
      <4>1. Coming(i, f) => Coming(i, f)' \/ \E n \in 1..Len(fs) : IsBreak(fs[n], f)
        BY <2>1 DEF Carries
      <4>. QED
        BY <2>1, <2>2, <3>5, <4>1, <1>BehindKept
    <3>. QED
      BY <3>3, <3>4, <3>5
  <2>3. CASE j \notin 0..Len(link[i].wire)
    <3>1. j \in 1..Len(link'[i].wire) /\ j \notin 1..Len(link[i].wire) /\ j # 0
      BY <2>0, <2>1, <2>3, SMTT(30) DEF Longer
    <3>2. PICK n \in 1..Len(fs) : j = Len(link[i].wire) + n
      BY <3>1 DEF Longer
    <3>3. link'[i].wire[j] = fs[n]
      BY <3>2 DEF Longer
    <3>4. fs[n].kind = "create" /\ fs[n].f = f /\ fs[n].granted # "none"
      BY <2>1, <3>1, <3>3 DEF Origin
    <3>. QED
      BY <3>2, <3>4 DEF Carries
  <2>. QED
    BY <2>2, <2>3

<1>CarryReads. ASSUME RouteInv, NEW i \in Conns, NEW fs, Carries(i, fs), Longer(i, fs), Len(fs) \in Nat, Tracked(i), ReadsOK(i)
      PROVE  ReadsOK(i)'
  <2>. USE <1>CarryReads
  <2>0. PICK c : c = conn[i].client
    OBVIOUS
  <2>1. Len(link[i].wire) \in Nat /\ conn'[i].client = c
    BY <2>0 DEF Longer, Carries
  <2>2. SUFFICES ASSUME NEW f \in Files, NEW k \in 1..Len(link'[i].wire), link'[i].wire[k].kind = "read",
                        link'[i].wire[k].f = f, link'[i].wire[k].ver # ver'[f][c]
                 PROVE  \/ BreakDue(c, f)' \/ Behind(i, k, f)'
                        \/ \A j \in 0..(k - 1) :
                             Origin(i, j, f)' => \E n \in (j + 1)..(k - 1) : IsBreak(link'[i].wire[n], f)
    BY <2>1 DEF ReadsOK
  <2>3. k \in 1..Len(link[i].wire)
    <3>1. SUFFICES ASSUME NEW n \in 1..Len(fs), k = Len(link[i].wire) + n PROVE FALSE
      BY <2>2 DEF Longer
    <3>2. link'[i].wire[k] = fs[n]
      BY <3>1 DEF Longer
    <3>. QED
      BY <2>0, <2>2, <3>1, <3>2 DEF Carries
  <2>4. link'[i].wire[k] = link[i].wire[k]
    BY <2>3 DEF Longer
  <2>5. SUFFICES ASSUME ver'[f][c] = ver[f][c], ~BreakDue(c, f)' PROVE
                        \/ Behind(i, k, f)'
                        \/ \A j \in 0..(k - 1) :
                             Origin(i, j, f)' => \E n \in (j + 1)..(k - 1) : IsBreak(link'[i].wire[n], f)
    BY <2>0, <2>2 DEF Carries
  <2>6. \/ BreakDue(c, f) \/ Behind(i, k, f)
        \/ \A j \in 0..(k - 1) : Origin(i, j, f) => \E n \in (j + 1)..(k - 1) : IsBreak(link[i].wire[n], f)
    BY <2>0, <2>2, <2>3, <2>4, <2>5 DEF ReadsOK
  <2>7. /\ Coming(i, f) => Coming(i, f)' \/ \E n \in 1..Len(fs) : IsBreak(fs[n], f)
        /\ Less(c, f)
    BY <2>0, <2>2 DEF Carries
  <2>8. k \in 0..Len(link[i].wire) /\ \A j \in 0..(k - 1) : j \in 0..Len(link[i].wire)
    BY <2>1, <2>3, SMTT(30)
  <2>9. CASE Behind(i, k, f)
    BY <2>2, <2>7, <2>8, <2>9, <1>BehindKept
  <2>10. CASE \A j \in 0..(k - 1) : Origin(i, j, f) => \E n \in (j + 1)..(k - 1) : IsBreak(link[i].wire[n], f)
    <3>1. ASSUME NEW j \in 0..(k - 1), Origin(i, j, f)' PROVE \E n \in (j + 1)..(k - 1) : IsBreak(link'[i].wire[n], f)
      <4>1. Origin(i, j, f)
        BY <2>0, <2>1, <2>7, <2>8, <3>1, <1>OriginKept
      <4>2. PICK n \in (j + 1)..(k - 1) : IsBreak(link[i].wire[n], f)
        BY <2>10, <3>1, <4>1
      <4>3. n \in 1..Len(link[i].wire)
        BY <2>1, <2>3, <3>1, <4>2, SMTT(30)
      <4>4. link'[i].wire[n] = link[i].wire[n]
        BY <4>3 DEF Longer
      <4>. QED
        BY <4>2, <4>4
    <3>. QED
      BY <3>1
  <2>11. CASE BreakDue(c, f) /\ ~Behind(i, k, f)
    <3>1. Granted(i, f) => Coming(i, f)'
      BY <2>0, <2>2, <2>5, <2>11 DEF Carries
    <3>2. CASE Granted(i, f)
      BY <3>1, <3>2 DEF Behind
    <3>3. CASE ~Granted(i, f)
      <4>1. ASSUME NEW j \in 0..(k - 1), Origin(i, j, f)' PROVE \E n \in (j + 1)..(k - 1) : IsBreak(link'[i].wire[n], f)
        <5>1. Origin(i, j, f)
          BY <2>0, <2>1, <2>7, <2>8, <4>1, <1>OriginKept
        <5>2. Behind(i, j, f) /\ ~Coming(i, f)
          BY <2>2, <2>8, <2>11, <3>3, <4>1, <5>1 DEF Tracked, Behind
        <5>3. PICK n \in (j + 1)..Len(link[i].wire) : IsBreak(link[i].wire[n], f)
          BY <5>2 DEF Behind
        <5>4. n \notin (k + 1)..Len(link[i].wire) /\ n # k
          <6>1. n # k
            BY <2>2, <2>4, <5>3 DEF IsBreak
          <6>. QED
            BY <2>11, <5>3, <6>1 DEF Behind
        <5>5. n \in (j + 1)..(k - 1) /\ n \in 1..Len(link[i].wire)
          BY <2>1, <2>3, <4>1, <5>3, <5>4, SMTT(30)
        <5>6. link'[i].wire[n] = link[i].wire[n]
          BY <5>5 DEF Longer
        <5>. QED
          BY <5>3, <5>5, <5>6
      <4>. QED
        BY <4>1
    <3>. QED
      BY <3>2, <3>3
  <2>. QED
    BY <2>6, <2>9, <2>10, <2>11

<1>CarryCache. ASSUME RouteInv, ClientInv, NEW i \in Conns, conn[i].client \in Clients, NEW fs, Carries(i, fs), Longer(i, fs),
             Len(fs) \in Nat, Tracked(i), CacheOK(i)
      PROVE  CacheOK(i)'
  <2>. USE <1>CarryCache
  <2>0. PICK c : c = conn[i].client
    OBVIOUS
  <2>1. 0 \in 0..Len(link[i].wire) /\ conn'[i].client = c /\ c \in Clients
    <3>1. Len(link[i].wire) \in Nat /\ conn'[i].client = c
      BY <2>0 DEF Longer, Carries
    <3>. QED
      BY <2>0, <3>1, SMTT(30)
  <2>2. SUFFICES ASSUME NEW f \in Files, Stale(c, f)' PROVE BreakDue(c, f)' \/ Behind(i, 0, f)'
    BY <2>1 DEF CacheOK
  <2>3. cache'[c][f] # NoCache /\ cache'[c][f] # ver'[f][c]
    BY <2>2 DEF Stale
  <2>4. /\ Less(c, f)
        /\ Coming(i, f) => Coming(i, f)' \/ \E n \in 1..Len(fs) : IsBreak(fs[n], f)
        /\ BreakDue(c, f) => BreakDue(c, f)' \/ (Granted(i, f) => Coming(i, f)')
        /\ ver'[f][c] = ver[f][c] \/ BreakDue(c, f)'
    BY <2>0, <2>2 DEF Carries
  <2>5. cache'[c][f] = cache[c][f]
    BY <2>3, <2>4 DEF Less
  <2>6. belief[c][f] # "none"
    BY <2>1, <2>2, <2>3, <2>5 DEF ClientInv, ClientOK
  <2>7. Granted(i, f) \/ Behind(i, 0, f)
    BY <2>0, <2>1, <2>2, <2>6 DEF Tracked, Origin
  <2>8. CASE Behind(i, 0, f)
    BY <2>1, <2>2, <2>4, <2>8, <1>BehindKept
  <2>9. CASE ~Behind(i, 0, f) /\ ~BreakDue(c, f)'
    <3>1. Stale(c, f)
      BY <2>3, <2>4, <2>5, <2>9 DEF Stale
    <3>2. BreakDue(c, f)
      BY <2>0, <2>2, <2>9, <3>1 DEF CacheOK
    <3>. QED
      BY <2>4, <2>7, <2>9, <3>2 DEF Behind
  <2>. QED
    BY <2>8, <2>9

<1>0. SUFFICES ASSUME NEW i \in Conns, NEW fs, conn[i].state = "open", link[i].up, Carries(i, fs)
               PROVE  LeaseOK(i)'
  OBVIOUS
<1>1. Tracked(i) /\ ReadsOK(i) /\ CacheOK(i)
  BY <1>0 DEF LeaseInv, LeaseOK
<1>2. Longer(i, fs) /\ Len(fs) \in Nat
  BY <1>0, SpeaksLonger DEF Carries, Speaks
<1>3. conn[i].client \in Clients
  BY <1>0, OpenClient
<1>. QED
  BY <1>0, <1>1, <1>2, <1>3, <1>CarryTracked, <1>CarryReads, <1>CarryCache DEF LeaseOK

\* The breaks on their way to the holders stay on their way, and those due stay due.
HeldOn == \A i \in Conns, f \in Files : (\E v \in Workers : Held(v, i, f)) => \E v \in Workers : Held(v, i, f)'
DueOn == \A c \in Clients, f \in Files : BreakDue(c, f) => BreakDue(c, f)'

\* The deferred breaks of i stay deferred or are among fs.
Queues(i, fs) == \A f \in Files : Queued(i, f) => Queued(i, f)' \/ \E n \in 1..Len(fs) : IsBreak(fs[n], f)

\* A lease of i stays in the table, unless the client has nothing of it left.
Holds(i) == \A f \in Files : Granted(i, f) => Granted(i, f)' \/ \A j \in 0..Len(link[i].wire) : ~Origin(i, j, f)'

\* Whatever changed for the client of i has a break due.
Current(i) == \A f \in Files : ver'[f][conn[i].client] = ver[f][conn[i].client] \/ BreakDue(conn[i].client, f)'

\* The frames say what is in the tables now.
Told(i, fs) ==
  \A n \in 1..Len(fs) :
    /\ fs[n].kind = "create" /\ fs[n].granted # "none" => Granted(i, fs[n].f)'
    /\ fs[n].kind = "read" => fs[n].ver = ver'[fs[n].f][conn[i].client]

LEMMA LeaseKept ==
  ASSUME RouteInv, ClientInv, LeaseInv, NEW i \in Conns, Keeps(i), link'[i].up => link[i].up, HeldOn, DueOn,
         Heeds(i), Holds(i), conn[i].state = "open" => Current(i),
         NEW fs, Speaks(i, fs), link[i].up => Queues(i, fs), Told(i, fs)
  PROVE  LeaseOK(i)'
<1>1. SUFFICES ASSUME conn'[i].state = "open", link'[i].up PROVE LeaseOK(i)'
  BY DEF LeaseOK
<1>2. conn[i].state = "open" /\ link[i].up /\ conn'[i].client = conn[i].client
  BY <1>1 DEF Keeps
<1>3. conn[i].client \in Clients
  BY <1>2, OpenClient
<1>4. ASSUME NEW f \in Files PROVE
        /\ Less(conn[i].client, f)
        /\ Granted(i, f) => Granted(i, f)' \/ \A j \in 0..Len(link[i].wire) : ~Origin(i, j, f)'
        /\ Coming(i, f) => Coming(i, f)' \/ \E n \in 1..Len(fs) : IsBreak(fs[n], f)
        /\ BreakDue(conn[i].client, f) => BreakDue(conn[i].client, f)'
        /\ ver'[f][conn[i].client] = ver[f][conn[i].client] \/ BreakDue(conn[i].client, f)'
  <2>1. Less(conn[i].client, f)
    BY <1>2, <1>4 DEF Heeds
  <2>2. Granted(i, f) => Granted(i, f)' \/ \A j \in 0..Len(link[i].wire) : ~Origin(i, j, f)'
    BY <1>4 DEF Holds
  <2>3. Coming(i, f) => Coming(i, f)' \/ \E n \in 1..Len(fs) : IsBreak(fs[n], f)
    BY <1>2, <1>4 DEF Coming, HeldOn, Queues
  <2>4. BreakDue(conn[i].client, f) => BreakDue(conn[i].client, f)'
    BY <1>2, <1>3, <1>4 DEF DueOn
  <2>5. ver'[f][conn[i].client] = ver[f][conn[i].client] \/ BreakDue(conn[i].client, f)'
    BY <1>2, <1>4 DEF Current
  <2>. QED
    BY <2>1, <2>2, <2>3, <2>4, <2>5
<1>5. Carries(i, fs)
  BY <1>2, <1>4 DEF Carries, Told
<1>. QED
  BY <1>2, <1>5, Carry

\* The same when nothing is sent.
LEMMA LeaseQuiet ==
  ASSUME RouteInv, ClientInv, LeaseInv, NEW i \in Conns, Keeps(i), link'[i].up => link[i].up, HeldOn, DueOn,
         Heeds(i), Holds(i), conn[i].state = "open" => Current(i),
         link'[i].wire = link[i].wire, conn'[i].deferred = conn[i].deferred
  PROVE  LeaseOK(i)'
<1>1. Queues(i, <<>>)
  BY DEF Queues, Queued
<1>2. Told(i, <<>>)
  BY NoFrame DEF Told
<1>. QED
  BY <1>1, <1>2, Quiet, LeaseKept

LEMMA SameHolds ==
  ASSUME UNCHANGED grants
  PROVE  \A i \in Conns : Holds(i)
BY DEF Holds, Granted

LEMMA SameCurrent ==
  ASSUME UNCHANGED ver
  PROVE  \A i \in Conns : Current(i)
BY DEF Current

LEMMA IdleOn ==
  ASSUME UNCHANGED <<wk, mbox>>
  PROVE  HeldOn /\ DueOn
BY DEF HeldOn, DueOn, Held, BreakDue

==============================================================================
