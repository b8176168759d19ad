--------------------------- MODULE SessionsProofs ---------------------------
(***************************************************************************)
(* Safety of the session registry for any number of connections, sessions, *)
(* users and trees, and any configuration: the inductive invariant, what a *)
(* step that touches one connection and one session leaves of it, its      *)
(* types, one lemma per handler, and the theorems.                         *)
(***************************************************************************)
EXTENDS Sessions, FiniteSetTheorems, TLAPS

USE ZenonT(40)

Busy(c, s) == thread[c].at # "idle" /\ thread[c].sid = s

\* The connection that is setting s up.
Owner(c, s) == chan[c][s] # None \/ On(c, "establish", s) \/ On(c, "reject", s)

\* An id that was not drawn is known to nobody.
Fresh(s) ==
  sess[s] = None => s \notin registry /\ \A c \in Conns : chan[c][s] = None /\ ~Busy(c, s)

\* The leg awaited, and what the thread is at, say whether the session is
\* established; a thread about to establish it was admitted.
Legs(c, s) ==
  /\ chan[c][s] # None /\ chan[c][s].pending # "none" => ~chan[c][s].established
  /\ chan[c][s] # None /\ chan[c][s].pending \in {"first", "krb"} => ~sess[s].established
  /\ chan[c][s] # None /\ chan[c][s].pending = "bind" => sess[s].established
  /\ On(c, "establish", s) => ~sess[s].established /\ Admitted(c, thread[c].who)
  /\ On(c, "reject", s) => ~sess[s].established
  /\ On(c, "bind", s) => sess[s].established /\ ~Est(c, s)
  /\ On(c, "drop", s) => chan[c][s] = None /\ (thread[c].est => sess[s].established)
  /\ On(c, "request", s) => sess[s].established /\ Est(c, s)

\* Before a session is established only one connection has to do with it.
Private(s) ==
  sess[s] # None /\ ~sess[s].established =>
    \A c \in Conns, d \in Conns : Owner(c, s) /\ Owner(d, s) => c = d

\* An established session that is no guest's has a user.
Named(s) ==
  sess[s] # None /\ sess[s].established /\ ~sess[s].guest => sess[s].user \in Users \cup {Principal}

\* BindingProven and SealedAlways, for one session.
Proven(s) ==
  \A c \in Conns : Est(c, s) =>
    /\ sess[s].established
    /\ IF sess[s].guest
         THEN chan[c][s].who = Guest /\ \A d \in Conns \ {c} : ~Est(d, s)
         ELSE chan[c][s].who = sess[s].user
    /\ config.encrypt => chan[c][s].encrypt

\* The session has left the registry and its opens have been taken.
Dead(s) == s \notin registry /\ sess[s] # None /\ \A c \in Conns : ~On(c, "take", s)

\* The threads that have the session's Arc for a request, or to subtract a channel.
Waiting(s) == {c \in Conns : On(c, "request", s) \/ (On(c, "drop", s) /\ thread[c].est)}

\* When a session has left the registry, the channels it counts are no fewer than the
\* threads that wait on it; once it has a tree again they are one more, the one whose
\* TREE_CONNECT has run, and once it has an open file they are two more.
Spare(s) ==
  s \notin registry /\ sess[s] # None =>
    /\ sess[s].channels >= Cardinality(Waiting(s))
    /\ Dead(s) /\ sess[s].trees # {} => sess[s].channels >= Cardinality(Waiting(s)) + 1
    /\ Dead(s) /\ (\E t \in Trees : sess[s].opens[t] # 0) => sess[s].channels >= Cardinality(Waiting(s)) + 2

\* A session that is not established has nothing, and Spare.
Taken(s) ==
  /\ sess[s] # None /\ ~sess[s].established
       => sess[s].trees = {} /\ \A t \in Trees : sess[s].opens[t] = 0
  /\ Spare(s)

\* The channels a session's count stands for.
Counted(s) == {c \in Conns : Est(c, s) \/ (On(c, "drop", s) /\ thread[c].est)}

\* How sets of connections are counted; CountingHolds shows it from the finiteness of
\* Conns.
Counting ==
  /\ Cardinality({}) = 0
  /\ \A c \in Conns : Cardinality({c}) = 1
  /\ \A S \in SUBSET Conns : Cardinality(S) \in Nat /\ (Cardinality(S) = 0 => S = {})
  /\ \A S \in SUBSET Conns, c \in Conns : c \notin S => Cardinality(S \cup {c}) = Cardinality(S) + 1
  /\ \A S \in SUBSET Conns, c \in Conns : c \in S => Cardinality(S \ {c}) = Cardinality(S) - 1
  /\ \A S \in SUBSET Conns, T \in SUBSET Conns : S \subseteq T => Cardinality(S) <= Cardinality(T)

\* ChannelCount, for one session.
Count(s) == s \in registry => sess[s].channels = Cardinality(Counted(s))

\* An established session has a channel left, or a thread about to end it; one that
\* is not has a connection that will finish or end it.
Alive(s) ==
  s \in registry =>
    /\ sess[s].established => sess[s].channels > 0 \/ \E c \in Conns : On(c, "end", s)
    /\ ~sess[s].established =>
         \E c \in Conns : chan[c][s] # None
           \/ \E label \in {"establish", "reject", "drop", "end"} : On(c, label, s)

SessionInv(s) ==
  /\ Fresh(s) /\ (\A c \in Conns : Legs(c, s)) /\ Private(s) /\ Named(s)
  /\ Proven(s) /\ Taken(s) /\ Count(s) /\ Alive(s)

\* A handler runs only on a connection that is there.
ThreadInv == \A c \in Conns : thread[c].at # "idle" => conn[c].up # "gone"

FreshInv == \A s \in Sids : Fresh(s)

IInv == TypeOK /\ ThreadInv /\ \A s \in Sids : SessionInv(s)

-----------------------------------------------------------------------------
\* What a thread is waiting to do says which fields its record has.
LEMMA ThreadFields ==
  ASSUME NEW x \in Threads
  PROVE  /\ x.at # "idle" => x.sid \in Sids
         /\ x.at = "bind" => x.who \in Users \cup {Guest, None}
         /\ x.at = "establish" => x.who \in Idents
         /\ x.at = "drop" => x.est \in BOOLEAN
         /\ x.at = "request" => x.op \in Ops /\ x.tree \in Trees
BY DEF Threads

\* The records the handlers build.
LEMMA NewRecords ==
  /\ Idle \in Threads
  /\ NewSession \in SessionInner
  /\ \A p \in {"none", "first", "bind", "krb"} : PendingChannel(p) \in Channels
  /\ \A label \in {"bindcheck", "reject", "end", "take"}, s \in Sids : At(label, s) \in Threads
BY SessionConstants, SMTT(40) DEF Idle, Threads, NewSession, SessionInner, PendingChannel, Channels, At, Idents, Trees

\* The updates the handlers make keep the types.
LEMMA Updates ==
  ASSUME TypeOK, NEW c \in Conns, NEW s \in Sids
  PROVE  /\ \A ch \in {None} \cup Channels : SetChan(c, s, ch)
              => chan' \in [Conns -> [Sids -> {None} \cup Channels]]
         /\ \A x \in Threads : Goto(c, x) => thread' \in [Conns -> Threads]
<1>1. ASSUME NEW ch \in {None} \cup Channels, SetChan(c, s, ch)
      PROVE chan' \in [Conns -> [Sids -> {None} \cup Channels]]
  <2>1. [chan[c] EXCEPT ![s] = ch] \in [Sids -> {None} \cup Channels]
    BY DEF TypeOK
  <2>2. chan' = [chan EXCEPT ![c] = [chan[c] EXCEPT ![s] = ch]]
    BY <1>1 DEF SetChan, TypeOK
  <2> QED BY <2>1, <2>2 DEF TypeOK
<1>2. ASSUME NEW x \in Threads, Goto(c, x) PROVE thread' \in [Conns -> Threads]
  BY <1>2 DEF TypeOK, Goto
<1> QED BY <1>1, <1>2

\* Reading the updated maps.
LEMMA Lookup ==
  ASSUME TypeOK, NEW c \in Conns, NEW s \in Sids, NEW ch, NEW x
  PROVE  /\ SetChan(c, s, ch) => \A d \in Conns, r \in Sids :
              chan'[d][r] = IF d = c /\ r = s THEN ch ELSE chan[d][r]
         /\ Goto(c, x) => \A d \in Conns : thread'[d] = IF d = c THEN x ELSE thread[d]
BY SMTT(40) DEF TypeOK, SetChan, Goto

\* What a request makes of a session is a session.
LEMMA RequestTypes ==
  ASSUME NEW s \in Sids, sess[s] \in SessionInner, NEW t \in Trees
  PROVE  /\ TreeConnected(s) \in SessionInner /\ TreeDisconnected(s, t) \in SessionInner
         /\ Opened(s, t) \in SessionInner /\ Closed(s, t) \in SessionInner
<1>1. TreeConnected(s) \in SessionInner
  <2>1. CASE sess[s].next_tree_id < MaxTrees
    <3> DEFINE n == sess[s].next_tree_id
    <3>1. n \in 0 .. MaxTrees
      BY DEF SessionInner
    <3>2. n + 1 \in 0 .. MaxTrees /\ n + 1 \in Trees
      BY <2>1, <3>1, SessionConstants, SMTT(40) DEF Trees
    <3>3. sess[s].trees \cup {n + 1} \in SUBSET Trees
      BY <3>2 DEF SessionInner
    <3> HIDE DEF n
    <3>4. [sess[s] EXCEPT !.next_tree_id = n + 1, !.trees = sess[s].trees \cup {n + 1}] \in SessionInner
      BY <3>2, <3>3 DEF SessionInner
    <3> QED BY <2>1, <3>4 DEF TreeConnected, n
  <2>2. CASE ~(sess[s].next_tree_id < MaxTrees)
    BY <2>2 DEF TreeConnected
  <2> QED BY <2>1, <2>2
<1>2. TreeDisconnected(s, t) \in SessionInner
  BY DEF TreeDisconnected, SessionInner
<1>3. Opened(s, t) \in SessionInner
  BY SMTT(40) DEF Opened, SessionInner
<1>4. Closed(s, t) \in SessionInner
  BY SMTT(40) DEF Closed, SessionInner
<1> QED BY <1>1, <1>2, <1>3, <1>4

-----------------------------------------------------------------------------
\* A step of connection c on session s: nothing else changes.
Local(c, s) ==
  /\ \A d \in Conns, r \in Sids : d # c \/ r # s => chan'[d][r] = chan[d][r]
  /\ \A d \in Conns : d # c => thread'[d] = thread[d]
  /\ \A r \in Sids : r # s => sess'[r] = sess[r]
  /\ \A r \in Sids : r # s => (r \in registry' <=> r \in registry)
  /\ thread[c].at # "idle" => thread[c].sid = s
  /\ thread'[c].at # "idle" => thread'[c].sid = s
  /\ UNCHANGED <<config, conn>>

\* The invariant of a session that neither the registry, nor a channel, nor a
\* thread changes for.
LEMMA Frame ==
  ASSUME NEW s \in Sids, SessionInv(s), sess'[s] = sess[s], s \in registry' <=> s \in registry,
         config' = config,
         \A d \in Conns : chan'[d][s] = chan[d][s],
         \A d \in Conns : Busy(d, s) \/ Busy(d, s)' => thread'[d] = thread[d] /\ conn'[d] = conn[d]
  PROVE  SessionInv(s)'
<1>1. \A d \in Conns, label \in {"establish", "reject", "bind", "drop", "end", "take", "request"} :
        /\ On(d, label, s)' <=> On(d, label, s)
        /\ On(d, label, s) => thread'[d] = thread[d] /\ conn'[d] = conn[d]
  BY DEF On, Busy
<1>2. \A d \in Conns : (Est(d, s)' <=> Est(d, s)) /\ (Busy(d, s)' <=> Busy(d, s))
  BY DEF Est, Busy
<1>3. Fresh(s)'
  BY <1>2 DEF SessionInv, Fresh
<1>4. \A d \in Conns : Legs(d, s)'
  BY <1>1, <1>2, SMTT(40) DEF SessionInv, Legs, Admitted
<1>5. Private(s)' /\ Named(s)'
  BY <1>1 DEF SessionInv, Private, Named, Owner
<1>6. Proven(s)'
  BY <1>2 DEF SessionInv, Proven
<1>7. Taken(s)'
  <2>1. (Dead(s)' <=> Dead(s)) /\ Waiting(s)' = Waiting(s)
    BY <1>1 DEF Dead, Waiting
  <2> QED BY <2>1 DEF SessionInv, Taken, Spare
<1>8. Count(s)'
  <2>1. Counted(s)' = Counted(s)
    BY <1>1, <1>2 DEF Counted
  <2> QED BY <2>1 DEF SessionInv, Count
<1>9. Alive(s)'
  BY <1>1 DEF SessionInv, Alive
<1> QED BY <1>3, <1>4, <1>5, <1>6, <1>7, <1>8, <1>9 DEF SessionInv

\* So the step of a connection on a session only has to keep that session's.
LEMMA LocalStep ==
  ASSUME IInv, NEW c \in Conns, NEW s \in Sids, Local(c, s), SessionInv(s)', TypeOK', conn[c].up # "gone"
  PROVE  IInv'
<1>1. ASSUME NEW r \in Sids, r # s PROVE SessionInv(r)'
  <2>1. \A d \in Conns : Busy(d, r) \/ Busy(d, r)' => thread'[d] = thread[d] /\ conn'[d] = conn[d]
    BY <1>1 DEF Local, Busy
  <2>2. SessionInv(r) /\ sess'[r] = sess[r] /\ (r \in registry' <=> r \in registry) /\ config' = config
          /\ \A d \in Conns : chan'[d][r] = chan[d][r]
    BY <1>1 DEF Local, IInv
  <2> QED BY <2>1, <2>2, Frame
<1>2. ThreadInv'
  BY DEF IInv, ThreadInv, Local
<1> QED BY <1>1, <1>2 DEF IInv

\* What a step of c on s leaves to the other connections.
LEMMA OtherEst ==
  ASSUME NEW c \in Conns, NEW s \in Sids, Local(c, s)
  PROVE  \A d \in Conns : d # c => chan'[d][s] = chan[d][s] /\ (Est(d, s)' <=> Est(d, s))
<1>1. \A d \in Conns : d # c => chan'[d][s] = chan[d][s]
  BY DEF Local
<1> QED BY <1>1 DEF Est

LEMMA OtherOn ==
  ASSUME NEW c \in Conns, NEW s \in Sids, Local(c, s)
  PROVE  /\ \A d \in Conns : d # c => thread'[d] = thread[d]
         /\ \A d \in Conns, label \in {"establish", "reject", "bind", "drop", "end", "take", "request"} :
              d # c => (On(d, label, s)' <=> On(d, label, s))
<1>1. \A d \in Conns : d # c => thread'[d] = thread[d]
  BY DEF Local
<1> QED BY <1>1 DEF On

LEMMA OtherOwner ==
  ASSUME NEW c \in Conns, NEW s \in Sids, Local(c, s)
  PROVE  \A d \in Conns : d # c => (Owner(d, s)' <=> Owner(d, s))
BY OtherEst, OtherOn DEF Owner

\* The conjuncts of the invariant that only the step's own connection and the
\* fields of the session named can disturb.
LEMMA LegsKept ==
  ASSUME NEW c \in Conns, NEW s \in Sids, Local(c, s), \A d \in Conns : Legs(d, s),
         sess'[s].established = sess[s].established, Legs(c, s)'
  PROVE  \A d \in Conns : Legs(d, s)'
<1> SUFFICES ASSUME NEW d \in Conns, d # c PROVE Legs(d, s)'
  OBVIOUS
<1>1. chan'[d][s] = chan[d][s] /\ thread'[d] = thread[d] /\ conn'[d] = conn[d] /\ config' = config
  BY DEF Local
<1>2. Est(d, s)' <=> Est(d, s)
  BY <1>1 DEF Est
<1>3. \A label \in {"establish", "reject", "bind", "drop", "request"} : On(d, label, s)' <=> On(d, label, s)
  BY <1>1 DEF On
<1> QED BY <1>1, <1>2, <1>3 DEF Legs, Admitted

LEMMA PrivateKept ==
  ASSUME NEW c \in Conns, NEW s \in Sids, Local(c, s), Private(s), sess[s] # None,
         sess'[s].established = sess[s].established, ~sess[s].established /\ Owner(c, s)' => Owner(c, s)
  PROVE  Private(s)'
BY OtherOwner DEF Private

LEMMA ProvenKept ==
  ASSUME NEW c \in Conns, NEW s \in Sids, Local(c, s), Proven(s),
         sess'[s].established = sess[s].established, sess'[s].guest = sess[s].guest,
         sess'[s].user = sess[s].user, Est(c, s)' => Est(c, s) /\ chan'[c][s] = chan[c][s]
  PROVE  Proven(s)'
<1>1. \A d \in Conns : Est(d, s)' => Est(d, s) /\ chan'[d][s] = chan[d][s]
  BY OtherEst
<1>2. config' = config
  BY DEF Local
<1> QED BY <1>1, <1>2 DEF Proven

\* A step of c changes the counted channels by c at most.
LEMMA CountedStep ==
  ASSUME NEW c \in Conns, NEW s \in Sids, Local(c, s)
  PROVE  /\ c \in Counted(s)' => Counted(s)' = Counted(s) \cup {c}
         /\ c \notin Counted(s)' => Counted(s)' = Counted(s) \ {c}
         /\ (c \in Counted(s)' <=> c \in Counted(s)) => Counted(s)' = Counted(s)
<1>1. \A d \in Conns : d # c => (d \in Counted(s)' <=> d \in Counted(s))
  BY OtherEst, OtherOn DEF Counted
<1>2. Counted(s) \subseteq Conns /\ Counted(s)' \subseteq Conns
  BY DEF Counted
<1> QED BY <1>1, <1>2, SMTT(40)

LEMMA CountedConns == \A s \in Sids : Counted(s) \in SUBSET Conns
BY DEF Counted

\* The same for the threads that wait.
LEMMA WaitingStep ==
  ASSUME NEW c \in Conns, NEW s \in Sids, Local(c, s)
  PROVE  /\ c \notin Waiting(s)' => Waiting(s)' = Waiting(s) \ {c}
         /\ (c \in Waiting(s)' <=> c \in Waiting(s)) => Waiting(s)' = Waiting(s)
<1>1. \A d \in Conns : d # c => (d \in Waiting(s)' <=> d \in Waiting(s))
  BY OtherOn DEF Waiting
<1>2. Waiting(s) \subseteq Conns /\ Waiting(s)' \subseteq Conns
  BY DEF Waiting
<1> QED BY <1>1, <1>2, SMTT(40)

LEMMA WaitingConns == \A s \in Sids : Waiting(s) \in SUBSET Conns
BY DEF Waiting

\* Nobody waits on a session that is not established.
LEMMA NobodyWaits ==
  ASSUME NEW s \in Sids, SessionInv(s), ~sess[s].established
  PROVE  Waiting(s) = {}
BY DEF SessionInv, Legs, Waiting

\* A step that leaves the SessionInner and the registry alone: what is asked of
\* the connection that takes it.
LEMMA SameSession ==
  ASSUME NEW c \in Conns, NEW s \in Sids, SessionInv(s), Local(c, s),
         sess[s] # None, sess'[s] = sess[s], s \in registry' <=> s \in registry,
         Legs(c, s)',
         ~sess[s].established /\ Owner(c, s)' => Owner(c, s),
         Est(c, s)' => Est(c, s) /\ chan'[c][s] = chan[c][s],
         ~On(c, "take", s), ~On(c, "take", s)', ~On(c, "end", s),
         s \notin registry => (c \in Waiting(s)' <=> c \in Waiting(s)),
         s \in registry => (c \in Counted(s)' <=> c \in Counted(s)),
         s \in registry /\ ~sess[s].established
           => (chan[c][s] # None \/ On(c, "establish", s) \/ On(c, "reject", s) \/ On(c, "drop", s)
                => chan'[c][s] # None \/ On(c, "establish", s)' \/ On(c, "reject", s)' \/ On(c, "drop", s)')
  PROVE  SessionInv(s)'
<1>1. Fresh(s)' /\ Named(s)'
  BY DEF Fresh, SessionInv, Named
<1>2. \A d \in Conns : Legs(d, s)'
  BY LegsKept DEF SessionInv
<1>3. Private(s)'
  BY PrivateKept DEF SessionInv
<1>4. Proven(s)'
  BY ProvenKept DEF SessionInv
<1>5. Taken(s)'
  <2>1. Dead(s)' <=> Dead(s)
    BY OtherOn DEF Dead
  <2>2. s \notin registry => Waiting(s)' = Waiting(s)
    BY WaitingStep
  <2> QED BY <2>1, <2>2 DEF SessionInv, Taken, Spare
<1>6. Count(s)'
  <2>1. s \in registry => Counted(s)' = Counted(s)
    BY CountedStep
  <2> QED BY <2>1 DEF SessionInv, Count
<1>7. Alive(s)'
  BY OtherEst, OtherOn, SMTT(40) DEF SessionInv, Alive
<1> QED BY <1>1, <1>2, <1>3, <1>4, <1>5, <1>6, <1>7 DEF SessionInv

-----------------------------------------------------------------------------
(***************************************************************************)
(* Every step of the session registry preserves its types.                 *)
(***************************************************************************)

LEMMA TypeInit == Init => TypeOK
BY NewRecords, SMTT(40) DEF Init, TypeOK

LEMMA TypeStep == IInv /\ [Next]_vars => TypeOK'
<1> SUFFICES ASSUME IInv, [Next]_vars PROVE TypeOK'
  OBVIOUS
<1> USE SessionConstants, NewRecords
<1>t. TypeOK /\ FreshInv
  BY DEF IInv, SessionInv, FreshInv
<1>u. CASE UNCHANGED vars
  BY <1>t, <1>u DEF TypeOK, vars
<1>1. ASSUME NEW c \in Conns, NEW s \in Sids, NtlmNegotiate(c, s) PROVE TypeOK'
  BY <1>t, <1>1 DEF TypeOK, NtlmNegotiate, CreateSession, SetChan
<1>2. ASSUME NEW c \in Conns, NEW s \in Sids, BindNegotiate(c, s) PROVE TypeOK'
  BY <1>t, <1>2 DEF TypeOK, BindNegotiate, Goto
<1>3. ASSUME NEW c \in Conns, BindCheck(c) PROVE TypeOK'
  <2>1. thread[c].sid \in Sids
    BY <1>t, <1>3, ThreadFields DEF TypeOK, BindCheck
  <2>2. chan' \in [Conns -> [Sids -> {None} \cup Channels]]
    BY <1>t, <1>3, <2>1, Updates DEF TypeOK, BindCheck
  <2>3. thread' \in [Conns -> Threads]
    BY <1>t, <1>3, <2>1, Updates DEF BindCheck
  <2> QED BY <1>t, <1>3, <2>2, <2>3 DEF TypeOK, BindCheck
<1>4. ASSUME NEW c \in Conns, NEW s \in Sids, NEW who \in Users \cup {Guest, None},
             NtlmAuthenticate(c, s, who)
      PROVE TypeOK'
  <2> DEFINE x == IF s \notin registry THEN Idle
             ELSE IF chan[c][s].pending = "bind"
               THEN [at |-> "bind", sid |-> s, who |-> who]
             ELSE IF who # None /\ Admitted(c, who)
               THEN [at |-> "establish", sid |-> s, who |-> who]
               ELSE At("reject", s)
  <2>1. x \in Threads
    BY SMTT(40) DEF Threads, Idents, At, Idle
  <2>2. thread' \in [Conns -> Threads]
    BY <1>t, <1>4, <2>1, Updates DEF NtlmAuthenticate
  <2>3. chan' \in [Conns -> [Sids -> {None} \cup Channels]]
    BY <1>t, <1>4, Updates DEF NtlmAuthenticate
  <2> QED BY <1>t, <1>4, <2>2, <2>3 DEF TypeOK, NtlmAuthenticate
<1>5. ASSUME NEW c \in Conns, Bind(c) PROVE TypeOK'
  <2> DEFINE s == thread[c].sid  who == thread[c].who
  <2>1. s \in Sids /\ who \in Users \cup {Guest, None} /\ sess[s] \in SessionInner
    BY <1>t, <1>5, ThreadFields DEF TypeOK, Bind, FreshInv, Fresh, Busy
  <2>2. thread' \in [Conns -> Threads]
    BY <1>t, <1>5, <2>1, Updates DEF Bind
  <2>3. [sess[s] EXCEPT !.channels = @ + 1] \in SessionInner
    BY <2>1, SMTT(40) DEF SessionInner
  <2>4. sess' \in [Sids -> {None} \cup SessionInner] /\ \A r \in registry : sess'[r] # None
    BY <1>t, <1>5, <2>1, <2>3 DEF Bind, TypeOK
  <2>5. EstablishedChannel(c, who) \in Channels
    BY <1>t, <2>1 DEF EstablishedChannel, Channels, Idents, TypeOK
  <2>6. chan' \in [Conns -> [Sids -> {None} \cup Channels]]
    BY <1>t, <1>5, <2>1, <2>5, Updates DEF Bind
  <2> QED BY <1>t, <1>5, <2>2, <2>4, <2>6 DEF TypeOK, Bind
<1>6. ASSUME NEW c \in Conns, Establish(c) PROVE TypeOK'
  <2> DEFINE s == thread[c].sid  who == thread[c].who
  <2>1. s \in Sids /\ who \in Idents /\ sess[s] \in SessionInner
    BY <1>t, <1>6, ThreadFields DEF TypeOK, Establish, FreshInv, Fresh, Busy
  <2>2. thread' \in [Conns -> Threads]
    BY <1>t, <1>6, <2>1, Updates DEF Establish
  <2>3. [sess[s] EXCEPT !.established = TRUE, !.channels = 1, !.guest = (who = Guest),
                        !.user = IF who = Guest THEN @ ELSE who] \in SessionInner
    BY <2>1 DEF SessionInner
  <2>4. sess' \in [Sids -> {None} \cup SessionInner] /\ \A r \in registry : sess'[r] # None
    BY <1>t, <1>6, <2>1, <2>3 DEF Establish, TypeOK
  <2>5. EstablishedChannel(c, who) \in Channels
    BY <1>t, <2>1 DEF EstablishedChannel, Channels, Idents, TypeOK
  <2>6. chan' \in [Conns -> [Sids -> {None} \cup Channels]]
    BY <1>t, <1>6, <2>1, <2>5, Updates DEF Establish
  <2> QED BY <1>t, <1>6, <2>2, <2>4, <2>6 DEF TypeOK, Establish
<1>7. ASSUME NEW c \in Conns, Reject(c) PROVE TypeOK'
  <2>1. thread[c].sid \in Sids
    BY <1>t, <1>7, ThreadFields DEF TypeOK, Reject
  <2>2. thread' \in [Conns -> Threads] /\ chan' \in [Conns -> [Sids -> {None} \cup Channels]]
    BY <1>t, <1>7, <2>1, Updates DEF Reject
  <2> QED BY <1>t, <1>7, <2>2 DEF TypeOK, Reject
<1>8. ASSUME NEW c \in Conns, NEW s \in Sids, NEW who \in {Guest, Principal}, OneLegSetup(c, s, who)
      PROVE TypeOK'
  <2>1. [at |-> "establish", sid |-> s, who |-> who] \in Threads
    BY DEF Threads, Idents
  <2>2. thread' \in [Conns -> Threads]
    BY <1>t, <1>8, <2>1, Updates DEF OneLegSetup
  <2> QED BY <1>t, <1>8, <2>2 DEF TypeOK, OneLegSetup, CreateSession
<1>9. ASSUME NEW c \in Conns, NEW s \in Sids, KerberosContinue(c, s) PROVE TypeOK'
  BY <1>t, <1>9 DEF TypeOK, KerberosContinue, CreateSession, SetChan
<1>10. ASSUME NEW c \in Conns, NEW s \in Sids, NEW ok \in BOOLEAN, KerberosLeg(c, s, ok) PROVE TypeOK'
  <2>1. [at |-> "establish", sid |-> s, who |-> Principal] \in Threads
    BY DEF Threads, Idents
  <2>2. thread' \in [Conns -> Threads] /\ chan' \in [Conns -> [Sids -> {None} \cup Channels]]
    BY <1>t, <1>10, <2>1, Updates DEF KerberosLeg
  <2> QED BY <1>t, <1>10, <2>2 DEF TypeOK, KerberosLeg
<1>11. ASSUME NEW c \in Conns, NEW s \in Sids, Logoff(c, s) PROVE TypeOK'
  <2>1. [at |-> "drop", sid |-> s, est |-> TRUE] \in Threads
    BY DEF Threads
  <2>2. thread' \in [Conns -> Threads] /\ chan' \in [Conns -> [Sids -> {None} \cup Channels]]
    BY <1>t, <1>11, <2>1, Updates DEF Logoff
  <2> QED BY <1>t, <1>11, <2>2 DEF TypeOK, Logoff
<1>12. ASSUME NEW c \in Conns, NEW s \in Sids, TeardownChannel(c, s) PROVE TypeOK'
  <2>1. [at |-> "drop", sid |-> s, est |-> Est(c, s)] \in Threads
    BY <1>t DEF Threads, Est, TypeOK, Channels
  <2>2. thread' \in [Conns -> Threads] /\ chan' \in [Conns -> [Sids -> {None} \cup Channels]]
    BY <1>t, <1>12, <2>1, Updates DEF TeardownChannel
  <2> QED BY <1>t, <1>12, <2>2 DEF TypeOK, TeardownChannel
<1>13. ASSUME NEW c \in Conns, Disconnect(c) PROVE TypeOK'
  <2>1. [conn[c] EXCEPT !.up = "closing"] \in [up : {"up", "closing", "gone"}, cipher : BOOLEAN]
    BY <1>t, SMTT(40) DEF TypeOK
  <2>2. conn' \in [Conns -> [up : {"up", "closing", "gone"}, cipher : BOOLEAN]]
    BY <1>t, <1>13, <2>1 DEF TypeOK, Disconnect
  <2> QED BY <1>t, <1>13, <2>2 DEF TypeOK, Disconnect
<1>18. ASSUME NEW c \in Conns, NEW up \in {"up", "gone"}, NEW cipher \in BOOLEAN,
              conn' = [conn EXCEPT ![c] = [up |-> up, cipher |-> cipher]],
              UNCHANGED <<config, registry, sess, chan, thread>>
       PROVE TypeOK'
  <2>1. [up |-> up, cipher |-> cipher] \in [up : {"up", "closing", "gone"}, cipher : BOOLEAN]
    OBVIOUS
  <2>2. conn' \in [Conns -> [up : {"up", "closing", "gone"}, cipher : BOOLEAN]]
    BY <1>t, <1>18, <2>1 DEF TypeOK
  <2> QED BY <1>t, <1>18, <2>2 DEF TypeOK
<1>20. ASSUME NEW c \in Conns, TeardownDone(c) PROVE TypeOK'
  BY <1>18, <1>20 DEF TeardownDone
<1>21. ASSUME NEW c \in Conns, NEW cipher \in BOOLEAN, Accept(c, cipher) PROVE TypeOK'
  BY <1>18, <1>21 DEF Accept
<1>14. ASSUME NEW c \in Conns, DropChannel(c) PROVE TypeOK'
  <2> DEFINE s == thread[c].sid  left == Remaining(s, thread[c].est)
  <2>1. s \in Sids /\ sess[s] \in SessionInner
    BY <1>t, <1>14, ThreadFields DEF TypeOK, DropChannel, FreshInv, Fresh, Busy
  <2>2. thread' \in [Conns -> Threads]
    BY <1>t, <1>14, <2>1, Updates DEF DropChannel
  <2>3. left \in Nat
    BY <2>1, SMTT(40) DEF Remaining, SessionInner
  <2>4. [sess[s] EXCEPT !.channels = left] \in SessionInner
    BY <2>1, <2>3 DEF SessionInner
  <2>5. sess' \in [Sids -> {None} \cup SessionInner] /\ \A r \in registry : sess'[r] # None
    BY <1>t, <1>14, <2>1, <2>4 DEF DropChannel, TypeOK
  <2> QED BY <1>t, <1>14, <2>2, <2>5 DEF TypeOK, DropChannel
<1>15. ASSUME NEW c \in Conns, EndSession(c) PROVE TypeOK'
  <2>1. thread[c].sid \in Sids
    BY <1>t, <1>15, ThreadFields DEF TypeOK, EndSession
  <2>2. thread' \in [Conns -> Threads]
    BY <1>t, <1>15, <2>1, Updates DEF EndSession
  <2> QED BY <1>t, <1>15, <2>2 DEF TypeOK, EndSession
<1>16. ASSUME NEW c \in Conns, TakeAll(c) PROVE TypeOK'
  <2> DEFINE s == thread[c].sid
  <2>1. s \in Sids /\ sess[s] \in SessionInner
    BY <1>t, <1>16, ThreadFields DEF TypeOK, TakeAll, FreshInv, Fresh, Busy
  <2>2. thread' \in [Conns -> Threads]
    BY <1>t, <1>16, <2>1, Updates DEF TakeAll
  <2>3. [sess[s] EXCEPT !.trees = {}, !.opens = [t \in Trees |-> 0]] \in SessionInner
    BY <2>1 DEF SessionInner
  <2>4. sess' \in [Sids -> {None} \cup SessionInner] /\ \A r \in registry : sess'[r] # None
    BY <1>t, <1>16, <2>1, <2>3 DEF TakeAll, TypeOK
  <2> QED BY <1>t, <1>16, <2>2, <2>4 DEF TypeOK, TakeAll
<1>17. ASSUME NEW c \in Conns, NEW s \in Sids, NEW op \in Ops, NEW t \in Trees, Request(c, s, op, t)
       PROVE TypeOK'
  <2>1. [at |-> "request", sid |-> s, op |-> op, tree |-> t] \in Threads
    BY DEF Threads
  <2>2. thread' \in [Conns -> Threads]
    BY <1>t, <1>17, <2>1, Updates DEF Request
  <2> QED BY <1>t, <1>17, <2>2 DEF TypeOK, Request
<1>19. ASSUME NEW c \in Conns, RunRequest(c) PROVE TypeOK'
  <2> DEFINE s == thread[c].sid  op == thread[c].op  t == thread[c].tree
  <2>1. s \in Sids /\ sess[s] \in SessionInner /\ op \in Ops /\ t \in Trees
    BY <1>t, <1>19, ThreadFields DEF TypeOK, RunRequest, FreshInv, Fresh, Busy
  <2>2. thread' \in [Conns -> Threads]
    BY <1>t, <1>19, <2>1, Updates DEF RunRequest
  <2>3. TreeConnected(s) \in SessionInner /\ TreeDisconnected(s, t) \in SessionInner
          /\ Opened(s, t) \in SessionInner /\ Closed(s, t) \in SessionInner
    BY <2>1, RequestTypes
  <2>4. sess' \in [Sids -> {None} \cup SessionInner] /\ \A r \in registry : sess'[r] # None
    BY <1>t, <1>19, <2>1, <2>3 DEF RunRequest, TypeOK, Ops
  <2> QED BY <1>t, <1>19, <2>2, <2>4 DEF TypeOK, RunRequest
<1> QED
  BY <1>u, <1>1, <1>2, <1>3, <1>4, <1>5, <1>6, <1>7, <1>8, <1>9, <1>10, <1>11, <1>12, <1>13, <1>14,
     <1>15, <1>16, <1>17, <1>19, <1>20, <1>21 DEF Next, Setup, Leave, Use

-----------------------------------------------------------------------------
(* The handlers that leave the SessionInner alone                          *)

LEMMA BindNegotiateStep ==
  ASSUME IInv, NEW c \in Conns, NEW s \in Sids, BindNegotiate(c, s)
  PROVE  Local(c, s) /\ SessionInv(s)' /\ conn[c].up # "gone"
<1>t. TypeOK /\ SessionInv(s)
  BY DEF IInv
<1>1. /\ Local(c, s) /\ conn[c].up # "gone" /\ thread[c].at = "idle" /\ s \in registry
      /\ chan'[c][s] = chan[c][s] /\ sess'[s] = sess[s] /\ registry' = registry /\ sess[s] # None
      /\ thread'[c].at = "bindcheck"
  <2>1. \A d \in Conns : thread'[d] = IF d = c THEN At("bindcheck", s) ELSE thread[d]
    BY <1>t, Lookup, SMTT(40) DEF BindNegotiate
  <2> QED BY <1>t, <2>1, SMTT(40) DEF BindNegotiate, Local, Ready, Idle, At, TypeOK
<1>2. Legs(c, s)'
  BY <1>t, <1>1 DEF Legs, SessionInv, On
<1>3. /\ Est(c, s)' <=> Est(c, s)
      /\ \A label \in {"establish", "reject", "drop", "take", "end", "request"} : ~On(c, label, s) /\ ~On(c, label, s)'
  BY <1>1 DEF Est, On
<1>4. /\ c \in Counted(s)' <=> c \in Counted(s)
      /\ c \in Waiting(s)' <=> c \in Waiting(s)
      /\ Owner(c, s)' <=> Owner(c, s)
  BY <1>1, <1>3 DEF Counted, Owner, Waiting
<1>5. SessionInv(s)'
  BY <1>t, <1>1, <1>2, <1>3, <1>4, SameSession
<1> QED BY <1>1, <1>5

LEMMA BindCheckStep ==
  ASSUME IInv, NEW c \in Conns, NEW s \in Sids, Busy(c, s), BindCheck(c)
  PROVE  Local(c, s) /\ SessionInv(s)' /\ conn[c].up # "gone"
<1>t. TypeOK /\ SessionInv(s)
  BY DEF IInv
<1>1. /\ Local(c, s) /\ conn[c].up # "gone" /\ thread[c].at = "bindcheck" /\ sess[s] # None
      /\ sess'[s] = sess[s] /\ registry' = registry /\ thread'[c].at = "idle"
      /\ \/ chan'[c][s] = chan[c][s]
         \/ sess[s].established /\ ~Est(c, s) /\ chan'[c][s] = PendingChannel("bind")
  <2>1. \A d \in Conns : thread'[d] = IF d = c THEN Idle ELSE thread[d]
    BY <1>t, Lookup, SMTT(40) DEF BindCheck, Busy
  <2>2. conn[c].up # "gone" /\ sess[s] # None
    BY <1>t DEF BindCheck, IInv, ThreadInv, SessionInv, Fresh, Busy
  <2>3. CASE sess[s].established /\ ~sess[s].guest /\ ~Est(c, s)
    <3>1. \A d \in Conns, r \in Sids :
            chan'[d][r] = IF d = c /\ r = s THEN PendingChannel("bind") ELSE chan[d][r]
      BY <1>t, <2>3, Lookup, SMTT(40) DEF BindCheck, Busy
    <3> QED BY <2>1, <2>2, <2>3, <3>1, SMTT(40) DEF BindCheck, Local, Idle, Busy
  <2>4. CASE ~(sess[s].established /\ ~sess[s].guest /\ ~Est(c, s))
    BY <2>1, <2>2, <2>4, SMTT(40) DEF BindCheck, Local, Idle, Busy
  <2> QED BY <2>3, <2>4
<1>2. Legs(c, s)'
  BY <1>t, <1>1, SMTT(40) DEF Legs, SessionInv, On, PendingChannel
<1>3. /\ Est(c, s)' <=> Est(c, s)
      /\ Est(c, s)' => chan'[c][s] = chan[c][s]
      /\ \A label \in {"establish", "reject", "drop", "take", "end", "request"} : ~On(c, label, s) /\ ~On(c, label, s)'
  BY <1>1, SMTT(40) DEF Est, On, PendingChannel
<1>4. /\ c \in Counted(s)' <=> c \in Counted(s)
      /\ c \in Waiting(s)' <=> c \in Waiting(s)
      /\ ~sess[s].established /\ Owner(c, s)' => Owner(c, s)
  BY <1>1, <1>3 DEF Counted, Owner, Waiting
<1>5. SessionInv(s)'
  BY <1>t, <1>1, <1>2, <1>3, <1>4, SameSession
<1> QED BY <1>1, <1>5

LEMMA NtlmAuthenticateStep ==
  ASSUME IInv, NEW c \in Conns, NEW s \in Sids, NEW who \in Users \cup {Guest, None}, NtlmAuthenticate(c, s, who)
  PROVE  Local(c, s) /\ SessionInv(s)' /\ conn[c].up # "gone"
<1>t. TypeOK /\ SessionInv(s)
  BY DEF IInv
<1>1. /\ Local(c, s) /\ conn[c].up # "gone" /\ thread[c].at = "idle" /\ sess[s] # None
      /\ sess'[s] = sess[s] /\ registry' = registry
      /\ chan[c][s] # None /\ chan[c][s].pending \in {"first", "bind"} /\ chan'[c][s] = PendingChannel("none")
      /\ \/ thread'[c].at = "idle"
         \/ thread'[c].at = "bind" /\ chan[c][s].pending = "bind"
         \/ thread'[c].at = "establish" /\ chan[c][s].pending = "first" /\ Admitted(c, thread'[c].who)
         \/ thread'[c].at = "reject" /\ chan[c][s].pending = "first"
  <2> DEFINE x == IF s \notin registry THEN Idle
                  ELSE IF chan[c][s].pending = "bind" THEN [at |-> "bind", sid |-> s, who |-> who]
                  ELSE IF who # None /\ Admitted(c, who) THEN [at |-> "establish", sid |-> s, who |-> who]
                  ELSE At("reject", s)
  <2>1. \A d \in Conns, r \in Sids : chan'[d][r] = IF d = c /\ r = s THEN PendingChannel("none") ELSE chan[d][r]
    BY <1>t, Lookup, SMTT(40) DEF NtlmAuthenticate
  <2>2. \A d \in Conns : thread'[d] = IF d = c THEN x ELSE thread[d]
    BY <1>t, Lookup, SMTT(40) DEF NtlmAuthenticate
  <2>3. /\ conn[c].up = "up" /\ thread[c].at = "idle" /\ sess[s] # None
        /\ chan[c][s] # None /\ chan[c][s].pending \in {"first", "bind"} /\ UNCHANGED <<config, registry, sess, conn>>
    BY <1>t, SMTT(40) DEF NtlmAuthenticate, Ready, Idle, SessionInv, Fresh
  <2>4. /\ x.at # "idle" => x.sid = s
        /\ \/ x.at = "idle"
           \/ x.at = "bind" /\ chan[c][s].pending = "bind"
           \/ x.at = "establish" /\ chan[c][s].pending = "first" /\ Admitted(c, x.who)
           \/ x.at = "reject" /\ chan[c][s].pending = "first"
    BY <2>3 DEF At, Idle
  <2> HIDE DEF x
  <2> QED BY <2>1, <2>2, <2>3, <2>4 DEF Local
<1>2. ~Est(c, s) /\ ~Est(c, s)' /\ chan'[c][s] # None
  <2>1. chan'[c][s] # None
    BY <1>1, NewRecords, SessionConstants
  <2> QED BY <1>t, <1>1, <2>1, SMTT(40) DEF SessionInv, Legs, Est, PendingChannel
<1>3. Legs(c, s)'
  BY <1>t, <1>1, <1>2, SMTT(40) DEF Legs, SessionInv, On, PendingChannel, Admitted, Local
<1>4. \A label \in {"drop", "take", "end", "request"} : ~On(c, label, s) /\ ~On(c, label, s)'
  BY <1>1 DEF On
<1>5. /\ c \in Counted(s)' <=> c \in Counted(s)
      /\ c \in Waiting(s)' <=> c \in Waiting(s)
      /\ Owner(c, s)
  BY <1>1, <1>2, <1>4 DEF Counted, Owner, Waiting
<1>6. SessionInv(s)'
  BY <1>t, <1>1, <1>2, <1>3, <1>4, <1>5, SameSession
<1> QED BY <1>1, <1>6

LEMMA KerberosLegStep ==
  ASSUME IInv, NEW c \in Conns, NEW s \in Sids, NEW ok \in BOOLEAN, KerberosLeg(c, s, ok)
  PROVE  Local(c, s) /\ SessionInv(s)' /\ conn[c].up # "gone"
<1>t. TypeOK /\ SessionInv(s)
  BY DEF IInv
<1>1. /\ Local(c, s) /\ conn[c].up # "gone" /\ thread[c].at = "idle" /\ sess[s] # None
      /\ sess'[s] = sess[s] /\ registry' = registry
      /\ chan[c][s] # None /\ chan[c][s].pending = "krb" /\ chan'[c][s] = PendingChannel("none")
      /\ \/ thread'[c].at = "establish" /\ Admitted(c, thread'[c].who)
         \/ thread'[c].at = "reject"
  <2> DEFINE x == IF ok /\ Admitted(c, Principal)
                    THEN [at |-> "establish", sid |-> s, who |-> Principal] ELSE At("reject", s)
  <2>1. \A d \in Conns, r \in Sids : chan'[d][r] = IF d = c /\ r = s THEN PendingChannel("none") ELSE chan[d][r]
    BY <1>t, Lookup, SMTT(40) DEF KerberosLeg
  <2>2. \A d \in Conns : thread'[d] = IF d = c THEN x ELSE thread[d]
    BY <1>t, Lookup, SMTT(40) DEF KerberosLeg
  <2>3. /\ x.at \in {"establish", "reject"} /\ x.sid = s
        /\ x.at = "establish" => Admitted(c, x.who)
    BY DEF At
  <2>4. /\ conn[c].up = "up" /\ thread[c].at = "idle" /\ sess[s] # None
        /\ chan[c][s] # None /\ chan[c][s].pending = "krb" /\ UNCHANGED <<config, registry, sess, conn>>
    BY <1>t, SMTT(40) DEF KerberosLeg, Ready, Idle, SessionInv, Fresh
  <2> HIDE DEF x
  <2> QED BY <2>1, <2>2, <2>3, <2>4 DEF Local
<1>2. ~Est(c, s) /\ ~Est(c, s)' /\ chan'[c][s] # None
  <2>1. chan'[c][s] # None
    BY <1>1, NewRecords, SessionConstants
  <2> QED BY <1>t, <1>1, <2>1, SMTT(40) DEF SessionInv, Legs, Est, PendingChannel
<1>3. Legs(c, s)'
  BY <1>t, <1>1, <1>2, SMTT(40) DEF Legs, SessionInv, On, PendingChannel, Admitted, Local
<1>4. \A label \in {"drop", "take", "end", "request"} : ~On(c, label, s) /\ ~On(c, label, s)'
  BY <1>1 DEF On
<1>5. /\ c \in Counted(s)' <=> c \in Counted(s)
      /\ c \in Waiting(s)' <=> c \in Waiting(s)
      /\ Owner(c, s)
  BY <1>1, <1>2, <1>4 DEF Counted, Owner, Waiting
<1>6. SessionInv(s)'
  BY <1>t, <1>1, <1>2, <1>3, <1>4, <1>5, SameSession
<1> QED BY <1>1, <1>6

\* LOGOFF and the teardown of a channel.
LEMMA UnlinkStep ==
  ASSUME IInv, NEW c \in Conns, NEW s \in Sids, Logoff(c, s) \/ TeardownChannel(c, s)
  PROVE  Local(c, s) /\ SessionInv(s)' /\ conn[c].up # "gone"
<1>t. TypeOK /\ SessionInv(s)
  BY DEF IInv
<1>1. /\ Local(c, s) /\ conn[c].up # "gone" /\ thread[c].at = "idle" /\ sess[s] # None
      /\ sess'[s] = sess[s] /\ registry' = registry
      /\ chan[c][s] # None /\ chan'[c][s] = None
      /\ IF s \in registry THEN On(c, "drop", s)' /\ (thread'[c].est <=> Est(c, s)) ELSE thread'[c].at = "idle"
  <2>1. CASE Logoff(c, s)
    <3>1. Est(c, s) = TRUE /\ chan[c][s] # None
      BY <2>1, <1>t DEF Logoff, Est, TypeOK, Channels
    <3>2. \A d \in Conns, r \in Sids : chan'[d][r] = IF d = c /\ r = s THEN None ELSE chan[d][r]
      BY <1>t, <2>1, Lookup, SMTT(40) DEF Logoff
    <3>3. \A d \in Conns : thread'[d] = IF d # c THEN thread[d]
            ELSE IF s \in registry THEN [at |-> "drop", sid |-> s, est |-> TRUE] ELSE Idle
      BY <1>t, <2>1, Lookup, SMTT(40) DEF Logoff
    <3>4. /\ conn[c].up = "up" /\ thread[c].at = "idle" /\ sess[s] # None /\ UNCHANGED <<config, registry, sess, conn>>
      BY <1>t, <2>1, <3>1, SMTT(40) DEF Logoff, Ready, Idle, SessionInv, Fresh
    <3>5. Local(c, s)
      BY <3>2, <3>3, <3>4, SMTT(40) DEF Local, Idle
    <3>6. IF s \in registry THEN On(c, "drop", s)' /\ thread'[c].est ELSE thread'[c].at = "idle"
      BY <3>3, SMTT(40) DEF On, Idle
    <3> QED BY <3>1, <3>2, <3>4, <3>5, <3>6
  <2>2. CASE TeardownChannel(c, s)
    BY <1>t, <2>2, Lookup, SMTT(40) DEF TeardownChannel, Local, Idle, TypeOK, SessionInv, Fresh, On
  <2> QED BY <2>1, <2>2
<1>2. ~Est(c, s)' /\ (Est(c, s) => sess[s].established) /\ Owner(c, s)
  BY <1>t, <1>1 DEF SessionInv, Proven, Est, Owner
<1>3. Legs(c, s)'
  BY <1>1, <1>2 DEF Legs, On
<1>4. /\ \A label \in {"establish", "reject", "take", "end", "request"} : ~On(c, label, s) /\ ~On(c, label, s)'
      /\ ~On(c, "drop", s)
  BY <1>1 DEF On
<1>5. /\ s \in registry => (c \in Counted(s)' <=> c \in Counted(s))
      /\ s \notin registry => (c \in Waiting(s)' <=> c \in Waiting(s))
  BY <1>1, <1>2, <1>4 DEF Counted, Waiting, On
<1>6. SessionInv(s)'
  BY <1>t, <1>1, <1>2, <1>3, <1>4, <1>5, SameSession
<1> QED BY <1>1, <1>6

LEMMA RequestStep ==
  ASSUME IInv, NEW c \in Conns, NEW s \in Sids, NEW op \in Ops, NEW t \in Trees, Request(c, s, op, t)
  PROVE  Local(c, s) /\ SessionInv(s)' /\ conn[c].up # "gone"
<1>t. TypeOK /\ SessionInv(s)
  BY DEF IInv
<1>1. /\ Local(c, s) /\ conn[c].up # "gone" /\ thread[c].at = "idle" /\ s \in registry /\ Est(c, s)
      /\ chan'[c][s] = chan[c][s] /\ sess'[s] = sess[s] /\ registry' = registry /\ sess[s] # None
      /\ thread'[c] = [at |-> "request", sid |-> s, op |-> op, tree |-> t]
  <2>1. \A d \in Conns : thread'[d] = IF d = c THEN [at |-> "request", sid |-> s, op |-> op, tree |-> t] ELSE thread[d]
    BY <1>t, Lookup, SMTT(40) DEF Request
  <2> QED BY <1>t, <2>1, SMTT(40) DEF Request, Local, Ready, Idle, TypeOK
<1>3. /\ Est(c, s)' <=> Est(c, s)
      /\ \A label \in {"establish", "reject", "bind", "drop", "take", "end"} : ~On(c, label, s) /\ ~On(c, label, s)'
  BY <1>1, SMTT(40) DEF Est, On
<1>4. Legs(c, s)' /\ sess[s].established
  BY <1>t, <1>1, <1>3 DEF Legs, SessionInv, Proven
<1>5. (c \in Counted(s)' <=> c \in Counted(s)) /\ (Owner(c, s)' <=> Owner(c, s))
  BY <1>1, <1>3 DEF Counted, Owner
<1>6. SessionInv(s)'
  BY <1>t, <1>1, <1>3, <1>4, <1>5, SameSession
<1> QED BY <1>1, <1>6
-----------------------------------------------------------------------------
(* The handlers that change the SessionInner or the registry's entry       *)

\* A new session, whose channel, if any, awaits a leg.
LEMMA CreateStep ==
  ASSUME IInv, Counting, NEW c \in Conns, NEW s \in Sids, Local(c, s), CreateSession(s), thread[c].at = "idle",
         \/ /\ thread'[c] = thread[c]
            /\ \E p \in {"first", "krb"} : chan'[c][s] = PendingChannel(p)
         \/ /\ chan'[c][s] = chan[c][s]
            /\ On(c, "establish", s)' /\ Admitted(c, thread'[c].who)
  PROVE  SessionInv(s)'
<1>t. TypeOK /\ SessionInv(s)
  BY DEF IInv
<1>1. sess[s] = None /\ sess'[s] = NewSession /\ s \in registry' /\ NewSession # None
  BY <1>t, NewRecords, SessionConstants DEF CreateSession, TypeOK
<1>2. \A d \in Conns : chan[d][s] = None /\ ~Busy(d, s)
  BY <1>t, <1>1 DEF SessionInv, Fresh
<1>3. /\ \A d \in Conns : ~Owner(d, s) /\ ~Est(d, s)
      /\ \A d \in Conns, label \in {"establish", "reject", "bind", "drop", "end", "take", "request"} : ~On(d, label, s)
  BY <1>2 DEF Owner, Est, On, Busy
<1>4. /\ ~Est(c, s)' /\ Owner(c, s)'
      /\ \A label \in {"reject", "bind", "drop", "end", "take", "request"} : ~On(c, label, s)'
  <2>1. \A p \in {"first", "krb"} : PendingChannel(p) # None /\ ~PendingChannel(p).established
    BY NewRecords, SessionConstants DEF PendingChannel
  <2> QED BY <1>2, <1>3, <2>1 DEF Est, Owner, On
<1>5. Legs(c, s)'
  <2>1. CASE thread'[c] = thread[c] /\ \E p \in {"first", "krb"} : chan'[c][s] = PendingChannel(p)
    BY <1>1, <1>4, <2>1, SMTT(40) DEF Legs, NewSession, PendingChannel, On
  <2>2. CASE chan'[c][s] = chan[c][s] /\ On(c, "establish", s)' /\ Admitted(c, thread'[c].who)
    BY <1>1, <1>2, <1>4, <2>2, SMTT(40) DEF Legs, NewSession, Admitted, Local
  <2> QED BY <2>1, <2>2
<1>6. \A d \in Conns \ {c} : Legs(d, s)'
  BY <1>2, <1>3, OtherEst, OtherOn DEF Legs
<1>7. Fresh(s)' /\ Named(s)'
  BY <1>1, SMTT(40) DEF Fresh, Named, NewSession
<1>8. Private(s)'
  BY <1>3, OtherOwner DEF Private
<1>9. Proven(s)'
  BY <1>3, <1>4, OtherEst DEF Proven
<1>10. Taken(s)'
  BY <1>1, SMTT(40) DEF Taken, Spare, NewSession
<1>11. Count(s)'
  <2>1. Counted(s)' = {}
    BY <1>3, <1>4, OtherEst, OtherOn DEF Counted
  <2> QED BY <1>1, <2>1, SMTT(40) DEF Count, Counting, NewSession
<1>12. Alive(s)'
  BY <1>1, <1>4, SMTT(40) DEF Alive, NewSession, Owner
<1> QED BY <1>5, <1>6, <1>7, <1>8, <1>9, <1>10, <1>11, <1>12 DEF SessionInv

LEMMA FirstLegStep ==
  ASSUME IInv, Counting, NEW c \in Conns, NEW s \in Sids, NtlmNegotiate(c, s) \/ KerberosContinue(c, s)
  PROVE  Local(c, s) /\ SessionInv(s)' /\ conn[c].up # "gone"
<1>t. TypeOK
  BY DEF IInv
<1>1. PICK p \in {"first", "krb"} : SetChan(c, s, PendingChannel(p))
  BY DEF NtlmNegotiate, KerberosContinue
<1>2. \A d \in Conns, r \in Sids : chan'[d][r] = IF d = c /\ r = s THEN PendingChannel(p) ELSE chan[d][r]
  BY <1>t, <1>1, Lookup, SMTT(40)
<1>3. /\ CreateSession(s) /\ thread' = thread /\ thread[c].at = "idle" /\ conn[c].up = "up"
      /\ UNCHANGED <<config, conn>>
  BY SMTT(40) DEF NtlmNegotiate, KerberosContinue, Ready, Idle
<1>4. Local(c, s)
  BY <1>t, <1>2, <1>3, SMTT(40) DEF Local, CreateSession, TypeOK
<1>5. SessionInv(s)'
  BY <1>2, <1>3, <1>4, CreateStep
<1> QED BY <1>3, <1>4, <1>5

LEMMA OneLegSetupStep ==
  ASSUME IInv, Counting, NEW c \in Conns, NEW s \in Sids, NEW who \in {Guest, Principal}, OneLegSetup(c, s, who)
  PROVE  Local(c, s) /\ SessionInv(s)' /\ conn[c].up # "gone"
<1>t. TypeOK
  BY DEF IInv
<1>1. \A d \in Conns : thread'[d] = IF d = c THEN [at |-> "establish", sid |-> s, who |-> who] ELSE thread[d]
  BY <1>t, Lookup, SMTT(40) DEF OneLegSetup
<1>2. /\ CreateSession(s) /\ chan' = chan /\ thread[c].at = "idle" /\ conn[c].up = "up"
      /\ UNCHANGED <<config, conn>> /\ Admitted(c, who)
  BY SMTT(40) DEF OneLegSetup, Ready, Idle
<1>3. Local(c, s) /\ On(c, "establish", s)' /\ Admitted(c, thread'[c].who)
  BY <1>t, <1>1, <1>2, SMTT(40) DEF Local, CreateSession, TypeOK, On
<1>4. SessionInv(s)'
  BY <1>2, <1>3, CreateStep
<1> QED BY <1>2, <1>3, <1>4

-----------------------------------------------------------------------------
(***************************************************************************)
(* The steps of the requests on an established session, the taking of its  *)
(* opens and the steps of the connection itself preserve the invariant.    *)
(***************************************************************************)

\* A handler that only touches the trees and the opens of the session.
LEMMA HandlesStep ==
  ASSUME NEW c \in Conns, NEW s \in Sids, SessionInv(s), Local(c, s), sess[s] # None, sess'[s] # None,
         registry' = registry, chan' = chan, thread[c].at \in {"take", "request"}, thread'[c].at = "idle",
         sess'[s].established = sess[s].established, sess'[s].guest = sess[s].guest,
         sess'[s].user = sess[s].user, sess'[s].channels = sess[s].channels,
         Taken(s)'
  PROVE  SessionInv(s)'
<1>1. /\ Est(c, s)' <=> Est(c, s)
      /\ \A label \in {"establish", "reject", "bind", "drop", "end"} : ~On(c, label, s) /\ ~On(c, label, s)'
      /\ ~On(c, "request", s)'
  BY DEF Est, On
<1>2. Legs(c, s)' /\ (Owner(c, s)' <=> Owner(c, s)) /\ (c \in Counted(s)' <=> c \in Counted(s))
  BY <1>1 DEF SessionInv, Legs, Owner, Counted
<1>3. Fresh(s)' /\ Named(s)'
  BY DEF SessionInv, Fresh, Named
<1>4. \A d \in Conns : Legs(d, s)'
  BY <1>2, LegsKept DEF SessionInv
<1>5. Private(s)'
  BY <1>2, PrivateKept DEF SessionInv
<1>6. Proven(s)'
  BY <1>1, ProvenKept DEF SessionInv
<1>7. Count(s)'
  <2>1. Counted(s)' = Counted(s)
    BY <1>2, CountedStep
  <2> QED BY <2>1 DEF SessionInv, Count
<1>8. Alive(s)'
  BY <1>1, OtherEst, OtherOn, SMTT(40) DEF SessionInv, Alive
<1> QED BY <1>3, <1>4, <1>5, <1>6, <1>7, <1>8 DEF SessionInv

LEMMA TakeAllStep ==
  ASSUME IInv, NEW c \in Conns, NEW s \in Sids, Busy(c, s), TakeAll(c)
  PROVE  Local(c, s) /\ SessionInv(s)' /\ conn[c].up # "gone"
<1>t. TypeOK /\ SessionInv(s)
  BY DEF IInv
<1>1. thread[c].at = "take" /\ conn[c].up # "gone" /\ sess[s] # None
  <2>1. thread[c].at = "take" /\ Busy(c, s)
    BY DEF TakeAll, Busy
  <2> QED BY <1>t, <2>1 DEF IInv, ThreadInv, SessionInv, Fresh
<1>2. sess[s] \in SessionInner
  BY <1>t, <1>1 DEF TypeOK
<1>3. Local(c, s) /\ registry' = registry /\ chan' = chan /\ thread'[c].at = "idle"
  <2>1. \A d \in Conns : thread'[d] = IF d = c THEN Idle ELSE thread[d]
    BY <1>t, Lookup, SMTT(40) DEF TakeAll, Busy
  <2>2. \A r \in Sids : r # s => sess'[r] = sess[r]
    BY <1>t DEF TakeAll, TypeOK, Busy
  <2>3. UNCHANGED <<config, registry, chan, conn>>
    BY DEF TakeAll, Busy
  <2> QED BY <2>1, <2>2, <2>3, SMTT(40) DEF Local, Busy, Idle
<1>4. sess'[s] = [sess[s] EXCEPT !.trees = {}, !.opens = [t \in Trees |-> 0]]
  BY <1>t DEF TakeAll, TypeOK, Busy
<1>5. sess'[s] \in SessionInner
  <2>1. [sess[s] EXCEPT !.trees = {}, !.opens = [t \in Trees |-> 0]] \in SessionInner
    BY <1>2 DEF SessionInner
  <2> QED BY <1>4, <2>1
<1>6. /\ sess'[s].established = sess[s].established /\ sess'[s].guest = sess[s].guest
      /\ sess'[s].user = sess[s].user /\ sess'[s].channels = sess[s].channels
      /\ sess'[s].next_tree_id = sess[s].next_tree_id
  BY <1>2, <1>4 DEF SessionInner
<1>7. sess'[s].trees = {} /\ \A t \in Trees : sess'[s].opens[t] = 0
  BY <1>2, <1>4, SMTT(40) DEF SessionInner
<1>8. sess'[s] # None
  BY <1>5, SessionConstants
<1>9. Taken(s)'
  <2>1. c \notin Waiting(s) /\ c \notin Waiting(s)'
    BY <1>1, <1>3 DEF Waiting, On
  <2>2. Waiting(s)' = Waiting(s)
    BY <1>3, <2>1, WaitingStep
  <2>3. s \notin registry => sess[s].channels >= Cardinality(Waiting(s))
    BY <1>t, <1>1 DEF SessionInv, Taken, Spare
  <2> QED BY <1>3, <1>6, <1>7, <2>2, <2>3 DEF Taken, Spare
<1>10. SessionInv(s)'
  BY <1>t, <1>1, <1>3, <1>6, <1>8, <1>9, HandlesStep
<1> QED BY <1>1, <1>3, <1>10

\* What the requests leave alone, and what they do to the trees and the opens.
LEMMA RequestFields ==
  ASSUME NEW s \in Sids, sess[s] \in SessionInner, NEW t \in Trees, NEW y,
         y \in {TreeConnected(s), TreeDisconnected(s, t), Opened(s, t), Closed(s, t)}
  PROVE  /\ y.established = sess[s].established /\ y.guest = sess[s].guest
         /\ y.user = sess[s].user /\ y.channels = sess[s].channels
<1>1. CASE y = TreeConnected(s)
  BY <1>1 DEF TreeConnected, SessionInner
<1>2. CASE y = TreeDisconnected(s, t)
  BY <1>2 DEF TreeDisconnected, SessionInner
<1>3. CASE y = Opened(s, t)
  BY <1>3 DEF Opened, SessionInner
<1>4. CASE y = Closed(s, t)
  BY <1>4 DEF Closed, SessionInner
<1> QED BY <1>1, <1>2, <1>3, <1>4

LEMMA RequestTrees ==
  ASSUME NEW s \in Sids, sess[s] \in SessionInner, NEW t \in Trees
  PROVE  /\ TreeConnected(s).opens = sess[s].opens
         /\ \A u \in Trees : TreeDisconnected(s, t).opens[u] # 0 => sess[s].opens[u] # 0
         /\ \A u \in Trees : Closed(s, t).opens[u] # 0 => sess[s].opens[u] # 0
         /\ TreeDisconnected(s, t).trees \subseteq sess[s].trees
         /\ Opened(s, t).trees = sess[s].trees /\ Closed(s, t).trees = sess[s].trees
<1>1. TreeConnected(s).opens = sess[s].opens
  BY DEF TreeConnected, SessionInner
<1>2. \A u \in Trees : TreeDisconnected(s, t).opens[u] # 0 => sess[s].opens[u] # 0
  BY SMTT(40) DEF TreeDisconnected, SessionInner
<1>3. \A u \in Trees : Closed(s, t).opens[u] # 0 => sess[s].opens[u] # 0
  BY SMTT(40) DEF Closed, SessionInner
<1>4. TreeDisconnected(s, t).trees \subseteq sess[s].trees
  BY DEF TreeDisconnected, SessionInner
<1>5. Opened(s, t).trees = sess[s].trees
  BY DEF Opened, SessionInner
<1>6. Closed(s, t).trees = sess[s].trees
  BY DEF Closed, SessionInner
<1> QED BY <1>1, <1>2, <1>3, <1>4, <1>5, <1>6

LEMMA RunRequestStep ==
  ASSUME IInv, Counting, NEW c \in Conns, NEW s \in Sids, Busy(c, s), RunRequest(c)
  PROVE  Local(c, s) /\ SessionInv(s)' /\ conn[c].up # "gone"
<1> DEFINE op == thread[c].op  t == thread[c].tree
<1>t. TypeOK /\ SessionInv(s)
  BY DEF IInv
<1>1. /\ thread[c].at = "request" /\ conn[c].up # "gone" /\ sess[s] # None /\ On(c, "request", s)
      /\ op \in Ops /\ t \in Trees
  <2>1. thread[c].at = "request" /\ Busy(c, s) /\ On(c, "request", s)
    BY DEF RunRequest, Busy, On
  <2> QED BY <1>t, <2>1, ThreadFields DEF IInv, ThreadInv, SessionInv, Fresh, TypeOK
<1>2. sess[s] \in SessionInner
  BY <1>t, <1>1 DEF TypeOK
<1>3. sess[s].established
  BY <1>t, <1>1 DEF SessionInv, Legs
<1>4. Local(c, s) /\ registry' = registry /\ chan' = chan /\ thread'[c].at = "idle"
  <2>1. \A d \in Conns : thread'[d] = IF d = c THEN Idle ELSE thread[d]
    BY <1>t, Lookup, SMTT(40) DEF RunRequest, Busy
  <2>2. \A r \in Sids : r # s => sess'[r] = sess[r]
    BY <1>t DEF RunRequest, TypeOK, Busy
  <2>3. UNCHANGED <<config, registry, chan, conn>>
    BY DEF RunRequest, Busy
  <2> QED BY <2>1, <2>2, <2>3, SMTT(40) DEF Local, Busy, Idle
<1>5. \/ op = "tree_connect" /\ sess'[s] = TreeConnected(s)
      \/ sess'[s] = sess[s]
      \/ op # "tree_connect" /\ t \in sess[s].trees
           /\ sess'[s] \in {TreeDisconnected(s, t), Opened(s, t), Closed(s, t)}
  BY <1>t, <1>1 DEF RunRequest, TypeOK, Ops, Busy
<1> HIDE DEF op, t
<1>6. /\ sess'[s].established = sess[s].established /\ sess'[s].guest = sess[s].guest
      /\ sess'[s].user = sess[s].user /\ sess'[s].channels = sess[s].channels
  BY <1>1, <1>2, <1>5, RequestFields, SMTT(40)
<1>7. sess'[s] # None
  BY <1>1, <1>2, <1>5, RequestTypes, SessionConstants
<1>8. Cardinality(Waiting(s)') = Cardinality(Waiting(s)) - 1 /\ Cardinality(Waiting(s)) \in Nat
  <2>1. c \in Waiting(s) /\ c \notin Waiting(s)'
    BY <1>1, <1>4 DEF Waiting, On
  <2>2. Waiting(s)' = Waiting(s) \ {c}
    BY <1>4, <2>1, WaitingStep
  <2> QED BY <2>1, <2>2, WaitingConns DEF Counting
<1>9. (\E u \in Trees : sess'[s].opens[u] # 0) => (\E u \in Trees : sess[s].opens[u] # 0) \/ sess[s].trees # {}
  BY <1>1, <1>2, <1>5, RequestTrees
<1>10. Taken(s)'
  <2>1. Dead(s)' <=> Dead(s)
    BY <1>1, <1>4, <1>7, OtherOn, SMTT(40) DEF Dead, On
  <2>2. Spare(s) /\ sess[s].channels \in Nat
    BY <1>t, <1>2 DEF SessionInv, Taken, SessionInner
  <2>3. Spare(s)'
    BY <1>1, <1>4, <1>6, <1>8, <1>9, <2>1, <2>2, SMTT(40) DEF Spare
  <2> QED BY <1>3, <1>6, <2>3 DEF Taken
<1>11. SessionInv(s)'
  BY <1>t, <1>1, <1>4, <1>6, <1>7, <1>10, HandlesStep
<1> QED BY <1>1, <1>4, <1>11
\* The connection itself.
LEMMA ConnStep ==
  ASSUME IInv, NEW c \in Conns, thread[c].at = "idle" \/ conn[c].up = "gone", TypeOK',
         UNCHANGED <<config, registry, sess, chan, thread>>,
         \A d \in Conns : d # c => conn'[d] = conn[d]
  PROVE  IInv'
<1>1. thread[c].at = "idle"
  BY DEF IInv, ThreadInv
<1>2. ThreadInv'
  BY <1>1 DEF IInv, ThreadInv
<1>3. ASSUME NEW s \in Sids PROVE SessionInv(s)'
  <2>1. \A d \in Conns : Busy(d, s) \/ Busy(d, s)' => thread'[d] = thread[d] /\ conn'[d] = conn[d]
    BY <1>1 DEF Busy
  <2>2. SessionInv(s)
    BY DEF IInv
  <2> QED BY <2>1, <2>2, Frame
<1> QED BY <1>2, <1>3 DEF IInv

-----------------------------------------------------------------------------
(***************************************************************************)
(* The steps that join channels to a session, establish it and take its    *)
(* channels away preserve the invariant.                                   *)
(***************************************************************************)

\* What the updates of a SessionInner leave alone.
WithChannels(x, n) == [x EXCEPT !.channels = n]

LEMMA SetChannels ==
  ASSUME NEW x \in SessionInner, NEW n
  PROVE  /\ WithChannels(x, n).channels = n
         /\ WithChannels(x, n).established = x.established /\ WithChannels(x, n).guest = x.guest
         /\ WithChannels(x, n).user = x.user /\ WithChannels(x, n).trees = x.trees
         /\ WithChannels(x, n).opens = x.opens /\ WithChannels(x, n).next_tree_id = x.next_tree_id
BY DEF SessionInner, WithChannels

WithUser(x, g, u) == [x EXCEPT !.established = TRUE, !.channels = 1, !.guest = g, !.user = u]

LEMMA SetEstablished ==
  ASSUME NEW x \in SessionInner, NEW g \in BOOLEAN, NEW u \in Idents \cup {None}
  PROVE  WithUser(x, g, u) \in SessionInner
BY DEF SessionInner, WithUser

LEMMA EstablishedFields ==
  ASSUME TypeOK, NEW c \in Conns, NEW who \in Idents
  PROVE  /\ EstablishedChannel(c, who) \in Channels /\ EstablishedChannel(c, who) # None
         /\ EstablishedChannel(c, who).pending = "none" /\ EstablishedChannel(c, who).established = TRUE
         /\ EstablishedChannel(c, who).who = who
         /\ config.encrypt /\ conn[c].cipher /\ who # Guest => EstablishedChannel(c, who).encrypt
<1>1. EstablishedChannel(c, who) \in Channels
  BY DEF EstablishedChannel, Channels, TypeOK
<1>2. EstablishedChannel(c, who) # None
  BY <1>1, SessionConstants
<1>3. /\ EstablishedChannel(c, who).pending = "none" /\ EstablishedChannel(c, who).established = TRUE
      /\ EstablishedChannel(c, who).who = who
  BY DEF EstablishedChannel
<1>4. config.encrypt /\ conn[c].cipher /\ who # Guest => EstablishedChannel(c, who).encrypt
  BY DEF EstablishedChannel
<1> QED BY <1>1, <1>2, <1>3, <1>4

LEMMA BindStep ==
  ASSUME IInv, Counting, NEW c \in Conns, NEW s \in Sids, Busy(c, s), Bind(c)
  PROVE  Local(c, s) /\ SessionInv(s)' /\ conn[c].up # "gone"
<1> DEFINE who == thread[c].who
<1>t. TypeOK /\ SessionInv(s)
  BY DEF IInv
<1>1. /\ thread[c].at = "bind" /\ conn[c].up # "gone" /\ sess[s] \in SessionInner
      /\ sess[s] # None /\ sess[s].established /\ ~Est(c, s)
  <2>1. thread[c].at = "bind" /\ Busy(c, s) /\ On(c, "bind", s)
    BY DEF Bind, Busy, On
  <2> QED BY <1>t, <2>1 DEF IInv, ThreadInv, SessionInv, Fresh, Legs, TypeOK
<1>2. \A d \in Conns : thread'[d] = IF d = c THEN Idle ELSE thread[d]
  BY <1>t, Lookup, SMTT(40) DEF Bind, Busy
<1>3. Local(c, s) /\ registry' = registry /\ thread'[c].at = "idle"
  <2>1. \A d \in Conns, r \in Sids : d # c \/ r # s => chan'[d][r] = chan[d][r]
    BY <1>t, Lookup, SMTT(40) DEF Bind, Busy
  <2> QED BY <1>t, <1>1, <1>2, <2>1, SMTT(40) DEF Local, Bind, Idle, TypeOK, Busy
<1>4. CASE ~BindProof(c, s, who)
  <2>1. chan'[c][s] = None /\ sess'[s] = sess[s]
    BY <1>t, <1>4, Lookup, SMTT(40) DEF Bind, Busy
  <2>2. /\ ~Est(c, s)' /\ Legs(c, s)'
        /\ \A label \in {"establish", "reject", "drop", "take", "end", "request"} : ~On(c, label, s) /\ ~On(c, label, s)'
    BY <1>1, <1>3, <2>1 DEF Est, Legs, On
  <2>3. (c \in Counted(s)' <=> c \in Counted(s)) /\ (c \in Waiting(s)' <=> c \in Waiting(s))
    BY <1>1, <2>2 DEF Counted, Waiting
  <2>4. SessionInv(s)'
    BY <1>t, <1>1, <1>3, <2>1, <2>2, <2>3, SameSession
  <2> QED BY <1>1, <1>3, <2>4
<1>5. CASE BindProof(c, s, who)
  <2>1. chan'[c][s] = EstablishedChannel(c, who) /\ sess'[s] = [sess[s] EXCEPT !.channels = @ + 1]
    BY <1>t, <1>5, Lookup, SMTT(40) DEF Bind, TypeOK, Busy
  <2>2. /\ sess'[s] \in SessionInner /\ sess'[s].channels = sess[s].channels + 1
        /\ sess'[s].established = sess[s].established /\ sess'[s].guest = sess[s].guest
        /\ sess'[s].user = sess[s].user
        /\ sess'[s].trees = sess[s].trees /\ sess'[s].opens = sess[s].opens
        /\ sess'[s].next_tree_id = sess[s].next_tree_id
    <3>2. sess'[s] = WithChannels(sess[s], sess[s].channels + 1)
      BY <2>1 DEF WithChannels
    <3>3. WithChannels(sess[s], sess[s].channels + 1) \in SessionInner
      BY <1>1, SMTT(40) DEF WithChannels, SessionInner
    <3>4. sess[s] \in SessionInner
      BY <1>1
    <3> QED BY <3>2, <3>3, <3>4, SetChannels, SMTT(40)
  <2>3. sess'[s] # None
    BY <2>2, SessionConstants
  <2>4. /\ \A label \in {"establish", "reject", "drop", "take", "end", "request"} : ~On(c, label, s) /\ ~On(c, label, s)'
        /\ ~On(c, "bind", s)'
    BY <1>1, <1>3 DEF On
  <2>5. ~sess[s].guest /\ who = sess[s].user /\ who \in Users \cup {Principal} /\ who # Guest
          /\ (config.encrypt => conn[c].cipher)
    BY <1>t, <1>1, <1>5, SessionConstants DEF BindProof, SessionInv, Named
  <2>6. who \in Idents
    BY <2>5 DEF Idents
  <2>7. chan'[c][s] # None /\ chan'[c][s].established = TRUE /\ chan'[c][s].pending = "none"
          /\ chan'[c][s].who = sess[s].user /\ (config.encrypt => chan'[c][s].encrypt)
    <3>1. /\ EstablishedChannel(c, who) # None /\ EstablishedChannel(c, who).established = TRUE
          /\ EstablishedChannel(c, who).pending = "none" /\ EstablishedChannel(c, who).who = who
          /\ config.encrypt => EstablishedChannel(c, who).encrypt
      BY <1>t, <2>5, <2>6, EstablishedFields
    <3> QED BY <2>1, <2>5, <3>1
  <2>8. Est(c, s)'
    BY <2>7 DEF Est
  <2>9. Fresh(s)' /\ Named(s)' /\ Private(s)'
    BY <1>t, <1>1, <2>2, <2>3 DEF Fresh, Named, Private, SessionInv
  <2>10. \A d \in Conns : Legs(d, s)'
    <3>1. Legs(c, s)'
      BY <2>4, <2>7 DEF Legs
    <3> QED BY <1>t, <1>3, <2>2, <3>1, LegsKept DEF SessionInv
  <2>11. Proven(s)'
    <3>1. \A d \in Conns : Est(d, s)' => chan'[d][s].who = sess[s].user /\ (config.encrypt => chan'[d][s].encrypt)
      BY <1>t, <1>3, <2>5, <2>7, OtherEst, SMTT(40) DEF SessionInv, Proven
    <3> QED BY <1>1, <1>3, <2>2, <2>5, <3>1 DEF Proven, Local
  <2>12. Taken(s)'
    <3>1. Dead(s)' <=> Dead(s)
      BY <1>1, <1>3, <2>3, <2>4, OtherOn DEF Dead
    <3>2. c \notin Waiting(s) /\ c \notin Waiting(s)'
      BY <2>4 DEF Waiting
    <3>3. Waiting(s)' = Waiting(s)
      BY <1>3, <3>2, WaitingStep
    <3>4. sess[s].channels \in Nat /\ Cardinality(Waiting(s)) \in Nat /\ Spare(s)
      BY <1>t, <1>1, WaitingConns DEF SessionInner, Counting, SessionInv, Taken
    <3>5. Spare(s)'
      BY <1>1, <1>3, <2>2, <3>1, <3>3, <3>4, SMTT(40) DEF Spare
    <3> QED BY <1>t, <1>1, <2>2, <3>5 DEF SessionInv, Taken
  <2>13. Count(s)'
    <3>1. c \notin Counted(s) /\ c \in Counted(s)'
      BY <1>1, <2>4, <2>8 DEF Counted
    <3>2. Counted(s)' = Counted(s) \cup {c}
      BY <1>3, <3>1, CountedStep
    <3>3. Cardinality(Counted(s)') = Cardinality(Counted(s)) + 1
      BY <3>1, <3>2, CountedConns DEF Counting
    <3> QED BY <1>t, <1>3, <2>2, <3>3 DEF SessionInv, Count
  <2>14. Alive(s)'
    BY <1>1, <2>2, SMTT(40) DEF Alive, SessionInner
  <2> QED BY <1>1, <1>3, <2>9, <2>10, <2>11, <2>12, <2>13, <2>14 DEF SessionInv
<1> QED BY <1>4, <1>5

LEMMA EstablishStep ==
  ASSUME IInv, Counting, NEW c \in Conns, NEW s \in Sids, Busy(c, s), Establish(c)
  PROVE  Local(c, s) /\ SessionInv(s)' /\ conn[c].up # "gone"
<1> DEFINE who == thread[c].who
<1>t. TypeOK /\ SessionInv(s)
  BY DEF IInv
<1>1. /\ thread[c].at = "establish" /\ conn[c].up # "gone" /\ sess[s] \in SessionInner
      /\ sess[s] # None /\ ~sess[s].established /\ Admitted(c, who) /\ On(c, "establish", s) /\ Owner(c, s)
  <2>1. thread[c].at = "establish" /\ Busy(c, s) /\ On(c, "establish", s)
    BY DEF Establish, Busy, On
  <2> QED BY <1>t, <2>1 DEF IInv, ThreadInv, SessionInv, Fresh, Legs, TypeOK, Owner
<1>2. who \in Idents
  BY <1>t, <1>1, ThreadFields DEF TypeOK
<1>3. \A d \in Conns : thread'[d] = IF d = c THEN Idle ELSE thread[d]
  BY <1>t, Lookup, SMTT(40) DEF Establish, Busy
<1>4. \A d \in Conns, r \in Sids : chan'[d][r] = IF d = c /\ r = s THEN EstablishedChannel(c, who) ELSE chan[d][r]
  BY <1>t, Lookup, SMTT(40) DEF Establish, Busy
<1>5. Local(c, s) /\ registry' = registry /\ thread'[c].at = "idle"
  BY <1>t, <1>1, <1>3, <1>4, SMTT(40) DEF Local, Establish, Idle, TypeOK, Busy
<1>6. sess'[s] = [sess[s] EXCEPT !.established = TRUE, !.channels = 1, !.guest = (who = Guest),
                                 !.user = IF who = Guest THEN @ ELSE who]
  BY <1>t DEF Establish, TypeOK, Busy
<1>7. /\ sess'[s] \in SessionInner /\ sess'[s].channels = 1 /\ sess'[s].established = TRUE
      /\ sess'[s].guest = (who = Guest)
      /\ who # Guest => sess'[s].user = who
      /\ sess'[s].trees = sess[s].trees /\ sess'[s].opens = sess[s].opens
      /\ sess'[s].next_tree_id = sess[s].next_tree_id
  <2>1. (IF who = Guest THEN sess[s].user ELSE who) \in Idents \cup {None}
    BY <1>1, <1>2 DEF SessionInner
  <2>2. PICK g \in BOOLEAN, u \in Idents \cup {None} : g = (who = Guest) /\ u = IF who = Guest THEN sess[s].user ELSE who
    BY <2>1
  <2>3. sess'[s] = WithUser(sess[s], g, u)
    BY <1>6, <2>2 DEF WithUser
  <2>4. sess[s] \in SessionInner
    BY <1>1
  <2>5. sess'[s] \in SessionInner
    BY <2>3, <2>4, SetEstablished
  <2> HIDE DEF who
  <2>6. /\ sess'[s].channels = 1 /\ sess'[s].trees = sess[s].trees /\ sess'[s].opens = sess[s].opens
        /\ sess'[s].next_tree_id = sess[s].next_tree_id
    BY <1>6, <2>4 DEF SessionInner
  <2>7. sess'[s].established = TRUE /\ sess'[s].guest = (who = Guest) /\ (who # Guest => sess'[s].user = who)
    BY <1>6, <2>4 DEF SessionInner
  <2> QED BY <2>5, <2>6, <2>7
<1>8. sess'[s] # None
  BY <1>7, SessionConstants
<1>9. chan'[c][s] # None /\ chan'[c][s].established = TRUE /\ chan'[c][s].pending = "none"
        /\ chan'[c][s].who = who /\ (config.encrypt => chan'[c][s].encrypt)
  <2>1. /\ EstablishedChannel(c, who) # None /\ EstablishedChannel(c, who).established = TRUE
        /\ EstablishedChannel(c, who).pending = "none" /\ EstablishedChannel(c, who).who = who
        /\ config.encrypt => EstablishedChannel(c, who).encrypt
    BY <1>t, <1>1, <1>2, EstablishedFields DEF Admitted
  <2> QED BY <1>4, <2>1
<1>10. Est(c, s)' /\ \A label \in {"establish", "reject", "bind", "drop", "take", "end", "request"} : ~On(c, label, s)'
  BY <1>5, <1>9 DEF Est, On
<1>11. \A d \in Conns : d # c =>
         ~Owner(d, s) /\ chan[d][s] = None /\ ~Est(d, s) /\ ~On(d, "bind", s) /\ ~(On(d, "drop", s) /\ thread[d].est)
  BY <1>t, <1>1 DEF SessionInv, Private, Owner, Est, Legs
<1>12. \A d \in Conns : ~On(d, "request", s)
  BY <1>t, <1>1 DEF SessionInv, Legs
<1>13. Fresh(s)' /\ Named(s)' /\ Private(s)'
  BY <1>2, <1>7, <1>8 DEF Fresh, Named, Private, Idents
<1>14. \A d \in Conns : Legs(d, s)'
  <2>1. Legs(c, s)'
    BY <1>9, <1>10 DEF Legs
  <2>2. ASSUME NEW d \in Conns, d # c PROVE Legs(d, s)'
    BY <1>5, <1>7, <1>11, <1>12, <2>2, OtherEst, OtherOn DEF Legs, Owner
  <2> QED BY <2>1, <2>2
<1>15. Proven(s)'
  <2>1. \A d \in Conns : Est(d, s)' => d = c
    BY <1>5, <1>11, OtherEst
  <2>2. config' = config
    BY <1>5 DEF Local
  <2> QED BY <1>7, <1>9, <2>1, <2>2 DEF Proven
<1>16. Taken(s)'
  <2>1. sess'[s].trees = {} /\ \A u \in Trees : sess'[s].opens[u] = 0
    BY <1>t, <1>1, <1>7 DEF SessionInv, Taken
  <2>2. Waiting(s) = {} /\ c \notin Waiting(s)'
    BY <1>t, <1>1, <1>10, NobodyWaits DEF Waiting
  <2>3. Waiting(s)' = {}
    BY <1>5, <2>2, WaitingStep
  <2>4. Cardinality(Waiting(s)') = 0
    BY <2>3 DEF Counting
  <2> QED BY <1>7, <2>1, <2>4, SMTT(40) DEF Taken, Spare
<1>17. Count(s)'
  <2>1. Counted(s)' = {c}
    BY <1>5, <1>10, <1>11, OtherEst, OtherOn DEF Counted
  <2>2. Cardinality({c}) = 1
    BY DEF Counting
  <2> QED BY <1>7, <2>1, <2>2 DEF Count
<1>18. Alive(s)'
  BY <1>7, SMTT(40) DEF Alive
<1> QED BY <1>1, <1>5, <1>13, <1>14, <1>15, <1>16, <1>17, <1>18 DEF SessionInv

LEMMA RejectStep ==
  ASSUME IInv, Counting, NEW c \in Conns, NEW s \in Sids, Busy(c, s), Reject(c)
  PROVE  Local(c, s) /\ SessionInv(s)' /\ conn[c].up # "gone"
<1>t. TypeOK /\ SessionInv(s)
  BY DEF IInv
<1>1. thread[c].at = "reject" /\ conn[c].up # "gone" /\ sess[s] # None /\ ~sess[s].established
  <2>1. thread[c].at = "reject" /\ Busy(c, s) /\ On(c, "reject", s)
    BY DEF Reject, Busy, On
  <2> QED BY <1>t, <2>1 DEF IInv, ThreadInv, SessionInv, Fresh, Legs
<1>2. /\ Local(c, s) /\ s \notin registry' /\ thread'[c].at = "idle" /\ chan'[c][s] = None /\ sess' = sess
  <2>1. \A d \in Conns : thread'[d] = IF d = c THEN Idle ELSE thread[d]
    BY <1>t, Lookup, SMTT(40) DEF Reject, Busy
  <2>2. \A d \in Conns, r \in Sids : chan'[d][r] = IF d = c /\ r = s THEN None ELSE chan[d][r]
    BY <1>t, Lookup, SMTT(40) DEF Reject, Busy
  <2> QED BY <2>1, <2>2, SMTT(40) DEF Local, Reject, Idle, Busy
<1>3. /\ ~Est(c, s)' /\ ~Owner(c, s)' /\ Legs(c, s)'
      /\ \A label \in {"take", "request"} : ~On(c, label, s)'
  BY <1>2 DEF Est, Owner, On, Legs
<1>4. Fresh(s)' /\ Named(s)'
  BY <1>t, <1>1, <1>2 DEF SessionInv, Fresh, Named
<1>5. \A d \in Conns : Legs(d, s)'
  BY <1>t, <1>2, <1>3, LegsKept DEF SessionInv
<1>6. Private(s)'
  BY <1>t, <1>1, <1>2, <1>3, PrivateKept DEF SessionInv
<1>7. Proven(s)'
  BY <1>t, <1>1, <1>2, <1>3, ProvenKept DEF SessionInv
<1>8. Taken(s)'
  <2>1. sess[s].trees = {} /\ (\A u \in Trees : sess[s].opens[u] = 0) /\ sess[s].channels \in Nat
    BY <1>t, <1>1 DEF SessionInv, Taken, TypeOK, SessionInner
  <2>2. Waiting(s) = {} /\ c \notin Waiting(s)'
    BY <1>t, <1>1, <1>2, NobodyWaits DEF Waiting, On
  <2>3. Waiting(s)' = {}
    BY <1>2, <2>2, WaitingStep
  <2>4. Cardinality(Waiting(s)') = 0
    BY <2>3 DEF Counting
  <2> QED BY <1>2, <2>1, <2>4, SMTT(40) DEF Taken, Spare
<1>9. Count(s)' /\ Alive(s)'
  BY <1>2 DEF Count, Alive
<1> QED BY <1>1, <1>2, <1>4, <1>5, <1>6, <1>7, <1>8, <1>9 DEF SessionInv

LEMMA EndSessionStep ==
  ASSUME IInv, Counting, NEW c \in Conns, NEW s \in Sids, Busy(c, s), EndSession(c)
  PROVE  Local(c, s) /\ SessionInv(s)' /\ conn[c].up # "gone"
<1>t. TypeOK /\ SessionInv(s)
  BY DEF IInv
<1>1. thread[c].at = "end" /\ conn[c].up # "gone" /\ sess[s] # None
  <2>1. thread[c].at = "end" /\ Busy(c, s)
    BY DEF EndSession, Busy
  <2> QED BY <1>t, <2>1 DEF IInv, ThreadInv, SessionInv, Fresh
<1>2. /\ Local(c, s) /\ s \notin registry' /\ chan' = chan /\ sess' = sess
      /\ IF s \in registry THEN On(c, "take", s)' ELSE thread'[c].at = "idle"
      /\ thread'[c].at \in {"take", "idle"}
  <2>1. \A d \in Conns : thread'[d] = IF d # c THEN thread[d] ELSE IF s \in registry THEN At("take", s) ELSE Idle
    BY <1>t, Lookup, SMTT(40) DEF EndSession, Busy
  <2> QED BY <2>1, SMTT(40) DEF Local, EndSession, Idle, At, On, Busy
<1>3. /\ Est(c, s)' <=> Est(c, s)
      /\ \A label \in {"establish", "reject", "bind", "drop", "request"} : ~On(c, label, s) /\ ~On(c, label, s)'
      /\ ~On(c, "take", s)
  BY <1>1, <1>2 DEF Est, On
<1>4. Legs(c, s)' /\ (Owner(c, s)' <=> Owner(c, s))
  BY <1>t, <1>2, <1>3 DEF SessionInv, Owner, Legs
<1>5. Fresh(s)' /\ Named(s)'
  BY <1>t, <1>1, <1>2 DEF SessionInv, Fresh, Named
<1>6. \A d \in Conns : Legs(d, s)'
  BY <1>t, <1>2, <1>4, LegsKept DEF SessionInv
<1>7. Private(s)'
  BY <1>t, <1>1, <1>2, <1>4, PrivateKept DEF SessionInv
<1>8. Proven(s)'
  BY <1>t, <1>1, <1>2, <1>3, ProvenKept DEF SessionInv
<1>9. Taken(s)'
  <2>1. c \notin Waiting(s) /\ c \notin Waiting(s)'
    BY <1>3 DEF Waiting
  <2>2. Waiting(s)' = Waiting(s)
    BY <1>2, <2>1, WaitingStep
  <2>3. CASE s \in registry
    <3>1. Waiting(s) \subseteq Counted(s)
      BY <1>t DEF SessionInv, Legs, Waiting, Counted
    <3>2. Cardinality(Waiting(s)) <= Cardinality(Counted(s))
      BY <3>1, WaitingConns, CountedConns DEF Counting
    <3>3. Cardinality(Waiting(s)) \in Nat /\ Cardinality(Counted(s)) \in Nat
      BY WaitingConns, CountedConns DEF Counting
    <3>4. sess[s].channels = Cardinality(Counted(s))
      BY <1>t, <2>3 DEF SessionInv, Count
    <3>5. sess[s].channels >= Cardinality(Waiting(s))
      BY <3>2, <3>3, <3>4, SMTT(40)
    <3>6. ~Dead(s)'
      BY <1>2, <2>3 DEF Dead
    <3> QED BY <1>t, <1>2, <2>2, <3>5, <3>6 DEF SessionInv, Taken, Spare
  <2>4. CASE s \notin registry
    <3>1. Dead(s)' => Dead(s)
      BY <1>1, <1>2, <1>3, <2>4, OtherOn DEF Dead
    <3> QED BY <1>t, <1>2, <2>2, <2>4, <3>1 DEF SessionInv, Taken, Spare
  <2> QED BY <2>3, <2>4
<1>10. Count(s)' /\ Alive(s)'
  BY <1>2 DEF Count, Alive
<1> QED BY <1>1, <1>2, <1>5, <1>6, <1>7, <1>8, <1>9, <1>10 DEF SessionInv

LEMMA DropChannelStep ==
  ASSUME IInv, Counting, NEW c \in Conns, NEW s \in Sids, Busy(c, s), DropChannel(c)
  PROVE  Local(c, s) /\ SessionInv(s)' /\ conn[c].up # "gone"
<1> DEFINE est == thread[c].est  left == Remaining(s, est)
<1>t. TypeOK /\ SessionInv(s)
  BY DEF IInv
<1>1. /\ thread[c].at = "drop" /\ On(c, "drop", s) /\ conn[c].up # "gone" /\ sess[s] # None /\ sess[s] \in SessionInner
      /\ chan[c][s] = None /\ est \in BOOLEAN
  <2>1. thread[c].at = "drop" /\ Busy(c, s) /\ On(c, "drop", s)
    BY DEF DropChannel, Busy, On
  <2>2. est \in BOOLEAN
    BY <1>t, <2>1, ThreadFields DEF TypeOK
  <2> QED BY <1>t, <2>1, <2>2 DEF IInv, ThreadInv, SessionInv, Fresh, Legs, TypeOK
<1>2. est => sess[s].established
  BY <1>t, <1>1 DEF SessionInv, Legs
<1>3. sess[s].channels \in Nat
  BY <1>1 DEF SessionInner
<1>4. left \in Nat /\ (est /\ sess[s].channels > 0 => left = sess[s].channels - 1) /\ (~est => left = sess[s].channels)
  BY <1>3, SMTT(40) DEF Remaining
<1>5. /\ Local(c, s) /\ registry' = registry /\ chan' = chan
      /\ IF (IF est THEN left = 0 ELSE ~sess[s].established) THEN On(c, "end", s)' ELSE thread'[c].at = "idle"
      /\ thread'[c].at \in {"end", "idle"}
  <2>1. \A d \in Conns : thread'[d] = IF d # c THEN thread[d]
          ELSE IF (IF est THEN left = 0 ELSE ~sess[s].established) THEN At("end", s) ELSE Idle
    BY <1>t, Lookup, SMTT(40) DEF DropChannel, Busy
  <2>2. \A r \in Sids : r # s => sess'[r] = sess[r]
    BY <1>t DEF DropChannel, TypeOK, Busy
  <2>3. UNCHANGED <<config, registry, chan, conn>>
    BY DEF DropChannel, Busy
  <2> HIDE DEF est, left
  <2> QED BY <2>1, <2>2, <2>3, SMTT(40) DEF Local, Busy, Idle, At, On
<1>6. /\ sess'[s] \in SessionInner /\ sess'[s].channels = left
      /\ sess'[s].established = sess[s].established /\ sess'[s].guest = sess[s].guest
      /\ sess'[s].user = sess[s].user
      /\ sess'[s].trees = sess[s].trees /\ sess'[s].opens = sess[s].opens
      /\ sess'[s].next_tree_id = sess[s].next_tree_id
  <2>1. sess'[s] = WithChannels(sess[s], left)
    BY <1>t DEF DropChannel, TypeOK, WithChannels, Busy
  <2>2. sess[s] \in SessionInner
    BY <1>1
  <2> HIDE DEF left
  <2>3. WithChannels(sess[s], left) \in SessionInner
    BY <1>4, <2>2 DEF WithChannels, SessionInner
  <2> QED BY <2>1, <2>2, <2>3, SetChannels, SMTT(40)
<1>7. sess'[s] # None
  BY <1>6, SessionConstants
<1> HIDE DEF est, left
<1>8. /\ \A label \in {"establish", "reject", "bind", "take", "request"} : ~On(c, label, s) /\ ~On(c, label, s)'
      /\ ~On(c, "drop", s)' /\ ~On(c, "end", s) /\ ~Est(c, s) /\ ~Est(c, s)' /\ chan'[c][s] = None
  BY <1>1, <1>5 DEF Est, On
<1>9. Legs(c, s)' /\ ~Owner(c, s)'
  BY <1>8 DEF Legs, Owner
<1>10. Fresh(s)' /\ Named(s)'
  BY <1>t, <1>1, <1>6, <1>7 DEF SessionInv, Fresh, Named
<1>11. \A d \in Conns : Legs(d, s)'
  BY <1>t, <1>5, <1>6, <1>9, LegsKept DEF SessionInv
<1>12. Private(s)'
  BY <1>t, <1>1, <1>5, <1>6, <1>9, PrivateKept DEF SessionInv
<1>13. Proven(s)'
  BY <1>t, <1>5, <1>6, <1>8, ProvenKept DEF SessionInv
<1>14. Taken(s)'
  <2>1. Dead(s)' <=> Dead(s)
    BY <1>1, <1>5, <1>7, <1>8, OtherOn DEF Dead
  <2>2. c \notin Waiting(s)' /\ (c \in Waiting(s) <=> est)
    BY <1>1, <1>8 DEF Waiting, est
  <2>3. Waiting(s)' = Waiting(s) \ {c}
    BY <1>5, <2>2, WaitingStep
  <2>4. Cardinality(Waiting(s)) \in Nat /\ Spare(s)
    BY <1>t, WaitingConns DEF SessionInv, Taken, Counting
  <2>5. CASE est
    <3>1. Cardinality(Waiting(s)') = Cardinality(Waiting(s)) - 1 /\ Cardinality(Waiting(s)) # 0
      BY <2>2, <2>3, <2>5, WaitingConns DEF Counting
    <3>2. Spare(s)'
      BY <1>1, <1>3, <1>4, <1>5, <1>6, <2>1, <2>4, <2>5, <3>1, SMTT(40) DEF Spare
    <3> QED BY <1>t, <1>1, <1>6, <3>2 DEF SessionInv, Taken
  <2>6. CASE ~est
    <3>1. Waiting(s)' = Waiting(s)
      BY <2>2, <2>3, <2>6, SMTT(40)
    <3>2. Spare(s)'
      BY <1>1, <1>4, <1>5, <1>6, <2>1, <2>4, <2>6, <3>1 DEF Spare
    <3> QED BY <1>t, <1>1, <1>6, <3>2 DEF SessionInv, Taken
  <2> QED BY <2>5, <2>6
<1>15. c \notin Counted(s)' /\ (c \in Counted(s) <=> est)
  BY <1>1, <1>8 DEF Counted, est
<1>16. s \in registry /\ est => sess[s].channels > 0
  <2>1. est => Counted(s) # {}
    BY <1>15
  <2>2. est => Cardinality(Counted(s)) # 0
    BY <2>1, CountedConns DEF Counting
  <2> QED BY <1>t, <1>3, <2>2, SMTT(40) DEF SessionInv, Count
<1>17. Count(s)'
  <2>1. CASE s \in registry /\ est
    <3>1. Counted(s)' = Counted(s) \ {c}
      BY <1>5, <1>15, CountedStep
    <3>2. Cardinality(Counted(s)') = Cardinality(Counted(s)) - 1
      BY <1>15, <2>1, <3>1, CountedConns DEF Counting
    <3>3. sess[s].channels = Cardinality(Counted(s))
      BY <1>t, <2>1 DEF SessionInv, Count
    <3> QED BY <1>4, <1>6, <1>16, <2>1, <3>2, <3>3 DEF Count
  <2>2. CASE s \in registry /\ ~est
    <3>1. Counted(s)' = Counted(s)
      BY <1>5, <1>15, <2>2, CountedStep
    <3> QED BY <1>t, <1>4, <1>6, <2>2, <3>1 DEF SessionInv, Count
  <2>3. CASE s \notin registry
    BY <1>5, <2>3 DEF Count
  <2> QED BY <1>1, <2>1, <2>2, <2>3
<1>18. Alive(s)'
  <2>1. CASE s \in registry /\ est
    BY <1>2, <1>4, <1>5, <1>6, <2>1, SMTT(40) DEF Alive
  <2>2. CASE s \in registry /\ ~est /\ sess[s].established
    BY <1>t, <1>4, <1>5, <1>6, <1>8, <2>2, OtherEst, OtherOn DEF SessionInv, Alive
  <2>3. CASE s \in registry /\ ~est /\ ~sess[s].established
    BY <1>5, <1>6, <2>3 DEF Alive
  <2>4. CASE s \notin registry
    BY <1>5, <2>4 DEF Alive
  <2> QED BY <2>1, <2>2, <2>3, <2>4
<1> QED BY <1>1, <1>5, <1>10, <1>11, <1>12, <1>13, <1>14, <1>17, <1>18 DEF SessionInv

-----------------------------------------------------------------------------
(***************************************************************************)
(* The theorems.                                                           *)
(***************************************************************************)

\* There are finitely many connections (SessionConstants).
LEMMA CountingHolds == Counting
<1>1. \A S \in SUBSET Conns : IsFiniteSet(S) /\ Cardinality(S) \in Nat
  BY SessionConstants, FS_Subset, FS_CardinalityType
<1>2. \A S \in SUBSET Conns, c \in Conns : c \notin S => Cardinality(S \cup {c}) = Cardinality(S) + 1
  BY <1>1, FS_AddElement
<1>3. \A S \in SUBSET Conns, c \in Conns : c \in S => Cardinality(S \ {c}) = Cardinality(S) - 1
  BY <1>1, FS_RemoveElement
<1>4. \A S \in SUBSET Conns, T \in SUBSET Conns : S \subseteq T => Cardinality(S) <= Cardinality(T)
  BY <1>1, FS_Subset
<1> QED BY <1>1, <1>2, <1>3, <1>4, FS_EmptySet, FS_Singleton DEF Counting

LEMMA IInvInit == Init => IInv
<1> SUFFICES ASSUME Init PROVE IInv
  OBVIOUS
<1>1. TypeOK
  BY TypeInit
<1>2. /\ \A s \in Sids : sess[s] = None /\ s \notin registry
      /\ \A c \in Conns : thread[c].at = "idle"
      /\ \A c \in Conns, s \in Sids : chan[c][s] = None
  BY DEF Init, Idle
<1>3. ASSUME NEW s \in Sids PROVE SessionInv(s)
  <2>1. Fresh(s) /\ Private(s) /\ Named(s) /\ Count(s) /\ Alive(s)
    BY <1>2 DEF Fresh, Private, Named, Count, Alive, Busy
  <2>2. \A c \in Conns : ~Est(c, s) /\ Legs(c, s)
    BY <1>2 DEF Legs, On, Est
  <2>3. Proven(s) /\ Taken(s)
    BY <1>2, <2>2 DEF Proven, Taken, Spare
  <2> QED BY <2>1, <2>2, <2>3 DEF SessionInv
<1>4. ThreadInv
  BY <1>2 DEF ThreadInv
<1> QED BY <1>1, <1>3, <1>4 DEF IInv

LEMMA IInvStep == IInv /\ [Next]_vars => IInv'
<1> SUFFICES ASSUME IInv, [Next]_vars PROVE IInv'
  OBVIOUS
<1>t. TypeOK /\ TypeOK'
  BY TypeStep DEF IInv
<1>c. Counting
  BY CountingHolds
<1>u. CASE UNCHANGED vars
  <2>1. \A s \in Sids : SessionInv(s)'
    BY <1>u, Frame DEF IInv, vars
  <2> QED BY <1>t, <1>u, <2>1 DEF IInv, ThreadInv, vars
<1>s. ASSUME NEW c \in Conns, thread[c].at # "idle" PROVE thread[c].sid \in Sids
  BY <1>t, <1>s, ThreadFields DEF TypeOK
<1>1. ASSUME NEW c \in Conns, Setup(c) PROVE IInv'
  <2>1. ASSUME NEW s \in Sids, NtlmNegotiate(c, s) \/ KerberosContinue(c, s) PROVE IInv'
    BY <1>t, <2>1, <1>c, FirstLegStep, LocalStep
  <2>2. ASSUME NEW s \in Sids, BindNegotiate(c, s) PROVE IInv'
    BY <1>t, <2>2, BindNegotiateStep, LocalStep
  <2>3. CASE BindCheck(c)
    BY <1>t, <1>s, <2>3, BindCheckStep, LocalStep DEF BindCheck, Busy
  <2>4. ASSUME NEW s \in Sids, NEW who \in Users \cup {Guest, None}, NtlmAuthenticate(c, s, who) PROVE IInv'
    BY <1>t, <2>4, NtlmAuthenticateStep, LocalStep
  <2>5. CASE Bind(c)
    BY <1>t, <1>s, <2>5, <1>c, BindStep, LocalStep DEF Bind, Busy
  <2>6. CASE Establish(c)
    BY <1>t, <1>s, <2>6, <1>c, EstablishStep, LocalStep DEF Establish, Busy
  <2>7. CASE Reject(c)
    BY <1>t, <1>s, <2>7, <1>c, RejectStep, LocalStep DEF Reject, Busy
  <2>8. ASSUME NEW s \in Sids, NEW who \in {Guest, Principal}, OneLegSetup(c, s, who) PROVE IInv'
    BY <1>t, <2>8, <1>c, OneLegSetupStep, LocalStep
  <2>9. ASSUME NEW s \in Sids, NEW ok \in BOOLEAN, KerberosLeg(c, s, ok) PROVE IInv'
    BY <1>t, <2>9, KerberosLegStep, LocalStep
  <2> QED BY <1>1, <2>1, <2>2, <2>3, <2>4, <2>5, <2>6, <2>7, <2>8, <2>9 DEF Setup
<1>2. ASSUME NEW c \in Conns, Leave(c) PROVE IInv'
  <2>1. ASSUME NEW s \in Sids, Logoff(c, s) \/ TeardownChannel(c, s) PROVE IInv'
    BY <1>t, <2>1, UnlinkStep, LocalStep
  <2>2. CASE Disconnect(c)
    <3>1. \A d \in Conns : d # c => conn'[d] = conn[d]
      BY <1>t, <2>2 DEF Disconnect, TypeOK
    <3> QED BY <1>t, <2>2, <3>1, ConnStep, SMTT(40) DEF Disconnect, Ready, Idle
  <2>3. CASE TeardownDone(c)
    <3>1. \A d \in Conns : d # c => conn'[d] = conn[d]
      BY <1>t, <2>3 DEF TeardownDone, TypeOK
    <3> QED BY <1>t, <2>3, <3>1, ConnStep, SMTT(40) DEF TeardownDone, Idle
  <2>4. ASSUME NEW cipher \in BOOLEAN, Accept(c, cipher) PROVE IInv'
    <3>1. \A d \in Conns : d # c => conn'[d] = conn[d]
      BY <1>t, <2>4 DEF Accept, TypeOK
    <3> QED BY <1>t, <2>4, <3>1, ConnStep DEF Accept
  <2>5. CASE DropChannel(c)
    BY <1>t, <1>s, <2>5, <1>c, DropChannelStep, LocalStep DEF DropChannel, Busy
  <2>6. CASE EndSession(c)
    BY <1>t, <1>s, <2>6, <1>c, EndSessionStep, LocalStep DEF EndSession, Busy
  <2>7. CASE TakeAll(c)
    BY <1>t, <1>s, <2>7, TakeAllStep, LocalStep DEF TakeAll, Busy
  <2> QED BY <1>2, <2>1, <2>2, <2>3, <2>4, <2>5, <2>6, <2>7 DEF Leave
<1>3. ASSUME NEW c \in Conns, Use(c) PROVE IInv'
  <2>1. ASSUME NEW s \in Sids, NEW op \in Ops, NEW t \in Trees, Request(c, s, op, t) PROVE IInv'
    BY <1>t, <2>1, RequestStep, LocalStep
  <2>2. CASE RunRequest(c)
    BY <1>t, <1>s, <2>2, <1>c, RunRequestStep, LocalStep DEF RunRequest, Busy
  <2> QED BY <1>3, <2>1, <2>2 DEF Use
<1> QED BY <1>u, <1>1, <1>2, <1>3 DEF Next

\* What the invariant says of the properties.
LEMMA IInvProperties ==
  IInv => ChannelCount /\ BindingProven /\ SealedAlways /\ NoOrphanOpens /\ RegistryOwned
<1> SUFFICES ASSUME IInv PROVE ChannelCount /\ BindingProven /\ SealedAlways /\ NoOrphanOpens /\ RegistryOwned
  OBVIOUS
<1>1. ChannelCount
  BY DEF IInv, TypeOK, SessionInv, Count, Counted, ChannelCount
<1>2. BindingProven /\ SealedAlways
  BY DEF IInv, SessionInv, Proven, BindingProven, SealedAlways
<1>3. NoOrphanOpens
  <2> SUFFICES ASSUME NEW s \in Sids, Dead(s), NEW t \in Trees, sess[s].opens[t] # 0
               PROVE  sess[s].channels >= 2
    BY DEF NoOrphanOpens, Dead
  <2>1. sess[s].channels >= Cardinality(Waiting(s)) + 2
    BY DEF IInv, SessionInv, Taken, Spare, Dead
  <2>2. Cardinality(Waiting(s)) \in Nat
    BY CountingHolds, WaitingConns DEF Counting
  <2>3. sess[s].channels \in Nat
    BY DEF IInv, TypeOK, SessionInner, Dead
  <2> QED BY <2>1, <2>2, <2>3, SMTT(40)
<1>4. RegistryOwned
  <2> SUFFICES ASSUME NEW s \in registry
               PROVE  \E c \in Conns :
                        \/ chan[c][s] # None /\ (sess[s].established => Est(c, s))
                        \/ \E label \in {"establish", "reject", "drop", "end"} : On(c, label, s)
    BY DEF RegistryOwned
  <2>1. s \in Sids /\ SessionInv(s)
    BY DEF IInv, TypeOK
  <2>2. CASE ~sess[s].established
    BY <2>1, <2>2 DEF SessionInv, Alive
  <2>3. CASE sess[s].established /\ \E c \in Conns : On(c, "end", s)
    BY <2>3
  <2>4. CASE sess[s].established /\ sess[s].channels > 0
    <3>1. Cardinality(Counted(s)) # 0
      BY <2>1, <2>4, SMTT(40) DEF SessionInv, Count
    <3>2. PICK c \in Conns : c \in Counted(s)
      BY <2>1, <3>1, CountingHolds, CountedConns DEF Counting
    <3> QED BY <3>2 DEF Counted, Est
  <2> QED BY <2>1, <2>2, <2>3, <2>4 DEF SessionInv, Alive
<1> QED BY <1>1, <1>2, <1>3, <1>4

LEMMA Inductive == Spec => []IInv
BY IInvInit, IInvStep, PTL DEF Spec

\* Every variable keeps its type whatever the handlers interleave.
THEOREM SessionTypes == Spec => []TypeOK
<1>1. IInv => TypeOK
  BY DEF IInv
<1> QED BY <1>1, Inductive, PTL

\* Every established channel authenticated as the user of the session it is in
\* (SESSION_SETUP with the binding flag, and the first authentication).
THEOREM BindingIsProven == Spec => []BindingProven
<1>1. IInv => BindingProven
  BY IInvProperties
<1> QED BY <1>1, Inductive, PTL

\* With `encrypt = true' every established channel seals.
THEOREM ChannelsSealed == Spec => []SealedAlways
<1>1. IInv => SealedAlways
  BY IInvProperties
<1> QED BY <1>1, Inductive, PTL

\* SessionInner.channels counts the established channels of a session that is in
\* the registry.
THEOREM CountIsExact == Spec => []ChannelCount
<1>1. IInv => ChannelCount
  BY IInvProperties
<1> QED BY <1>1, Inductive, PTL

\* No session is left in the registry without someone who will end it.
THEOREM NoSessionLeaks == Spec => []RegistryOwned
<1>1. IInv => RegistryOwned
  BY IInvProperties
<1> QED BY <1>1, Inductive, PTL

\* A session that end_session has emptied has an open file again only if two channels
\* or more bound themselves to it while it was ending, for one of them connects a tree and
\* another opens (end_session, dispatch).
THEOREM EndedSessionsAreEmpty == Spec => []NoOrphanOpens
<1>1. IInv => NoOrphanOpens
  BY IInvProperties
<1> QED BY <1>1, Inductive, PTL

-----------------------------------------------------------------------------
(***************************************************************************)
(* Without multichannel.                                                   *)
(***************************************************************************)

\* The connection has a channel of s, or a handler at work on s.
Tied(c, s) == chan[c][s] # None \/ Busy(c, s)

\* Only one connection is tied to a session. Its channel is in a session of the
\* registry, and it has given the channel up before it ends the session. Nobody binds.
Single(s) ==
  /\ \A c, d \in Conns : Tied(c, s) /\ Tied(d, s) => c = d
  /\ \A c \in Conns :
       /\ chan[c][s] # None \/ On(c, "establish", s) \/ On(c, "bind", s) => s \in registry
       /\ On(c, "drop", s) \/ On(c, "end", s) \/ On(c, "take", s) => chan[c][s] = None
       /\ ~On(c, "bindcheck", s)

SingleInv == ~config.multichannel => \A s \in Sids : Single(s)

\* What Single asks of the connection that takes a step on s.
Keeps(c, s) ==
  /\ Tied(c, s)' => Tied(c, s) \/ sess[s] = None
  /\ s \in registry' \/ s \notin registry \/ Tied(c, s)
  /\ chan'[c][s] # None \/ On(c, "establish", s)' \/ On(c, "bind", s)' => s \in registry'
  /\ On(c, "drop", s)' \/ On(c, "end", s)' \/ On(c, "take", s)' => chan'[c][s] = None
  /\ ~On(c, "bindcheck", s)'

LEMMA SingleStep ==
  ASSUME IInv, SingleInv, NEW c \in Conns, NEW s \in Sids, Local(c, s),
         ~config.multichannel => Keeps(c, s)
  PROVE  SingleInv'
<1> SUFFICES ASSUME ~config.multichannel, NEW r \in Sids PROVE Single(r)'
  <2>1. config' = config
    BY DEF Local
  <2> QED BY <2>1 DEF SingleInv
<1>1. Single(r) /\ Single(s) /\ Keeps(c, s) /\ Fresh(s)
  BY DEF SingleInv, IInv, SessionInv
<1>2. CASE r # s
  <2>0. /\ \A d \in Conns : d # c => thread'[d] = thread[d]
        /\ thread[c].at # "idle" => thread[c].sid # r
        /\ thread'[c].at # "idle" => thread'[c].sid # r
    BY <1>2 DEF Local
  <2>1. \A d \in Conns : chan'[d][r] = chan[d][r] /\ (Busy(d, r)' <=> Busy(d, r))
    BY <1>2, <2>0 DEF Local, Busy
  <2>2. \A d \in Conns, label \in {"establish", "bind", "drop", "end", "take", "bindcheck"} :
          On(d, label, r)' <=> On(d, label, r)
    BY <2>0, SMTT(40) DEF On
  <2>3. r \in registry' <=> r \in registry
    BY <1>2 DEF Local
  <2> QED BY <1>1, <2>1, <2>2, <2>3 DEF Single, Tied
<1>3. CASE r = s
  <2>0. \A d \in Conns : d # c => chan'[d][s] = chan[d][s] /\ thread'[d] = thread[d]
    BY DEF Local
  <2>1. \A d \in Conns : d # c =>
          /\ chan'[d][s] = chan[d][s] /\ (Tied(d, s)' <=> Tied(d, s))
          /\ \A label \in {"establish", "bind", "drop", "end", "take", "bindcheck"} : On(d, label, s)' <=> On(d, label, s)
    BY <2>0, SMTT(40) DEF Tied, Busy, On
  <2>2. sess[s] = None => \A d \in Conns : ~Tied(d, s)
    BY <1>1 DEF Fresh, Tied
  <2>3. \A d, e \in Conns : Tied(d, s)' /\ Tied(e, s)' => d = e
    BY <1>1, <2>1, <2>2 DEF Single, Keeps
  <2>4. ASSUME NEW d \in Conns, d # c, chan[d][s] # None \/ On(d, "establish", s) \/ On(d, "bind", s) PROVE s \in registry'
    <3>1. Tied(d, s) /\ s \in registry
      BY <1>1, <2>4 DEF Single, Tied, Busy, On
    <3>2. ~Tied(c, s)
      BY <1>1, <2>4, <3>1 DEF Single
    <3> QED BY <1>1, <3>1, <3>2 DEF Keeps
  <2> QED BY <1>1, <1>3, <2>1, <2>3, <2>4 DEF Single, Keeps
<1> QED BY <1>2, <1>3

\* A connection that comes or goes.
LEMMA SingleSame ==
  ASSUME SingleInv, UNCHANGED <<config, registry, chan, thread>>
  PROVE  SingleInv'
<1>1. /\ \A c \in Conns, s \in Sids : Tied(c, s)' <=> Tied(c, s)
      /\ \A c \in Conns, s \in Sids, label \in {"establish", "bind", "drop", "end", "take", "bindcheck"} :
           On(c, label, s)' <=> On(c, label, s)
  BY SMTT(40) DEF Tied, Busy, On
<1> QED BY <1>1 DEF SingleInv, Single

LEMMA SingleInit == Init => SingleInv
<1> SUFFICES ASSUME Init, NEW s \in Sids PROVE Single(s)
  BY DEF SingleInv
<1>1. \A c \in Conns : chan[c][s] = None /\ thread[c].at = "idle"
  BY DEF Init, Idle
<1> QED BY <1>1 DEF Single, Tied, Busy, On

\* SESSION_SETUP. A binding does not start (BindNegotiate), so none is checked.
LEMMA SingleSetup ==
  ASSUME IInv, SingleInv, NEW c \in Conns, Setup(c)
  PROVE  SingleInv'
<1>t. TypeOK /\ Counting
  BY CountingHolds DEF IInv
<1>s. thread[c].at # "idle" => thread[c].sid \in Sids
  BY <1>t, ThreadFields DEF TypeOK
<1>1. ASSUME NEW s \in Sids, NtlmNegotiate(c, s) \/ KerberosContinue(c, s) PROVE SingleInv'
  <2>1. Local(c, s)
    BY <1>t, <1>1, FirstLegStep
  <2>2. sess[s] = None /\ s \in registry' /\ thread'[c].at = "idle"
    BY <1>1, SMTT(40) DEF NtlmNegotiate, KerberosContinue, CreateSession, Ready, Idle
  <2>3. Keeps(c, s)
    BY <2>2 DEF Keeps, On
  <2> QED BY <2>1, <2>3, SingleStep
<1>2. ASSUME NEW s \in Sids, BindNegotiate(c, s) PROVE SingleInv'
  BY <1>2, BindNegotiateStep, SingleStep DEF BindNegotiate
<1>3. CASE BindCheck(c)
  <2>1. PICK s \in Sids : Busy(c, s) /\ On(c, "bindcheck", s)
    BY <1>s, <1>3 DEF BindCheck, Busy, On
  <2>2. Local(c, s)
    BY <1>3, <2>1, BindCheckStep
  <2>3. config.multichannel
    BY <2>1 DEF SingleInv, Single
  <2> QED BY <2>2, <2>3, SingleStep
<1>4. ASSUME NEW s \in Sids, NEW who \in Users \cup {Guest, None}, NtlmAuthenticate(c, s, who) PROVE SingleInv'
  <2>1. Local(c, s) /\ chan[c][s] # None /\ registry' = registry
    BY <1>4, NtlmAuthenticateStep DEF NtlmAuthenticate
  <2>2. thread'[c].at \in {"idle", "bind", "establish", "reject"}
    BY <1>t, <1>4, Lookup, SMTT(40) DEF NtlmAuthenticate, Idle, At
  <2>3. ~config.multichannel => Keeps(c, s)
    BY <2>1, <2>2 DEF Keeps, Tied, On, SingleInv, Single
  <2> QED BY <2>1, <2>3, SingleStep
<1>5. CASE Bind(c) \/ Establish(c)
  <2>1. PICK s \in Sids : Busy(c, s) /\ (On(c, "bind", s) \/ On(c, "establish", s))
    BY <1>s, <1>5 DEF Bind, Establish, Busy, On
  <2>2. Local(c, s)
    BY <1>t, <1>5, <2>1, BindStep, EstablishStep
  <2>3. thread'[c].at = "idle" /\ registry' = registry
    BY <1>t, <1>5, <2>1, Lookup, SMTT(40) DEF Bind, Establish, Idle, Busy
  <2>4. ~config.multichannel => Keeps(c, s)
    BY <2>1, <2>3 DEF Keeps, Tied, On, SingleInv, Single
  <2> QED BY <2>2, <2>4, SingleStep
<1>6. CASE Reject(c)
  <2>1. PICK s \in Sids : Busy(c, s)
    BY <1>s, <1>6 DEF Reject, Busy
  <2>2. Local(c, s)
    BY <1>t, <1>6, <2>1, RejectStep
  <2>3. thread'[c].at = "idle" /\ chan'[c][s] = None
    BY <1>t, <1>6, <2>1, Lookup, SMTT(40) DEF Reject, Idle, Busy
  <2>4. Keeps(c, s)
    BY <2>1, <2>3 DEF Keeps, Tied, On
  <2> QED BY <2>2, <2>4, SingleStep
<1>7. ASSUME NEW s \in Sids, NEW who \in {Guest, Principal}, OneLegSetup(c, s, who) PROVE SingleInv'
  <2>1. Local(c, s)
    BY <1>t, <1>7, OneLegSetupStep
  <2>2. sess[s] = None /\ s \in registry' /\ thread'[c].at = "establish"
    BY <1>t, <1>7, Lookup, SMTT(40) DEF OneLegSetup, CreateSession
  <2>3. Keeps(c, s)
    BY <2>2 DEF Keeps, On
  <2> QED BY <2>1, <2>3, SingleStep
<1>8. ASSUME NEW s \in Sids, NEW ok \in BOOLEAN, KerberosLeg(c, s, ok) PROVE SingleInv'
  <2>1. Local(c, s) /\ chan[c][s] # None /\ registry' = registry
    BY <1>8, KerberosLegStep DEF KerberosLeg
  <2>2. thread'[c].at \in {"establish", "reject"}
    BY <1>t, <1>8, Lookup, SMTT(40) DEF KerberosLeg, At
  <2>3. ~config.multichannel => Keeps(c, s)
    BY <2>1, <2>2 DEF Keeps, Tied, On, SingleInv, Single
  <2> QED BY <2>1, <2>3, SingleStep
<1> QED BY <1>1, <1>2, <1>3, <1>4, <1>5, <1>6, <1>7, <1>8 DEF Setup

\* LOGOFF and teardown: the channel goes before the session does. A request stays
\* with the session of its channel.
LEMMA SingleLeave ==
  ASSUME IInv, SingleInv, NEW c \in Conns, Leave(c) \/ Use(c)
  PROVE  SingleInv'
<1>t. TypeOK /\ Counting
  BY CountingHolds DEF IInv
<1>s. thread[c].at # "idle" => thread[c].sid \in Sids
  BY <1>t, ThreadFields DEF TypeOK
<1>1. ASSUME NEW s \in Sids, Logoff(c, s) \/ TeardownChannel(c, s) PROVE SingleInv'
  <2>1. Local(c, s) /\ registry' = registry
    BY <1>1, UnlinkStep DEF Logoff, TeardownChannel
  <2>2. chan[c][s] # None
    BY <1>1 DEF Logoff, TeardownChannel, Est
  <2>3. chan'[c][s] = None /\ thread'[c].at \in {"idle", "drop"}
    BY <1>t, <1>1, Lookup, SMTT(40) DEF Logoff, TeardownChannel, Idle
  <2>4. Keeps(c, s)
    BY <2>1, <2>2, <2>3 DEF Keeps, Tied, On
  <2> QED BY <2>1, <2>4, SingleStep
<1>2. CASE Disconnect(c) \/ TeardownDone(c) \/ \E cipher \in BOOLEAN : Accept(c, cipher)
  BY <1>2, SingleSame DEF Disconnect, TeardownDone, Accept
<1>3. CASE DropChannel(c) \/ EndSession(c) \/ TakeAll(c)
  <2>1. PICK s \in Sids : Busy(c, s) /\ (On(c, "drop", s) \/ On(c, "end", s) \/ On(c, "take", s))
    BY <1>s, <1>3 DEF DropChannel, EndSession, TakeAll, Busy, On
  <2>2. Local(c, s)
    BY <1>t, <1>3, <2>1, DropChannelStep, EndSessionStep, TakeAllStep
  <2>3. thread'[c].at \in {"idle", "end", "take"} /\ chan' = chan
    BY <1>t, <1>3, <2>1, Lookup, SMTT(40) DEF DropChannel, EndSession, TakeAll, Idle, At, Busy
  <2>4. ~config.multichannel => Keeps(c, s)
    BY <2>1, <2>3 DEF Keeps, Tied, On, SingleInv, Single
  <2> QED BY <2>2, <2>4, SingleStep
<1>4. ASSUME NEW s \in Sids, NEW op \in Ops, NEW t \in Trees, Request(c, s, op, t) PROVE SingleInv'
  <2>1. Local(c, s) /\ registry' = registry /\ chan' = chan /\ s \in registry
    BY <1>4, RequestStep DEF Request
  <2>2. chan[c][s] # None
    BY <1>4 DEF Request, Est
  <2>3. thread'[c].at = "request"
    BY <1>t, <1>4, Lookup, SMTT(40) DEF Request
  <2>4. Keeps(c, s)
    BY <2>1, <2>2, <2>3 DEF Keeps, Tied, On
  <2> QED BY <2>1, <2>4, SingleStep
<1>5. CASE RunRequest(c)
  <2>1. PICK s \in Sids : Busy(c, s)
    BY <1>s, <1>5 DEF RunRequest, Busy
  <2>2. Local(c, s) /\ registry' = registry /\ chan' = chan
    BY <1>t, <1>5, <2>1, RunRequestStep DEF RunRequest
  <2>3. thread'[c].at = "idle"
    BY <1>t, <1>5, <2>1, Lookup, SMTT(40) DEF RunRequest, Idle, Busy
  <2>4. ~config.multichannel => Keeps(c, s)
    BY <2>1, <2>2, <2>3 DEF Keeps, Tied, On, SingleInv, Single
  <2> QED BY <2>2, <2>4, SingleStep
<1> QED BY <1>1, <1>2, <1>3, <1>4, <1>5 DEF Leave, Use

LEMMA SingleInductive == Spec => []SingleInv
<1>1. IInv /\ SingleInv /\ [Next]_vars => SingleInv'
  <2> SUFFICES ASSUME IInv, SingleInv, [Next]_vars PROVE SingleInv'
    OBVIOUS
  <2>1. CASE UNCHANGED vars
    BY <2>1, SingleSame DEF vars
  <2>2. ASSUME NEW c \in Conns, Setup(c) \/ Leave(c) \/ Use(c) PROVE SingleInv'
    BY <2>2, SingleSetup, SingleLeave
  <2> QED BY <2>1, <2>2 DEF Next
<1> QED BY <1>1, SingleInit, Inductive, PTL DEF Spec

\* Without multichannel the session of an established channel is in the registry: no
\* other connection can have ended it (logoff, teardown_conn, end_session).
THEOREM AloneKeepsSession == Spec => []SingleChannelAlive
<1>1. SingleInv => SingleChannelAlive
  BY DEF SingleInv, Single, SingleChannelAlive, Est
<1> QED BY <1>1, SingleInductive, PTL
=============================================================================
