------------------------------ MODULE Sessions ------------------------------
(***************************************************************************)
(* The session registry shared by all workers (session.rs) and the         *)
(* handlers that create, join, use and end sessions: SESSION_SETUP (NTLM,  *)
(* anonymous, Kerberos, channel binding), LOGOFF, TREE_CONNECT,            *)
(* TREE_DISCONNECT, CREATE, CLOSE and the teardown of a connection.        *)
(*                                                                         *)
(* Every connection is served by a thread of its own, the case in which    *)
(* most interleavings exist.  A step of a handler is what it does between  *)
(* two acquisitions of a lock that another thread can also take (the       *)
(* registry's, or a session's); a thread that holds the Arc of a session   *)
(* keeps it in thread[c].sid, and sess[s] outlives the registry's entry as *)
(* the SessionInner outlives it.  A SessionId is drawn at random from 2^64 *)
(* and is never drawn twice.                                               *)
(***************************************************************************)
EXTENDS Naturals, FiniteSets

CONSTANTS
  Conns,               \* connections
  Sids,                \* session ids that may be drawn: bounds the sessions created
  Users,               \* local NTLM users
  Principal,           \* the client of a Kerberos ticket
  Guest,               \* who a guest channel authenticated as
  MaxTrees,            \* bound: TREE_CONNECTs of one session
  MaxOpens,            \* bound: handles open at once in one session
  MAX_PENDING_SETUPS,
  None

VARIABLES
  config,     \* the server's configuration, fixed at start
  registry,   \* Registry.sessions: the ids that get() finds
  sess,       \* the SessionInner behind each id, None before create()
  chan,       \* ProtoConn.channels: chan[c][s] is None or a ChannelState
  thread,     \* what the thread serving a connection is about to do
  conn        \* [up, cipher]: the connection, and the 3.1.1 cipher it negotiated

vars == <<config, registry, sess, chan, thread, conn>>

Trees == 1 .. MaxTrees
Idents == Users \cup {Principal, Guest}
Ops == {"tree_connect", "tree_disconnect", "create", "close"}

\* SessionInner: opens counts the handles of each tree.
SessionInner ==
  [established : BOOLEAN, guest : BOOLEAN, user : Idents \cup {None}, channels : Nat,
   trees : SUBSET Trees, next_tree_id : 0 .. MaxTrees, opens : [Trees -> Nat]]

\* ChannelState: the leg of a setup that is awaited, and who was authenticated.
Channels ==
  [pending : {"none", "first", "bind", "krb"}, established : BOOLEAN,
   who : Idents \cup {None}, encrypt : BOOLEAN]

\* A thread between two requests, or at the next lock of a handler.
Threads ==
  [at : {"idle"}]
    \cup [at : {"bindcheck", "reject", "end", "take"}, sid : Sids]
    \cup [at : {"bind"}, sid : Sids, who : Users \cup {Guest, None}]
    \cup [at : {"establish"}, sid : Sids, who : Idents]
    \cup [at : {"drop"}, sid : Sids, est : BOOLEAN]
    \cup [at : {"request"}, sid : Sids, op : Ops, tree : Trees]

ASSUME SessionConstants ==
  /\ IsFiniteSet(Conns)
  /\ MAX_PENDING_SETUPS \in Nat /\ MaxTrees \in Nat /\ MaxOpens \in Nat
  /\ Guest \notin Users /\ Principal \notin Users /\ Guest # Principal
  /\ None \notin Idents /\ None \notin Channels /\ None \notin SessionInner

-----------------------------------------------------------------------------
\* SessionInner::new.
NewSession ==
  [established |-> FALSE, guest |-> FALSE, user |-> None, channels |-> 0,
   trees |-> {}, next_tree_id |-> 0, opens |-> [t \in Trees |-> 0]]

\* A ChannelState in the middle of a setup: pending says which leg is awaited.
PendingChannel(p) ==
  [pending |-> p, established |-> FALSE, who |-> None, encrypt |-> FALSE]

\* A channel that `who' authenticated; it seals when the server insists and a
\* cipher was negotiated.
EstablishedChannel(c, who) ==
  [pending |-> "none", established |-> TRUE, who |-> who,
   encrypt |-> config.encrypt /\ conn[c].cipher /\ who # Guest]

Est(c, s) == chan[c][s] # None /\ chan[c][s].established
Held(c) == {s \in Sids : chan[c][s] # None}

Idle == [at |-> "idle"]
At(label, s) == [at |-> label, sid |-> s]
On(c, label, s) == thread[c].at = label /\ thread[c].sid = s
Ready(c) == conn[c].up = "up" /\ thread[c] = Idle

SetChan(c, s, ch) == chan' = [chan EXCEPT ![c][s] = ch]
Goto(c, t) == thread' = [thread EXCEPT ![c] = t]

\* Registry::create: a fresh, un-established entry.
CreateSession(s) ==
  /\ sess[s] = None
  /\ registry' = registry \cup {s}
  /\ sess' = [sess EXCEPT ![s] = NewSession]

\* The limit on half-open setups that a new one is checked against.
MayStart(c) ==
  Cardinality({s \in Held(c) : ~chan[c][s].established}) < MAX_PENDING_SETUPS

-----------------------------------------------------------------------------
(* SESSION_SETUP                                                           *)

\* NTLM NEGOTIATE without the binding flag: a new session, and a challenge
\* kept in this connection's channel.
NtlmNegotiate(c, s) ==
  /\ Ready(c) /\ MayStart(c)
  /\ CreateSession(s)
  /\ SetChan(c, s, PendingChannel("first"))
  /\ UNCHANGED <<config, thread, conn>>

\* Mutant: the configuration is not consulted.
BindNegotiate_Always(c, s) ==
  /\ Ready(c) /\ s \in registry
  /\ Goto(c, At("bindcheck", s))
  /\ UNCHANGED <<config, registry, sess, chan, conn>>

\* NTLM NEGOTIATE with the binding flag: multichannel must be on and the session
\* in the registry; its Arc is taken.
BindNegotiate(c, s) ==
  /\ Ready(c) /\ config.multichannel /\ s \in registry
  /\ Goto(c, At("bindcheck", s))
  /\ UNCHANGED <<config, registry, sess, chan, conn>>

\* Then, under the session's lock: only an established non-guest session can be
\* joined, and not by a connection that is already in it.
BindCheck(c) ==
  LET s == thread[c].sid IN
  /\ thread[c].at = "bindcheck"
  /\ Goto(c, Idle)
  /\ IF sess[s].established /\ ~sess[s].guest /\ ~Est(c, s)
       THEN SetChan(c, s, PendingChannel("bind"))
       ELSE UNCHANGED chan
  /\ UNCHANGED <<config, registry, sess, conn>>

\* Mutant: guests are let in although nothing they send can be sealed.
Admitted_Guest(c, who) ==
  /\ who = Guest => config.allow_guest
  /\ config.encrypt => conn[c].cipher

\* Whether an identity that the token proves may have a session of this server:
\* guests only if allowed and, like everyone, only if the session can be sealed
\* when `encrypt' is set.
Admitted(c, who) ==
  /\ who = Guest => config.allow_guest /\ ~config.encrypt
  /\ config.encrypt => conn[c].cipher

\* NTLM AUTHENTICATE.  The challenge is taken; a second AUTHENTICATE finds none
\* and is acknowledged without a change.  If the session has left the registry
\* the channel stays behind, never to be established.  `who' is None for a token
\* that proves nothing.
NtlmAuthenticate(c, s, who) ==
  /\ Ready(c) /\ chan[c][s] # None /\ chan[c][s].pending \in {"first", "bind"}
  /\ SetChan(c, s, PendingChannel("none"))
  /\ Goto(c, IF s \notin registry THEN Idle
             ELSE IF chan[c][s].pending = "bind"
               THEN [at |-> "bind", sid |-> s, who |-> who]
             ELSE IF who # None /\ Admitted(c, who)
               THEN [at |-> "establish", sid |-> s, who |-> who]
               ELSE At("reject", s))
  /\ UNCHANGED <<config, registry, sess, conn>>

\* Mutant: any user of the server may join.
BindProof_AnyUser(c, s, who) ==
  /\ sess[s].established /\ ~sess[s].guest
  /\ who \in Users
  /\ config.encrypt => conn[c].cipher

\* What a binding must prove, under the session's lock: that it is the session's
\* own user; and the channel must be sealable if it has to be sealed.
BindProof(c, s, who) ==
  /\ sess[s].established /\ ~sess[s].guest
  /\ who = sess[s].user
  /\ config.encrypt => conn[c].cipher

\* The end of a binding: one more channel, or none.
Bind(c) ==
  LET s == thread[c].sid  who == thread[c].who IN
  /\ thread[c].at = "bind"
  /\ Goto(c, Idle)
  /\ IF BindProof(c, s, who)
       THEN /\ sess' = [sess EXCEPT ![s].channels = @ + 1]
            /\ SetChan(c, s, EstablishedChannel(c, who))
       ELSE /\ SetChan(c, s, None)
            /\ UNCHANGED sess
  /\ UNCHANGED <<config, registry, conn>>

\* The end of a first authentication (NTLM user or guest, anonymous, Kerberos):
\* the session is established with this one channel.
Establish(c) ==
  LET s == thread[c].sid  who == thread[c].who IN
  /\ thread[c].at = "establish"
  /\ Goto(c, Idle)
  /\ sess' = [sess EXCEPT ![s].established = TRUE, ![s].channels = 1,
                          ![s].guest = (who = Guest),
                          ![s].user = IF who = Guest THEN @ ELSE who]
  /\ SetChan(c, s, EstablishedChannel(c, who))
  /\ UNCHANGED <<config, registry, conn>>

\* A refused first authentication, or a failed leg of a Kerberos exchange: the
\* channel and the registry's entry go.
Reject(c) ==
  /\ thread[c].at = "reject"
  /\ registry' = registry \ {thread[c].sid}
  /\ SetChan(c, thread[c].sid, None)
  /\ Goto(c, Idle)
  /\ UNCHANGED <<config, sess, conn>>

\* A token that completes at once: no NTLMSSP at all (a guest), or a Kerberos
\* AP-REQ whose context is established in one step.  The session is created
\* for it; neither is counted among the pending setups.
OneLegSetup(c, s, who) ==
  /\ Ready(c) /\ Admitted(c, who)
  /\ CreateSession(s)
  /\ Goto(c, [at |-> "establish", sid |-> s, who |-> who])
  /\ UNCHANGED <<config, chan, conn>>

\* A Kerberos exchange that asks for another leg: the context is kept in the
\* channel of a new session.
KerberosContinue(c, s) ==
  /\ Ready(c) /\ MayStart(c)
  /\ CreateSession(s)
  /\ SetChan(c, s, PendingChannel("krb"))
  /\ UNCHANGED <<config, thread, conn>>

\* A later leg that finishes the exchange (one more CONTINUE changes nothing): it
\* succeeds, or fails, or the session could not be sealed.  (The session is still
\* in the registry: no other thread ends one that is not established.)
KerberosLeg(c, s, ok) ==
  /\ Ready(c) /\ chan[c][s] # None /\ chan[c][s].pending = "krb"
  /\ SetChan(c, s, PendingChannel("none"))
  /\ Goto(c, IF ok /\ Admitted(c, Principal)
               THEN [at |-> "establish", sid |-> s, who |-> Principal]
               ELSE At("reject", s))
  /\ UNCHANGED <<config, registry, sess, conn>>

-----------------------------------------------------------------------------
(* The end of a channel and of a session                                   *)

\* LOGOFF: only an established channel can; the channel goes first.
Logoff(c, s) ==
  /\ Ready(c) /\ Est(c, s)
  /\ SetChan(c, s, None)
  /\ Goto(c, IF s \in registry THEN [at |-> "drop", sid |-> s, est |-> TRUE] ELSE Idle)
  /\ UNCHANGED <<config, registry, sess, conn>>

\* The peer is gone: the reactor tears the connection down once it is idle.
Disconnect(c) ==
  /\ Ready(c)
  /\ conn' = [conn EXCEPT ![c].up = "closing"]
  /\ UNCHANGED <<config, registry, sess, chan, thread>>

\* Mutant: a setup that was never finished is left to the registry.
TeardownChannel_Pending(c, s) ==
  /\ conn[c].up = "closing" /\ thread[c] = Idle /\ chan[c][s] # None
  /\ SetChan(c, s, None)
  /\ Goto(c, IF s \in registry /\ Est(c, s) THEN [at |-> "drop", sid |-> s, est |-> TRUE] ELSE Idle)
  /\ UNCHANGED <<config, registry, sess, conn>>

\* teardown_conn, for the next channel of the drain.
TeardownChannel(c, s) ==
  /\ conn[c].up = "closing" /\ thread[c] = Idle /\ chan[c][s] # None
  /\ SetChan(c, s, None)
  /\ Goto(c, IF s \in registry THEN [at |-> "drop", sid |-> s, est |-> Est(c, s)] ELSE Idle)
  /\ UNCHANGED <<config, registry, sess, conn>>

\* The drain is over and the ProtoConn goes.
TeardownDone(c) ==
  /\ conn[c].up = "closing" /\ thread[c] = Idle /\ Held(c) = {}
  /\ conn' = [conn EXCEPT ![c] = [up |-> "gone", cipher |-> FALSE]]
  /\ UNCHANGED <<config, registry, sess, chan, thread>>

\* A new connection, which negotiates with or without a cipher.  (Without `encrypt'
\* no decision of the server depends on it, and it is left FALSE.)
Accept(c, cipher) ==
  /\ conn[c].up = "gone" /\ (cipher => config.encrypt)
  /\ conn' = [conn EXCEPT ![c] = [up |-> "up", cipher |-> cipher]]
  /\ UNCHANGED <<config, registry, sess, chan, thread>>

\* The channel count an established channel leaves behind (saturating_sub).
Remaining(s, est) ==
  IF est /\ sess[s].channels > 0 THEN sess[s].channels - 1 ELSE sess[s].channels

\* Mutant: the count is kept when a connection is torn down.
DropChannel_Logoff(c) ==
  LET s == thread[c].sid  est == thread[c].est
      left == IF conn[c].up = "up" THEN Remaining(s, est) ELSE sess[s].channels IN
  /\ thread[c].at = "drop"
  /\ sess' = [sess EXCEPT ![s].channels = left]
  /\ Goto(c, IF (IF est THEN left = 0 ELSE ~sess[s].established) THEN At("end", s) ELSE Idle)
  /\ UNCHANGED <<config, registry, chan, conn>>

\* LOGOFF and teardown, under the session's lock: the last established channel
\* ends the session, and so does the pending channel of an unfinished setup.
DropChannel(c) ==
  LET s == thread[c].sid  est == thread[c].est  left == Remaining(s, est) IN
  /\ thread[c].at = "drop"
  /\ sess' = [sess EXCEPT ![s].channels = left]
  /\ Goto(c, IF (IF est THEN left = 0 ELSE ~sess[s].established) THEN At("end", s) ELSE Idle)
  /\ UNCHANGED <<config, registry, chan, conn>>

\* end_session, first lock: the entry leaves the registry, once.
EndSession(c) ==
  LET s == thread[c].sid IN
  /\ thread[c].at = "end"
  /\ registry' = registry \ {s}
  /\ Goto(c, IF s \in registry THEN At("take", s) ELSE Idle)
  /\ UNCHANGED <<config, sess, chan, conn>>

\* Mutant: the tree connects stay.
TakeAll_KeepTrees(c) ==
  LET s == thread[c].sid IN
  /\ thread[c].at = "take"
  /\ sess' = [sess EXCEPT ![s].opens = [t \in Trees |-> 0]]
  /\ Goto(c, Idle)
  /\ UNCHANGED <<config, registry, chan, conn>>

\* end_session, second lock: the trees are cleared and the opens taken; each is
\* then finished (lease released, delete-on-close).
TakeAll(c) ==
  LET s == thread[c].sid IN
  /\ thread[c].at = "take"
  /\ sess' = [sess EXCEPT ![s].trees = {}, ![s].opens = [t \in Trees |-> 0]]
  /\ Goto(c, Idle)
  /\ UNCHANGED <<config, registry, chan, conn>>

-----------------------------------------------------------------------------
(* Requests on an established session                                      *)

\* dispatch: the channel is established, and the session's Arc is fetched.  The
\* client names any tree, one it has not been told of too.
Request(c, s, op, t) ==
  /\ Ready(c) /\ Est(c, s) /\ s \in registry
  /\ Goto(c, [at |-> "request", sid |-> s, op |-> op, tree |-> t])
  /\ UNCHANGED <<config, registry, sess, chan, conn>>

\* How many handles the session has open.
OpenCount(s) == Cardinality({p \in Trees \X (1 .. MaxOpens) : p[2] <= sess[s].opens[p[1]]})

\* What each request makes of the session; a request on a tree the session does
\* not have (any more), or over a limit, changes nothing.
TreeConnected(s) ==
  IF sess[s].next_tree_id < MaxTrees
    THEN [sess[s] EXCEPT !.next_tree_id = @ + 1, !.trees = @ \cup {sess[s].next_tree_id + 1}]
    ELSE sess[s]

TreeDisconnected(s, t) == [sess[s] EXCEPT !.trees = @ \ {t}, !.opens[t] = 0]

Opened(s, t) ==
  IF OpenCount(s) < MaxOpens THEN [sess[s] EXCEPT !.opens[t] = @ + 1] ELSE sess[s]

Closed(s, t) ==
  IF sess[s].opens[t] > 0 THEN [sess[s] EXCEPT !.opens[t] = @ - 1] ELSE sess[s]

\* The handler runs under the session's lock.
RunRequest(c) ==
  LET s == thread[c].sid  op == thread[c].op  t == thread[c].tree IN
  /\ thread[c].at = "request"
  /\ Goto(c, Idle)
  /\ sess' = [sess EXCEPT ![s] =
       CASE op = "tree_connect" -> TreeConnected(s)
         [] op # "tree_connect" /\ t \notin sess[s].trees -> @
         [] op = "tree_disconnect" /\ t \in sess[s].trees -> TreeDisconnected(s, t)
         [] op = "create" /\ t \in sess[s].trees -> Opened(s, t)
         [] op = "close" /\ t \in sess[s].trees -> Closed(s, t)]
  /\ UNCHANGED <<config, registry, chan, conn>>

-----------------------------------------------------------------------------
Init ==
  /\ config \in [encrypt : BOOLEAN, allow_guest : BOOLEAN, multichannel : BOOLEAN]
  /\ registry = {}
  /\ sess = [s \in Sids |-> None]
  /\ chan = [c \in Conns |-> [s \in Sids |-> None]]
  /\ thread = [c \in Conns |-> Idle]
  /\ conn = [c \in Conns |-> [up |-> "gone", cipher |-> FALSE]]

Setup(c) ==
  \/ \E s \in Sids : NtlmNegotiate(c, s)
  \/ \E s \in Sids : BindNegotiate(c, s)
  \/ BindCheck(c)
  \/ \E s \in Sids, who \in Users \cup {Guest, None} : NtlmAuthenticate(c, s, who)
  \/ Bind(c)
  \/ Establish(c)
  \/ Reject(c)
  \/ \E s \in Sids, who \in {Guest, Principal} : OneLegSetup(c, s, who)
  \/ \E s \in Sids : KerberosContinue(c, s)
  \/ \E s \in Sids, ok \in BOOLEAN : KerberosLeg(c, s, ok)

Leave(c) ==
  \/ \E s \in Sids : Logoff(c, s)
  \/ Disconnect(c)
  \/ \E s \in Sids : TeardownChannel(c, s)
  \/ TeardownDone(c)
  \/ \E cipher \in BOOLEAN : Accept(c, cipher)
  \/ DropChannel(c)
  \/ EndSession(c)
  \/ TakeAll(c)

Use(c) ==
  \/ \E s \in Sids, op \in Ops, t \in Trees : Request(c, s, op, t)
  \/ RunRequest(c)

Next == \E c \in Conns : Setup(c) \/ Leave(c) \/ Use(c)

Spec == Init /\ [][Next]_vars

-----------------------------------------------------------------------------
(* Properties                                                              *)

\* Every variable keeps its type; in particular a session's channel count (u32)
\* never goes below zero.
TypeOK ==
  /\ config \in [encrypt : BOOLEAN, allow_guest : BOOLEAN, multichannel : BOOLEAN]
  /\ registry \subseteq Sids
  /\ sess \in [Sids -> {None} \cup SessionInner]
  /\ chan \in [Conns -> [Sids -> {None} \cup Channels]]
  /\ thread \in [Conns -> Threads]
  /\ conn \in [Conns -> [up : {"up", "closing", "gone"}, cipher : BOOLEAN]]
  /\ \A s \in registry : sess[s] # None

\* SessionInner.channels, "Number of channels (connections) currently bound to
\* this session", is the number of established channels, counting one that LOGOFF
\* or the teardown has dropped and not yet subtracted, whatever the threads
\* interleave.
ChannelCount ==
  \A s \in registry :
    sess[s].channels = Cardinality({c \in Conns : Est(c, s) \/ (On(c, "drop", s) /\ thread[c].est)})

\* No session leaks (handlers.rs, teardown_conn): one that is in the registry has
\* a channel that will end it, an established one if the session is established, or
\* a thread that is about to finish or end it.
RegistryOwned ==
  \A s \in registry : \E c \in Conns :
    \/ chan[c][s] # None /\ (sess[s].established => Est(c, s))
    \/ \E label \in {"establish", "reject", "drop", "end"} : On(c, label, s)

\* A session that end_session has emptied is given an open file again only through
\* two channels that bound themselves to it while it was ending: a TREE_CONNECT and
\* a CREATE that both hold its Arc.  (They are still counted: the count of a session
\* that has left the registry is not decremented any more.)  A single channel opens
\* nothing there, and neither does anyone without multichannel, so no lease and no
\* delete-on-close of theirs is left behind.
NoOrphanOpens ==
  \A s \in Sids \ registry :
    sess[s] # None /\ (\A c \in Conns : ~On(c, "take", s))
      => (\A t \in Trees : sess[s].opens[t] = 0) \/ sess[s].channels >= 2

\* Every established channel of a session authenticated as the session's own user,
\* and only the channel that created a guest session is in it.
BindingProven ==
  \A c \in Conns, s \in Sids : Est(c, s) =>
    /\ sess[s].established
    /\ IF sess[s].guest
         THEN chan[c][s].who = Guest /\ \A d \in Conns \ {c} : ~Est(d, s)
         ELSE chan[c][s].who = sess[s].user

\* With `encrypt = true' every established channel seals, whichever of the five
\* ways it was set up.
SealedAlways ==
  config.encrypt => \A c \in Conns, s \in Sids : Est(c, s) => chan[c][s].encrypt

\* Without multichannel, the session of an established channel is always there:
\* no request of a logged-on client is told USER_SESSION_DELETED.
SingleChannelAlive ==
  ~config.multichannel => \A c \in Conns, s \in Sids : Est(c, s) => s \in registry

\* The comment on logoff: "drop this connection's channel; tear down the shared
\* session when its last channel goes away".  A session with an established channel
\* is not torn down.
TornDownWithLastChannel ==
  \A c \in Conns, s \in Sids : Est(c, s) => s \in registry
=============================================================================
