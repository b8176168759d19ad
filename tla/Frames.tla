-------------------------------- MODULE Frames --------------------------------
(***************************************************************************)
(* What one connection does with frames: sealed and plain frames,          *)
(* compounds with related members, the checks a member passes before it is *)
(* served, and how each reply, change notification and lease break is      *)
(* protected.  A frame is processed by the worker that owns the            *)
(* connection; notifications and breaks leave between frames.  Message     *)
(* ids and credits are in MsgWindow, the session registry in Sessions; an  *)
(* error reply and a result are told apart, their contents are not.        *)
(***************************************************************************)
EXTENDS Integers, Sequences, FiniteSets

CONSTANTS
  MaxSids,      \* bound: session ids the registry gives out; it numbers them
  None,
  MaxMembers,   \* bound: members of a compound
  MaxFrames,    \* bound: frames
  MaxPushes     \* bound: notifications and breaks sent

ASSUME FrameAssumption ==
  /\ MaxSids \in Nat
  /\ MaxMembers \in Nat \ {0} /\ MaxFrames \in Nat /\ MaxPushes \in Nat

Sids == 1..MaxSids
NoSid == 0      \* the ids 0 and all ones in a header: no session of their own

VARIABLES
  conf,      \* `encrypt' and `oplocks' of the configuration, and whether a cipher was negotiated
  chan,      \* ProtoConn.channels: ChannelState of a session, or None
  frame,     \* the frame being processed, or None
  pends,     \* CHANGE_NOTIFYs that wait: session, want_sign, and (history) what the
             \* channel demanded then
  leases,    \* sessions that hold a lease granted on this connection
  closed,    \* the connection is torn down
  frames, pushes, keys,
  drawn,     \* how many session ids the registry has given out
  nonces,    \* history: the key and nonce of everything sealed
  served,    \* history: the member last served, or None
  sent       \* history: what the last frame or push put on the wire

framevars == <<conf, chan, frame, pends, leases, closed, frames, pushes, keys, drawn, nonces, served, sent>>

\* A key is named after the session and the setup that derived it, from a preauth
\* hash of its own.
Established(req, key, user) ==
  [est |-> TRUE, req |-> req /\ user, sign |-> IF user THEN key ELSE None,
   enc |-> IF user /\ conf.cipher THEN [key |-> key, ctr |-> 0] ELSE None,
   encrypt |-> user /\ conf.encrypt]

Pending == [est |-> FALSE, req |-> FALSE, sign |-> None, enc |-> None, encrypt |-> FALSE]

Chan(s) == IF s \in Sids THEN chan[s] ELSE None
Encrypting(s) == Chan(s) # None /\ Chan(s).encrypt

\* History: what the channel asks of a message for it.
Demands(s) == IF Chan(s) = None THEN None
              ELSE [key |-> Chan(s).sign, req |-> Chan(s).req, encrypt |-> Chan(s).encrypt]

------------------------------------------------------------------------------
(* Requests *)

SetupCmds == {"negotiate_token", "authenticate", "one_leg"}
Exempt == SetupCmds \cup {"cancel"}

\* A header: its session id, whether it is related, and its signature; and what the
\* client wants of a SESSION_SETUP: the session it begins, how it ends, and whether
\* the client requires signing.
Headers ==
  [cmd : {"replayed", "negotiate", "echo", "cancel", "logoff", "read", "create", "notify"},
   sid : Sids \cup {NoSid}, related : BOOLEAN, signed : {"no", "good", "bad"},
   new : {None}, outcome : {None}, req : {FALSE}]
  \cup
  [cmd : SetupCmds, sid : Sids \cup {NoSid}, related : BOOLEAN, signed : {"no"},
   new : Sids, outcome : {"user", "guest", "reject"}, req : BOOLEAN]

\* Only the fields a command reads vary (a related member that names a session is taken
\* like one that is not related), and each way to be refused has one command or two to
\* show it.
Members ==
  {m \in Headers :
     /\ m.related => m.sid = NoSid
     /\ m.cmd = "negotiate_token" => m.outcome = "reject" /\ ~m.req
     /\ m.cmd = "authenticate" \/ (m.cmd = "one_leg" /\ m.outcome = "reject") => m.new = CHOOSE s \in Sids : TRUE
     /\ m.cmd = "one_leg" => ~m.related
     /\ m.outcome \in {"guest", "reject"} => ~m.req
     /\ m.signed = "bad" => m.cmd \in {"read", "cancel", "logoff"}
     /\ m.cmd \in {"replayed", "negotiate"} => m.sid = NoSid /\ ~m.related /\ m.signed = "no"}

\* The session a member is for: a related member without one of its own takes the
\* session of the members before it.
Effective(m) == IF m.related /\ m.sid = NoSid THEN frame.sid ELSE m.sid

\* A sealed compound may only carry its own session's requests.
Foreign(s) == frame.seal # None /\ s # frame.seal

\* Mutant: an encrypting channel takes signed requests too.
Denied_Signed(m, s) ==
  /\ Chan(s) # None /\ frame.seal = None
  /\ Chan(s).sign # None
  /\ m.signed = "bad" \/ (m.signed = "no" /\ Chan(s).req /\ m.cmd \notin Exempt)

\* An encrypting channel takes nothing in plaintext but SESSION_SETUP; a signature
\* has to verify, and a channel that requires them wants one on every request but
\* SESSION_SETUP and CANCEL.
Denied(m, s) ==
  /\ Chan(s) # None /\ frame.seal = None
  /\ \/ Chan(s).encrypt /\ m.cmd \notin SetupCmds
     \/ /\ Chan(s).sign # None
        /\ m.signed = "bad" \/ (m.signed = "no" /\ Chan(s).req /\ m.cmd \notin Exempt)

------------------------------------------------------------------------------
(* process_frame: before the members *)

NewFrame(seal, many) ==
  [seal |-> seal, many |-> many, sid |-> NoSid, n |-> 0, recs |-> {}, plan |-> FALSE, close |-> FALSE,
   enc |-> IF seal = None THEN None ELSE chan[seal].enc]

\* A frame arrives: plain, or sealed under a session whose key this connection has;
\* the channel of a sealed frame encrypts from then on.
BeginFrame(seal, many) ==
  /\ ~closed /\ frame = None /\ frames < MaxFrames
  /\ seal # None => chan[seal] # None /\ chan[seal].enc # None
  /\ frame' = NewFrame(seal, many)
  /\ chan' = IF seal = None THEN chan ELSE [chan EXCEPT ![seal].encrypt = TRUE]
  /\ frames' = frames + 1
  /\ served' = None /\ sent' = {}
  /\ UNCHANGED <<conf, pends, leases, closed, pushes, keys, drawn, nonces>>

\* A sealed frame that cannot be opened: no key, or it does not decrypt.
BadTransform ==
  /\ ~closed /\ frame = None /\ frames < MaxFrames
  /\ closed' = TRUE /\ frames' = frames + 1
  /\ served' = None /\ sent' = {}
  /\ UNCHANGED <<conf, chan, frame, pends, leases, pushes, keys, drawn, nonces>>

------------------------------------------------------------------------------
(* process_plain's loop and dispatch: one member *)

\* A reply is buffered: for which session, for a LOGOFF the signing key taken before
\* the channel goes, and for a result (not a refusal, nor a SESSION_SETUP reply) what
\* the channel demands.
LogoffSign(m) ==
  LET s == IF m.sid # NoSid THEN m.sid ELSE frame.sid
  IN  IF m.cmd = "logoff" /\ Chan(s) # None THEN Chan(s).sign ELSE None

Reply(m, s, result) ==
  [frame EXCEPT !.sid = s, !.n = @ + 1,
                !.recs = @ \cup {[logoff |-> m.cmd = "logoff", sid |-> s, sign |-> LogoffSign(m),
                                under |-> IF result THEN Demands(s) ELSE None]}]

Silent(s) == [frame EXCEPT !.sid = s, !.n = @ + 1]

\* A member that marks the connection for closing: a used MessageId (found before the
\* session is looked at), a second NEGOTIATE, or a request for another session than the
\* one that sealed the frame. The loop goes on to the next member.
Violation(m) ==
  /\ m.cmd \in {"replayed", "negotiate"} \/ Foreign(Effective(m))
  /\ frame' = [Silent(IF m.cmd = "replayed" THEN frame.sid ELSE Effective(m)) EXCEPT !.close = TRUE]
  /\ UNCHANGED <<chan, pends, leases, keys, drawn>>
  /\ served' = None

\* It fails the checks: ACCESS_DENIED.
RefuseMember(m) ==
  /\ Denied(m, Effective(m))
  /\ frame' = Reply(m, Effective(m), FALSE)
  /\ UNCHANGED <<chan, pends, leases, keys, drawn>>
  /\ served' = None

\* A leg that answers MORE_PROCESSING_REQUIRED: a fresh session or a binding.
InterimSetup(m) ==
  /\ m.cmd = "negotiate_token"
  /\ m.new <= drawn + 1
  /\ chan[m.new] # None => ~chan[m.new].est
  /\ chan' = [chan EXCEPT ![m.new] = Pending]
  /\ frame' = Reply(m, m.new, FALSE)
  /\ drawn' = IF m.new > drawn THEN m.new ELSE drawn
  /\ UNCHANGED <<pends, leases, keys>>
  /\ served' = None

Finish(m, s) ==
  /\ m.outcome = "user" /\ conf.encrypt => conf.cipher
  /\ m.outcome = "guest" => ~conf.encrypt
  /\ keys' = keys + 1
  /\ chan' = [chan EXCEPT ![s] = IF m.outcome = "reject" THEN None
                                 ELSE Established(m.req, <<s, keys'>>, m.outcome = "user")]
  /\ frame' = Reply(m, s, FALSE)

\* The AUTHENTICATE leg of the session the header names; on an established channel
\* it is acknowledged and changes nothing.
FinalSetup(m) ==
  /\ m.cmd = "authenticate"
  /\ \/ Chan(m.sid) = None /\ frame' = Reply(m, m.sid, FALSE) /\ UNCHANGED <<chan, keys>>
     \/ Chan(m.sid) # None /\ chan[m.sid].est /\ frame' = Reply(m, m.sid, FALSE) /\ UNCHANGED <<chan, keys>>
     \/ Chan(m.sid) # None /\ ~chan[m.sid].est /\ Finish(m, m.sid)
  /\ UNCHANGED <<pends, leases, drawn>>
  /\ served' = None

\* A SESSION_SETUP that needs one leg: it begins a session only if it is let in.
OneLegSetup(m) ==
  /\ m.cmd = "one_leg"
  /\ \/ /\ m.outcome = "reject"
        /\ frame' = Reply(m, Effective(m), FALSE) /\ UNCHANGED <<chan, keys, drawn>>
     \/ /\ m.outcome # "reject"
        /\ m.new = drawn + 1 /\ drawn' = m.new
        /\ Finish(m, m.new)
  /\ UNCHANGED <<pends, leases>>
  /\ served' = None

\* ECHO and CANCEL need no session; an operation a CANCEL ends is a push.
Sessionless(m) ==
  /\ m.cmd \in {"echo", "cancel"}
  /\ frame' = IF m.cmd = "echo" THEN Reply(m, Effective(m), TRUE) ELSE Silent(Effective(m))
  /\ UNCHANGED <<chan, pends, leases, keys, drawn>>
  /\ served' = None

\* History: on whose authority a member is served.
Authority(m, s) == [sid |-> s, signed |-> m.signed, seal |-> frame.seal, under |-> Demands(s)]

\* Mutant: the reply of a LOGOFF is signed with what is left after it.
Logoff_Late(m) ==
  LET s == Effective(m)
  IN  /\ m.cmd = "logoff"
      /\ IF Chan(s) # None /\ Chan(s).est
         THEN /\ chan' = [chan EXCEPT ![s] = None]
              /\ frame' = [Silent(s) EXCEPT !.recs = @ \cup {[logoff |-> TRUE, sid |-> s, sign |-> None, under |-> Demands(s)]}]
              /\ served' = Authority(m, s)
         ELSE /\ UNCHANGED chan /\ frame' = Reply(m, s, FALSE)
              /\ served' = None
      /\ UNCHANGED <<pends, leases, keys, drawn>>

\* LOGOFF drops the channel.
Logoff(m) ==
  LET s == Effective(m)
  IN  /\ m.cmd = "logoff"
      /\ IF Chan(s) # None /\ Chan(s).est
         THEN /\ chan' = [chan EXCEPT ![s] = None]
              /\ frame' = Reply(m, s, TRUE)
              /\ served' = Authority(m, s)
         ELSE /\ UNCHANGED chan /\ frame' = Reply(m, s, FALSE)
              /\ served' = None
      /\ UNCHANGED <<pends, leases, keys, drawn>>

\* A large READ alone in its frame is spliced unless its response is signed or sealed.
Spliced(m, s) ==
  /\ ~frame.many
  /\ ~(chan[s].encrypt \/ (chan[s].sign # None /\ (chan[s].req \/ m.signed # "no")))

\* A lease is granted if the server grants any, unless the channel of the header's session
\* id encrypts.
LeaseAllowed(m) == conf.oplocks /\ ~Encrypting(m.sid)

\* Any other request, on an established channel; a CREATE that asks for no lease stands
\* for the ones that are not named.
Serve(m) ==
  LET s == Effective(m)
  IN  /\ m.cmd \in {"read", "create", "notify"}
      /\ IF Chan(s) = None \/ ~Chan(s).est
         THEN frame' = Reply(m, s, FALSE) /\ served' = None /\ UNCHANGED <<pends, leases>>
         ELSE /\ frame' = IF m.cmd = "read" /\ Spliced(m, s) THEN [Silent(s) EXCEPT !.plan = TRUE]
                          ELSE Reply(m, s, TRUE)
              /\ served' = Authority(m, s)
              /\ leases' = IF m.cmd = "create" /\ LeaseAllowed(m) THEN leases \cup {s} ELSE leases
              /\ pends' = IF m.cmd = "notify"
                          THEN pends \cup {[sid |-> s, under |-> Demands(s),
                                            sign |-> chan[s].sign # None /\ (chan[s].req \/ m.signed # "no")]}
                          ELSE pends
      /\ UNCHANGED <<chan, keys, drawn>>

Member(m) ==
  /\ frame.n < (IF frame.many THEN MaxMembers ELSE 1)
  /\ \/ Violation(m)
     \/ /\ m.cmd \notin {"replayed", "negotiate"} /\ ~Foreign(Effective(m))
        /\ \/ RefuseMember(m)
           \/ /\ ~Denied(m, Effective(m))
              /\ InterimSetup(m) \/ FinalSetup(m) \/ OneLegSetup(m) \/ Sessionless(m) \/ Logoff(m) \/ Serve(m)
  /\ sent' = {}
  /\ UNCHANGED <<conf, closed, frames, pushes, nonces>>

------------------------------------------------------------------------------
(* process_plain's post-pass, and process_frame's sealing *)

\* History: a later member of the frame logged off the session of this reply.
Orphaned(r) == ~r.logoff /\ Chan(r.sid) = None

Clear(r) == [kind |-> IF Orphaned(r) THEN "orphan" ELSE "reply", key |-> None, nonce |-> None, under |-> r.under]

\* A signing key the channel has now, or the one a LOGOFF kept.
Sign(r) ==
  [Clear(r) EXCEPT !.key = IF Chan(r.sid) # None /\ Chan(r.sid).sign # None THEN Chan(r.sid).sign ELSE r.sign]

\* wrap_transform: the counter goes up, and its value is the nonce.
Seal(r, enc) == [Clear(r) EXCEPT !.key = enc.key, !.nonce = enc.ctr + 1]

Complete == frame.n = (IF frame.many THEN MaxMembers ELSE 1)

\* Mutant: the counter of the channel stays.
EndSealed_Forgets ==
  LET s == frame.seal
      enc == IF chan[s] # None /\ chan[s].enc # None THEN chan[s].enc ELSE frame.enc
  IN  /\ sent' = {Seal(r, enc) : r \in frame.recs}
      /\ nonces' = IF frame.recs = {} THEN nonces ELSE nonces \cup {<<enc.key, enc.ctr + 1>>}
      /\ UNCHANGED chan

\* The replies to a sealed frame go out in one transform, under the keys the request
\* came under even when it removed the channel; the counter is kept with the channel
\* if it still has those keys.
EndSealed ==
  LET s == frame.seal
      enc == IF chan[s] # None /\ chan[s].enc # None THEN chan[s].enc ELSE frame.enc
  IN  IF frame.recs = {} THEN sent' = {} /\ UNCHANGED <<nonces, chan>>
      ELSE /\ sent' = {Seal(r, enc) : r \in frame.recs}
           /\ nonces' = nonces \cup {<<enc.key, enc.ctr + 1>>}
           /\ chan' = IF chan[s] # None /\ chan[s].enc # None /\ chan[s].enc.key = enc.key
                      THEN [chan EXCEPT ![s].enc.ctr = enc.ctr + 1] ELSE chan

\* A violation sends nothing; a plan is one spliced reply; plain replies are signed.
FinishFrame ==
  /\ frame # None /\ Complete
  /\ frame' = None
  /\ closed' = frame.close
  /\ \/ /\ frame.close
        /\ sent' = {} /\ UNCHANGED <<nonces, chan>>
     \/ /\ ~frame.close /\ frame.plan
        /\ sent' = {Clear([logoff |-> FALSE, sid |-> frame.sid, under |-> Demands(frame.sid)])} /\ UNCHANGED <<nonces, chan>>
     \/ /\ ~frame.close /\ ~frame.plan /\ frame.seal # None
        /\ EndSealed
     \/ /\ ~frame.close /\ ~frame.plan /\ frame.seal = None
        /\ sent' = {Sign(r) : r \in frame.recs} /\ UNCHANGED <<nonces, chan>>
  /\ served' = None
  /\ UNCHANGED <<conf, pends, leases, frames, pushes, keys, drawn>>

------------------------------------------------------------------------------
(* Between frames: the reactor's pushes *)

Push == ~closed /\ frame = None /\ pushes < MaxPushes /\ pushes' = pushes + 1

\* History: the channel that pended the request has been logged off (and may have been
\* set up again, under another key).
Late(p) == chan[p.sid] = None \/ chan[p.sid].sign # p.under.key

\* History: what is demanded of the final: what the channel demands by now, since it may
\* encrypt only since the request was pended, or what it demanded of the request.
Pended(p) == IF Late(p) THEN p.under ELSE Demands(p.sid)

\* build_notify_final: signed if the request was or had to be, and sealed on an
\* encrypting channel.
NotifyFinal(p) ==
  LET ch == chan[p.sid]
      sealed == ch # None /\ ch.encrypt /\ ch.enc # None
  IN  /\ Push
      /\ p \in pends /\ pends' = pends \ {p}
      /\ sent' = {[kind |-> IF Late(p) THEN "late" ELSE "notify", under |-> Pended(p),
                    key |-> IF sealed THEN ch.enc.key ELSE IF p.sign /\ ch # None THEN ch.sign ELSE None,
                    nonce |-> IF sealed THEN ch.enc.ctr + 1 ELSE None]}
      /\ nonces' = IF sealed THEN nonces \cup {<<ch.enc.key, ch.enc.ctr + 1>>} ELSE nonces
      /\ chan' = IF sealed THEN [chan EXCEPT ![p.sid].enc.ctr = @ + 1] ELSE chan
      /\ served' = None
      /\ UNCHANGED <<conf, frame, leases, closed, frames, keys, drawn>>

\* deliver_break and build_lease_break: signed if the channel has a key.
LeaseBreak(s) ==
  /\ Push
  /\ s \in leases /\ leases' = leases \ {s}
  /\ sent' = {[kind |-> "break", under |-> Demands(s),
                key |-> IF chan[s] # None THEN chan[s].sign ELSE None, nonce |-> None]}
  /\ served' = None
  /\ UNCHANGED <<conf, chan, frame, pends, closed, frames, keys, drawn, nonces>>

------------------------------------------------------------------------------

\* Sessions may have been set up before, the users' before the guests'.
FrameInit ==
  /\ conf \in [encrypt : BOOLEAN, cipher : BOOLEAN, oplocks : BOOLEAN]
  /\ conf.encrypt => conf.cipher
  /\ drawn \in 0..MaxSids /\ keys = 0
  /\ \E users \in 0..drawn, req \in BOOLEAN :
       /\ conf.encrypt => users = drawn
       /\ chan = [s \in Sids |-> IF s <= drawn THEN Established(req, <<s, 0>>, s <= users) ELSE None]
  /\ frame = None
  /\ pends = {} /\ leases = {}
  /\ closed = FALSE
  /\ frames = 0 /\ pushes = 0
  /\ nonces = {} /\ served = None /\ sent = {}

FrameNext ==
  \/ \E seal \in Sids \cup {None}, many \in BOOLEAN : BeginFrame(seal, many)
  \/ BadTransform
  \/ frame # None /\ \E m \in Members : Member(m)
  \/ FinishFrame
  \/ \E p \in pends : NotifyFinal(p)
  \/ \E s \in Sids : LeaseBreak(s)

FrameSpec == FrameInit /\ [][FrameNext]_framevars

------------------------------------------------------------------------------
(* Properties *)

\* No key seals two messages with the same nonce: replies and notifications of a
\* channel draw from one counter, also across a LOGOFF and a new binding
\* (EncCtx.nonce_ctr, "never reused for a given key").
NonceFresh ==
  [][\A m \in sent' : m.nonce # None => <<m.key, m.nonce>> \notin nonces]_framevars

\* A request is served for a session only on that session's authority: one that came
\* sealed came under the key of the same session, an encrypting channel serves only
\* those, and a channel that requires signing serves a plain one only if its signature
\* verifies; also for a related member that takes its session from the one before
\* (dispatch).
ServedAuthentic ==
  served # None =>
    /\ served.seal \in {None, served.sid}
    /\ served.under.encrypt => served.seal = served.sid
    /\ served.under.req => served.seal = served.sid \/ served.signed = "good"

\* A result leaves sealed under the channel's key if the channel encrypted when the
\* request was served, and signed or sealed under it if the channel requires signing:
\* the replies of a compound, the reply of a LOGOFF that removed the channel, a READ
\* that could have been spliced, and the final of a CHANGE_NOTIFY while its channel is
\* there, also if the channel encrypts only since the request was pended (process_plain,
\* process_frame, read, build_notify_final).  The two exceptions are what a LOGOFF leaves
\* behind, for the code finds no key any more: the replies to plain members that stand
\* before the LOGOFF of their session in one compound leave unsigned ("orphan"), and the
\* final of a CHANGE_NOTIFY that the LOGOFF left pending leaves as plain text if its
\* channel encrypted, and unsigned ("late"), although the comment in build_notify_final
\* reads "On an encrypting channel the completion goes out sealed, like every other
\* response there".
ResultsProtected ==
  \A m \in sent :
    m.kind \notin {"break", "late"} /\ m.under # None =>
      /\ m.under.encrypt => m.key = m.under.key /\ m.nonce # None
      /\ m.under.req => m.key = m.under.key \/ m.kind = "orphan"

\* No lease break leaves unsealed on an encrypting channel: "Only grant oplocks on
\* non-encrypted sessions" (dispatch), "Lease breaks avoid this only because leases
\* aren't granted on encrypted sessions" (docs/SECURITY-REVIEW.md).
BreaksSealed ==
  \A m \in sent : m.kind = "break" /\ m.under # None /\ m.under.encrypt => m.nonce # None
==============================================================================
