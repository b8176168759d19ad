------------------------------ MODULE MsgWindow ------------------------------
(***************************************************************************)
(* The front of dispatch() on one connection: the MessageId replay window  *)
(* (consume_msg_ids), the credit window, and how a compound frame whose    *)
(* member breaks the rules ends in a disconnect (process_plain).           *)
(* The client here is arbitrary: any id, any charge, any credit request.   *)
(* CreditFlow puts a client that follows the protocol in front of it.      *)
(***************************************************************************)
EXTENDS Integers, FiniteSets

CONSTANTS
  U64_MAX,        \* the largest MessageId (u64::MAX)
  MSG_WINDOW,     \* how far past msg_low a request may reach
  MSG_SEEN_MAX,   \* ids remembered above a gap before the gap is given up
  CREDIT_WINDOW,  \* credits a connection may hold
  MAX_COMPOUND,   \* members one frame may carry
  Charges,        \* CreditCharge values a header may carry
  CreditReqs      \* CreditRequest values a header may carry

ASSUME WindowAssumption ==
  /\ U64_MAX \in Nat
  /\ MSG_WINDOW \in Nat \ {0}
  /\ MSG_SEEN_MAX \in Nat
  /\ CREDIT_WINDOW \in Nat \ {0}
  /\ MAX_COMPOUND \in Nat \ {0}
  /\ Charges \subseteq Nat
  /\ CreditReqs \subseteq Nat

Ids == 0..U64_MAX

VARIABLES
  msg_low,      \* ProtoConn.msg_low: every id below it counts as used
  msg_seen,     \* ProtoConn.msg_seen: used ids at or above msg_low
  credits_out,  \* ProtoConn.credits_out
  close,        \* ProtoConn.close: a violation was met in this frame
  members,      \* members of the current frame processed so far
  open,         \* the connection is up
  executed      \* history: how often a request carrying this id got past
                \* consume_msg_ids

winvars == <<msg_low, msg_seen, credits_out, close, members, open>>
vars == <<winvars, executed>>

MaxOf(a, b) == IF a >= b THEN a ELSE b
MinOf(a, b) == IF a <= b THEN a ELSE b

\* The ids a request uses: CreditCharge of them, at least one.
IdRange(id, charge) == id..(id + MaxOf(charge, 1) - 1)

------------------------------------------------------------------------------
(* consume_msg_ids *)

\* Mutant: the remembered ids are not consulted.
Consumable_NoSeen(id, charge) ==
  /\ id >= msg_low
  /\ id + MaxOf(charge, 1) <= MinOf(msg_low + MSG_WINDOW, U64_MAX)

\* Mutant: no upper edge of the window.
Consumable_NoWindow(id, charge) ==
  /\ id >= msg_low
  /\ id + MaxOf(charge, 1) <= U64_MAX
  /\ IdRange(id, charge) \cap msg_seen = {}

\* Mutant: only the next id is taken.
Consumable_InOrder(id, charge) ==
  /\ id = msg_low
  /\ id + MaxOf(charge, 1) <= MinOf(msg_low + MSG_WINDOW, U64_MAX)

\* None of the early returns is taken: no u64 overflow of the end, not below
\* the window, not beyond it (saturating), none of the ids remembered.
Consumable(id, charge) ==
  LET end == id + MaxOf(charge, 1)
  IN /\ end <= U64_MAX
     /\ id >= msg_low
     /\ end <= MinOf(msg_low + MSG_WINDOW, U64_MAX)
     /\ IdRange(id, charge) \cap msg_seen = {}

\* Mutant: the gap is given up one id too early.
Stop_Early(l, S) ==
  /\ l \notin S
  /\ Cardinality({s \in S : s > l}) < MSG_SEEN_MAX

\* Where the closing loop stops: msg_low has moved past every remembered id it
\* touches, and past gaps while more than MSG_SEEN_MAX ids lie above them. l is
\* such a stop when it is not itself remembered and few enough ids lie above it.
Stop(l, S) ==
  /\ l \notin S
  /\ Cardinality({s \in S : s > l}) <= MSG_SEEN_MAX

\* The loop moves msg_low up to the first stop at or above it and forgets the
\* ids it passed.
Settle(low, S) ==
  \E l \in low..U64_MAX :
    /\ Stop(l, S)
    /\ \A k \in Ids : low <= k /\ k < l => ~Stop(k, S)
    /\ msg_low' = l
    /\ msg_seen' = {s \in S : s > l}

ConsumeMsgIds(id, charge) ==
  /\ Consumable(id, charge)
  /\ Settle(msg_low, msg_seen \cup IdRange(id, charge))

------------------------------------------------------------------------------
(* dispatch, up to the command *)

\* Mutant: a charge of 0 costs nothing.
AfterCharge_ZeroFree(charge) == MaxOf(credits_out - charge, 0)

\* What is left of the balance once the request's charge is taken.
AfterCharge(charge) == MaxOf(credits_out - MaxOf(charge, 1), 0)

\* The credits a response will carry: what was asked for, at least one, at most
\* what the window has left.
Grant(charge, want) ==
  LET avail == MaxOf(CREDIT_WINDOW - AfterCharge(charge), 1)
  IN MinOf(MaxOf(want, 1), avail)

Account(charge, want) ==
  credits_out' = AfterCharge(charge) + Grant(charge, want)

Executes(S) ==
  executed' = [i \in Ids |-> IF i \in S THEN executed[i] + 1 ELSE executed[i]]

\* A member is dispatched only while the frame is not over the member limit.
NextMember ==
  /\ open
  /\ members < MAX_COMPOUND
  /\ members' = members + 1

\* A request whose ids are fresh: they are consumed, credits change hands and
\* the command runs.
Accept(id, charge, want) ==
  /\ NextMember
  /\ ConsumeMsgIds(id, charge)
  /\ Account(charge, want)
  /\ Executes(IdRange(id, charge))
  /\ UNCHANGED <<close, open>>

\* A request whose ids are not: the command does not run and the connection is
\* marked for closing. The compound loop goes on to the next member.
Refuse(id, charge) ==
  /\ NextMember
  /\ ~Consumable(id, charge)
  /\ close' = TRUE
  /\ UNCHANGED <<msg_low, msg_seen, credits_out, open, executed>>

\* CANCEL names the id of the request it cancels: no id is consumed, but the
\* credit accounting that follows runs for it as for every command.
Cancel(charge, want) ==
  /\ NextMember
  /\ Account(charge, want)
  /\ UNCHANGED <<msg_low, msg_seen, close, open, executed>>

\* One member too many, or responses past COMPOUND_RESP_CAP (bytes are not
\* modelled: any later member may be the one): the rest of the frame is not read.
Oversized ==
  /\ open
  /\ members > 0
  /\ close' = TRUE
  /\ members' = MAX_COMPOUND
  /\ UNCHANGED <<msg_low, msg_seen, credits_out, open, executed>>

\* The frame ends: a marked connection is torn down, any other takes the next
\* frame.
EndFrame ==
  /\ open
  /\ members > 0
  /\ open' = ~close
  /\ members' = 0
  /\ UNCHANGED <<msg_low, msg_seen, credits_out, close, executed>>

------------------------------------------------------------------------------

Init ==
  /\ msg_low = 0
  /\ msg_seen = {}
  /\ credits_out = 0
  /\ close = FALSE
  /\ members = 0
  /\ open = TRUE
  /\ executed = [i \in Ids |-> 0]

Next ==
  \/ \E id \in Ids, charge \in Charges, want \in CreditReqs :
       Accept(id, charge, want)
  \/ \E id \in Ids, charge \in Charges : Refuse(id, charge)
  \/ \E charge \in Charges, want \in CreditReqs : Cancel(charge, want)
  \/ Oversized
  \/ EndFrame

Spec == Init /\ [][Next]_vars

------------------------------------------------------------------------------
(* Properties *)

\* Types; among them, the member counter of process_plain stays within its limit.
TypeOK ==
  /\ msg_low \in Ids
  /\ msg_seen \in SUBSET Ids
  /\ credits_out \in Int
  /\ close \in BOOLEAN
  /\ members \in 0..MAX_COMPOUND
  /\ open \in BOOLEAN
  /\ executed \in [Ids -> Nat]

\* No request runs twice under the same MessageId on a connection: dispatch
\* says "Each MessageId ... is used once per connection". It has to survive
\* every way the window forgets ids: the run above a gap being absorbed, and
\* the gap being given up.
NoReplay == \A i \in Ids : executed[i] <= 1

\* An id below the window that never ran was given up on, and that happens only
\* with more than MSG_SEEN_MAX used ids above it: consume_msg_ids never skips
\* an id the client could still be about to use for any other reason.
GapsGivenUpOnlyWhenFull ==
  \A i \in Ids : i < msg_low =>
    \/ executed[i] = 1
    \/ Cardinality({j \in Ids : j > i /\ executed[j] > 0}) > MSG_SEEN_MAX

\* What the server remembers of a connection's ids is bounded, whatever the
\* client sends (the comments on MSG_WINDOW and MSG_SEEN_MAX).
SeenBounded ==
  /\ Cardinality(msg_seen) <= MSG_SEEN_MAX
  /\ \A s \in msg_seen : msg_low < s /\ s < msg_low + MSG_WINDOW

\* The balance stays inside the window and, once a request has been answered,
\* never drops to zero: a client that waits for its grant can always go on.
CreditsInWindow ==
  /\ 0 <= credits_out /\ credits_out <= CREDIT_WINDOW
  /\ (\E i \in Ids : executed[i] > 0) => credits_out >= 1
=============================================================================
