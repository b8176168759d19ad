--------------------------- MODULE MsgWindowProofs ---------------------------
(***************************************************************************)
(* What MsgWindow promises, for every window size, credit window, member   *)
(* limit and whatever the client sends.                                    *)
(***************************************************************************)
EXTENDS MsgWindow, FiniteSetTheorems, TLAPS

\* The inductive invariant behind NoReplay: an id at or above msg_low ran, once,
\* exactly when it is remembered in msg_seen. Without the "exactly" an id could
\* be forgotten while still acceptable (replay) or remembered without having run.
WindowInv ==
  /\ TypeOK
  /\ NoReplay
  /\ \A s \in msg_seen : msg_low < s
  /\ \A i \in Ids : i >= msg_low => (i \in msg_seen <=> executed[i] = 1)

LEMMA BelowShifted ==
  ASSUME NEW s \in Int, NEW a \in Int, NEW b \in Int, NEW w \in Int,
         s < a + w, a <= b
  PROVE  s < b + w
  OBVIOUS

\* What one accepted request does to the window: the facts every proof about
\* Accept starts from.
LEMMA AcceptFacts ==
  ASSUME TypeOK,
         NEW id \in Ids, NEW charge \in Charges, NEW want \in CreditReqs,
         Accept(id, charge, want)
  PROVE  LET R == IdRange(id, charge)
             S == msg_seen \cup R
         IN /\ R \subseteq Ids
            /\ id \in R
            /\ \A i \in R : i >= msg_low /\ i < msg_low + MSG_WINDOW /\ i \notin msg_seen
            /\ msg_low' \in Ids /\ msg_low' >= msg_low
            /\ msg_low' \notin S
            /\ Cardinality({s \in S : s > msg_low'}) <= MSG_SEEN_MAX
            /\ \A k \in Ids : msg_low <= k /\ k < msg_low' => ~Stop(k, S)
            /\ msg_seen' = {s \in S : s > msg_low'}
            /\ executed' = [i \in Ids |-> IF i \in R THEN executed[i] + 1 ELSE executed[i]]
  <1> DEFINE R == IdRange(id, charge)
             S == msg_seen \cup R
  <1>1. charge \in Nat /\ id \in Nat /\ msg_low \in Nat /\ U64_MAX \in Nat /\ MSG_WINDOW \in Nat
    BY WindowAssumption DEF TypeOK, Ids
  <1>2. Consumable(id, charge) /\ Settle(msg_low, S)
    BY DEF Accept, ConsumeMsgIds
  <1>3. /\ id + MaxOf(charge, 1) <= U64_MAX
        /\ id >= msg_low
        /\ id + MaxOf(charge, 1) <= msg_low + MSG_WINDOW
        /\ R \cap msg_seen = {}
    BY <1>1, <1>2 DEF Consumable, MinOf, MaxOf
  <1>4. /\ R \subseteq Ids
        /\ id \in R
        /\ \A i \in R : i >= msg_low /\ i < msg_low + MSG_WINDOW /\ i \notin msg_seen
    BY <1>1, <1>3 DEF IdRange, MaxOf, Ids
  <1>5. PICK l \in msg_low..U64_MAX :
          /\ Stop(l, S)
          /\ \A k \in Ids : msg_low <= k /\ k < l => ~Stop(k, S)
          /\ msg_low' = l
          /\ msg_seen' = {s \in S : s > l}
    BY <1>2 DEF Settle
  <1>6. /\ msg_low' \in Ids /\ msg_low' >= msg_low
        /\ msg_low' \notin S
        /\ Cardinality({s \in S : s > msg_low'}) <= MSG_SEEN_MAX
        /\ \A k \in Ids : msg_low <= k /\ k < msg_low' => ~Stop(k, S)
        /\ msg_seen' = {s \in S : s > msg_low'}
    BY <1>1, <1>5 DEF Stop, Ids
  <1>7. executed' = [i \in Ids |-> IF i \in R THEN executed[i] + 1 ELSE executed[i]]
    BY DEF Accept, Executes
  <1> QED BY <1>4, <1>6, <1>7

LEMMA WindowInvInductive == WindowInv /\ [Next]_vars => WindowInv'
  <1> SUFFICES ASSUME WindowInv, [Next]_vars PROVE WindowInv'
    OBVIOUS
  <1> USE WindowAssumption
  <1>1. ASSUME NEW id \in Ids, NEW charge \in Charges, NEW want \in CreditReqs,
               Accept(id, charge, want)
        PROVE WindowInv'
    <2> DEFINE R == IdRange(id, charge)
               S == msg_seen \cup R
    <2>1. TypeOK BY DEF WindowInv
    <2>2. /\ R \subseteq Ids
          /\ \A i \in R : i >= msg_low /\ i \notin msg_seen
          /\ msg_low' \in Ids /\ msg_low' >= msg_low
          /\ msg_low' \notin S
          /\ msg_seen' = {s \in S : s > msg_low'}
          /\ executed' = [i \in Ids |-> IF i \in R THEN executed[i] + 1 ELSE executed[i]]
      BY <1>1, <2>1, AcceptFacts
    <2> HIDE DEF R
    <2>3. /\ credits_out' \in Int /\ members' \in 0..MAX_COMPOUND
          /\ close' \in BOOLEAN /\ open' \in BOOLEAN
      <3>1. members' \in 0..MAX_COMPOUND
        BY <1>1, <2>1 DEF Accept, NextMember, TypeOK
      <3>2. credits_out' \in Int
        BY <1>1, <2>1 DEF Accept, Account, AfterCharge, Grant, MaxOf, MinOf, TypeOK
      <3>3. close' \in BOOLEAN /\ open' \in BOOLEAN
        BY <1>1, <2>1, Zenon DEF Accept, TypeOK
      <3> QED BY <3>1, <3>2, <3>3
    <2>4. \A i \in R : executed[i] = 0
      BY <2>1, <2>2 DEF WindowInv, NoReplay, TypeOK
    <2>5. executed' \in [Ids -> Nat]
      BY <2>1, <2>2 DEF TypeOK
    <2>6. TypeOK'
      <3>1. msg_seen' \in SUBSET Ids
        BY <2>1, <2>2 DEF TypeOK
      <3> QED BY <2>2, <2>3, <2>5, <3>1 DEF TypeOK
    <2>7. NoReplay'
      BY <2>1, <2>2, <2>4 DEF WindowInv, NoReplay, TypeOK
    <2>8. \A s \in msg_seen' : msg_low' < s
      BY <2>1, <2>2 DEF TypeOK, Ids
    <2>9. ASSUME NEW i \in Ids, i >= msg_low'
          PROVE i \in msg_seen' <=> executed'[i] = 1
      <3>1. i >= msg_low
        BY <2>1, <2>2, <2>9 DEF TypeOK, Ids
      <3>2. i \in S <=> executed'[i] = 1
        BY <2>1, <2>2, <2>4, <3>1 DEF WindowInv, TypeOK
      <3>3. i \in msg_seen' <=> i \in S
        BY <2>1, <2>2, <2>9 DEF TypeOK, Ids
      <3> QED BY <3>2, <3>3
    <2> QED BY <2>6, <2>7, <2>8, <2>9 DEF WindowInv
  <1>2. ASSUME NEW id \in Ids, NEW charge \in Charges, Refuse(id, charge)
        PROVE WindowInv'
    BY <1>2 DEF Refuse, NextMember, WindowInv, TypeOK, NoReplay
  <1>3. ASSUME NEW charge \in Charges, NEW want \in CreditReqs, Cancel(charge, want)
        PROVE WindowInv'
    <2>1. credits_out' \in Int
      BY <1>3 DEF Cancel, Account, AfterCharge, Grant, MaxOf, MinOf, WindowInv, TypeOK
    <2>2. members' \in 0..MAX_COMPOUND
      BY <1>3 DEF Cancel, NextMember, WindowInv, TypeOK
    <2> QED BY <1>3, <2>1, <2>2 DEF Cancel, WindowInv, TypeOK, NoReplay
  <1>4. ASSUME Oversized PROVE WindowInv'
    BY <1>4 DEF Oversized, WindowInv, TypeOK, NoReplay
  <1>5. ASSUME EndFrame PROVE WindowInv'
    <2>1. members' \in 0..MAX_COMPOUND
      BY <1>5 DEF EndFrame
    <2> QED BY <1>5, <2>1, Zenon DEF EndFrame, WindowInv, TypeOK, NoReplay
  <1>6. ASSUME UNCHANGED vars PROVE WindowInv'
    BY <1>6 DEF vars, winvars, WindowInv, TypeOK, NoReplay
  <1> QED BY <1>1, <1>2, <1>3, <1>4, <1>5, <1>6 DEF Next

LEMMA WindowInvInit == Init => WindowInv
  <1> SUFFICES ASSUME Init PROVE WindowInv
    OBVIOUS
  <1>1. msg_low \in Ids /\ members \in 0..MAX_COMPOUND /\ credits_out \in Int
    BY WindowAssumption DEF Init, Ids
  <1>2. msg_seen \in SUBSET Ids /\ close \in BOOLEAN /\ open \in BOOLEAN
    BY Zenon DEF Init
  <1>3. executed \in [Ids -> Nat] /\ \A i \in Ids : executed[i] = 0
    BY DEF Init
  <1>4. msg_seen = {}
    BY DEF Init
  <1> QED BY <1>1, <1>2, <1>3, <1>4 DEF WindowInv, TypeOK, NoReplay

\* No MessageId runs twice on a connection, whatever ids and charges the client
\* sends (consume_msg_ids, dispatch): the state keeps its types and NoReplay
\* holds, for every window size and every bound on the ids remembered.
THEOREM ReplaySafety == Spec => [](TypeOK /\ NoReplay)
  <1>1. WindowInv => TypeOK /\ NoReplay BY DEF WindowInv
  <1> QED BY <1>1, WindowInvInit, WindowInvInductive, PTL DEF Spec

------------------------------------------------------------------------------
(* What the window remembers, and what it gives up. *)

LEMMA SeenBoundedInductive ==
  WindowInv /\ SeenBounded /\ [Next]_vars => SeenBounded'
  <1> SUFFICES ASSUME WindowInv, SeenBounded, [Next]_vars PROVE SeenBounded'
    OBVIOUS
  <1>1. TypeOK
    BY DEF WindowInv
  <1>2. ASSUME NEW id \in Ids, NEW charge \in Charges, NEW want \in CreditReqs,
               Accept(id, charge, want)
        PROVE SeenBounded'
    <2> DEFINE R == IdRange(id, charge)
               S == msg_seen \cup R
    <2>1. /\ R \subseteq Ids
          /\ \A i \in R : i < msg_low + MSG_WINDOW
          /\ msg_low' \in Ids /\ msg_low' >= msg_low
          /\ Cardinality({s \in S : s > msg_low'}) <= MSG_SEEN_MAX
          /\ msg_seen' = {s \in S : s > msg_low'}
      BY <1>1, <1>2, AcceptFacts
    <2> HIDE DEF R
    <2>2. Cardinality(msg_seen') <= MSG_SEEN_MAX
      BY <2>1
    <2>3. ASSUME NEW s \in Ids, s \in msg_seen'
          PROVE msg_low' < s /\ s < msg_low' + MSG_WINDOW
      <3>1. s \in S /\ s > msg_low'
        BY <1>1, <2>1, <2>3 DEF TypeOK
      <3>2. s < msg_low + MSG_WINDOW
        BY <2>1, <3>1 DEF SeenBounded
      <3>3. msg_low \in Int /\ MSG_WINDOW \in Int
        BY <1>1, WindowAssumption DEF TypeOK, Ids
      <3>4. msg_low' \in Int /\ s \in Int /\ msg_low <= msg_low'
        BY <2>1, <3>3 DEF Ids
      <3> QED BY <3>1, <3>2, <3>3, <3>4, BelowShifted
    <2>4. msg_seen' \subseteq Ids
      BY <1>1, <2>1 DEF TypeOK
    <2> QED BY <2>2, <2>3, <2>4 DEF SeenBounded
  <1>3. ASSUME UNCHANGED <<msg_low, msg_seen>>
        PROVE SeenBounded'
    BY <1>3 DEF SeenBounded
  <1> QED BY <1>2, <1>3 DEF Next, Refuse, Cancel, Oversized, EndFrame, vars, winvars

\* Whatever the client sends, the ids remembered for a connection number at most
\* MSG_SEEN_MAX and lie within MSG_WINDOW of msg_low (consume_msg_ids).
THEOREM MemoryBound == Spec => []SeenBounded
  <1>1. Init => SeenBounded
    BY FS_EmptySet, WindowAssumption DEF Init, SeenBounded
  <1> QED BY <1>1, WindowInvInit, WindowInvInductive, SeenBoundedInductive, PTL DEF Spec

LEMMA GapsInductive ==
  WindowInv /\ GapsGivenUpOnlyWhenFull /\ [Next]_vars => GapsGivenUpOnlyWhenFull'
  <1> SUFFICES ASSUME WindowInv, GapsGivenUpOnlyWhenFull, [Next]_vars
               PROVE GapsGivenUpOnlyWhenFull'
    OBVIOUS
  <1>1. TypeOK /\ WindowInv'
    BY WindowInvInductive DEF WindowInv
  <1> DEFINE Above(i) == {j \in Ids : j > i /\ executed[j] > 0}
  <1>2. ASSUME NEW id \in Ids, NEW charge \in Charges, NEW want \in CreditReqs,
               Accept(id, charge, want),
               NEW i \in Ids, i < msg_low', executed'[i] # 1
        PROVE Cardinality(Above(i)') > MSG_SEEN_MAX
    <2> DEFINE R == IdRange(id, charge)
               S == msg_seen \cup R
    <2>1. /\ R \subseteq Ids
          /\ \A k \in R : k >= msg_low /\ k \notin msg_seen
          /\ msg_low' \in Ids /\ msg_low' >= msg_low
          /\ \A k \in Ids : msg_low <= k /\ k < msg_low' => ~Stop(k, S)
          /\ executed' = [k \in Ids |-> IF k \in R THEN executed[k] + 1 ELSE executed[k]]
      BY <1>1, <1>2, AcceptFacts
    <2> HIDE DEF R
    <2>2. IsFiniteSet(Above(i)')
      <3>1. IsFiniteSet(Ids)
        BY FS_Interval, WindowAssumption DEF Ids
      <3> QED BY <3>1, FS_Subset
    <2>3. i \in Nat /\ MSG_SEEN_MAX \in Nat /\ U64_MAX \in Nat /\ msg_low \in 0..U64_MAX
      BY <1>1, WindowAssumption DEF TypeOK, Ids
    <2>4. \A k \in S : k \in Ids /\ executed'[k] > 0
      <3>1. \A k \in Ids : executed[k] \in Nat
        BY <1>1 DEF TypeOK
      <3>2. \A k \in msg_seen : k \in Ids /\ k >= msg_low /\ executed[k] = 1
        <4>1. msg_seen \subseteq Ids /\ \A k \in msg_seen : msg_low < k
          BY <1>1 DEF TypeOK, WindowInv
        <4>2. \A k \in msg_seen : k \in Ids /\ k >= msg_low
          BY <2>3, <4>1 DEF Ids
        <4> QED BY <4>2 DEF WindowInv
      <3>3. \A k \in msg_seen : executed'[k] = 1
        BY <2>1, <3>2
      <3>4. \A k \in R : executed'[k] > 0
        BY <2>1, <3>1
      <3> QED BY <2>1, <3>2, <3>3, <3>4
    <2>5. ASSUME NEW T, T \subseteq Above(i)', Cardinality(T) > MSG_SEEN_MAX
          PROVE Cardinality(Above(i)') > MSG_SEEN_MAX
      <3>1. Cardinality(T) <= Cardinality(Above(i)') /\ Cardinality(T) \in Nat /\ Cardinality(Above(i)') \in Nat
        BY <2>2, <2>5, FS_Subset, FS_CardinalityType
      <3> QED BY <2>3, <2>5, <3>1
    <2>6. CASE i < msg_low
      <3>1. executed[i] = executed'[i]
        BY <2>1, <2>3, <2>6
      <3>2. Cardinality(Above(i)) > MSG_SEEN_MAX
        BY <1>2, <2>3, <2>6, <3>1 DEF GapsGivenUpOnlyWhenFull
      <3>3. Above(i) \subseteq Above(i)'
        <4>1. \A j \in Ids : executed[j] > 0 => executed'[j] > 0
          BY <1>1, <2>1 DEF TypeOK
        <4> QED BY <4>1
      <3> QED BY <2>5, <3>2, <3>3
    <2>7. CASE i >= msg_low
      <3>1. ~Stop(i, S)
        <4>1. msg_low <= i
          BY <2>3, <2>7
        <4> QED BY <1>2, <2>1, <4>1
      <3>2. i \notin S
        <4>1. i \in msg_low..U64_MAX
          BY <2>3, <2>7 DEF Ids
        <4>2. i \in R => executed[i] = 0
          BY <1>1, <2>1, <2>3, <2>7 DEF WindowInv, TypeOK, NoReplay
        <4>3. i \in msg_seen => executed[i] = 1 /\ i \notin R
          BY <1>1, <2>1, <2>3, <2>7 DEF WindowInv
        <4> QED BY <1>2, <2>1, <2>3, <4>2, <4>3
      <3> DEFINE T == {s \in S : s > i}
      <3>3. ~(Cardinality(T) <= MSG_SEEN_MAX)
        BY <3>1, <3>2 DEF Stop
      <3>4. T \subseteq Above(i)'
        BY <2>4
      <3>5. Cardinality(T) \in Nat
        BY <2>2, <3>4, FS_Subset, FS_CardinalityType
      <3>6. Cardinality(T) > MSG_SEEN_MAX
        BY <2>3, <3>3, <3>5
      <3> QED BY <2>5, <3>4, <3>6
    <2> QED BY <2>3, <2>6, <2>7 DEF Ids
  <1>3. ASSUME UNCHANGED <<msg_low, executed>>
        PROVE GapsGivenUpOnlyWhenFull'
    BY <1>3 DEF GapsGivenUpOnlyWhenFull
  <1>4. ASSUME NEW id \in Ids, NEW charge \in Charges, NEW want \in CreditReqs,
               Accept(id, charge, want)
        PROVE GapsGivenUpOnlyWhenFull'
    BY <1>2, <1>4, Zenon DEF GapsGivenUpOnlyWhenFull
  <1> QED BY <1>3, <1>4 DEF Next, Refuse, Cancel, Oversized, EndFrame, vars, winvars

\* An id that never ran falls below the window only when more than MSG_SEEN_MAX
\* later ids did run: consume_msg_ids gives up on nothing else.
THEOREM GapSafety == Spec => []GapsGivenUpOnlyWhenFull
  <1>1. Init => GapsGivenUpOnlyWhenFull
    <2>1. \A i \in Ids : ~(i < 0)
      BY WindowAssumption DEF Ids
    <2> QED BY <2>1, Zenon DEF Init, GapsGivenUpOnlyWhenFull
  <1> QED BY <1>1, WindowInvInit, WindowInvInductive, GapsInductive, PTL DEF Spec

------------------------------------------------------------------------------
(* Credits. *)

LEMMA AccountFacts ==
  ASSUME NEW charge \in Nat, NEW want \in Nat,
         credits_out \in 0..CREDIT_WINDOW, Account(charge, want)
  PROVE  credits_out' \in 1..CREDIT_WINDOW
  <1>1. CREDIT_WINDOW \in Nat \ {0}
    BY WindowAssumption
  <1>2. AfterCharge(charge) \in 0..(CREDIT_WINDOW - 1)
    BY <1>1 DEF AfterCharge, MaxOf
  <1>3. Grant(charge, want) \in 1..(CREDIT_WINDOW - AfterCharge(charge))
    BY <1>1, <1>2 DEF Grant, MaxOf, MinOf
  <1> QED BY <1>1, <1>2, <1>3 DEF Account

\* A connection's balance never leaves the credit window, and after the first
\* request it is never zero, whatever charges and requests the client sends
\* (the accounting in dispatch).
THEOREM CreditSafety == Spec => []CreditsInWindow
  <1>1. Init => CreditsInWindow
    BY WindowAssumption DEF Init, CreditsInWindow
  <1>2. WindowInv /\ CreditsInWindow /\ [Next]_vars => CreditsInWindow'
    <2> SUFFICES ASSUME WindowInv, CreditsInWindow, [Next]_vars
                 PROVE CreditsInWindow'
      OBVIOUS
    <2>1. credits_out \in 0..CREDIT_WINDOW /\ Charges \subseteq Nat /\ CreditReqs \subseteq Nat
      BY WindowAssumption DEF CreditsInWindow, WindowInv, TypeOK
    <2>2. ASSUME credits_out' \in 1..CREDIT_WINDOW PROVE CreditsInWindow'
      BY <2>2, WindowAssumption DEF CreditsInWindow
    <2>3. ASSUME NEW id \in Ids, NEW charge \in Charges, NEW want \in CreditReqs,
                 Accept(id, charge, want)
          PROVE CreditsInWindow'
      BY <2>1, <2>2, <2>3, AccountFacts DEF Accept
    <2>4. ASSUME NEW charge \in Charges, NEW want \in CreditReqs, Cancel(charge, want)
          PROVE CreditsInWindow'
      BY <2>1, <2>2, <2>4, AccountFacts DEF Cancel
    <2>5. ASSUME UNCHANGED <<credits_out, executed>>
          PROVE CreditsInWindow'
      BY <2>5 DEF CreditsInWindow
    <2> QED BY <2>3, <2>4, <2>5 DEF Next, Refuse, Oversized, EndFrame, vars, winvars
  <1> QED BY <1>1, <1>2, WindowInvInit, WindowInvInductive, PTL DEF Spec
=============================================================================
