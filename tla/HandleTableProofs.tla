-------------------------- MODULE HandleTableProofs --------------------------
(***************************************************************************)
(* The slab implements OpenTable, for any number of opens, any largest     *)
(* generation and any trees and files.                                     *)
(***************************************************************************)
EXTENDS HandleTable, FiniteSetTheorems, SequenceTheorems, TLAPS

USE SMTT(30)

\* FreeExact of any table.
Exact(t) ==
    /\ Len(t.gens) = Len(t.slots)
    /\ Len(t.slots) <= MAX_OPENS
    /\ \A k \in 1 .. Len(t.free) : t.free[k] <= Len(t.slots) /\ t.slots[t.free[k]] = NoFile
    /\ \A k, l \in 1 .. Len(t.free) : t.free[k] = t.free[l] => k = l
    /\ \A i \in 1 .. Len(t.slots) : t.slots[i] = NoFile => \E k \in 1 .. Len(t.free) : t.free[k] = i

\* How many steps of NextGen lead from g to h, not counting none.
Distance(g, h) == IF g < h THEN h - g ELSE h - g + GEN_MAX

\* Since an id was retired its slot has been closed as often as its generation has
\* moved on from the id's, so that an id that is current again has rested GEN_MAX
\* closes. A slot that does not exist yet has retired nothing.
Aged ==
    \A g \in Gens, i \in Places :
        IF i <= Len(table.slots)
        THEN retired[<<g, i>>] # Never => closed[i] - retired[<<g, i>>] >= Distance(g, table.gens[i])
        ELSE retired[<<g, i>>] = Never

TableInv == TypeOK /\ FreeExact /\ Aged

LEMMA Shape ==
    ASSUME NEW t \in Tables
    PROVE  /\ t = [slots |-> t.slots, gens |-> t.gens, free |-> t.free]
           /\ t.slots \in Seq(OpenFile \cup {NoFile}) /\ t.gens \in Seq(Gens) /\ t.free \in Seq(Places)
           /\ Len(t.slots) \in Nat /\ Len(t.gens) \in Nat /\ Len(t.free) \in Nat
           /\ DOMAIN t.slots = 1 .. Len(t.slots) /\ DOMAIN t.gens = 1 .. Len(t.gens)
           /\ DOMAIN t.free = 1 .. Len(t.free)
           /\ \A k \in 1 .. Len(t.slots) : t.slots[k] \in OpenFile \cup {NoFile}
           /\ \A k \in 1 .. Len(t.gens) : t.gens[k] \in Gens
           /\ \A k \in 1 .. Len(t.free) : t.free[k] \in Places
<1>1. /\ t = [slots |-> t.slots, gens |-> t.gens, free |-> t.free]
      /\ t.slots \in Seq(OpenFile \cup {NoFile}) /\ t.gens \in Seq(Gens) /\ t.free \in Seq(Places)
  BY DEF Tables
<1> QED BY <1>1, LenProperties, ElementOfSeq

\* insert: the open goes into a slot that was empty or is new, and nothing else moves.
LEMMA InsertedFacts ==
    ASSUME NEW t \in Tables, Exact(t), NEW of \in OpenFile, HandleCount(t) < MAX_OPENS
    PROVE  LET u == Inserted(t, of)
               i == InsertSlot(t)
           IN  /\ u \in Tables /\ Exact(u)
               /\ i \in Places /\ i \in 1 .. Len(u.slots) /\ u.slots[i] = of /\ ~Live(t, i)
               /\ i > Len(t.slots) => u.gens[i] = 1
               /\ Len(t.slots) <= Len(u.slots)
               /\ \A j \in 1 .. Len(t.slots) : u.gens[j] = t.gens[j] /\ (j # i => u.slots[j] = t.slots[j])
               /\ \A j \in 1 .. Len(u.slots) : j # i => j \in 1 .. Len(t.slots)
<1> DEFINE u == Inserted(t, of)
           i == InsertSlot(t)
           n == Len(t.slots)
           m == Len(t.free)
<1>0. MAX_OPENS \in Nat \ {0} /\ GEN_MAX \in Nat \ {0} /\ NoFile \notin OpenFile
  BY TableAssumption DEF OpenFile
<1>1. n \in Nat /\ m \in Nat /\ Len(t.gens) = n /\ n <= MAX_OPENS
  BY Shape DEF Exact
<1>2. CASE t.free # <<>>
  <2>1. m \in 1 .. m /\ i = t.free[m]
    BY <1>1, <1>2, Shape, EmptySeq DEF InsertSlot
  <2>2. i \in 1 .. n /\ t.slots[i] = NoFile /\ i \in Places
    BY <2>1, <1>1, Shape DEF Exact, Places
  <2>3. u.slots = [t.slots EXCEPT ![i] = of] /\ u.gens = t.gens /\ u.free = SubSeq(t.free, 1, m - 1)
    BY <1>2 DEF Inserted
  <2>4. /\ u.slots \in Seq(OpenFile \cup {NoFile}) /\ Len(u.slots) = n
        /\ u.slots[i] = of /\ \A j \in 1 .. n : j # i => u.slots[j] = t.slots[j]
    BY <2>2, <2>3, Shape
  <2>5. /\ u.free \in Seq(Places) /\ Len(u.free) = m - 1
        /\ \A k \in 1 .. m - 1 : u.free[k] = t.free[k]
    <3>1. \A k \in 1 .. m - 1 : t.free[k] \in Places
      BY <1>1, Shape
    <3> QED BY <3>1, <2>1, <2>3, <1>1, SubSeqProperties
  <2>6. u \in Tables
    BY <2>3, <2>4, <2>5, <1>2, Shape DEF Tables, Inserted
  <2>7. Exact(u)
    <3>1. \A k \in 1 .. Len(u.free) : u.free[k] <= Len(u.slots) /\ u.slots[u.free[k]] = NoFile
      <4> SUFFICES ASSUME NEW k \in 1 .. m - 1
                   PROVE  u.free[k] <= n /\ u.slots[u.free[k]] = NoFile
        BY <2>4, <2>5
      <4>1. k \in 1 .. m /\ k # m /\ t.free[k] # i /\ t.free[k] \in 1 .. n /\ t.slots[t.free[k]] = NoFile
        BY <1>1, <2>1, Shape DEF Exact, Places
      <4> QED BY <4>1, <2>4, <2>5
    <3>2. \A k, l \in 1 .. Len(u.free) : u.free[k] = u.free[l] => k = l
      BY <2>5, <1>1 DEF Exact
    <3>3. \A j \in 1 .. Len(u.slots) : u.slots[j] = NoFile => \E k \in 1 .. Len(u.free) : u.free[k] = j
      <4> SUFFICES ASSUME NEW j \in 1 .. n, u.slots[j] = NoFile
                   PROVE  \E k \in 1 .. m - 1 : u.free[k] = j
        BY <2>4, <2>5
      <4>1. j # i /\ t.slots[j] = NoFile
        BY <1>0, <2>4
      <4>2. PICK k \in 1 .. m : t.free[k] = j
        BY <4>1 DEF Exact
      <4>3. k # m
        BY <4>1, <4>2, <2>1
      <4> QED BY <4>2, <4>3, <2>5, <1>1
    <3>4. Len(u.gens) = Len(u.slots) /\ Len(u.slots) <= MAX_OPENS
      BY <2>3, <2>4, <1>1
    <3> HIDE DEF u
    <3> QED BY <3>1, <3>2, <3>3, <3>4 DEF Exact
  <2> QED BY <1>1, <2>2, <2>3, <2>4, <2>6, <2>7 DEF Live
<1>3. CASE t.free = <<>>
  <2>1. i = n + 1 /\ m = 0
    BY <1>3 DEF InsertSlot
  <2>2. i \in Places
    BY <2>1, <1>0, <1>1 DEF HandleCount, Places
  <2>3. u.slots = Append(t.slots, of) /\ u.gens = Append(t.gens, 1) /\ u.free = t.free
    BY <1>3 DEF Inserted
  <2>4. /\ u.slots \in Seq(OpenFile \cup {NoFile}) /\ Len(u.slots) = n + 1
        /\ u.slots[n + 1] = of /\ \A j \in 1 .. n : u.slots[j] = t.slots[j]
    BY <2>3, Shape, AppendProperties
  <2>5. /\ u.gens \in Seq(Gens) /\ Len(u.gens) = n + 1
        /\ u.gens[n + 1] = 1 /\ \A j \in 1 .. n : u.gens[j] = t.gens[j]
    <3>1. 1 \in Gens
      BY <1>0 DEF Gens
    <3> QED BY <3>1, <2>3, <1>1, Shape, AppendProperties
  <2>6. u \in Tables
    BY <2>3, <2>4, <2>5, <1>3, Shape DEF Tables, Inserted
  <2>7. Exact(u)
    <3>1. \A j \in 1 .. n + 1 : u.slots[j] = NoFile => \E k \in 1 .. Len(u.free) : u.free[k] = j
      <4> SUFFICES ASSUME NEW j \in 1 .. n + 1, u.slots[j] = NoFile PROVE FALSE
        OBVIOUS
      <4>1. j \in 1 .. n /\ t.slots[j] = NoFile
        BY <1>0, <1>1, <2>4
      <4> QED BY <4>1, <2>1 DEF Exact
    <3> QED BY <3>1, <1>0, <1>1, <2>1, <2>2, <2>3, <2>4, <2>5 DEF Exact, Places
  <2> QED BY <1>1, <2>1, <2>2, <2>4, <2>5, <2>6, <2>7 DEF Live
<1> QED BY <1>2, <1>3

\* order lists the elements of S, each once.
Lists(order, S) ==
    /\ order \in Seq(S)
    /\ \A k, l \in 1 .. Len(order) : order[k] = order[l] => k = l
    /\ \A x \in S : \E k \in 1 .. Len(order) : order[k] = x

LEMMA ListsSet ==
    ASSUME NEW S, NEW order, Lists(order, S)
    PROVE  {order[k] : k \in 1 .. Len(order)} = S
<1>1. \A k \in 1 .. Len(order) : order[k] \in S
  BY ElementOfSeq DEF Lists
<1> QED BY <1>1 DEF Lists

LEMMA NextGenFacts ==
    ASSUME NEW g \in Gens
    PROVE  /\ NextGen(g) \in Gens
           /\ Distance(g, NextGen(g)) = 1
           /\ \A h \in Gens : h # g => Distance(h, NextGen(g)) = Distance(h, g) + 1
           /\ Distance(g, g) = GEN_MAX
  BY TableAssumption DEF NextGen, Gens, Distance

\* remove, for every slot listed: those slots are empty and a generation further, and
\* nothing else moves.
LEMMA VacatedFacts ==
    ASSUME NEW t \in Tables, Exact(t), NEW S \in SUBSET LiveSlots(t), NEW order, Lists(order, S)
    PROVE  LET u == Vacated(t, order)
           IN  /\ u \in Tables /\ Exact(u)
               /\ Len(u.slots) = Len(t.slots)
               /\ \A i \in 1 .. Len(t.slots) :
                     /\ u.slots[i] = IF i \in S THEN NoFile ELSE t.slots[i]
                     /\ u.gens[i] = IF i \in S THEN NextGen(t.gens[i]) ELSE t.gens[i]
<1> DEFINE u == Vacated(t, order)
           n == Len(t.slots)
           m == Len(t.free)
           d == Len(order)
<1>0. MAX_OPENS \in Nat \ {0} /\ NoFile \notin OpenFile
  BY TableAssumption DEF OpenFile
<1>1. n \in Nat /\ m \in Nat /\ d \in Nat /\ Len(t.gens) = n /\ n <= MAX_OPENS
  BY Shape, LenProperties DEF Exact, Lists
<1>2. \A i \in S : i \in 1 .. n /\ i \in Places /\ t.slots[i] # NoFile
  BY <1>0, <1>1 DEF LiveSlots, Live, Places
<1>3. \A k \in 1 .. d : order[k] \in S
  BY ElementOfSeq DEF Lists
<1>4. {order[k] : k \in 1 .. d} = S
  BY ListsSet
<1>5. /\ u.slots = [i \in 1 .. n |-> IF i \in S THEN NoFile ELSE t.slots[i]]
      /\ u.gens = [i \in 1 .. n |-> IF i \in S THEN NextGen(t.gens[i]) ELSE t.gens[i]]
      /\ u.free = t.free \o order
      /\ u = [slots |-> u.slots, gens |-> u.gens, free |-> u.free]
  BY <1>1, <1>4 DEF Vacated
<1>6. /\ u.slots \in Seq(OpenFile \cup {NoFile}) /\ Len(u.slots) = n
      /\ u.gens \in Seq(Gens) /\ Len(u.gens) = n
  <2>1. u.slots \in [1 .. n -> OpenFile \cup {NoFile}]
    BY <1>1, <1>5, Shape
  <2>2. u.gens \in [1 .. n -> Gens]
    BY <1>1, <1>5, Shape, NextGenFacts
  <2> QED BY <1>1, <2>1, <2>2
<1>7. /\ u.free \in Seq(Places) /\ Len(u.free) = m + d
      /\ \A k \in 1 .. m : u.free[k] = t.free[k]
      /\ \A k \in 1 .. d : u.free[m + k] = order[k]
  <2>1. order \in Seq(Places)
    BY <1>2, SeqMonotonic DEF Lists
  <2>2. /\ t.free \o order \in Seq(Places) /\ Len(t.free \o order) = m + d
        /\ \A k \in 1 .. m + d : (t.free \o order)[k] = IF k <= m THEN t.free[k] ELSE order[k - m]
    BY <2>1, Shape, ConcatProperties
  <2> QED BY <1>1, <1>5, <2>2
<1>8. u \in Tables
  <2> HIDE DEF u
  <2>1. [slots |-> u.slots, gens |-> u.gens, free |-> u.free] \in Tables
    BY <1>6, <1>7 DEF Tables
  <2> QED BY <1>5, <2>1, Zenon
<1>9. Exact(u)
  <2>1. ASSUME NEW k \in 1 .. m PROVE t.free[k] \in 1 .. n /\ t.slots[t.free[k]] = NoFile /\ t.free[k] \notin S
    BY <1>1, <1>2, Shape DEF Exact, Places
  <2>2. ASSUME NEW k \in 1 .. m + d
        PROVE  \/ k \in 1 .. m /\ u.free[k] = t.free[k]
               \/ k - m \in 1 .. d /\ u.free[k] = order[k - m] /\ order[k - m] \in S
    BY <1>1, <1>3, <1>7
  <2>3. \A k \in 1 .. m + d : u.free[k] <= n /\ u.slots[u.free[k]] = NoFile
    BY <1>1, <1>2, <1>5, <2>1, <2>2
  <2>4. ASSUME NEW k \in 1 .. m + d, NEW l \in 1 .. m + d, u.free[k] = u.free[l] PROVE k = l
    <3>1. CASE k \in 1 .. m /\ l \in 1 .. m
      BY <3>1, <2>4, <1>7 DEF Exact
    <3>2. CASE k \notin 1 .. m /\ l \notin 1 .. m
      <4>1. /\ k - m \in 1 .. d /\ u.free[k] = order[k - m]
            /\ l - m \in 1 .. d /\ u.free[l] = order[l - m]
        BY <3>2, <2>2
      <4>2. \A a, b \in 1 .. d : order[a] = order[b] => a = b
        BY DEF Lists
      <4>3. order[k - m] = order[l - m]
        BY <4>1, <2>4
      <4>4. k - m = l - m
        BY <4>1, <4>2, <4>3, Zenon
      <4> QED BY <4>4, <1>1
    <3>3. ASSUME NEW x \in 1 .. m + d PROVE x \in 1 .. m <=> u.free[x] \notin S
      <4>1. x \in 1 .. m => ~(x - m \in 1 .. d)
        BY <1>1
      <4>2. CASE x \in 1 .. m
        BY <4>1, <4>2, <2>1, <2>2, Zenon
      <4>3. CASE x \notin 1 .. m
        BY <4>3, <2>2, Zenon
      <4> QED BY <4>2, <4>3, Zenon
    <3> QED BY <3>1, <3>2, <3>3, <2>4
  <2>5. ASSUME NEW i \in 1 .. n, u.slots[i] = NoFile PROVE \E k \in 1 .. m + d : u.free[k] = i
    <3>1. CASE i \in S
      <4>1. PICK k \in 1 .. d : order[k] = i
        BY <3>1 DEF Lists
      <4>2. m + k \in 1 .. m + d /\ u.free[m + k] = i
        BY <4>1, <1>1, <1>7
      <4> QED BY <4>2
    <3>2. CASE i \notin S
      <4>1. PICK k \in 1 .. m : t.free[k] = i
        BY <3>2, <2>5, <1>5 DEF Exact
      <4> QED BY <4>1, <1>1, <1>7
    <3> QED BY <3>1, <3>2
  <2> HIDE DEF u
  <2>6. Len(u.gens) = Len(u.slots) /\ Len(u.slots) <= MAX_OPENS
    BY <1>1, <1>6
  <2>7. \A k \in 1 .. Len(u.free) : u.free[k] <= Len(u.slots) /\ u.slots[u.free[k]] = NoFile
    BY <1>6, <1>7, <2>3
  <2>8. \A k, l \in 1 .. Len(u.free) : u.free[k] = u.free[l] => k = l
    BY <1>7, <2>4
  <2>9. \A i \in 1 .. Len(u.slots) : u.slots[i] = NoFile => \E k \in 1 .. Len(u.free) : u.free[k] = i
    BY <1>6, <1>7, <2>5
  <2> QED BY <2>6, <2>7, <2>8, <2>9, Zenon DEF Exact
<1> QED BY <1>5, <1>6, <1>8, <1>9

LEMMA Pairs ==
    /\ \A id \in Ids : id = <<id[1], id[2]>> /\ id[1] \in Gens /\ id[2] \in Places
    /\ \A g \in Gens, i \in Places : <<g, i>> \in Ids /\ <<g, i>>[1] = g /\ <<g, i>>[2] = i
  BY DEF Ids

LEMMA TypeFacts ==
    ASSUME TableInv
    PROVE  /\ table \in Tables /\ Exact(table)
           /\ closed \in [Places -> Nat] /\ retired \in [Ids -> Nat \cup {Never}]
           /\ reply \in OpenFile \cup {NoFile}
           /\ Len(table.slots) \in Nat /\ Len(table.gens) = Len(table.slots) /\ Len(table.slots) <= MAX_OPENS
           /\ \A i \in 1 .. Len(table.slots) : i \in Places /\ table.gens[i] \in Gens
<1>1. /\ table \in Tables /\ Exact(table)
      /\ closed \in [Places -> Nat] /\ retired \in [Ids -> Nat \cup {Never}]
      /\ reply \in OpenFile \cup {NoFile}
  BY DEF TableInv, TypeOK, FreeExact, Exact
<1>2. MAX_OPENS \in Nat
  BY TableAssumption
<1> QED BY <1>1, <1>2, Shape DEF Exact, Places

\* What the refinement shows of an id, from its two halves.
LEMMA OpenedAt ==
    ASSUME NEW g \in Gens, NEW i \in Places
    PROVE  opened[<<g, i>>] = IF i \in 1 .. Len(table.slots) /\ table.slots[i] # NoFile /\ table.gens[i] = g
                              THEN table.slots[i] ELSE NoFile
  BY Pairs DEF opened, Slot, Live

LEMMA OpenedAtNext ==
    ASSUME NEW g \in Gens, NEW i \in Places
    PROVE  opened'[<<g, i>>] = IF i \in 1 .. Len(table'.slots) /\ table'.slots[i] # NoFile /\ table'.gens[i] = g
                               THEN table'.slots[i] ELSE NoFile
  BY Pairs DEF opened, Slot, Live

\* CREATE opens an id that stands for nothing and has rested.
LEMMA CreateStep ==
    ASSUME TableInv, NEW of \in OpenFile, Create(of)
    PROVE  TableInv' /\ \E id \in Ids : Opens!Open(id, of)
<1> DEFINE i == InsertSlot(table)
           g == table'.gens[i]
           n == Len(table.slots)
<1>0. GEN_MAX \in Nat \ {0} /\ NoFile \notin OpenFile
  BY TableAssumption DEF OpenFile
<1>1. /\ table' \in Tables /\ Exact(table')
      /\ i \in Places /\ i \in 1 .. Len(table'.slots) /\ table'.slots[i] = of /\ ~Live(table, i)
      /\ i > n => g = 1
      /\ n <= Len(table'.slots)
      /\ \A j \in 1 .. n : table'.gens[j] = table.gens[j] /\ (j # i => table'.slots[j] = table.slots[j])
      /\ \A j \in 1 .. Len(table'.slots) : j # i => j \in 1 .. n
  <2>1. table' = Inserted(table, of) /\ HandleCount(table) < MAX_OPENS
    BY DEF Create
  <2> QED BY <2>1, TypeFacts, InsertedFacts
<1>2. closed' = closed /\ retired' = retired /\ reply' = of
  BY DEF Create
<1>3. n \in Nat /\ Len(table'.slots) \in Nat
  BY <1>1, TypeFacts, Shape
<1>4. g \in Gens
  BY <1>0, <1>1, <1>3, TypeFacts DEF Gens
<1>5. Aged'
  <2> SUFFICES ASSUME NEW h \in Gens, NEW j \in Places
               PROVE  IF j <= Len(table'.slots)
                      THEN retired'[<<h, j>>] # Never => closed'[j] - retired'[<<h, j>>] >= Distance(h, table'.gens[j])
                      ELSE retired'[<<h, j>>] = Never
    BY Zenon DEF Aged, Distance
  <2>1. j \in Nat /\ j >= 1
    BY TableAssumption DEF Places
  <2>2. CASE j <= n
    BY <2>1, <2>2, <1>1, <1>2, <1>3 DEF TableInv, Aged
  <2>3. CASE j > n
    BY <2>1, <2>3, <1>2, <1>3 DEF TableInv, Aged
  <2> QED BY <2>1, <2>2, <2>3, <1>3
<1>6. TableInv'
  <2>1. TypeOK'
    BY <1>1, <1>2, TypeFacts DEF TypeOK
  <2>2. FreeExact'
    BY <1>1 DEF FreeExact, Exact
  <2> QED BY <1>5, <2>1, <2>2 DEF TableInv
<1>7. Opens!Rested(<<g, i>>)
  <2>1. CASE i > n
    BY <2>1, <1>1, <1>3, <1>4 DEF TableInv, Aged, Opens!Rested, Opens!Never, Never
  <2>2. CASE i <= n
    <3>1. i \in 1 .. n /\ g = table.gens[i]
      BY <2>2, <1>1, <1>3
    <3>2. Distance(g, table.gens[i]) = GEN_MAX
      BY <3>1, <1>4, NextGenFacts
    <3>3. retired[<<g, i>>] # Never => closed[i] - retired[<<g, i>>] >= GEN_MAX
      BY <2>2, <3>2, <1>1, <1>4 DEF TableInv, Aged
    <3> QED BY <3>3 DEF Opens!Rested, Opens!Never, Never
  <2> QED BY <2>1, <2>2, <1>1, <1>3
<1>8. opened[<<g, i>>] = NoFile
  BY <1>1, <1>4, OpenedAt DEF Live
<1>9. opened' = [opened EXCEPT ![<<g, i>>] = of]
  <2>1. ASSUME NEW h \in Gens, NEW j \in Places
        PROVE  opened'[<<h, j>>] = IF <<h, j>> = <<g, i>> THEN of ELSE opened[<<h, j>>]
    <3>1. CASE j = i
      BY <3>1, <1>0, <1>1, <1>4, OpenedAt, OpenedAtNext DEF Live
    <3>2. CASE j # i
      BY <3>2, <1>1, <1>3, OpenedAt, OpenedAtNext
    <3> QED BY <3>1, <3>2
  <2>2. \A id \in Ids : opened'[id] = IF id = <<g, i>> THEN of ELSE opened[id]
    BY <2>1, Pairs
  <2>3. opened = [id \in Ids |-> opened[id]] /\ opened' = [id \in Ids |-> opened'[id]]
    BY DEF opened
  <2>4. <<g, i>> \in Ids
    BY <1>1, <1>4, Pairs
  <2> QED BY <2>2, <2>3, <2>4
<1>10. <<g, i>> \in Ids
  BY <1>1, <1>4, Pairs
<1>11. Opens!Open(<<g, i>>, of)
  <2> HIDE DEF g, i
  <2> QED BY <1>2, <1>7, <1>8, <1>9, Zenon DEF Opens!Open
<1> QED BY <1>6, <1>10, <1>11, Zenon

\* The ids that stand for the opens in the slots S.
IdsAt(S) == {id \in Ids : id[2] \in S /\ id = IdAt(table, id[2])}

\* CLOSE, TREE_DISCONNECT and the end of the session close the ids of the slots they
\* empty.
LEMMA RetireStep ==
    ASSUME TableInv, NEW S \in SUBSET LiveSlots(table), NEW order, Lists(order, S), Retire(order),
           reply' \in OpenFile \cup {NoFile}
    PROVE  TableInv' /\ Opens!CloseSet(IdsAt(S))
<1> DEFINE n == Len(table.slots)
<1>0. NoFile \notin OpenFile /\ MAX_OPENS \in Nat
  BY TableAssumption DEF OpenFile
<1>1. /\ table' \in Tables /\ Exact(table')
      /\ Len(table'.slots) = n
      /\ \A i \in 1 .. n : /\ table'.slots[i] = IF i \in S THEN NoFile ELSE table.slots[i]
                          /\ table'.gens[i] = IF i \in S THEN NextGen(table.gens[i]) ELSE table.gens[i]
  <2>1. table' = Vacated(table, order)
    BY DEF Retire
  <2>2. table \in Tables /\ Exact(table)
    BY TypeFacts
  <2> QED BY <2>1, <2>2, VacatedFacts
<1>2. /\ closed' = [p \in Places |-> IF p \in S THEN closed[p] + 1 ELSE closed[p]]
      /\ retired' = [id \in Ids |-> IF id[2] \in S /\ id = IdAt(table, id[2]) THEN closed[id[2]] ELSE retired[id]]
  BY ListsSet DEF Retire
<1>3. n \in Nat /\ \A i \in S : i \in 1 .. n /\ i \in Places /\ table.slots[i] # NoFile /\ table.gens[i] \in Gens
  <2>1. \A i \in S : i \in 1 .. n /\ table.slots[i] # NoFile
    BY DEF LiveSlots, Live
  <2> QED BY <2>1, TypeFacts
<1>4. ASSUME NEW g \in Gens, NEW i \in Places
      PROVE  /\ <<g, i>> \in IdsAt(S) <=> i \in S /\ table.gens[i] = g
             /\ retired'[<<g, i>>] = IF i \in S /\ table.gens[i] = g THEN closed[i] ELSE retired[<<g, i>>]
  BY <1>2, <1>3, Pairs DEF IdsAt, IdAt
<1>5. Aged'
  <2> SUFFICES ASSUME NEW h \in Gens, NEW j \in Places
               PROVE  IF j <= Len(table'.slots)
                      THEN retired'[<<h, j>>] # Never => closed'[j] - retired'[<<h, j>>] >= Distance(h, table'.gens[j])
                      ELSE retired'[<<h, j>>] = Never
    BY Zenon DEF Aged, Distance
  <2>1. j \in Nat /\ j >= 1 /\ closed[j] \in Nat /\ retired[<<h, j>>] \in Nat \cup {Never}
    BY <1>0, TypeFacts, Pairs DEF Places
  <2>2. /\ closed'[j] = IF j \in S THEN closed[j] + 1 ELSE closed[j]
        /\ retired'[<<h, j>>] = IF j \in S /\ table.gens[j] = h THEN closed[j] ELSE retired[<<h, j>>]
    BY <1>2, <1>4
  <2>3. IF j <= n
        THEN retired[<<h, j>>] # Never => closed[j] - retired[<<h, j>>] >= Distance(h, table.gens[j])
        ELSE retired[<<h, j>>] = Never
    BY DEF TableInv, Aged
  <2>4. CASE j > n
    BY <2>1, <2>2, <2>3, <2>4, <1>1, <1>3
  <2>5. CASE j <= n /\ j \notin S
    BY <2>1, <2>2, <2>3, <2>5, <1>1, <1>3
  <2>6. CASE j \in S /\ table.gens[j] = h
    <3>1. Distance(h, table'.gens[j]) = 1
      BY <2>6, <1>1, <1>3, NextGenFacts
    <3> QED BY <2>1, <2>2, <2>6, <3>1, <1>1, <1>3
  <2>7. CASE j \in S /\ table.gens[j] # h
    <3>1. Distance(h, table'.gens[j]) = Distance(h, table.gens[j]) + 1
      BY <2>7, <1>1, <1>3, NextGenFacts
    <3>2. Distance(h, table.gens[j]) \in Int
      BY <2>7, <1>3, TableAssumption DEF Distance, Gens
    <3> QED BY <2>1, <2>2, <2>3, <2>7, <3>1, <3>2, <1>1, <1>3 DEF Never
  <2> QED BY <2>1, <2>4, <2>5, <2>6, <2>7, <1>3
<1>6. TableInv'
  <2>1. closed' \in [Places -> Nat]
    BY <1>2, TypeFacts
  <2>2. retired' \in [Ids -> Nat \cup {Never}]
    BY <1>2, TypeFacts, Pairs
  <2>3. TypeOK'
    BY <1>1, <2>1, <2>2 DEF TypeOK
  <2>4. FreeExact'
    BY <1>1 DEF FreeExact, Exact
  <2> QED BY <1>5, <2>3, <2>4 DEF TableInv
<1>7. opened' = [id \in Ids |-> IF id \in IdsAt(S) THEN NoFile ELSE opened[id]]
  <2>1. ASSUME NEW h \in Gens, NEW j \in Places
        PROVE  opened'[<<h, j>>] = IF <<h, j>> \in IdsAt(S) THEN NoFile ELSE opened[<<h, j>>]
    <3>1. CASE j \in S
      BY <3>1, <1>1, <1>3, <1>4, OpenedAt, OpenedAtNext
    <3>2. CASE j \notin S
      BY <3>2, <1>1, <1>3, <1>4, OpenedAt, OpenedAtNext
    <3> QED BY <3>1, <3>2
  <2>2. \A id \in Ids : opened'[id] = IF id \in IdsAt(S) THEN NoFile ELSE opened[id]
    BY <2>1, Pairs
  <2>3. opened' = [id \in Ids |-> opened'[id]]
    BY DEF opened
  <2> QED BY <2>2, <2>3
<1>8. closed' = [p \in Places |-> IF \E id \in IdsAt(S) : id[2] = p THEN closed[p] + 1 ELSE closed[p]]
  <2>1. ASSUME NEW q \in Places PROVE q \in S <=> \E id \in IdsAt(S) : id[2] = q
    <3>1. ASSUME q \in S PROVE \E id \in IdsAt(S) : id[2] = q
      <4>1. <<table.gens[q], q>> \in IdsAt(S) /\ <<table.gens[q], q>>[2] = q
        BY <3>1, <1>3, <1>4
      <4> QED BY <4>1
    <3> QED BY <3>1 DEF IdsAt
  <2> QED BY <2>1, <1>2
<1>9. retired' = [id \in Ids |-> IF id \in IdsAt(S) THEN closed[id[2]] ELSE retired[id]]
  BY <1>2 DEF IdsAt
<1>10. Opens!Ids = Ids /\ Opens!Places = Places
  BY DEF Opens!Ids, Opens!Places, Ids, Gens, Places
<1> QED BY <1>6, <1>7, <1>8, <1>9, <1>10, Zenon DEF Opens!CloseSet

\* get finds what the id stands for.
LEMMA Found ==
    ASSUME NEW id \in Ids, NEW tree
    PROVE  /\ Opens!Named(id, tree) <=> Get(table, id, tree)
           /\ Get(table, id, tree) => opened[id] = table.slots[id[2]]
  BY DEF opened, Slot, Live, Get, Opens!Named

LEMMA LookupStep ==
    ASSUME TableInv, NEW id \in Ids, NEW tree \in Trees, Lookup(id, tree)
    PROVE  TableInv' /\ Opens!Find(id, tree)
<1>1. /\ table' = table /\ closed' = closed /\ retired' = retired
      /\ reply' = IF Get(table, id, tree) THEN table.slots[id[2]] ELSE NoFile
  BY DEF Lookup
<1>2. opened' = opened
  BY <1>1 DEF opened
<1>3. reply' = IF Opens!Named(id, tree) THEN opened[id] ELSE NoFile
  BY <1>1, Found
<1>4. reply' \in OpenFile \cup {NoFile}
  BY <1>1, TypeFacts, Shape DEF Get, Slot, Live
<1>5. TableInv'
  BY <1>1, <1>4 DEF TableInv, TypeOK, FreeExact, Aged
<1> QED BY <1>1, <1>2, <1>3, <1>5 DEF Opens!Find

LEMMA CloseStep ==
    ASSUME TableInv, NEW id \in Ids, NEW tree \in Trees, Close(id, tree)
    PROVE  TableInv' /\ Opens!Close(id, tree)
<1> DEFINE S == {id[2]}
<1>1. Get(table, id, tree) /\ Retire(<<id[2]>>) /\ reply' = table.slots[id[2]]
  BY DEF Close
<1>2. S \in SUBSET LiveSlots(table) /\ table.gens[id[2]] = id[1]
  BY <1>1 DEF Get, Slot, Live, LiveSlots
<1>3. Lists(<<id[2]>>, S)
  BY DEF Lists
<1>4. reply' \in OpenFile \cup {NoFile}
  BY <1>1, <1>2, TypeFacts, Shape DEF LiveSlots
<1>5. TableInv' /\ Opens!CloseSet(IdsAt(S))
  BY <1>1, <1>2, <1>3, <1>4, RetireStep
<1>6. IdsAt(S) = {id}
  <2>1. id \in IdsAt(S)
    BY <1>2, Pairs DEF IdsAt, IdAt
  <2>2. \A x \in IdsAt(S) : x = id
    BY <1>2, Pairs DEF IdsAt, IdAt
  <2> QED BY <2>1, <2>2
<1>7. Opens!Named(id, tree) /\ reply' = opened[id]
  BY <1>1, Found
<1> QED BY <1>5, <1>6, <1>7 DEF Opens!Close

LEMMA AscendingLists ==
    ASSUME TableInv, NEW S \in SUBSET LiveSlots(table), NEW order, Ascending(order, S)
    PROVE  Lists(order, S)
<1> DEFINE n == Cardinality(S)
<1>1. n \in Nat
  <2>1. S \subseteq 1 .. Len(table.slots) /\ Len(table.slots) \in Nat
    BY TypeFacts DEF LiveSlots
  <2>2. IsFiniteSet(1 .. Len(table.slots))
    BY <2>1, FS_Interval
  <2>3. IsFiniteSet(S)
    BY <2>1, <2>2, FS_Subset, Zenon
  <2> QED BY <2>3, FS_CardinalityType
<1>2. S \subseteq Int
  BY TypeFacts DEF LiveSlots
<1>3. /\ order \in [1 .. n -> S]
      /\ \A i, j \in 1 .. n : i < j => order[i] < order[j]
      /\ \A x \in S : \E i \in 1 .. n : order[i] = x
  BY DEF Ascending
<1> HIDE DEF n
<1>4. order \in Seq(S) /\ Len(order) = n
  BY <1>1, <1>3
<1>5. ASSUME NEW i \in 1 .. n, NEW j \in 1 .. n, order[i] = order[j] PROVE i = j
  <2>1. order[i] \in Int /\ order[j] \in Int
    <3>1. order[i] \in S /\ order[j] \in S
      BY <1>3, <1>5, Zenon
    <3> QED BY <3>1, <1>2, Zenon
  <2>2. ~(order[i] < order[j]) /\ ~(order[j] < order[i])
    BY <2>1, <1>5
  <2> QED BY <2>2, <1>1, <1>3
<1> QED BY <1>3, <1>4, <1>5 DEF Lists

LEMMA EndStep ==
    ASSUME TableInv, NEW S \in SUBSET LiveSlots(table), NEW order, Ascending(order, S), Retire(order),
           UNCHANGED reply
    PROVE  TableInv' /\ Opens!CloseSet(IdsAt(S)) /\ UNCHANGED reply
<1>1. reply' \in OpenFile \cup {NoFile}
  BY TypeFacts
<1> QED BY <1>1, AscendingLists, RetireStep

\* The ids that stand for the opens of a tree, and those that stand for any.
LEMMA IdsOfTree ==
    ASSUME NEW tree
    PROVE  IdsAt(TreeSlots(table, tree)) = {id \in Ids : Opens!Named(id, tree)}
  BY Found, Pairs DEF IdsAt, IdAt, TreeSlots, Get, Slot, Live

LEMMA IdsOfAll == TableInv => IdsAt(LiveSlots(table)) = {id \in Ids : opened[id] # NoFile}
  BY Pairs DEF IdsAt, IdAt, LiveSlots, Slot, Live, opened

LEMMA SameIds == Opens!Ids = Ids /\ Opens!OpenFile = OpenFile
  BY DEF Opens!Ids, Opens!Places, Opens!OpenFile, Ids, Gens, Places, OpenFile

LEMMA TableInit == Init => TableInv /\ Opens!Init
<1> SUFFICES ASSUME Init PROVE TableInv /\ Opens!Init
  OBVIOUS
<1>1. table = NewTable /\ closed = [p \in Places |-> 0] /\ retired = [id \in Ids |-> Never] /\ reply = NoFile
  BY DEF Init
<1>2. Len(table.slots) = 0 /\ Len(table.gens) = 0 /\ Len(table.free) = 0
  BY <1>1 DEF NewTable
<1>3. TypeOK
  BY <1>1 DEF TypeOK, NewTable, Tables, Never
<1>4. FreeExact
  BY <1>2, TableAssumption DEF FreeExact
<1>5. Aged
  <2>1. ASSUME NEW g \in Gens, NEW i \in Places
        PROVE  ~(i <= Len(table.slots)) /\ retired[<<g, i>>] = Never
    BY <1>1, <1>2, TableAssumption, Pairs DEF Places
  <2> QED BY <2>1, Zenon DEF Aged
<1>6. opened = [id \in Ids |-> NoFile]
  BY <1>2 DEF opened, Slot, Live
<1> QED BY <1>1, <1>3, <1>4, <1>5, <1>6, SameIds DEF TableInv, Opens!Init, Opens!Places, Opens!Never, Never, Places

\* Every step of the slab keeps the invariant and is a step of OpenTable.
LEMMA TableStep == TableInv /\ [Next]_vars => TableInv' /\ [Opens!Next]_(Opens!ovars)
<1> SUFFICES ASSUME TableInv, [Next]_vars PROVE TableInv' /\ [Opens!Next]_(Opens!ovars)
  OBVIOUS
<1>1. ASSUME NEW of \in OpenFile, Create(of) PROVE TableInv' /\ Opens!Next
  BY <1>1, CreateStep, SameIds DEF Opens!Next
<1>2. ASSUME NEW id \in Ids, NEW tree \in Trees, Lookup(id, tree) PROVE TableInv' /\ Opens!Next
  BY <1>2, LookupStep, SameIds DEF Opens!Next
<1>3. ASSUME NEW id \in Ids, NEW tree \in Trees, Close(id, tree) PROVE TableInv' /\ Opens!Next
  BY <1>3, CloseStep, SameIds DEF Opens!Next
<1>4. ASSUME NEW tree \in Trees, TreeDisconnect(tree) PROVE TableInv' /\ Opens!Next
  <2>1. PICK order : Ascending(order, TreeSlots(table, tree)) /\ Retire(order)
    BY <1>4 DEF TreeDisconnect
  <2>2. TreeSlots(table, tree) \in SUBSET LiveSlots(table) /\ UNCHANGED reply
    BY <1>4 DEF TreeDisconnect, TreeSlots, LiveSlots
  <2>3. TableInv' /\ Opens!CloseSet(IdsAt(TreeSlots(table, tree))) /\ UNCHANGED reply
    BY <2>1, <2>2, EndStep
  <2>4. Opens!CloseTree(tree)
    BY <2>3, IdsOfTree, SameIds DEF Opens!CloseTree
  <2> QED BY <2>3, <2>4 DEF Opens!Next
<1>5. ASSUME TakeAll PROVE TableInv' /\ Opens!Next
  <2>1. PICK order : Ascending(order, LiveSlots(table)) /\ Retire(order)
    BY <1>5 DEF TakeAll
  <2>2. UNCHANGED reply
    BY <1>5 DEF TakeAll
  <2>3. TableInv' /\ Opens!CloseSet(IdsAt(LiveSlots(table))) /\ UNCHANGED reply
    BY <2>1, <2>2, EndStep
  <2>4. Opens!CloseAll
    BY <2>3, IdsOfAll, SameIds DEF Opens!CloseAll
  <2> QED BY <2>3, <2>4 DEF Opens!Next
<1>6. CASE UNCHANGED vars
  <2>1. opened' = opened
    BY <1>6 DEF vars, opened
  <2>2. TableInv'
    BY <1>6 DEF vars, TableInv, TypeOK, FreeExact, Aged
  <2> QED BY <1>6, <2>1, <2>2 DEF vars, Opens!ovars
<1> QED BY <1>1, <1>2, <1>3, <1>4, <1>5, <1>6 DEF Next

LEMMA TableInductive == Spec => []TableInv
BY TableInit, TableStep, PTL DEF Spec

\* The free list holds exactly the empty slots, each once, and there are never more
\* slots than MAX_OPENS_PER_SESSION (HandleTable::insert, remove and take_all).
THEOREM FreeListExact == Spec => []FreeExact
<1>1. TableInv => FreeExact
  BY DEF TableInv
<1> QED BY <1>1, TableInductive, PTL

\* The slab implements the promise of OpenTable: an id stands for the open it was given
\* for or for nothing, and comes round only after GEN_MAX closes of its slot.
THEOREM SlabKeepsOpens == Spec => OpensKept
BY TableInit, TableStep, TableInductive, PTL DEF Spec, OpensKept, Opens!Spec
=============================================================================
