----------------------------- MODULE HandleTable -----------------------------
(***************************************************************************)
(* The slab of open files of a session (vfs.rs, HandleTable): slots that   *)
(* are reused through a free list, each with a generation that goes into   *)
(* the file id. Indices start at 1 here and at 0 in the code; the id is    *)
(* the pair <<generation, index>>, in the code the two halves of a u64.    *)
(***************************************************************************)
EXTENDS Integers, Sequences, FiniteSets

CONSTANTS
    Files,      \* what can be opened
    Trees,      \* tree connects of the session
    NoFile,     \* an empty slot
    GEN_MAX,    \* largest generation (u32::MAX)
    MAX_OPENS,  \* MAX_OPENS_PER_SESSION
    MaxCloses   \* bound of the model: closes of one slot

ASSUME TableAssumption ==
    /\ GEN_MAX \in Nat \ {0}
    /\ MAX_OPENS \in Nat \ {0}
    /\ MaxCloses \in Nat
    /\ NoFile \notin [file : Files, tree_id : Trees]

VARIABLES
    table,      \* the slots, their generations and the free list
    closed,     \* history: per slot, how many of its opens have been closed
    retired,    \* history: per id, closed[slot] when it was last retired
    reply       \* what the last request found under its id

vars == <<table, closed, retired, reply>>

Never == -1
Gens == 1 .. GEN_MAX
Places == 1 .. MAX_OPENS
Ids == Gens \X Places
OpenFile == [file : Files, tree_id : Trees]

Tables == [slots : Seq(OpenFile \cup {NoFile}), gens : Seq(Gens), free : Seq(Places)]

NewTable == [slots |-> <<>>, gens |-> <<>>, free |-> <<>>]

(***************************************************************************)
(* The operations of the slab on a table t.                                *)
(***************************************************************************)

InsertSlot(t) == IF t.free # <<>> THEN t.free[Len(t.free)] ELSE Len(t.slots) + 1

\* Mutant: the slot that is reused stays in the free list.
Inserted_Peek(t, of) ==
    IF t.free # <<>>
    THEN [t EXCEPT !.slots[InsertSlot(t)] = of]
    ELSE [slots |-> Append(t.slots, of), gens |-> Append(t.gens, 1), free |-> t.free]

Inserted(t, of) ==
    IF t.free # <<>>
    THEN [slots |-> [t.slots EXCEPT ![InsertSlot(t)] = of],
          gens  |-> t.gens,
          free  |-> SubSeq(t.free, 1, Len(t.free) - 1)]
    ELSE [slots |-> Append(t.slots, of), gens |-> Append(t.gens, 1), free |-> t.free]

IdAt(t, i) == <<t.gens[i], i>>

Live(t, i) == i \in 1 .. Len(t.slots) /\ t.slots[i] # NoFile

Slot(t, id) == Live(t, id[2]) /\ t.gens[id[2]] = id[1]

Get(t, id, tree) == Slot(t, id) /\ t.slots[id[2]].tree_id = tree

\* Mutant: the slot keeps its generation.
NextGen_Same(g) == g

\* wrapping_add(1).max(1)
NextGen(g) == IF g = GEN_MAX THEN 1 ELSE g + 1

\* The slots of the sequence order are emptied, one after the other.
Vacated(t, order) ==
    LET S == {order[k] : k \in 1 .. Len(order)}
    IN  [slots |-> [i \in 1 .. Len(t.slots) |-> IF i \in S THEN NoFile ELSE t.slots[i]],
         gens  |-> [i \in 1 .. Len(t.gens) |-> IF i \in S THEN NextGen(t.gens[i]) ELSE t.gens[i]],
         free  |-> t.free \o order]

HandleCount(t) == Len(t.slots) - Len(t.free)

TreeSlots(t, tree) == {i \in 1 .. Len(t.slots) : Live(t, i) /\ t.slots[i].tree_id = tree}

LiveSlots(t) == {i \in 1 .. Len(t.slots) : Live(t, i)}

\* order lists the elements of S in ascending order, as the code's loops do.
Ascending(order, S) ==
    /\ order \in [1 .. Cardinality(S) -> S]
    /\ \A i, j \in 1 .. Cardinality(S) : i < j => order[i] < order[j]
    /\ \A x \in S : \E i \in 1 .. Cardinality(S) : order[i] = x

(***************************************************************************)
(* The table of one session.                                               *)
(***************************************************************************)

Init ==
    /\ table = NewTable
    /\ closed = [p \in Places |-> 0]
    /\ retired = [id \in Ids |-> Never]
    /\ reply = NoFile

Create(of) ==
    /\ HandleCount(table) < MAX_OPENS
    /\ table' = Inserted(table, of)
    /\ reply' = of
    /\ UNCHANGED <<closed, retired>>

\* A request that looks its handle up, also one that finds nothing.
Lookup(id, tree) ==
    /\ reply' = IF Get(table, id, tree) THEN table.slots[id[2]] ELSE NoFile
    /\ UNCHANGED <<table, closed, retired>>

Retire(order) ==
    LET S == {order[k] : k \in 1 .. Len(order)}
    IN  /\ \A i \in S : closed[i] < MaxCloses
        /\ table' = Vacated(table, order)
        /\ closed' = [p \in Places |-> IF p \in S THEN closed[p] + 1 ELSE closed[p]]
        /\ retired' = [id \in Ids |-> IF id[2] \in S /\ id = IdAt(table, id[2])
                                      THEN closed[id[2]] ELSE retired[id]]

Close(id, tree) ==
    /\ Get(table, id, tree)
    /\ Retire(<<id[2]>>)
    /\ reply' = table.slots[id[2]]

TreeDisconnect(tree) ==
    /\ \E order \in [1 .. Cardinality(TreeSlots(table, tree)) -> TreeSlots(table, tree)] :
          Ascending(order, TreeSlots(table, tree)) /\ Retire(order)
    /\ UNCHANGED reply

TakeAll ==
    /\ \E order \in [1 .. Cardinality(LiveSlots(table)) -> LiveSlots(table)] :
          Ascending(order, LiveSlots(table)) /\ Retire(order)
    /\ UNCHANGED reply

Next ==
    \/ \E of \in OpenFile : Create(of)
    \/ \E id \in Ids, tree \in Trees : Lookup(id, tree) \/ Close(id, tree)
    \/ \E tree \in Trees : TreeDisconnect(tree)
    \/ TakeAll

Spec == Init /\ [][Next]_vars

(***************************************************************************)
(* Properties.                                                             *)
(***************************************************************************)

TypeOK ==
    /\ table \in Tables
    /\ closed \in [Places -> Nat]
    /\ retired \in [Ids -> Nat \cup {Never}]
    /\ reply \in OpenFile \cup {NoFile}

\* The free list holds every empty slot once, and nothing else, so that len()
\* is the number of open files and the limit checked by CREATE is a limit on
\* them (vfs.rs, HandleTable::len; handlers.rs, MAX_OPENS_PER_SESSION).
FreeExact ==
    /\ Len(table.gens) = Len(table.slots)
    /\ Len(table.slots) <= MAX_OPENS
    /\ \A k \in 1 .. Len(table.free) :
          table.free[k] <= Len(table.slots) /\ table.slots[table.free[k]] = NoFile
    /\ \A k, l \in 1 .. Len(table.free) : table.free[k] = table.free[l] => k = l
    /\ \A i \in 1 .. Len(table.slots) :
          table.slots[i] = NoFile => \E k \in 1 .. Len(table.free) : table.free[k] = i

opened == [id \in Ids |-> IF Slot(table, id) THEN table.slots[id[2]] ELSE NoFile]

Opens == INSTANCE OpenTable WITH open <- opened

\* The slab keeps the promise of OpenTable: an id finds the open it was given
\* for or nothing, and comes round only after GEN_MAX closes of its slot (the
\* comment of HandleTable in vfs.rs: "so a stale FileId from the client misses
\* cleanly").
OpensKept == Opens!Spec
=============================================================================
