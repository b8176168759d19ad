------------------------------ MODULE OpenTable ------------------------------
(***************************************************************************)
(* What a session's table of open files promises its client: an id stands  *)
(* for the open it was given for until that open is closed, then for       *)
(* nothing, and it is given to another open only after GEN_MAX further     *)
(* opens of the same place in the table have been closed.                  *)
(***************************************************************************)
EXTENDS Integers

CONSTANTS
    Files,     \* what can be opened
    Trees,     \* tree connects of the session
    NoFile,    \* no open
    GEN_MAX,   \* largest generation (u32::MAX)
    MAX_OPENS  \* most opens of a session

VARIABLES
    open,      \* per id, the open it stands for
    closed,    \* per place, how many of its opens have been closed
    retired,   \* per id, closed[place] when it was last retired; Never before that
    reply      \* what the last request found under its id

ovars == <<open, closed, retired, reply>>

Never == -1
Places == 1 .. MAX_OPENS
Ids == (1 .. GEN_MAX) \X Places
OpenFile == [file : Files, tree_id : Trees]

Init ==
    /\ open = [id \in Ids |-> NoFile]
    /\ closed = [p \in Places |-> 0]
    /\ retired = [id \in Ids |-> Never]
    /\ reply = NoFile

Rested(id) == retired[id] # Never => closed[id[2]] - retired[id] >= GEN_MAX

Open(id, of) ==
    /\ open[id] = NoFile
    /\ Rested(id)
    /\ open' = [open EXCEPT ![id] = of]
    /\ reply' = of
    /\ UNCHANGED <<closed, retired>>

Named(id, tree) == open[id] # NoFile /\ open[id].tree_id = tree

Find(id, tree) ==
    /\ reply' = IF Named(id, tree) THEN open[id] ELSE NoFile
    /\ UNCHANGED <<open, closed, retired>>

CloseSet(S) ==
    /\ open' = [id \in Ids |-> IF id \in S THEN NoFile ELSE open[id]]
    /\ closed' = [p \in Places |-> IF \E id \in S : id[2] = p THEN closed[p] + 1
                                                              ELSE closed[p]]
    /\ retired' = [id \in Ids |-> IF id \in S THEN closed[id[2]] ELSE retired[id]]

Close(id, tree) ==
    /\ Named(id, tree)
    /\ CloseSet({id})
    /\ reply' = open[id]

CloseTree(tree) == CloseSet({id \in Ids : Named(id, tree)}) /\ UNCHANGED reply

CloseAll == CloseSet({id \in Ids : open[id] # NoFile}) /\ UNCHANGED reply

Next ==
    \/ \E id \in Ids, tree \in Trees : Find(id, tree) \/ Close(id, tree)
    \/ \E id \in Ids, of \in OpenFile : Open(id, of)
    \/ \E tree \in Trees : CloseTree(tree)
    \/ CloseAll

Spec == Init /\ [][Next]_ovars
=============================================================================
