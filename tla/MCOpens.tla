------------------------------- MODULE MCOpens -------------------------------
(***************************************************************************)
(* What a session does with its opens, for TLC: the table of handles       *)
(* (HandleTable), byte-range locks (Locks), directory enumeration          *)
(* (DirScan) and change notification (Notify).  A behaviour exercises one  *)
(* of the four; the others rest in one of their initial states.  Which     *)
(* directory the first session has open makes no difference.               *)
(***************************************************************************)
EXTENDS HandleTable, Locks, DirScan, Notify

VARIABLE part

openvars == <<part, vars, lockvars, scanvars, notifyvars>>

OpensInit ==
  /\ part \in {"table", "locks", "scan", "notify"}
  /\ Init /\ LockInit
  /\ ScanInit /\ (IF part = "scan" THEN Skipped \subseteq present ELSE present = {})
  /\ NotifyInit
  /\ \A s \in Sessions, f \in Fids :
       part # "notify" \/ s = (CHOOSE x \in Sessions : TRUE) => dirOf[s][f] = CHOOSE d \in Dirs : TRUE

OpensNext ==
  /\ UNCHANGED part
  /\ \/ part = "table" /\ Next /\ UNCHANGED <<lockvars, scanvars, notifyvars>>
     \/ part = "locks" /\ LockNext /\ UNCHANGED <<vars, scanvars, notifyvars>>
     \/ part = "scan" /\ ScanNext /\ UNCHANGED <<vars, lockvars, notifyvars>>
     \/ part = "notify" /\ NotifyNext /\ UNCHANGED <<vars, lockvars, scanvars>>

\* Only change notification has something that must happen in the end.
OpensSpec == OpensInit /\ [][OpensNext]_openvars /\ NotifyFairness

------------------------------------------------------------------------------

\* A byte, a range that ends past what the kernel can lock, and an empty one.
LockRanges == {<<0, 1>>, <<1, 7>>, <<1, 0>>}

\* One client sends batches, the other single locks.
BatchSize == [h \in Handles |-> IF h \in Writable THEN 2 ELSE 1]

\* Two sizes of entry, one of which does not fit the smaller buffer.
EntrySize == [n \in Names \cup ToSet(Dots) |-> IF n = "a" THEN 2 ELSE 1]
==============================================================================
