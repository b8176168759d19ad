------------------------------- MODULE DirScan -------------------------------
(***************************************************************************)
(* QUERY_DIRECTORY on one directory handle: the snapshot of the directory  *)
(* the handle keeps (DirState), the cursor that walks it, and the          *)
(* directory, which other clients change while the snapshot is read.       *)
(***************************************************************************)
EXTENDS Integers, Sequences, FiniteSets, SequencesExt

CONSTANTS
  Names,      \* names the directory may hold; each is its own case
  Skipped,    \* those a listing passes over: not UTF-8, or without metadata
  Size,       \* the bytes of a name's entry in the information class asked for
  Patterns,   \* search patterns clients use: names and wildcards
  OutLens,    \* output buffer lengths clients use
  MaxEdits,   \* bound: changes to the directory
  MaxScans    \* bound: snapshots taken

Dots == <<".", "..">>
Wild == {"", "*"}        \* the patterns that match every name

ASSUME ScanAssumption ==
  /\ Skipped \subseteq Names
  /\ Names \cap (ToSet(Dots) \cup Wild) = {}
  /\ Size \in [Names \cup ToSet(Dots) -> Nat \ {0}]
  /\ Patterns \subseteq Names \cup Wild
  /\ OutLens \subseteq Nat
  /\ MaxEdits \in Nat /\ MaxScans \in Nat

VARIABLES
  present,   \* names in the directory now
  edits,
  dir,       \* OpenFile.dir: the snapshot, the cursor, the pattern
  query,     \* the request in the middle of reading the directory, or none
  scans,
  got,       \* entries the client received since the snapshot it reads from
  stayed,    \* history: names to list that were there all the time since it began
  came,      \* history: names to list that were there at some time while it was read
  ended      \* the last reply said that there is nothing more

scanvars == <<present, edits, dir, query, scans, got, stayed, came, ended>>

NoDirState == [made |-> FALSE, entries |-> <<>>, pos |-> 1, pattern |-> ""]
NoQuery == [on |-> FALSE, pattern |-> "", len |-> 0, single |-> FALSE, known |-> TRUE, was |-> {}, now |-> {}]

\* The names that a listing of the directory shows.
Listed(names) == names \ Skipped

Matches(n, pattern) == pattern \in Wild \/ n = pattern

\* Another client creates or removes a file; a snapshot being read may or may not
\* show it.
Edit(n) ==
  /\ edits < MaxEdits
  /\ edits' = edits + 1
  /\ present' = IF n \in present THEN present \ {n} ELSE present \cup {n}
  /\ stayed' = stayed \cap present'
  /\ query' = IF query.on THEN [query EXCEPT !.was = @ \cap present', !.now = @ \cup Listed(present')] ELSE query
  /\ UNCHANGED <<dir, scans, got, came, ended>>

------------------------------------------------------------------------------
(* query_directory *)

\* How many entries from the cursor on fit: the loop stops at the first that does
\* not, and after one if the client wants one.
Fits(d, len, single) ==
  LET left == SubSeq(d.entries, d.pos, Len(d.entries))
      Bytes(n) == FoldLeft(LAMBDA sum, e : sum + Size[e], 0, SubSeq(left, 1, n))
      ns == {n \in 0..Len(left) : Bytes(n) <= len /\ (single => n <= 1)}
  IN  CHOOSE n \in ns : \A m \in ns : m <= n

\* Mutant: the entry that does not fit is passed over.
Emit_Skip(d, had, len, single, known) ==
  LET n == Fits(d, len, single)
      sent == SubSeq(d.entries, d.pos, d.pos + n - 1)
  IN  /\ dir' = [d EXCEPT !.pos = IF known /\ @ <= Len(d.entries) THEN @ + (IF n = 0 THEN 1 ELSE n) ELSE @]
      /\ got' = IF known THEN had \o sent ELSE had
      /\ ended' = (d.pos > Len(d.entries))

\* The rest of the handler, on the handle's state d, for a client that had the entries
\* before the cursor: nothing more (NO_SUCH_FILE, NO_MORE_FILES), an unknown class
\* (INVALID_PARAMETER), a buffer too small for one entry, or entries.
Emit(d, had, len, single, known) ==
  LET n == Fits(d, len, single)
      sent == SubSeq(d.entries, d.pos, d.pos + n - 1)
  IN  /\ dir' = IF known THEN [d EXCEPT !.pos = @ + n] ELSE d
      /\ got' = IF known THEN had \o sent ELSE had
      /\ ended' = (d.pos > Len(d.entries))

\* A new snapshot is taken: none yet, asked for, or another pattern.
NeedNew(restart, pattern) == ~dir.made \/ restart \/ dir.pattern # pattern

\* A request that goes on with the snapshot it has.
Query(restart, pattern, len, single, known) ==
  /\ ~query.on
  /\ ~NeedNew(restart, pattern)
  /\ Emit(dir, got, len, single, known)
  /\ UNCHANGED <<present, edits, query, scans, stayed, came>>

\* One that begins to read the directory.
BeginSnapshot(restart, pattern, len, single, known) ==
  /\ ~query.on /\ scans < MaxScans
  /\ NeedNew(restart, pattern)
  /\ query' = [on |-> TRUE, pattern |-> pattern, len |-> len, single |-> single, known |-> known,
               was |-> Listed(present), now |-> Listed(present)]
  /\ scans' = scans + 1
  /\ UNCHANGED <<present, edits, dir, got, stayed, came, ended>>

\* dir_snapshot has read it: names that were there all the time are listed, names that
\* came or went may be, in any order after the dots; then the pattern is applied.
EndSnapshot(L) ==
  /\ query.on
  /\ query.was \subseteq L /\ L \subseteq query.now
  /\ \E order \in SetToSeqs(L) :
       LET all == SelectSeq(Dots \o order, LAMBDA n : Matches(n, query.pattern))
       IN  Emit([made |-> TRUE, entries |-> all, pos |-> 1, pattern |-> query.pattern],
                <<>>, query.len, query.single, query.known)
  /\ stayed' = query.was /\ came' = query.now
  /\ query' = NoQuery
  /\ UNCHANGED <<present, edits, scans>>

\* It could not be read: the handle keeps what it had.
SnapshotFails ==
  /\ query.on
  /\ query' = NoQuery
  /\ ended' = FALSE
  /\ UNCHANGED <<present, edits, dir, scans, got, stayed, came>>

------------------------------------------------------------------------------

ScanInit ==
  /\ present \in SUBSET Names
  /\ edits = 0
  /\ dir = NoDirState
  /\ query = NoQuery
  /\ scans = 0
  /\ got = <<>>
  /\ stayed = {} /\ came = {}
  /\ ended = FALSE

ScanNext ==
  \/ \E n \in Names : Edit(n)
  \/ \E restart, single, known \in BOOLEAN, pattern \in Patterns, len \in OutLens :
       \/ Query(restart, pattern, len, single, known)
       \/ BeginSnapshot(restart, pattern, len, single, known)
  \/ \E L \in SUBSET Names : EndSnapshot(L)
  \/ SnapshotFails

ScanSpec == ScanInit /\ [][ScanNext]_scanvars

------------------------------------------------------------------------------
(* Properties *)

\* When the server says there is nothing more, the client has had every name that
\* matches its pattern and was in the directory all the time (but the ones that listings
\* skip), no name twice, and no name that was not there while the directory was read;
\* however the entries were cut into replies, and whatever requests were refused in
\* between for an unknown class, a buffer too small or a failed read (query_directory
\* and dir_snapshot).
ScanComplete ==
  ended =>
    /\ {n \in stayed : Matches(n, dir.pattern)} \subseteq ToSet(got)
    /\ ToSet(got) \subseteq {n \in came \cup ToSet(Dots) : Matches(n, dir.pattern)}
    /\ (dir.pattern \in Wild => ToSet(Dots) \subseteq ToSet(got))
    /\ IsInjective(got)
==============================================================================
