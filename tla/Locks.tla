-------------------------------- MODULE Locks --------------------------------
(***************************************************************************)
(* Byte-range locks on one file: the LOCK handler and vfs::range_lock over *)
(* the kernel's open-file-description locks, CLOSE, and the READs that     *)
(* keep a dup of the handle's fd.                                          *)
(*                                                                         *)
(* Every handle here belongs to a session of its own. The session mutex is *)
(* held for a whole LOCK or CLOSE, so a handle runs one of them at a time, *)
(* but the handlers of different sessions interleave: each fcntl is a step.*)
(***************************************************************************)
EXTENDS Integers, Sequences

CONSTANTS
  Handles,    \* opens of the file
  Writable,   \* those whose fd is open for writing
  I64_MAX,    \* i64::MAX: the kernel locks no byte from here on
  Ranges,     \* the pairs <<offset, length>> lock elements carry (u64 each)
  MaxElems,   \* bound: elements of a LOCK request on each handle (64 in the code)
  Readers,    \* bound: the handles that READ
  MaxReads    \* bound: dups of one handle open at a time

ASSUME LocksAssumption ==
  /\ Writable \subseteq Handles /\ Readers \subseteq Handles
  /\ I64_MAX \in Nat \ {0}
  /\ Ranges \subseteq Nat \X Nat
  /\ MaxElems \in [Handles -> Nat] /\ MaxReads \in Nat

Bytes == 0..(I64_MAX - 1)
Flags == {"shared", "exclusive", "unlock", "invalid"}
Free == [b \in Bytes |-> "none"]

VARIABLES
  held,     \* the kernel: per handle, the lock on each byte
  fds,      \* the kernel: fds of the handle's open file description
  inTable,  \* the handle is in its session's table
  lreq,     \* the LOCK request its session is serving
  told      \* what the client was told of each byte, "unsure" if it asked to unlock it
            \* in a batch that goes on or was refused

lockvars == <<held, fds, inTable, lreq, told>>

\* Where a LOCK is, the elements left, the ranges taken, and what the client will
\* hold if it succeeds.
NoRequest == [at |-> "idle", rest |-> <<>>, applied |-> <<>>, asked |-> Free]

------------------------------------------------------------------------------
(* range_lock *)

LockMin(a, b) == IF a <= b THEN a ELSE b

\* fcntl takes a length of 0 for "to the end, however far that is".
Fcntl(start, len) == {b \in Bytes : start <= b /\ (len = 0 \/ b < start + len)}

\* The bytes range_lock acts on: start and length are clamped so that they fit an
\* i64, and a length that is 0 then asks for nothing.
Span(off, len) ==
  LET start == LockMin(off, I64_MAX)
      l_len == LockMin(len, I64_MAX - start)
  IN  IF l_len = 0 THEN {} ELSE Fcntl(start, l_len)

\* The bytes a client means, of those the kernel can lock.
Means(off, len) == {b \in Bytes : off <= b /\ b < off + len}

\* An element of a request: what the client means by it, and what will be locked.
\* One without a flag the handler knows never gets as far as its range.
Element ==
  {[means |-> Means(r[1], r[2]), span |-> Span(r[1], r[2]), flag |-> f] : r \in Ranges, f \in Flags \ {"invalid"}}
    \cup {[means |-> {}, span |-> {}, flag |-> "invalid"]}

\* Another open file description stands in the way.
Conflict(h, S, flag) ==
  \E k \in Handles \ {h}, b \in S :
    held[k][b] = "exclusive" \/ (held[k][b] = "shared" /\ flag = "exclusive")

\* F_OFD_SETLK of a lock succeeds: a write lock needs an fd open for writing.
Lockable(h, S, flag) ==
  S = {} \/ (~Conflict(h, S, flag) /\ (flag = "exclusive" => h \in Writable))

On(map, S, state) == [b \in Bytes |-> IF b \in S THEN state ELSE map[b]]

------------------------------------------------------------------------------
(* The LOCK handler *)

\* Bound: a lock stands for what is asked of a range without a byte.
Batches(h) ==
  UNION {[1..n -> {e \in Element : e.means = {} => e.flag \in {"exclusive", "invalid"}}] : n \in 1..MaxElems[h]}

\* What the client holds once every element has been applied to map, in order.
Applied(map, elems) ==
  [b \in Bytes |->
     LET at == {i \in DOMAIN elems : b \in elems[i].means}
     IN  IF at = {} THEN map[b]
         ELSE LET last == CHOOSE i \in at : \A j \in at : j <= i
              IN  IF elems[last].flag = "unlock" THEN "none" ELSE elems[last].flag]

\* What a client asks for: any mix of locks and unlocks, in which a lock is on bytes
\* that it does not hold by then.
Fresh(h, elems) ==
  \A i \in DOMAIN elems :
    elems[i].flag # "unlock" =>
      \A b \in elems[i].means : Applied(told[h], SubSeq(elems, 1, i - 1))[b] = "none"

\* The request is taken.
Lock(h, elems) ==
  LET unlocks == {i \in DOMAIN elems : elems[i].flag = "unlock"}
      given == {b \in UNION {elems[i].means : i \in unlocks} : told[h][b] # "none"}
  IN  /\ inTable[h] /\ lreq[h].at = "idle"
      /\ Fresh(h, elems)
      /\ lreq' = [lreq EXCEPT ![h] = [at |-> "apply", rest |-> elems, applied |-> <<>>,
                                      asked |-> Applied(told[h], elems)]]
      /\ told' = [told EXCEPT ![h] = On(@, given, "unsure")]
      /\ UNCHANGED <<held, fds, inTable>>

\* One element that fcntl takes. Only a lock is remembered for the unwinding.
ApplyElement(h) ==
  LET e == Head(lreq[h].rest)
      S == e.span
  IN  /\ lreq[h].at = "apply" /\ lreq[h].rest # <<>>
      /\ \/ e.flag = "unlock"
         \/ e.flag \in {"shared", "exclusive"} /\ Lockable(h, S, e.flag)
      /\ held' = [held EXCEPT ![h] = On(@, S, IF e.flag = "unlock" THEN "none" ELSE e.flag)]
      /\ lreq' = [lreq EXCEPT ![h].rest = Tail(@),
                              ![h].applied = IF e.flag = "unlock" THEN @ ELSE Append(@, S)]
      /\ UNCHANGED <<fds, inTable, told>>

\* Mutant: the locks already taken stay.
RefuseElement_Keep(h) ==
  LET e == Head(lreq[h].rest)
      S == e.span
  IN  /\ lreq[h].at = "apply" /\ lreq[h].rest # <<>>
      /\ e.flag = "invalid" \/ (e.flag # "unlock" /\ ~Lockable(h, S, e.flag))
      /\ lreq' = [lreq EXCEPT ![h] = NoRequest]
      /\ UNCHANGED <<held, fds, inTable, told>>

\* One that fails: no flag it knows, or a conflict, or the wrong kind of fd.
RefuseElement(h) ==
  LET e == Head(lreq[h].rest)
      S == e.span
  IN  /\ lreq[h].at = "apply" /\ lreq[h].rest # <<>>
      /\ e.flag = "invalid" \/ (e.flag # "unlock" /\ ~Lockable(h, S, e.flag))
      /\ lreq' = [lreq EXCEPT ![h] = [@ EXCEPT !.at = "unwind", !.rest = <<>>, !.asked = Free]]
      /\ UNCHANGED <<held, fds, inTable, told>>

\* The locks this request took are given back, the last one first.
Unwind(h) ==
  LET a == lreq[h].applied
  IN  /\ lreq[h].at = "unwind" /\ a # <<>>
      /\ held' = [held EXCEPT ![h] = On(@, a[Len(a)], "none")]
      /\ lreq' = [lreq EXCEPT ![h].applied = SubSeq(a, 1, Len(a) - 1)]
      /\ UNCHANGED <<fds, inTable, told>>

\* The error response.
LockFailed(h) ==
  /\ lreq[h].at = "unwind" /\ lreq[h].applied = <<>>
  /\ lreq' = [lreq EXCEPT ![h] = NoRequest]
  /\ UNCHANGED <<held, fds, inTable, told>>

\* The success response: the client holds what it asked for.
LockGranted(h) ==
  /\ lreq[h].at = "apply" /\ lreq[h].rest = <<>>
  /\ told' = [told EXCEPT ![h] = lreq[h].asked]
  /\ lreq' = [lreq EXCEPT ![h] = NoRequest]
  /\ UNCHANGED <<held, fds, inTable>>

------------------------------------------------------------------------------
(* CLOSE, and the fds of a READ *)

\* close(2): the description's locks go with its last fd.
CloseFd(h) ==
  /\ fds' = [fds EXCEPT ![h] = @ - 1]
  /\ held' = IF fds[h] = 1 THEN [held EXCEPT ![h] = Free] ELSE held

\* read: the handle's fd is duplicated for a READ that goes on without the session
\* lock.
ReadDup(h) ==
  /\ h \in Readers
  /\ inTable[h] /\ lreq[h].at = "idle"
  /\ fds[h] <= MaxReads
  /\ fds' = [fds EXCEPT ![h] = @ + 1]
  /\ UNCHANGED <<held, inTable, lreq, told>>

\* The READ ends, in the handler or in the reactor.
ReadDone(h) ==
  /\ fds[h] > (IF inTable[h] THEN 1 ELSE 0)
  /\ CloseFd(h)
  /\ UNCHANGED <<inTable, lreq, told>>

\* CLOSE (or the end of the tree or of the session): the open leaves the table and
\* is dropped.
CloseHandle(h) ==
  /\ inTable[h] /\ lreq[h].at = "idle"
  /\ inTable' = [inTable EXCEPT ![h] = FALSE]
  /\ told' = [told EXCEPT ![h] = Free]
  /\ CloseFd(h)
  /\ UNCHANGED lreq

------------------------------------------------------------------------------

LockInit ==
  /\ held = [h \in Handles |-> Free]
  /\ fds = [h \in Handles |-> 1]
  /\ inTable = [h \in Handles |-> TRUE]
  /\ lreq = [h \in Handles |-> NoRequest]
  /\ told = [h \in Handles |-> Free]

LockStep(h) == ApplyElement(h) \/ RefuseElement(h) \/ Unwind(h) \/ LockFailed(h) \/ LockGranted(h)

LockNext ==
  \E h \in Handles :
    \/ \E elems \in Batches(h) : Lock(h, elems)
    \/ LockStep(h)
    \/ ReadDup(h) \/ ReadDone(h) \/ CloseHandle(h)

LockSpec == LockInit /\ [][LockNext]_lockvars

------------------------------------------------------------------------------
(* Properties *)

\* The kernel's locks of an open handle are the ones its client was told of: a confirmed
\* lock stays until its client gives it up, although other clients' batches are applied
\* and unwound meanwhile and READs open and close fds of the same description; and
\* between requests there is no other, so the locks of a refused batch have gone ("Batch
\* semantics: all-or-nothing", lock in handlers.rs).  Clients lock bytes they do not hold
\* (Fresh).  Nothing is said of two things the code does not keep: the unlocks of a refused
\* batch are not undone, so their bytes are "unsure"; and the locks of a closed handle stay
\* while a READ has a dup of its fd, although finish_close says that dropping the open
\* closes the fd "(and with it any OFD byte-range locks)".
LocksAsTold ==
  \A h \in Handles, b \in Bytes :
    inTable[h] /\ told[h][b] # "unsure" =>
      /\ told[h][b] # "none" => held[h][b] = told[h][b]
      /\ lreq[h].at = "idle" => held[h][b] = told[h][b]
==============================================================================
