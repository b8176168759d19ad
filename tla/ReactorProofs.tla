---------------------------- MODULE ReactorProofs ----------------------------
(***************************************************************************)
(* What the operators of the reactor make of a Conn. Its handlers compute  *)
(* on one Conn, so the invariant is stated of a Conn d, and each lemma     *)
(* says that an operator that is given a Conn in one phase of its work     *)
(* leaves it in another: looping, resting, sending, or at some point of a  *)
(* READ. The phases are those of the comment on Tx, with what each         *)
(* implies for the operations in flight, the pipe and the dups.            *)
(***************************************************************************)
EXTENDS Reactor, FiniteSetTheorems, TLAPS

USE ZenonT(40)

------------------------------------------------------------------------------
(* The invariant *)

Fields ==
  {"state", "driving", "rx", "recv_inflight", "tx", "tx_off", "txm", "pending_zc", "pipe", "zc", "deferred",
   "inotify", "inotify_cancelled", "watches", "inflight", "notif_pending", "send_is_zc", "copy_next",
   "close_after_send", "ops", "owed", "kbuf", "inpipe", "dups", "broken", "total"}

IsConn(d) == d = [x \in Fields |-> d[x]]

Counted(d) == d.inflight = Cardinality(d.ops) + d.owed

\* The count of completions is right.
Sound(d) == IsConn(d) /\ IsFiniteSet(d.ops) /\ d.owed \in Nat /\ Counted(d)

Pinned(d) == "send" \in d.ops \/ d.owed # 0 => d.tx = d.kbuf

\* What holds of a Conn in every state.
Base(d) == Sound(d) /\ d.dups = Owned(d) /\ Pinned(d)

\* What holds of an open one whatever it is doing.
OpenOK(d) ==
  /\ d.state = "open" /\ d.notif_pending = d.owed
  /\ d.recv_inflight <=> "recv" \in d.ops
  /\ d.inotify <=> "inotify" \in d.ops
  /\ d.rx \in Seq(Frames)

NoIO(d) == "send" \notin d.ops /\ "in" \notin d.ops /\ "out" \notin d.ops

\* Nothing is being sent, and nothing is left of what was.
Quiet(d) ==
  /\ NoIO(d) /\ d.owed = 0 /\ d.zc = None /\ d.pending_zc = None /\ d.inpipe = <<>>
  /\ ~d.close_after_send /\ d.tx_off = 0

\* drive's loop runs; or there is nothing to do.
Looping(d) == d.driving /\ d.txm = "Idle" /\ Quiet(d)
Resting(d) == ~d.driving /\ d.txm = "Idle" /\ Quiet(d) /\ d.tx = <<>> /\ d.rx = <<>>

\* A batch is being sent, or its notifications are awaited; a READ may wait behind it.
Sends(d) ==
  /\ ~d.driving /\ d.zc = None /\ d.inpipe = <<>> /\ d.pending_zc \in Frames \cup {None}
  /\ "in" \notin d.ops /\ "out" \notin d.ops
  /\ \/ d.txm = "Send" /\ "send" \in d.ops
     \/ d.txm = "Drain" /\ "send" \notin d.ops

Reading(d) ==
  /\ ~d.driving /\ d.owed = 0 /\ d.pending_zc = None /\ ~d.close_after_send
  /\ d.zc \in ZcType /\ d.inpipe \in Seq(Nat \X Nat)

\* A READ goes splice by splice: what is in the pipe is what came in, then what is
\* still to go out.
ReadIn(d) ==
  /\ Reading(d) /\ ~d.zc.linked /\ d.txm = "ZcIn" /\ Len(d.inpipe) = d.zc.got
  /\ "in" \in d.ops /\ "send" \notin d.ops /\ "out" \notin d.ops
ReadHdr(d) ==
  /\ Reading(d) /\ ~d.zc.linked /\ d.txm = "ZcHdr" /\ Len(d.inpipe) = d.zc.out_left /\ ~d.send_is_zc
  /\ "send" \in d.ops /\ "in" \notin d.ops /\ "out" \notin d.ops
ReadOut(d) ==
  /\ Reading(d) /\ ~d.zc.linked /\ d.txm = "ZcOut" /\ Len(d.inpipe) = d.zc.out_left
  /\ "out" \in d.ops /\ "send" \notin d.ops /\ "in" \notin d.ops

\* A READ goes as a linked chain: `chain` tells which of its operations are left. One
\* that broke has a failure to come, and has had one before its last operation.
Chained(d) ==
  /\ Reading(d) /\ d.zc.linked /\ d.txm = "ZcOut" /\ "out" \in d.ops
  /\ \/ /\ d.zc.chain = 3 /\ "in" \in d.ops /\ "send" \in d.ops
        /\ d.inpipe = <<>> /\ d.zc.out_left = d.zc.want /\ ~d.broken
     \/ /\ d.zc.chain = 2 /\ "in" \notin d.ops /\ "send" \in d.ops
        /\ d.broken \/ Len(d.inpipe) = d.zc.out_left
     \/ /\ d.zc.chain = 1 /\ "in" \notin d.ops /\ "send" \notin d.ops
        /\ (d.broken /\ d.zc.err) \/ (~d.broken /\ Len(d.inpipe) = d.zc.out_left)

Working(d) == Sends(d) \/ ReadIn(d) \/ ReadHdr(d) \/ ReadOut(d) \/ Chained(d)

ConnOK(d) ==
  /\ Base(d)
  /\ \/ d.state = "free" /\ ~d.driving /\ d.ops = {} /\ d.owed = 0 /\ d.dups = {}
     \/ d.state = "closing" /\ ~d.driving
     \/ OpenOK(d) /\ (Looping(d) \/ (Resting(d) /\ d.recv_inflight) \/ Working(d))

------------------------------------------------------------------------------
(* What an operator leaves alone, and the count *)

SameCtl(d, e) == e.state = d.state /\ e.driving = d.driving /\ e.close_after_send = d.close_after_send
SameRx(d, e) == e.rx = d.rx /\ e.recv_inflight = d.recv_inflight /\ e.inotify = d.inotify
SameTx(d, e) ==
  e.tx = d.tx /\ e.tx_off = d.tx_off /\ e.txm = d.txm /\ e.kbuf = d.kbuf /\ e.send_is_zc = d.send_is_zc
SameOwed(d, e) == e.owed = d.owed /\ e.notif_pending = d.notif_pending
SameRead(d, e) ==
  e.pending_zc = d.pending_zc /\ e.zc = d.zc /\ e.inpipe = d.inpipe /\ e.dups = d.dups /\ e.broken = d.broken
SameIO(d, e) ==
  /\ "send" \in e.ops <=> "send" \in d.ops
  /\ "in" \in e.ops <=> "in" \in d.ops
  /\ "out" \in e.ops <=> "out" \in d.ops

\* Adding and removing an operation.
LEMMA CountMore ==
  ASSUME NEW A, IsFiniteSet(A), NEW op, op \notin A
  PROVE  IsFiniteSet(A \cup {op}) /\ Cardinality(A \cup {op}) = Cardinality(A) + 1 /\ Cardinality(A) \in Nat
BY FS_AddElement, FS_CardinalityType

LEMMA CountLess ==
  ASSUME NEW A, IsFiniteSet(A), NEW op \in A
  PROVE  IsFiniteSet(A \ {op}) /\ Cardinality(A \ {op}) = Cardinality(A) - 1 /\ Cardinality(A) \in Nat
BY FS_RemoveElement, FS_CardinalityType

\* With nothing in flight the kernel has nothing to do.
LEMMA CountNone ==
  ASSUME NEW d, Sound(d), d.inflight = 0
  PROVE  d.ops = {} /\ d.owed = 0
<1>1. Cardinality(d.ops) \in Nat
  BY FS_CardinalityType DEF Sound
<1>2. Cardinality(d.ops) = 0 /\ d.owed = 0
  BY <1>1, SMTT(30) DEF Sound, Counted
<1>. QED
  BY <1>2, FS_EmptySet DEF Sound

\* sq_push_conn.
LEMMA Submits ==
  ASSUME NEW d, Sound(d), NEW op, op \notin d.ops, NEW e, e = Submit(d, op)
  PROVE  /\ Sound(e) /\ e.ops = d.ops \cup {op}
         /\ SameCtl(d, e) /\ SameRx(d, e) /\ SameTx(d, e) /\ SameOwed(d, e) /\ SameRead(d, e)
<1>1. IsConn(e) /\ e.ops = d.ops \cup {op} /\ e.inflight = d.inflight + 1
  BY DEF Sound, IsConn, Fields, Submit
<1>2. SameCtl(d, e) /\ SameRx(d, e) /\ SameTx(d, e) /\ SameOwed(d, e) /\ SameRead(d, e)
  BY DEF Sound, IsConn, Fields, Submit, SameCtl, SameRx, SameTx, SameOwed, SameRead
<1>3. IsFiniteSet(e.ops) /\ Cardinality(e.ops) = Cardinality(d.ops) + 1 /\ Cardinality(d.ops) \in Nat
  <2>1. IsFiniteSet(d.ops)
    BY DEF Sound
  <2>2. IsFiniteSet(d.ops \cup {op}) /\ Cardinality(d.ops \cup {op}) = Cardinality(d.ops) + 1
        /\ Cardinality(d.ops) \in Nat
    BY <2>1, CountMore
  <2>. QED
    BY <1>1, <2>2
<1>4. e.owed \in Nat /\ d.owed \in Nat /\ e.owed = d.owed
  BY <1>2 DEF SameOwed, Sound
<1>5. Counted(e)
  <2>1. Counted(d)
    BY DEF Sound
  <2>. QED
    BY <1>1, <1>3, <1>4, <2>1, SMTT(30) DEF Counted
<1>. QED
  BY <1>1, <1>2, <1>3, <1>4, <1>5 DEF Sound

\* A completion is taken off the ring.
LEMMA Retires ==
  ASSUME NEW d, Sound(d), NEW op, op \in d.ops, NEW e, e = Retire(d, op)
  PROVE  /\ Sound(e) /\ e.ops = d.ops \ {op}
         /\ SameCtl(d, e) /\ SameRx(d, e) /\ SameTx(d, e) /\ SameOwed(d, e) /\ SameRead(d, e)
<1>1. IsConn(e) /\ e.ops = d.ops \ {op} /\ e.inflight = d.inflight - 1
  BY DEF Sound, IsConn, Fields, Retire
<1>2. SameCtl(d, e) /\ SameRx(d, e) /\ SameTx(d, e) /\ SameOwed(d, e) /\ SameRead(d, e)
  BY DEF Sound, IsConn, Fields, Retire, SameCtl, SameRx, SameTx, SameOwed, SameRead
<1>3. IsFiniteSet(e.ops) /\ Cardinality(e.ops) = Cardinality(d.ops) - 1 /\ Cardinality(d.ops) \in Nat
  <2>1. IsFiniteSet(d.ops)
    BY DEF Sound
  <2>2. IsFiniteSet(d.ops \ {op}) /\ Cardinality(d.ops \ {op}) = Cardinality(d.ops) - 1
        /\ Cardinality(d.ops) \in Nat
    BY <2>1, CountLess
  <2>. QED
    BY <1>1, <2>2
<1>4. e.owed \in Nat /\ d.owed \in Nat /\ e.owed = d.owed
  BY <1>2 DEF SameOwed, Sound
<1>5. Counted(e)
  <2>1. Counted(d)
    BY DEF Sound
  <2>. QED
    BY <1>1, <1>3, <1>4, <2>1, SMTT(30) DEF Counted
<1>. QED
  BY <1>1, <1>2, <1>3, <1>4, <1>5 DEF Sound

\* A Conn that differs in nothing the phase is about is in the same phase.
LEMMA PhaseKept ==
  ASSUME NEW d, NEW e, SameCtl(d, e), SameTx(d, e), SameOwed(d, e), SameRead(d, e), SameIO(d, e)
  PROVE  /\ Pinned(d) => Pinned(e)
         /\ d.dups = Owned(d) => e.dups = Owned(e)
         /\ Quiet(d) => Quiet(e)
         /\ Looping(d) => Looping(e)
         /\ Working(d) => Working(e)
<1>1. Pinned(d) => Pinned(e)
  BY DEF Pinned, SameTx, SameOwed, SameIO
<1>2. d.dups = Owned(d) => e.dups = Owned(e)
  BY DEF Owned, SameRead
<1>3. Quiet(d) => Quiet(e)
  BY DEF Quiet, NoIO, SameCtl, SameTx, SameOwed, SameRead, SameIO
<1>4. Looping(d) => Looping(e)
  BY <1>3 DEF Looping, SameCtl, SameTx
<1>5. Sends(d) => Sends(e)
  BY DEF Sends, SameCtl, SameTx, SameRead, SameIO
<1>6. Reading(d) => Reading(e)
  BY DEF Reading, SameCtl, SameOwed, SameRead
<1>7. ReadIn(d) => ReadIn(e)
  BY <1>6 DEF ReadIn, SameTx, SameRead, SameIO
<1>8. ReadHdr(d) => ReadHdr(e)
  BY <1>6 DEF ReadHdr, SameTx, SameRead, SameIO
<1>9. ReadOut(d) => ReadOut(e)
  BY <1>6 DEF ReadOut, SameTx, SameRead, SameIO
<1>10. Chained(d) => Chained(e)
  BY <1>6 DEF Chained, SameTx, SameRead, SameIO
<1>. QED
  BY <1>1, <1>2, <1>3, <1>4, <1>5, <1>7, <1>8, <1>9, <1>10 DEF Working

------------------------------------------------------------------------------
(* Teardown *)

\* A new Conn.
LEMMA FreshConn ==
  /\ IsConn(Fresh) /\ Fresh.state = "open" /\ Fresh.driving = FALSE /\ Fresh.close_after_send = FALSE
  /\ Fresh.rx = <<>> /\ Fresh.recv_inflight = FALSE /\ Fresh.inotify = FALSE
  /\ Fresh.tx = <<>> /\ Fresh.tx_off = 0 /\ Fresh.txm = "Idle" /\ Fresh.kbuf = <<>>
  /\ Fresh.owed = 0 /\ Fresh.notif_pending = 0 /\ Fresh.inflight = 0 /\ Fresh.ops = {}
  /\ Fresh.pending_zc = None /\ Fresh.zc = None /\ Fresh.inpipe = <<>> /\ Fresh.dups = {}
<1>1. IsConn(Fresh)
  BY DEF Fresh, IsConn, Fields
<1>. QED
  BY <1>1 DEF Fresh

\* finalize_close: with nothing in flight, the Conn goes and owns nothing.
LEMMA Finalized ==
  ASSUME NEW d, Base(d), d.inflight = 0, NEW e, e = FinalizeClose(d)
  PROVE  ConnOK(e)
<1>1. d.ops = {} /\ d.owed = 0
  BY CountNone DEF Base
<1>2. /\ IsConn(e) /\ e.state = "free" /\ e.ops = d.ops /\ e.owed = d.owed /\ e.inflight = d.inflight
      /\ e.dups = d.dups \ Owned(d) /\ e.tx = <<>> /\ e.kbuf = <<>> /\ e.zc = None /\ e.pending_zc = None
  BY FreshConn DEF FinalizeClose, IsConn, Fields
<1>3. ~e.driving
  BY FreshConn DEF FinalizeClose, IsConn, Fields
<1>4. Sound(e)
  BY <1>2 DEF Base, Sound, Counted
<1>5. e.dups = {} /\ Owned(e) = {}
  <2>1. e.dups = {}
    BY <1>2 DEF Base
  <2>. QED
    BY <1>2, <2>1 DEF Owned
<1>. QED
  BY <1>1, <1>2, <1>3, <1>4, <1>5 DEF ConnOK, Base, Pinned

\* close_conn_ring.
LEMMA Closed ==
  ASSUME NEW d, Base(d), NEW e, e = CloseConn(d)
  PROVE  ConnOK(e)
<1>1. PICK x : x = [d EXCEPT !.state = "closing", !.driving = FALSE, !.inotify_cancelled = d.inotify]
  OBVIOUS
<1>2. e = IF d.inflight = 0 THEN FinalizeClose(x) ELSE x
  BY <1>1 DEF CloseConn
<1>3. IsConn(d)
  BY DEF Base, Sound
<1>4. /\ IsConn(x) /\ x.state = "closing" /\ x.inflight = d.inflight
      /\ x.ops = d.ops /\ x.owed = d.owed /\ x.tx = d.tx /\ x.kbuf = d.kbuf
      /\ x.dups = d.dups /\ x.zc = d.zc /\ x.pending_zc = d.pending_zc
  BY <1>1, <1>3 DEF IsConn, Fields
<1>5. Base(x)
  BY <1>4 DEF Base, Sound, Counted, Owned, Pinned
<1>6. ~x.driving
  BY <1>1, <1>3 DEF IsConn, Fields
<1>. QED
  BY <1>2, <1>4, <1>5, <1>6, Finalized DEF ConnOK

\* A completion of a closing connection.
LEMMA DrainedOK ==
  ASSUME NEW d, Base(d), d.state = "closing", ~d.driving, NEW e, e = Drained(d)
  PROVE  ConnOK(e)
BY Finalized DEF Drained, ConnOK

------------------------------------------------------------------------------
(* Receiving *)

\* maybe_arm_recv: a connection with nothing to do listens afterwards.
LEMMA Armed ==
  ASSUME NEW d, Base(d), OpenOK(d), Resting(d) \/ Working(d), NEW e, e = MaybeArmRecv(d)
  PROVE  ConnOK(e)
<1>1. CASE e = d /\ d.recv_inflight
  BY <1>1 DEF ConnOK
<1>2. CASE e = CloseConn(d)
  BY <1>2, Closed
<1>3. CASE e = d /\ d.close_after_send
  BY <1>3 DEF ConnOK, Resting, Quiet
<1>4. CASE e = d /\ Len(d.rx) >= RxCap
  <2>1. d.rx # <<>>
    BY <1>4, ReactorAssumption, SMTT(30)
  <2>. QED
    BY <1>4, <2>1 DEF ConnOK, Resting
<1>5. CASE ~d.recv_inflight /\ e = Submit([d EXCEPT !.recv_inflight = TRUE], "recv")
  <2>1. PICK x : x = [d EXCEPT !.recv_inflight = TRUE]
    OBVIOUS
  <2>2. IsConn(d)
    BY DEF Base, Sound
  <2>3. /\ IsConn(x) /\ x.recv_inflight = TRUE /\ x.inflight = d.inflight /\ x.ops = d.ops
        /\ SameCtl(d, x) /\ SameTx(d, x) /\ SameOwed(d, x) /\ SameRead(d, x)
        /\ x.rx = d.rx /\ x.inotify = d.inotify
    BY <2>1, <2>2 DEF IsConn, Fields, SameCtl, SameTx, SameOwed, SameRead
  <2>4. Sound(x) /\ "recv" \notin x.ops
    BY <1>5, <2>3 DEF Base, Sound, Counted, OpenOK, SameOwed
  <2>5. /\ Sound(e) /\ e.ops = x.ops \cup {"recv"}
        /\ SameCtl(x, e) /\ SameRx(x, e) /\ SameTx(x, e) /\ SameOwed(x, e) /\ SameRead(x, e)
    BY <1>5, <2>1, <2>4, Submits
  <2>6. /\ SameCtl(d, e) /\ SameTx(d, e) /\ SameOwed(d, e) /\ SameRead(d, e) /\ SameIO(d, e)
    BY <2>3, <2>5 DEF SameCtl, SameTx, SameOwed, SameRead, SameIO
  <2>7. e.recv_inflight /\ e.rx = d.rx /\ e.inotify = d.inotify /\ e.ops = d.ops \cup {"recv"}
    BY <2>3, <2>5 DEF SameRx
  <2>8. OpenOK(e)
    BY <2>6, <2>7 DEF OpenOK, SameCtl, SameOwed
  <2>9. Base(e)
    BY <2>5, <2>6, PhaseKept DEF Base
  <2>10. Resting(d) => Resting(e)
    BY <2>6, <2>7, PhaseKept DEF Resting, SameCtl, SameTx
  <2>. QED
    BY <2>6, <2>7, <2>8, <2>9, <2>10, PhaseKept DEF ConnOK
<1>. QED
  BY <1>1, <1>2, <1>3, <1>4, <1>5 DEF MaybeArmRecv, OpenOK

------------------------------------------------------------------------------
(* Sending *)

\* submit_send.
SendPosted(d, e) ==
  /\ Sound(e) /\ e.ops = d.ops \cup {"send"} /\ e.kbuf = e.tx
  /\ SameCtl(d, e) /\ SameRx(d, e) /\ SameOwed(d, e) /\ SameRead(d, e)
  /\ e.tx = d.tx /\ e.tx_off = d.tx_off /\ e.txm = d.txm

LEMMA Submitted ==
  ASSUME NEW d, Sound(d), "send" \notin d.ops, NEW more, NEW e, e = SubmitSend(d, more)
  PROVE  SendPosted(d, e)
<1>1. PICK z : z = (SendZcOk /\ ~d.copy_next /\ ~more /\ Len(d.tx) - d.tx_off >= ZC_SEND_MIN)
  OBVIOUS
<1>2. PICK x : x = [d EXCEPT !.send_is_zc = z, !.copy_next = FALSE, !.kbuf = d.tx]
  OBVIOUS
<1>3. e = Submit(x, "send")
  BY <1>1, <1>2 DEF SubmitSend
<1>4. IsConn(d)
  BY DEF Sound
<1>5. /\ IsConn(x) /\ x.ops = d.ops /\ x.inflight = d.inflight /\ x.send_is_zc = z /\ x.kbuf = d.tx
      /\ SameCtl(d, x) /\ SameRx(d, x) /\ SameOwed(d, x) /\ SameRead(d, x)
      /\ x.tx = d.tx /\ x.tx_off = d.tx_off /\ x.txm = d.txm
  BY <1>2, <1>4 DEF IsConn, Fields, SameCtl, SameRx, SameOwed, SameRead
<1>6. Sound(x) /\ "send" \notin x.ops
  BY <1>5 DEF Sound, Counted, SameOwed
<1>7. /\ Sound(e) /\ e.ops = x.ops \cup {"send"}
      /\ SameCtl(x, e) /\ SameRx(x, e) /\ SameTx(x, e) /\ SameOwed(x, e) /\ SameRead(x, e)
  BY <1>3, <1>6, Submits
<1>. QED
  BY <1>5, <1>7 DEF SendPosted, SameCtl, SameRx, SameTx, SameOwed, SameRead

\* The header of a READ does not go by send_zc.
LEMMA SubmittedHdr ==
  ASSUME NEW d, IsConn(d), NEW e, e = SubmitSend(d, TRUE)
  PROVE  ~e.send_is_zc
<1>1. PICK x : x = [d EXCEPT !.send_is_zc = FALSE, !.copy_next = FALSE, !.kbuf = d.tx]
  OBVIOUS
<1>2. e = Submit(x, "send")
  BY <1>1 DEF SubmitSend
<1>3. IsConn(x)
  BY <1>1 DEF IsConn, Fields
<1>4. ~x.send_is_zc
  BY <1>1 DEF IsConn, Fields
<1>5. e.send_is_zc = x.send_is_zc
  BY <1>2, <1>3 DEF IsConn, Fields, Submit
<1>. QED
  BY <1>4, <1>5

\* A batch can be sent: nothing else is under way.
Sendable(d) ==
  /\ OpenOK(d) /\ NoIO(d) /\ ~d.driving /\ d.zc = None /\ d.inpipe = <<>> /\ d.pending_zc \in Frames \cup {None}
  /\ Sound(d) /\ d.dups = Owned(d)

LEMMA SendableSends ==
  ASSUME NEW d, Sendable(d), d.txm = "Send", NEW more, NEW e, e = SubmitSend(d, more)
  PROVE  Base(e) /\ OpenOK(e) /\ Sends(e)
<1>1. /\ Sound(e) /\ e.ops = d.ops \cup {"send"} /\ e.kbuf = e.tx
      /\ SameCtl(d, e) /\ SameRx(d, e) /\ SameOwed(d, e) /\ SameRead(d, e)
      /\ e.txm = d.txm
  <2>1. Sound(d) /\ "send" \notin d.ops
    BY DEF Sendable, NoIO
  <2>2. SendPosted(d, e)
    BY <2>1, Submitted
  <2>. QED
    BY <2>2 DEF SendPosted
<1>2. Base(e)
  BY <1>1 DEF Sendable, Base, Pinned, Owned, SameRead
<1>3. OpenOK(e)
  BY <1>1 DEF Sendable, OpenOK, SameCtl, SameRx, SameOwed
<1>4. Sends(e)
  BY <1>1 DEF Sendable, NoIO, Sends, SameCtl, SameRead
<1>. QED
  BY <1>2, <1>3, <1>4

\* start_send.
LEMMA StartSends ==
  ASSUME NEW d, Sendable(d), NEW e, e = StartSend(d)
  PROVE  Base(e) /\ OpenOK(e) /\ Sends(e)
<1>1. PICK x : x = [d EXCEPT !.txm = "Send"]
  OBVIOUS
<1>2. IsConn(d)
  BY DEF Sendable, Sound
<1>3. /\ IsConn(x) /\ x.ops = d.ops /\ x.inflight = d.inflight /\ x.txm = "Send"
      /\ SameCtl(d, x) /\ SameRx(d, x) /\ SameOwed(d, x) /\ SameRead(d, x)
  BY <1>1, <1>2 DEF IsConn, Fields, SameCtl, SameRx, SameOwed, SameRead
<1>4. Sendable(x)
  BY <1>3 DEF Sendable, OpenOK, NoIO, Sound, Counted, Owned, SameCtl, SameRx, SameOwed, SameRead
<1>. QED
  BY <1>1, <1>3, <1>4, SendableSends DEF StartSend

\* A READ can start: nothing else is under way, and its dup is the only one.
Ready(d, f) ==
  /\ Sound(d) /\ OpenOK(d) /\ NoIO(d) /\ ~d.driving /\ d.owed = 0 /\ ~d.close_after_send
  /\ d.pending_zc = None /\ d.inpipe = <<>>
  /\ f \in Frames /\ d.dups = {f.no}

\* An error response in its place.
LEMMA ErrSends ==
  ASSUME NEW d, NEW no, Sound(d), OpenOK(d), NoIO(d), ~d.driving, d.pending_zc = None, d.inpipe = <<>>,
         d.dups = {no}, NEW e, e = SendReadErr(d, no)
  PROVE  Base(e) /\ OpenOK(e) /\ Sends(e)
<1>1. PICK x : x = [d EXCEPT !.zc = None, !.dups = @ \ {no}, !.tx = Units(no, 1), !.tx_off = 0, !.txm = "Send"]
  OBVIOUS
<1>2. IsConn(d)
  BY DEF Sound
<1>3. /\ IsConn(x) /\ x.ops = d.ops /\ x.inflight = d.inflight /\ x.txm = "Send"
      /\ SameCtl(d, x) /\ SameRx(d, x) /\ SameOwed(d, x)
      /\ x.pending_zc = d.pending_zc /\ x.zc = None /\ x.inpipe = d.inpipe /\ x.dups = d.dups \ {no}
  BY <1>1, <1>2 DEF IsConn, Fields, SameCtl, SameRx, SameOwed
<1>4. x.dups = {} /\ Owned(x) = {}
  <2>1. x.dups = {}
    BY <1>3
  <2>. QED
    BY <1>3, <2>1 DEF Owned
<1>5. Sendable(x)
  BY <1>3, <1>4 DEF Sendable, OpenOK, NoIO, Sound, Counted, SameCtl, SameRx, SameOwed
<1>. QED
  BY <1>1, <1>3, <1>5, SendableSends DEF SendReadErr

\* drive begins.
LEMMA Drives ==
  ASSUME NEW d, Base(d), OpenOK(d), Quiet(d), NEW e, e = Drive(d)
  PROVE  ConnOK(e)
<1>1. PICK t, q : e = [d EXCEPT !.driving = TRUE, !.txm = "Idle", !.tx = t, !.deferred = q]
  <2>1. e = [d EXCEPT !.driving = TRUE, !.txm = "Idle",
                      !.tx = @ \o [i \in 1..MinOf(Len(d.deferred), TX_FLUSH) |-> <<d.deferred[i], 1>>],
                      !.deferred = SubSeq(@, MinOf(Len(d.deferred), TX_FLUSH) + 1, Len(@))]
    BY DEF Drive
  <2>. QED
    BY <2>1
<1>2. IsConn(d)
  BY DEF Base, Sound
<1>3. /\ IsConn(e) /\ e.ops = d.ops /\ e.inflight = d.inflight /\ e.txm = "Idle" /\ e.driving = TRUE
      /\ e.state = d.state /\ e.close_after_send = d.close_after_send /\ e.tx_off = d.tx_off
      /\ SameRx(d, e) /\ SameOwed(d, e) /\ SameRead(d, e)
  <2>1. IsConn(e)
    BY <1>1, <1>2 DEF IsConn, Fields
  <2>2. e.driving = TRUE
    BY <1>1, <1>2 DEF IsConn, Fields
  <2>3. /\ e.ops = d.ops /\ e.inflight = d.inflight /\ e.txm = "Idle"
        /\ e.state = d.state /\ e.close_after_send = d.close_after_send /\ e.tx_off = d.tx_off
    BY <1>1, <1>2 DEF IsConn, Fields
  <2>4. SameRx(d, e) /\ SameOwed(d, e)
    BY <1>1, <1>2 DEF IsConn, Fields, SameRx, SameOwed
  <2>5. SameRead(d, e)
    BY <1>1, <1>2 DEF IsConn, Fields, SameRead
  <2>. QED
    BY <2>1, <2>2, <2>3, <2>4, <2>5
<1>4. Base(e)
  BY <1>3 DEF Base, Sound, Counted, Owned, Pinned, Quiet, NoIO, SameOwed, SameRead
<1>5. OpenOK(e)
  BY <1>3 DEF OpenOK, SameRx, SameOwed
<1>6. Looping(e)
  BY <1>3 DEF Looping, Quiet, NoIO, SameOwed, SameRead
<1>. QED
  BY <1>4, <1>5, <1>6 DEF ConnOK

\* Three operations at once.
LEMMA CountChain ==
  ASSUME NEW A, IsFiniteSet(A), "in" \notin A, "send" \notin A, "out" \notin A
  PROVE  /\ IsFiniteSet(A \cup {"in", "send", "out"}) /\ Cardinality(A) \in Nat
         /\ Cardinality(A \cup {"in", "send", "out"}) = Cardinality(A) + 3
<1>1. PICK B : B = A \cup {"in"}
  OBVIOUS
<1>2. PICK C : C = B \cup {"send"}
  OBVIOUS
<1>3. PICK D : D = C \cup {"out"}
  OBVIOUS
<1>4. IsFiniteSet(B) /\ Cardinality(B) = Cardinality(A) + 1 /\ Cardinality(A) \in Nat
  BY <1>1, CountMore
<1>5. "send" \notin B /\ "out" \notin B
  BY <1>1
<1>6. IsFiniteSet(C) /\ Cardinality(C) = Cardinality(B) + 1
  BY <1>2, <1>4, <1>5, CountMore
<1>7. "out" \notin C
  BY <1>2, <1>5
<1>8. IsFiniteSet(D) /\ Cardinality(D) = Cardinality(C) + 1
  BY <1>3, <1>6, <1>7, CountMore
<1>9. D = A \cup {"in", "send", "out"}
  BY <1>1, <1>2, <1>3
<1>10. Cardinality(D) = Cardinality(A) + 3
  BY <1>4, <1>6, <1>8, SMTT(30)
<1>. QED
  BY <1>4, <1>8, <1>9, <1>10

\* What a READ asks the pipe for.
LEMMA WantFits ==
  ASSUME NEW w, w = MinOf(ZLEN, PIPE_CAP)
  PROVE  w \in 0..ZLEN /\ 0 \in 0..ZLEN /\ ZLEN \in 0..ZLEN /\ (ZLEN <= PIPE_CAP => w = ZLEN)
BY ReactorAssumption, SMTT(30) DEF MinOf

\* start_zc, the linked chain.
LEMMA StartsChain ==
  ASSUME NEW d, NEW f, Ready(d, f), NEW z, z \in ZcType, z.no = f.no, z.linked, z.chain = 3, z.out_left = z.want,
         NEW u, NEW t, NEW e,
         e = [d EXCEPT !.pipe = TRUE, !.tx = u, !.total = t, !.tx_off = 0, !.txm = "ZcOut", !.zc = z,
                       !.broken = FALSE, !.kbuf = u, !.ops = @ \cup {"in", "send", "out"}, !.inflight = @ + 3]
  PROVE  Base(e) /\ OpenOK(e) /\ Chained(e)
<1>1. IsConn(d)
  BY DEF Ready, Sound
<1>2. IsConn(e)
  BY <1>1 DEF IsConn, Fields
<1>3. e.tx = u /\ e.kbuf = u /\ e.txm = "ZcOut" /\ e.zc = z
  BY <1>1 DEF IsConn, Fields
<1>4. ~e.broken
  BY <1>1 DEF IsConn, Fields
<1>5. e.ops = d.ops \cup {"in", "send", "out"} /\ e.inflight = d.inflight + 3
  BY <1>1 DEF IsConn, Fields
<1>6. SameCtl(d, e) /\ SameRx(d, e) /\ SameOwed(d, e)
  BY <1>1 DEF IsConn, Fields, SameCtl, SameRx, SameOwed
<1>7. e.pending_zc = d.pending_zc /\ e.inpipe = d.inpipe /\ e.dups = d.dups
  BY <1>1 DEF IsConn, Fields
<1>8. Sound(e)
  <2>1. /\ IsFiniteSet(e.ops) /\ Cardinality(d.ops) \in Nat /\ Cardinality(e.ops) = Cardinality(d.ops) + 3
    <3>1. IsFiniteSet(d.ops) /\ "in" \notin d.ops /\ "send" \notin d.ops /\ "out" \notin d.ops
      BY DEF Ready, Sound, NoIO
    <3>. QED
      BY <1>5, <3>1, CountChain
  <2>2. d.owed \in Nat /\ e.owed = d.owed /\ Counted(d)
    BY <1>6 DEF Ready, Sound, SameOwed
  <2>3. Counted(e)
    BY <1>5, <2>1, <2>2, SMTT(30) DEF Counted
  <2>. QED
    BY <1>2, <2>1, <2>2, <2>3 DEF Sound
<1>9. z # None
  BY NoneAssumption
<1>10. e.dups = Owned(e)
  BY <1>3, <1>7, <1>9 DEF Ready, Owned
<1>11. Base(e)
  BY <1>3, <1>8, <1>10 DEF Base, Pinned
<1>12. OpenOK(e)
  BY <1>5, <1>6 DEF Ready, OpenOK, SameCtl, SameRx, SameOwed
<1>13. Reading(e)
  <2>1. <<>> \in Seq(Nat \X Nat)
    BY SMTT(30)
  <2>. QED
    BY <1>3, <1>6, <1>7, <2>1 DEF Ready, Reading, SameCtl, SameOwed
<1>14. Chained(e)
  BY <1>3, <1>4, <1>5, <1>7, <1>13 DEF Ready, Chained
<1>. QED
  BY <1>11, <1>12, <1>14

\* start_zc, splice by splice.
LEMMA StartsSplice ==
  ASSUME NEW d, NEW f, Ready(d, f), NEW z, z \in ZcType, z.no = f.no, ~z.linked, z.got = 0,
         NEW x, x = [d EXCEPT !.pipe = TRUE, !.txm = "ZcIn", !.zc = z], NEW e, e = Submit(x, "in")
  PROVE  Base(e) /\ OpenOK(e) /\ ReadIn(e)
<1>1. IsConn(d)
  BY DEF Ready, Sound
<1>2. /\ IsConn(x) /\ x.txm = "ZcIn" /\ x.zc = z /\ x.ops = d.ops /\ x.inflight = d.inflight
      /\ x.pending_zc = d.pending_zc /\ x.inpipe = d.inpipe /\ x.dups = d.dups
      /\ SameCtl(d, x) /\ SameRx(d, x) /\ SameOwed(d, x)
  BY <1>1 DEF IsConn, Fields, SameCtl, SameRx, SameOwed
<1>3. Sound(x) /\ "in" \notin x.ops
  BY <1>2 DEF Ready, Sound, Counted, NoIO, SameOwed
<1>4. /\ Sound(e) /\ e.ops = x.ops \cup {"in"}
      /\ SameCtl(x, e) /\ SameRx(x, e) /\ SameTx(x, e) /\ SameOwed(x, e) /\ SameRead(x, e)
  BY <1>3, Submits
<1>5. /\ e.ops = d.ops \cup {"in"} /\ e.txm = "ZcIn" /\ e.zc = z
      /\ e.pending_zc = d.pending_zc /\ e.inpipe = d.inpipe /\ e.dups = d.dups
      /\ SameCtl(d, e) /\ SameRx(d, e) /\ SameOwed(d, e)
  BY <1>2, <1>4 DEF SameCtl, SameRx, SameTx, SameOwed, SameRead
<1>6. z # None
  BY NoneAssumption
<1>7. e.dups = Owned(e)
  BY <1>5, <1>6 DEF Ready, Owned
<1>8. Pinned(e)
  BY <1>5 DEF Ready, NoIO, Pinned, SameOwed
<1>9. OpenOK(e)
  BY <1>5 DEF Ready, OpenOK, SameCtl, SameRx, SameOwed
<1>10. Reading(e) /\ Len(e.inpipe) = 0
  <2>1. <<>> \in Seq(Nat \X Nat) /\ Len(<<>>) = 0
    BY SMTT(30)
  <2>. QED
    BY <1>5, <2>1 DEF Ready, Reading, SameCtl, SameOwed
<1>11. ReadIn(e)
  BY <1>5, <1>10 DEF Ready, NoIO, ReadIn
<1>. QED
  BY <1>4, <1>7, <1>8, <1>9, <1>11 DEF Base

\* start_zc, whatever comes of it.
LEMMA Starts ==
  ASSUME NEW d, NEW f, Ready(d, f), NEW e \in StartZc(d, f)
  PROVE  Base(e) /\ OpenOK(e) /\ Working(e)
<1>1. PICK w : w = MinOf(ZLEN, PIPE_CAP)
  OBVIOUS
<1>2. w \in 0..ZLEN /\ 0 \in 0..ZLEN /\ ZLEN \in 0..ZLEN /\ (ZLEN <= PIPE_CAP => w = ZLEN)
  BY <1>1, WantFits
<1>3. f.no \in Requests
  BY DEF Ready, Frames
<1>4. CASE e = StartZcPiped(d, f) /\ f.kind = "readfull" /\ ZLEN <= PIPE_CAP
  <2>1. PICK z : z = Zc(f.no, w, w, ZLEN, TRUE)
    OBVIOUS
  <2>2. /\ z \in ZcType /\ z.no = f.no /\ z.linked /\ z.chain = 3 /\ z.out_left = z.want
    <3>1. w = ZLEN
      BY <1>2, <1>4
    <3>2. z = [no |-> f.no, want |-> w, got |-> w, out_left |-> ZLEN, linked |-> TRUE, chain |-> 3, err |-> FALSE]
      BY <2>1 DEF Zc
    <3>3. z \in ZcType
      BY <1>2, <1>3, <3>2, SMTT(30) DEF ZcType
    <3>4. z.linked
      BY <3>2
    <3>5. z.no = f.no /\ z.want = w /\ z.out_left = ZLEN /\ z.chain = 3
      BY <3>2
    <3>. QED
      BY <3>1, <3>3, <3>4, <3>5
  <2>3. PICK u : u = Units(f.no, HDR)
    OBVIOUS
  <2>4. PICK t : t = [d.total EXCEPT ![f.no] = HDR + ZLEN]
    OBVIOUS
  <2>5. e = [d EXCEPT !.pipe = TRUE, !.tx = u, !.total = t, !.tx_off = 0, !.txm = "ZcOut", !.zc = z,
                      !.broken = FALSE, !.kbuf = u, !.ops = @ \cup {"in", "send", "out"}, !.inflight = @ + 3]
    BY <1>1, <1>4, <2>1, <2>3, <2>4 DEF StartZcPiped
  <2>. QED
    BY <2>2, <2>5, StartsChain DEF Working
<1>5. CASE e = StartZcPiped(d, f) /\ ~(f.kind = "readfull" /\ ZLEN <= PIPE_CAP)
  <2>1. PICK z : z = Zc(f.no, w, 0, 0, FALSE)
    OBVIOUS
  <2>2. /\ z \in ZcType /\ z.no = f.no /\ ~z.linked /\ z.got = 0
    <3>1. z = [no |-> f.no, want |-> w, got |-> 0, out_left |-> 0, linked |-> FALSE, chain |-> 0, err |-> FALSE]
      BY <2>1 DEF Zc
    <3>2. z \in ZcType
      BY <1>2, <1>3, <3>1, SMTT(30) DEF ZcType
    <3>3. ~z.linked
      BY <3>1
    <3>4. z.no = f.no /\ z.got = 0
      BY <3>1
    <3>. QED
      BY <3>2, <3>3, <3>4
  <2>3. PICK x : x = [d EXCEPT !.pipe = TRUE, !.txm = "ZcIn", !.zc = z]
    OBVIOUS
  <2>4. e = Submit(x, "in")
    BY <1>1, <1>5, <2>1, <2>3 DEF StartZcPiped
  <2>. QED
    BY <2>2, <2>3, <2>4, StartsSplice DEF Working
<1>6. CASE e = SendReadErr(d, f.no)
  <2>1. PICK no : no = f.no
    OBVIOUS
  <2>2. /\ Sound(d) /\ OpenOK(d) /\ NoIO(d) /\ ~d.driving /\ d.pending_zc = None /\ d.inpipe = <<>> /\ d.dups = {no}
        /\ e = SendReadErr(d, no)
    BY <1>6, <2>1 DEF Ready
  <2>. QED
    BY <2>2, ErrSends DEF Working
<1>. QED
  BY <1>4, <1>5, <1>6 DEF StartZc

\* finish_send: the batch is out, and its buffer free.
LEMMA Finished ==
  ASSUME NEW d, Sendable(d), d.owed = 0, NEW e \in FinishSend(d)
  PROVE  ConnOK(e)
<1>1. CASE d.close_after_send
  <2>1. Base(d)
    BY DEF Sendable, Base, Pinned, NoIO
  <2>. QED
    BY <1>1, <2>1, Closed DEF FinishSend
<1>2. CASE ~d.close_after_send
  <2>1. PICK x : x = [d EXCEPT !.tx = <<>>, !.tx_off = 0, !.pending_zc = None]
    OBVIOUS
  <2>2. e \in IF d.pending_zc = None THEN {Drive(x)} ELSE StartZc(x, d.pending_zc)
    BY <1>2, <2>1 DEF FinishSend
  <2>3. IsConn(d)
    BY DEF Sendable, Sound
  <2>4. /\ IsConn(x) /\ x.ops = d.ops /\ x.inflight = d.inflight /\ x.tx_off = 0 /\ x.pending_zc = None
        /\ SameCtl(d, x) /\ SameRx(d, x) /\ SameOwed(d, x)
        /\ x.zc = d.zc /\ x.inpipe = d.inpipe /\ x.dups = d.dups
    BY <2>1, <2>3 DEF IsConn, Fields, SameCtl, SameRx, SameOwed
  <2>5. Sound(x) /\ NoIO(x) /\ Pinned(x) /\ x.owed = 0
    BY <2>4 DEF Sendable, Sound, Counted, NoIO, Pinned, SameOwed
  <2>6. OpenOK(x)
    BY <2>4 DEF Sendable, OpenOK, SameCtl, SameRx, SameOwed
  <2>7. CASE d.pending_zc = None
    <3>1. x.dups = Owned(x)
      BY <2>4, <2>7 DEF Sendable, Owned
    <3>2. Quiet(x)
      BY <1>2, <2>4, <2>5 DEF Sendable, Quiet, SameCtl
    <3>. QED
      BY <2>2, <2>5, <2>6, <2>7, <3>1, <3>2, Drives DEF Base
  <2>8. CASE d.pending_zc # None
    <3>1. PICK f : f = d.pending_zc
      OBVIOUS
    <3>2. f \in Frames /\ e \in StartZc(x, f)
      BY <2>2, <2>8, <3>1 DEF Sendable
    <3>3. x.dups = {f.no}
      BY <2>4, <2>8, <3>1 DEF Sendable, Owned
    <3>4. Ready(x, f)
      BY <1>2, <2>4, <2>5, <2>6, <3>2, <3>3 DEF Ready, Sendable, SameCtl
    <3>. QED
      BY <3>2, <3>4, Starts DEF ConnOK
  <2>. QED
    BY <2>7, <2>8
<1>. QED
  BY <1>1, <1>2

------------------------------------------------------------------------------
(* drive's loop *)

LoopOK(d) == Base(d) /\ OpenOK(d) /\ Looping(d)

\* What the loop may do to a Conn and go on.
SameLoop(d, e) ==
  /\ IsConn(e) /\ e.ops = d.ops /\ e.inflight = d.inflight
  /\ SameCtl(d, e) /\ SameOwed(d, e) /\ SameRead(d, e) /\ e.tx_off = d.tx_off /\ e.txm = d.txm
  /\ e.recv_inflight = d.recv_inflight /\ e.inotify = d.inotify /\ e.rx \in Seq(Frames)

LEMMA LoopKept ==
  ASSUME NEW d, LoopOK(d), NEW e, SameLoop(d, e)
  PROVE  LoopOK(e)
<1>1. Base(e)
  BY DEF LoopOK, SameLoop, Base, Sound, Counted, Owned, Pinned, Looping, Quiet, NoIO, SameOwed, SameRead
<1>2. OpenOK(e)
  BY DEF LoopOK, SameLoop, OpenOK, SameCtl, SameOwed
<1>3. Looping(e)
  BY DEF LoopOK, SameLoop, Looping, Quiet, NoIO, SameCtl, SameOwed, SameRead
<1>. QED
  BY <1>1, <1>2, <1>3 DEF LoopOK

\* A response joins the batch.
LEMMA LoopBuffers ==
  ASSUME NEW d, LoopOK(d), NEW m, NEW n, NEW e, e = Buffered(d, m, n)
  PROVE  LoopOK(e)
<1>1. IsConn(d) /\ d.rx \in Seq(Frames)
  BY DEF LoopOK, Base, Sound, OpenOK
<1>2. SameLoop(d, e)
  BY <1>1 DEF Buffered, SameLoop, IsConn, Fields, SameCtl, SameOwed, SameRead
<1>. QED
  BY <1>2, LoopKept

\* A CHANGE_NOTIFY completes.
LEMMA LoopCompletes ==
  ASSUME NEW d, LoopOK(d), NEW i, NEW e, e = NotifyDone(d, i)
  PROVE  LoopOK(e)
<1>1. IsConn(d) /\ d.rx \in Seq(Frames)
  BY DEF LoopOK, Base, Sound, OpenOK
<1>2. SameLoop(d, e)
  BY <1>1 DEF NotifyDone, SameLoop, IsConn, Fields, SameCtl, SameOwed, SameRead
<1>. QED
  BY <1>2, LoopKept

\* The inotify Read is armed for the first time.
LEMMA LoopArms ==
  ASSUME NEW d, LoopOK(d), ~d.inotify, NEW e, e = ArmInotify([d EXCEPT !.inotify = TRUE])
  PROVE  LoopOK(e)
<1>1. IsConn(d)
  BY DEF LoopOK, Base, Sound
<1>2. PICK x : x = [d EXCEPT !.inotify = TRUE]
  OBVIOUS
<1>3. x.inotify
  BY <1>1, <1>2 DEF IsConn, Fields
<1>4. /\ IsConn(x) /\ x.ops = d.ops /\ x.inflight = d.inflight
      /\ SameCtl(d, x) /\ SameTx(d, x) /\ SameOwed(d, x) /\ SameRead(d, x)
      /\ x.rx = d.rx /\ x.recv_inflight = d.recv_inflight
  BY <1>1, <1>2 DEF IsConn, Fields, SameCtl, SameTx, SameOwed, SameRead
<1>5. Sound(x) /\ "inotify" \notin x.ops
  BY <1>4 DEF LoopOK, Base, Sound, Counted, OpenOK, SameOwed
<1>6. /\ Sound(e) /\ e.ops = x.ops \cup {"inotify"}
      /\ SameCtl(x, e) /\ SameRx(x, e) /\ SameTx(x, e) /\ SameOwed(x, e) /\ SameRead(x, e)
  BY <1>2, <1>5, Submits DEF ArmInotify
<1>7. /\ SameCtl(d, e) /\ SameTx(d, e) /\ SameOwed(d, e) /\ SameRead(d, e) /\ SameIO(d, e)
  BY <1>4, <1>6 DEF SameCtl, SameTx, SameOwed, SameRead, SameIO
<1>8. /\ e.inotify /\ e.rx = d.rx /\ e.recv_inflight = d.recv_inflight /\ e.ops = d.ops \cup {"inotify"}
  BY <1>3, <1>4, <1>6 DEF SameRx
<1>9. OpenOK(e)
  BY <1>7, <1>8 DEF LoopOK, OpenOK, SameCtl, SameOwed
<1>10. Base(e) /\ Looping(e)
  BY <1>6, <1>7, PhaseKept DEF LoopOK, Base
<1>. QED
  BY <1>9, <1>10 DEF LoopOK

\* service_notify.
LEMMA LoopNotifies ==
  ASSUME NEW d, LoopOK(d), NEW i, NEW e \in NotifyNew(d, i)
  PROVE  LoopOK(e)
<1>1. PICK x : x = IF d.inotify THEN d ELSE ArmInotify([d EXCEPT !.inotify = TRUE])
  OBVIOUS
<1>2. LoopOK(x)
  BY <1>1, LoopArms
<1>3. e = [x EXCEPT !.watches = @ \cup {i}] \/ e = NotifyDone(d, i) \/ e = NotifyDone(x, i)
  BY <1>1 DEF NotifyNew
<1>4. CASE e = [x EXCEPT !.watches = @ \cup {i}]
  <2>1. IsConn(x) /\ x.rx \in Seq(Frames)
    BY <1>2 DEF LoopOK, Base, Sound, OpenOK
  <2>2. SameLoop(x, e)
    BY <1>4, <2>1 DEF SameLoop, IsConn, Fields, SameCtl, SameOwed, SameRead
  <2>. QED
    BY <1>2, <2>2, LoopKept
<1>. QED
  BY <1>2, <1>3, <1>4, LoopCompletes

\* The frames after which the loop goes on.
LEMMA LoopResponds ==
  ASSUME NEW d, LoopOK(d), NEW f, NEW e,
         f.kind \in {"small", "big", "notify", "cancel", "closedir"}, e \in Respond(d, f)
  PROVE  LoopOK(e)
<1>1. CASE f.kind = "small"
  <2>1. e = Buffered(d, f.no, 1)
    BY <1>1 DEF Respond
  <2>. QED
    BY <2>1, LoopBuffers
<1>2. CASE f.kind = "big"
  <2>1. e = Buffered(d, f.no, ZC_SEND_MIN)
    BY <1>2 DEF Respond
  <2>. QED
    BY <2>1, LoopBuffers
<1>3. CASE f.kind = "notify"
  <2>1. PICK x : x = Buffered(d, f.no, 1)
    OBVIOUS
  <2>2. e \in NotifyNew(x, f.no)
    BY <1>3, <2>1 DEF Respond
  <2>3. LoopOK(x)
    BY <2>1, LoopBuffers
  <2>. QED
    BY <2>2, <2>3, LoopNotifies
<1>4. CASE f.kind = "cancel"
  <2>1. PICK x : x = [d EXCEPT !.total[f.no] = 0]
    OBVIOUS
  <2>2. e = x \/ \E i \in d.watches : e = NotifyDone(x, i)
    BY <1>4, <2>1 DEF Respond
  <2>3. IsConn(d) /\ d.rx \in Seq(Frames)
    BY DEF LoopOK, Base, Sound, OpenOK
  <2>4. SameLoop(d, x)
    BY <2>1, <2>3 DEF SameLoop, IsConn, Fields, SameCtl, SameOwed, SameRead
  <2>5. LoopOK(x)
    BY <2>4, LoopKept
  <2>. QED
    BY <2>2, <2>5, LoopCompletes
<1>5. CASE f.kind = "closedir"
  <2>1. PICK x : x = Buffered(d, f.no, 1)
    OBVIOUS
  <2>2. e = x \/ \E i \in d.watches : e = NotifyDone(x, i)
    BY <1>5, <2>1 DEF Respond
  <2>3. LoopOK(x)
    BY <2>1, LoopBuffers
  <2>. QED
    BY <2>2, <2>3, LoopCompletes
<1>. QED
  BY <1>1, <1>2, <1>3, <1>4, <1>5

\* The loop is left with a batch to send: what may be sent.
LEMMA LoopSendable ==
  ASSUME NEW d, LoopOK(d), NEW x, IsConn(x), x.ops = d.ops, x.inflight = d.inflight, x.state = d.state,
         ~x.driving, SameRx(d, x), SameOwed(d, x), SameRead(d, x)
  PROVE  Sendable(x)
<1>1. Sound(x) /\ x.dups = Owned(x)
  BY DEF LoopOK, Base, Sound, Counted, Owned, SameOwed, SameRead
<1>2. OpenOK(x)
  BY DEF LoopOK, OpenOK, SameRx, SameOwed
<1>. QED
  BY <1>1, <1>2 DEF LoopOK, Looping, Quiet, NoIO, Sendable, SameRead

\* A zero-copy READ leaves the loop.
LEMMA LoopReads ==
  ASSUME NEW d, LoopOK(d), NEW f \in Frames, NEW e \in ReadFrame(d, f)
  PROVE  ConnOK(e)
<1>1. PICK x : x = [d EXCEPT !.dups = @ \cup {f.no}, !.driving = FALSE]
  OBVIOUS
<1>2. PICK y \in (IF d.tx = <<>> THEN StartZc(x, f) ELSE {StartSend([x EXCEPT !.pending_zc = f])}) : e = MaybeArmRecv(y)
  BY <1>1 DEF ReadFrame
<1>3. IsConn(d) /\ d.dups = Owned(d) /\ d.pending_zc = None /\ d.zc = None
  BY DEF LoopOK, Base, Sound, Looping, Quiet
<1>4. d.dups = {}
  BY <1>3 DEF Owned
<1>5. ~x.driving
  BY <1>1, <1>3 DEF IsConn, Fields
<1>6. /\ IsConn(x) /\ x.ops = d.ops /\ x.inflight = d.inflight /\ x.state = d.state
      /\ SameRx(d, x) /\ SameOwed(d, x) /\ x.close_after_send = d.close_after_send
      /\ x.pending_zc = d.pending_zc /\ x.zc = d.zc /\ x.inpipe = d.inpipe /\ x.dups = d.dups \cup {f.no}
  BY <1>1, <1>3 DEF IsConn, Fields, SameRx, SameOwed
<1>7. x.dups = {f.no}
  BY <1>4, <1>6
<1>8. Sound(x) /\ OpenOK(x) /\ NoIO(x) /\ x.owed = 0
  BY <1>6 DEF LoopOK, Base, Sound, Counted, OpenOK, Looping, Quiet, NoIO, SameRx, SameOwed
<1>9. CASE d.tx = <<>>
  <2>1. Ready(x, f)
    BY <1>5, <1>6, <1>7, <1>8 DEF LoopOK, Looping, Quiet, Ready
  <2>. QED
    BY <1>2, <1>9, <2>1, Starts, Armed
<1>10. CASE d.tx # <<>>
  <2>1. PICK z : z = [x EXCEPT !.pending_zc = f]
    OBVIOUS
  <2>2. /\ IsConn(z) /\ z.ops = x.ops /\ z.inflight = x.inflight
        /\ SameCtl(x, z) /\ SameRx(x, z) /\ SameOwed(x, z)
        /\ z.pending_zc = f /\ z.zc = x.zc /\ z.inpipe = x.inpipe /\ z.dups = x.dups
    BY <1>6, <2>1 DEF IsConn, Fields, SameCtl, SameRx, SameOwed
  <2>3. f # None /\ z.zc = None
    BY <1>3, <1>6, <2>2, NoneAssumption
  <2>4. z.dups = Owned(z)
    BY <1>7, <2>2, <2>3 DEF Owned
  <2>5. Sound(z) /\ OpenOK(z) /\ NoIO(z) /\ ~z.driving
    BY <1>5, <1>8, <2>2 DEF Sound, Counted, OpenOK, NoIO, SameCtl, SameRx, SameOwed
  <2>6. z.inpipe = <<>>
    BY <1>6, <2>2 DEF LoopOK, Looping, Quiet
  <2>7. Sendable(z)
    BY <2>2, <2>3, <2>4, <2>5, <2>6 DEF Sendable
  <2>8. y = StartSend(z)
    BY <1>2, <1>10, <2>1
  <2>. QED
    BY <1>2, <2>7, <2>8, StartSends, Armed DEF Working
<1>. QED
  BY <1>9, <1>10

\* The batch is full, or no frame is left.
LEMMA LoopEnds ==
  ASSUME NEW d, LoopOK(d), Len(d.tx) - d.tx_off >= TX_FLUSH \/ d.rx = <<>>,
         NEW x, x = [d EXCEPT !.driving = FALSE],
         NEW e, e = MaybeArmRecv(IF x.tx # <<>> THEN StartSend(x) ELSE x)
  PROVE  ConnOK(e)
<1>1. IsConn(d)
  BY DEF LoopOK, Base, Sound
<1>2. ~x.driving
  BY <1>1 DEF IsConn, Fields
<1>3. /\ IsConn(x) /\ x.ops = d.ops /\ x.inflight = d.inflight /\ x.state = d.state
      /\ x.close_after_send = d.close_after_send
      /\ SameRx(d, x) /\ SameTx(d, x) /\ SameOwed(d, x) /\ SameRead(d, x)
  BY <1>1 DEF IsConn, Fields, SameRx, SameTx, SameOwed, SameRead
<1>4. Sendable(x)
  BY <1>2, <1>3, LoopSendable
<1>5. CASE x.tx # <<>>
  <2>1. PICK y : y = StartSend(x)
    OBVIOUS
  <2>2. Base(y) /\ OpenOK(y) /\ Sends(y)
    BY <1>4, <2>1, StartSends
  <2>. QED
    BY <1>5, <2>1, <2>2, Armed DEF Working
<1>6. CASE x.tx = <<>>
  <2>1. d.tx = <<>> /\ d.tx_off = 0
    BY <1>3, <1>6 DEF LoopOK, Looping, Quiet, SameTx
  <2>2. d.rx = <<>>
    BY <2>1, ReactorAssumption, SMTT(30)
  <2>3. Resting(x)
    BY <1>2, <1>3, <1>6, <2>2 DEF LoopOK, Looping, Resting, Quiet, NoIO, SameRx, SameTx, SameOwed, SameRead
  <2>4. Pinned(x)
    BY <2>3 DEF Resting, Quiet, NoIO, Pinned
  <2>5. Base(x) /\ OpenOK(x) /\ e = MaybeArmRecv(x)
    BY <1>4, <1>6, <2>4 DEF Sendable, Base
  <2>. QED
    BY <2>3, <2>5, Armed
<1>. QED
  BY <1>5, <1>6

\* An SMB1-only NEGOTIATE is answered, and the connection closed after that.
LEMMA LoopSmb1 ==
  ASSUME NEW d, LoopOK(d), NEW x, x = [d EXCEPT !.close_after_send = TRUE, !.driving = FALSE],
         NEW e, e = StartSend(x)
  PROVE  ConnOK(e)
<1>1. IsConn(d)
  BY DEF LoopOK, Base, Sound
<1>2. ~x.driving
  BY <1>1 DEF IsConn, Fields
<1>3. /\ IsConn(x) /\ x.ops = d.ops /\ x.inflight = d.inflight /\ x.state = d.state
      /\ SameRx(d, x) /\ SameOwed(d, x) /\ SameRead(d, x)
  BY <1>1 DEF IsConn, Fields, SameRx, SameOwed, SameRead
<1>. QED
  BY <1>2, <1>3, LoopSendable, StartSends DEF ConnOK, Working

------------------------------------------------------------------------------
(* Outside the loop *)

\* An open connection outside the loop.
AtRest(d) == Base(d) /\ OpenOK(d) /\ ~d.driving /\ ((Resting(d) /\ d.recv_inflight) \/ Working(d))

LEMMA AtRestOK ==
  ASSUME NEW d, AtRest(d)
  PROVE  ConnOK(d)
BY DEF AtRest, ConnOK

\* The recv completes.
LEMMA RecvRetired ==
  ASSUME NEW d, AtRest(d), "recv" \in d.ops, NEW x, x = [Retire(d, "recv") EXCEPT !.recv_inflight = FALSE]
  PROVE  Base(x) /\ OpenOK(x) /\ (Resting(x) \/ Working(x))
<1>1. PICK y : y = Retire(d, "recv")
  OBVIOUS
<1>2. /\ Sound(y) /\ y.ops = d.ops \ {"recv"}
      /\ SameCtl(d, y) /\ SameRx(d, y) /\ SameTx(d, y) /\ SameOwed(d, y) /\ SameRead(d, y)
  BY <1>1, Retires DEF AtRest, Base
<1>3. ~x.recv_inflight
  BY <1>1, <1>2 DEF Sound, IsConn, Fields
<1>4. /\ IsConn(x) /\ x.ops = y.ops /\ x.inflight = y.inflight /\ x.rx = y.rx /\ x.inotify = y.inotify
      /\ SameCtl(y, x) /\ SameTx(y, x) /\ SameOwed(y, x) /\ SameRead(y, x)
  BY <1>1, <1>2 DEF Sound, IsConn, Fields, SameCtl, SameTx, SameOwed, SameRead
<1>5. Sound(x)
  BY <1>2, <1>4 DEF Sound, Counted, SameOwed
<1>6. SameCtl(d, x) /\ SameTx(d, x) /\ SameOwed(d, x) /\ SameRead(d, x) /\ SameIO(d, x)
  BY <1>2, <1>4 DEF SameCtl, SameTx, SameOwed, SameRead, SameIO
<1>7. x.rx = d.rx /\ x.inotify = d.inotify /\ x.ops = d.ops \ {"recv"}
  BY <1>2, <1>4 DEF SameRx
<1>8. OpenOK(x)
  BY <1>3, <1>6, <1>7 DEF AtRest, OpenOK, SameCtl, SameOwed
<1>9. Base(x)
  BY <1>5, <1>6, PhaseKept DEF AtRest, Base
<1>10. Resting(d) => Resting(x)
  BY <1>6, <1>7, PhaseKept DEF Resting, SameCtl, SameTx
<1>. QED
  BY <1>6, <1>8, <1>9, <1>10, PhaseKept DEF AtRest

\* New frames in the receive buffer.
LEMMA Received ==
  ASSUME NEW x, Base(x), OpenOK(x), Resting(x) \/ Working(x), NEW q \in Seq(Frames),
         NEW y, y = [x EXCEPT !.rx = q], NEW e, e = IF y.txm = "Idle" THEN Drive(y) ELSE MaybeArmRecv(y)
  PROVE  ConnOK(e)
<1>1. IsConn(x)
  BY DEF Base, Sound
<1>2. /\ IsConn(y) /\ y.ops = x.ops /\ y.inflight = x.inflight /\ y.rx = q
      /\ y.recv_inflight = x.recv_inflight /\ y.inotify = x.inotify
      /\ SameCtl(x, y) /\ SameTx(x, y) /\ SameOwed(x, y) /\ SameRead(x, y)
  BY <1>1 DEF IsConn, Fields, SameCtl, SameTx, SameOwed, SameRead
<1>3. Sound(y) /\ SameIO(x, y)
  BY <1>2 DEF Base, Sound, Counted, SameOwed, SameIO
<1>4. OpenOK(y)
  BY <1>2 DEF OpenOK, SameCtl, SameOwed
<1>5. Base(y)
  BY <1>2, <1>3, PhaseKept DEF Base
<1>6. CASE Resting(x)
  <2>1. Quiet(y) /\ y.txm = "Idle"
    BY <1>2, <1>3, <1>6, PhaseKept DEF Resting, SameTx
  <2>. QED
    BY <1>4, <1>5, <2>1, Drives
<1>7. CASE Working(x)
  <2>1. Working(y)
    BY <1>2, <1>3, <1>7, PhaseKept
  <2>2. y.txm # "Idle"
    BY <2>1 DEF Working, Sends, ReadIn, ReadHdr, ReadOut, Chained
  <2>. QED
    BY <1>4, <1>5, <2>1, <2>2, Armed
<1>. QED
  BY <1>6, <1>7

------------------------------------------------------------------------------
(* Completions of a send *)

\* A send_zc completion announces a notification.
LEMMA NotedCounts ==
  ASSUME NEW d, Sound(d), NEW e, e = Noted(d)
  PROVE  /\ Sound(e) /\ e.ops = d.ops /\ e.owed = d.owed + 1 /\ e.notif_pending = d.notif_pending + 1
         /\ SameCtl(d, e) /\ SameRx(d, e) /\ SameTx(d, e) /\ SameRead(d, e)
<1>1. IsConn(d) /\ IsFiniteSet(d.ops)
  BY DEF Sound
<1>2. /\ IsConn(e) /\ e.ops = d.ops /\ e.inflight = d.inflight + 1
      /\ e.owed = d.owed + 1 /\ e.notif_pending = d.notif_pending + 1
  BY <1>1 DEF IsConn, Fields, Noted
<1>3. SameCtl(d, e) /\ SameRx(d, e) /\ SameTx(d, e) /\ SameRead(d, e)
  BY <1>1 DEF IsConn, Fields, Noted, SameCtl, SameRx, SameTx, SameRead
<1>4. Cardinality(d.ops) \in Nat
  BY <1>1, FS_CardinalityType
<1>5. e.owed \in Nat /\ Counted(e)
  BY <1>2, <1>4, SMTT(30) DEF Sound, Counted
<1>. QED
  BY <1>1, <1>2, <1>3, <1>5 DEF Sound

\* Part of a batch, or of a READ's header, was sent.
BatchSent(d) == Sendable(d) /\ d.txm = "Send" /\ d.tx = d.kbuf
HdrReady(d) ==
  /\ Sound(d) /\ OpenOK(d) /\ NoIO(d) /\ d.dups = Owned(d)
  /\ Reading(d) /\ ~d.zc.linked /\ d.txm = "ZcHdr" /\ Len(d.inpipe) = d.zc.out_left
HdrSent(d) == HdrReady(d) /\ ~d.send_is_zc

LEMMA SendRetired ==
  ASSUME NEW d, AtRest(d), "send" \in d.ops, ~(d.zc # None /\ d.zc.linked), NEW e \in Noteds(Retire(d, "send"))
  PROVE  BatchSent(e) \/ HdrSent(e)
<1>1. PICK y : y = Retire(d, "send")
  OBVIOUS
<1>2. /\ Sound(y) /\ y.ops = d.ops \ {"send"}
      /\ SameCtl(d, y) /\ SameRx(d, y) /\ SameTx(d, y) /\ SameOwed(d, y) /\ SameRead(d, y)
  BY <1>1, Retires DEF AtRest, Base
<1>3. y.dups = Owned(y) /\ y.tx = y.kbuf
  BY <1>2 DEF AtRest, Base, Owned, Pinned, SameRead, SameTx
<1>4. OpenOK(y)
  <2>1. ("recv" \in y.ops <=> "recv" \in d.ops) /\ ("inotify" \in y.ops <=> "inotify" \in d.ops)
    BY <1>2
  <2>. QED
    BY <1>2, <2>1 DEF AtRest, OpenOK, SameCtl, SameRx, SameOwed
<1>5. d.zc \in ZcType => d.zc # None
  BY NoneAssumption
<1>6. Sends(d) \/ ReadHdr(d)
  BY <1>5 DEF AtRest, Resting, Quiet, NoIO, Working, ReadIn, ReadOut, Chained, Reading
<1>7. CASE Sends(d)
  <2>1. d.txm = "Send"
    BY <1>7 DEF Sends
  <2>2. Sendable(y)
    BY <1>2, <1>3, <1>4, <1>7 DEF Sends, Sendable, NoIO, SameCtl, SameRead
  <2>3. BatchSent(y)
    BY <1>2, <1>3, <2>1, <2>2 DEF BatchSent, SameTx
  <2>4. CASE e = y
    BY <2>3, <2>4
  <2>5. CASE e = Noted(y)
    <3>1. /\ Sound(e) /\ e.ops = y.ops /\ e.owed = y.owed + 1 /\ e.notif_pending = y.notif_pending + 1
          /\ SameCtl(y, e) /\ SameRx(y, e) /\ SameTx(y, e) /\ SameRead(y, e)
      BY <1>2, <2>5, NotedCounts
    <3>2. OpenOK(e)
      BY <1>4, <3>1 DEF OpenOK, SameCtl, SameRx
    <3>3. Sendable(e)
      BY <2>2, <3>1, <3>2 DEF Sendable, NoIO, Owned, SameCtl, SameRead
    <3>. QED
      BY <2>3, <3>1, <3>3 DEF BatchSent, SameTx
  <2>. QED
    BY <1>1, <2>4, <2>5 DEF Noteds
<1>8. CASE ReadHdr(d)
  <2>1. ~y.send_is_zc
    BY <1>2, <1>8 DEF ReadHdr, SameTx
  <2>2. e = y
    BY <1>1, <2>1 DEF Noteds
  <2>3. Reading(y) /\ NoIO(y)
    BY <1>2, <1>8 DEF ReadHdr, Reading, NoIO, SameCtl, SameOwed, SameRead
  <2>4. ~y.zc.linked
    BY <1>2, <1>8 DEF ReadHdr, SameRead
  <2>5. y.txm = "ZcHdr" /\ Len(y.inpipe) = y.zc.out_left
    BY <1>2, <1>8 DEF ReadHdr, SameTx, SameRead
  <2>. QED
    BY <1>2, <1>3, <1>4, <2>1, <2>2, <2>3, <2>4, <2>5 DEF HdrReady, HdrSent
<1>. QED
  BY <1>6, <1>7, <1>8

\* A Conn that differs in the fields of the send only.
LEMMA SentKept ==
  ASSUME NEW d, NEW e, IsConn(e), e.ops = d.ops, e.inflight = d.inflight, e.tx = d.tx, e.txm = d.txm,
         e.kbuf = d.kbuf, e.send_is_zc = d.send_is_zc, SameCtl(d, e), SameRx(d, e), SameOwed(d, e), SameRead(d, e)
  PROVE  (BatchSent(d) => BatchSent(e)) /\ (HdrSent(d) => HdrSent(e))
<1>1. Sound(d) => Sound(e)
  BY DEF Sound, Counted, SameOwed
<1>2. OpenOK(d) => OpenOK(e)
  BY DEF OpenOK, SameCtl, SameRx, SameOwed
<1>3. (NoIO(d) => NoIO(e)) /\ (d.dups = Owned(d) => e.dups = Owned(e))
  BY DEF NoIO, Owned, SameRead
<1>4. Reading(d) => Reading(e)
  BY DEF Reading, SameCtl, SameOwed, SameRead
<1>5. Sendable(d) => Sendable(e)
  BY <1>1, <1>2, <1>3 DEF Sendable, SameCtl, SameRead
<1>6. BatchSent(d) => BatchSent(e)
  BY <1>5 DEF BatchSent
<1>7. HdrSent(d) => HdrSent(e)
  BY <1>1, <1>2, <1>3, <1>4 DEF HdrReady, HdrSent, SameRead
<1>. QED
  BY <1>6, <1>7

\* submit_send, the rest of a header.
LEMMA HdrSends ==
  ASSUME NEW d, HdrReady(d), NEW e, e = SubmitSend(d, TRUE)
  PROVE  ConnOK(e)
<1>1. Sound(d) /\ NoIO(d) /\ OpenOK(d) /\ Reading(d) /\ d.dups = Owned(d)
  BY DEF HdrReady
<1>2. SendPosted(d, e)
  BY <1>1, Submitted DEF NoIO
<1>3. ~e.send_is_zc
  BY <1>1, SubmittedHdr DEF Sound
<1>4. Base(e)
  BY <1>1, <1>2 DEF SendPosted, Base, Pinned, Owned, SameRead
<1>5. OpenOK(e)
  <2>1. ("recv" \in e.ops <=> "recv" \in d.ops) /\ ("inotify" \in e.ops <=> "inotify" \in d.ops)
    BY <1>2 DEF SendPosted
  <2>. QED
    BY <1>1, <1>2, <2>1 DEF SendPosted, OpenOK, SameCtl, SameRx, SameOwed
<1>6. Reading(e)
  BY <1>1, <1>2 DEF SendPosted, Reading, SameCtl, SameOwed, SameRead
<1>7. ~e.zc.linked
  BY <1>2 DEF HdrReady, SendPosted, SameRead
<1>8. e.txm = "ZcHdr" /\ Len(e.inpipe) = e.zc.out_left
  BY <1>2 DEF HdrReady, SendPosted, SameRead
<1>9. "send" \in e.ops /\ "in" \notin e.ops /\ "out" \notin e.ops
  BY <1>1, <1>2 DEF SendPosted, NoIO
<1>. QED
  BY <1>3, <1>4, <1>5, <1>6, <1>7, <1>8, <1>9 DEF ReadHdr, Working, ConnOK

\* submit_send, the rest of a batch or a header.
LEMMA Resent ==
  ASSUME NEW d, BatchSent(d) \/ HdrSent(d), NEW e, e = SubmitSend(d, d.txm = "ZcHdr")
  PROVE  ConnOK(e)
<1>1. CASE BatchSent(d)
  <2>1. PICK more : more = (d.txm = "ZcHdr")
    OBVIOUS
  <2>2. e = SubmitSend(d, more)
    BY <2>1
  <2>. QED
    BY <1>1, <2>2, SendableSends DEF BatchSent, Working, ConnOK
<1>2. CASE HdrSent(d)
  <2>1. (d.txm = "ZcHdr") = TRUE
    BY <1>2 DEF HdrReady, HdrSent
  <2>2. e = SubmitSend(d, TRUE)
    BY <2>1
  <2>. QED
    BY <1>2, <2>2, HdrSends DEF HdrSent
<1>. QED
  BY <1>1, <1>2

\* The header is out: the data follows.
LEMMA HdrDone ==
  ASSUME NEW d, HdrSent(d), NEW e, e = Submit([d EXCEPT !.txm = "ZcOut"], "out")
  PROVE  ConnOK(e)
<1>1. Sound(d) /\ NoIO(d) /\ OpenOK(d) /\ Reading(d) /\ d.dups = Owned(d) /\ IsConn(d)
  BY DEF HdrReady, HdrSent, Sound
<1>2. PICK x : x = [d EXCEPT !.txm = "ZcOut"]
  OBVIOUS
<1>3. /\ IsConn(x) /\ x.ops = d.ops /\ x.inflight = d.inflight /\ x.txm = "ZcOut"
      /\ SameCtl(d, x) /\ SameRx(d, x) /\ SameOwed(d, x) /\ SameRead(d, x)
  BY <1>1, <1>2 DEF IsConn, Fields, SameCtl, SameRx, SameOwed, SameRead
<1>4. Sound(x) /\ "out" \notin x.ops
  BY <1>1, <1>3 DEF Sound, Counted, NoIO, SameOwed
<1>5. /\ Sound(e) /\ e.ops = x.ops \cup {"out"}
      /\ SameCtl(x, e) /\ SameRx(x, e) /\ SameTx(x, e) /\ SameOwed(x, e) /\ SameRead(x, e)
  BY <1>2, <1>4, Submits
<1>6. SameCtl(d, e) /\ SameRx(d, e) /\ SameOwed(d, e) /\ SameRead(d, e)
  BY <1>3, <1>5 DEF SameCtl, SameRx, SameOwed, SameRead
<1>7. e.ops = d.ops \cup {"out"} /\ e.txm = "ZcOut"
  BY <1>3, <1>5 DEF SameTx
<1>8. "out" \in e.ops /\ "in" \notin e.ops /\ "send" \notin e.ops
  BY <1>1, <1>7 DEF NoIO
<1>9. OpenOK(e)
  <2>1. ("recv" \in e.ops <=> "recv" \in d.ops) /\ ("inotify" \in e.ops <=> "inotify" \in d.ops)
    BY <1>7
  <2>. QED
    BY <1>1, <1>6, <2>1 DEF OpenOK, SameCtl, SameRx, SameOwed
<1>10. Reading(e)
  BY <1>1, <1>6 DEF Reading, SameCtl, SameOwed, SameRead
<1>11. ~e.zc.linked
  BY <1>6 DEF HdrReady, HdrSent, SameRead
<1>12. Len(e.inpipe) = e.zc.out_left
  BY <1>6 DEF HdrReady, HdrSent, SameRead
<1>13. Base(e)
  BY <1>1, <1>5, <1>6, <1>8, <1>10 DEF Base, Pinned, Owned, Reading, SameRead
<1>. QED
  BY <1>7, <1>8, <1>9, <1>10, <1>11, <1>12, <1>13 DEF ReadOut, Working, ConnOK

\* on_send, everything sent.
LEMMA AllSentOK ==
  ASSUME NEW d, BatchSent(d), NEW e \in AllSent(d)
  PROVE  ConnOK(e)
<1>1. d.owed \in Nat /\ d.notif_pending = d.owed /\ IsConn(d)
  BY DEF BatchSent, Sendable, Sound, OpenOK
<1>2. CASE d.notif_pending > 0
  <2>1. e = [d EXCEPT !.txm = "Drain"]
    BY <1>2 DEF AllSent
  <2>2. /\ IsConn(e) /\ e.ops = d.ops /\ e.inflight = d.inflight /\ e.txm = "Drain"
        /\ e.tx = d.tx /\ e.kbuf = d.kbuf
        /\ SameCtl(d, e) /\ SameRx(d, e) /\ SameOwed(d, e) /\ SameRead(d, e)
    BY <1>1, <2>1 DEF IsConn, Fields, SameCtl, SameRx, SameOwed, SameRead
  <2>3. Base(e)
    BY <2>2 DEF BatchSent, Sendable, Base, Sound, Counted, Pinned, Owned, SameOwed, SameRead
  <2>4. OpenOK(e)
    BY <2>2 DEF BatchSent, Sendable, OpenOK, SameCtl, SameRx, SameOwed
  <2>5. Sends(e)
    BY <2>2 DEF BatchSent, Sendable, NoIO, Sends, SameCtl, SameRead
  <2>. QED
    BY <2>3, <2>4, <2>5 DEF Working, ConnOK
<1>3. CASE ~(d.notif_pending > 0)
  <2>1. d.owed = 0
    BY <1>1, <1>3, SMTT(30)
  <2>2. e \in FinishSend(d)
    BY <1>3 DEF AllSent
  <2>. QED
    BY <2>1, <2>2, Finished DEF BatchSent
<1>. QED
  BY <1>2, <1>3

\* A notification comes.
LEMMA NotifCounts ==
  ASSUME NEW d, Sound(d), d.owed > 0, NEW e, IsConn(e), e.ops = d.ops, e.owed = d.owed - 1, e.inflight = d.inflight - 1
  PROVE  Sound(e)
<1>1. IsFiniteSet(d.ops) /\ d.owed \in Nat /\ Counted(d)
  BY DEF Sound
<1>2. Cardinality(d.ops) \in Nat
  BY <1>1, FS_CardinalityType
<1>3. e.owed \in Nat
  BY <1>1, SMTT(30)
<1>4. Counted(e)
  BY <1>1, <1>2, SMTT(30) DEF Counted
<1>. QED
  BY <1>1, <1>3, <1>4 DEF Sound

------------------------------------------------------------------------------
(* Zero-copy reads *)

\* A READ between two of its operations.
Between(d) == Sound(d) /\ OpenOK(d) /\ NoIO(d) /\ d.dups = Owned(d) /\ Reading(d)

LEMMA BetweenBase ==
  ASSUME NEW d, Between(d)
  PROVE  Base(d)
BY DEF Between, Base, Pinned, NoIO, Reading

\* The dup of a READ under way is its own.
LEMMA OneDup ==
  ASSUME NEW d, d.pending_zc = None, d.zc \in ZcType
  PROVE  d.zc # None /\ Owned(d) = {d.zc.no}
<1>1. d.zc # None
  BY NoneAssumption
<1>. QED
  BY <1>1 DEF Owned

LEMMA ReadKept ==
  ASSUME NEW d, Between(d), NEW e, IsConn(e), e.ops = d.ops, e.inflight = d.inflight,
         SameCtl(d, e), SameRx(d, e), SameOwed(d, e), e.pending_zc = d.pending_zc, e.dups = d.dups,
         e.zc \in ZcType, e.zc.no = d.zc.no, e.inpipe \in Seq(Nat \X Nat)
  PROVE  Between(e)
<1>1. Sound(e)
  BY DEF Between, Sound, Counted, SameOwed
<1>2. OpenOK(e)
  BY DEF Between, OpenOK, SameCtl, SameRx, SameOwed
<1>3. Reading(e) /\ NoIO(e)
  BY DEF Between, Reading, NoIO, SameCtl, SameOwed
<1>4. d.pending_zc = None /\ d.zc \in ZcType /\ e.pending_zc = None
  BY DEF Between, Reading
<1>5. e.dups = Owned(e)
  <2>1. Owned(d) = {d.zc.no}
    BY <1>4, OneDup
  <2>2. Owned(e) = {e.zc.no}
    BY <1>4, OneDup
  <2>. QED
    BY <2>1, <2>2 DEF Between
<1>. QED
  BY <1>1, <1>2, <1>3, <1>5 DEF Between

\* A splice completes.
LEMMA ReadRetired ==
  ASSUME NEW d, AtRest(d), NEW op, op = "in" \/ op = "out", op \in d.ops, ~d.zc.linked, NEW e, e = Retire(d, op)
  PROVE  /\ Between(e) /\ ~e.zc.linked /\ SameRead(d, e)
         /\ op = "in" => e.txm = "ZcIn" /\ Len(e.inpipe) = e.zc.got
         /\ op = "out" => e.txm = "ZcOut" /\ Len(e.inpipe) = e.zc.out_left
<1>1. /\ Sound(e) /\ e.ops = d.ops \ {op}
      /\ SameCtl(d, e) /\ SameRx(d, e) /\ SameTx(d, e) /\ SameOwed(d, e) /\ SameRead(d, e)
  BY Retires DEF AtRest, Base
<1>2. (ReadIn(d) /\ op = "in") \/ (ReadOut(d) /\ op = "out")
  <2>1. ~Chained(d)
    BY DEF Chained
  <2>2. ~Resting(d) /\ ~Sends(d) /\ ~ReadHdr(d)
    BY DEF Resting, Quiet, NoIO, Sends, ReadHdr
  <2>3. ReadIn(d) \/ ReadOut(d)
    BY <2>1, <2>2 DEF AtRest, Working
  <2>. QED
    BY <2>3 DEF ReadIn, ReadOut
<1>3. OpenOK(e)
  <2>1. op # "recv" /\ op # "inotify"
    OBVIOUS
  <2>2. ("recv" \in e.ops <=> "recv" \in d.ops) /\ ("inotify" \in e.ops <=> "inotify" \in d.ops)
    BY <1>1, <2>1
  <2>. QED
    BY <1>1, <2>2 DEF AtRest, OpenOK, SameCtl, SameRx, SameOwed
<1>4. NoIO(e)
  BY <1>1, <1>2 DEF NoIO, ReadIn, ReadOut
<1>5. Reading(e)
  BY <1>1, <1>2 DEF ReadIn, ReadOut, Reading, SameCtl, SameOwed, SameRead
<1>6. e.dups = Owned(e)
  BY <1>1 DEF AtRest, Base, Owned, SameRead
<1>7. ~e.zc.linked
  BY <1>1 DEF SameRead
<1>8. op = "in" => e.txm = "ZcIn" /\ Len(e.inpipe) = e.zc.got
  <2>1. "in" # "out"
    OBVIOUS
  <2>. QED
    BY <1>1, <1>2, <2>1 DEF ReadIn, SameTx, SameRead
<1>9. op = "out" => e.txm = "ZcOut" /\ Len(e.inpipe) = e.zc.out_left
  <2>1. "in" # "out"
    OBVIOUS
  <2>. QED
    BY <1>1, <1>2, <2>1 DEF ReadOut, SameTx, SameRead
<1>. QED
  BY <1>1, <1>3, <1>4, <1>5, <1>6, <1>7, <1>8, <1>9 DEF Between

\* The next splice is submitted.
LEMMA ReadNext ==
  ASSUME NEW d, Between(d), ~d.zc.linked, NEW op,
         \/ op = "in" /\ d.txm = "ZcIn" /\ Len(d.inpipe) = d.zc.got
         \/ op = "out" /\ d.txm = "ZcOut" /\ Len(d.inpipe) = d.zc.out_left,
         NEW e, e = Submit(d, op)
  PROVE  ConnOK(e)
<1>1. Sound(d) /\ op \notin d.ops
  BY DEF Between, NoIO
<1>2. /\ Sound(e) /\ e.ops = d.ops \cup {op}
      /\ SameCtl(d, e) /\ SameRx(d, e) /\ SameTx(d, e) /\ SameOwed(d, e) /\ SameRead(d, e)
  BY <1>1, Submits
<1>3. op # "recv" /\ op # "inotify" /\ op # "send" /\ (op = "in" => op # "out")
  OBVIOUS
<1>4. OpenOK(e)
  <2>1. ("recv" \in e.ops <=> "recv" \in d.ops) /\ ("inotify" \in e.ops <=> "inotify" \in d.ops)
    BY <1>2, <1>3
  <2>. QED
    BY <1>2, <2>1 DEF Between, OpenOK, SameCtl, SameRx, SameOwed
<1>5. Reading(e)
  BY <1>2 DEF Between, Reading, SameCtl, SameOwed, SameRead
<1>6. ~e.zc.linked
  BY <1>2 DEF SameRead
<1>7. Base(e)
  <2>1. "send" \notin e.ops /\ e.owed = 0
    BY <1>2, <1>3, <1>5 DEF Between, NoIO, Reading
  <2>. QED
    BY <1>2, <2>1 DEF Between, Base, Pinned, Owned, SameRead
<1>8. ReadIn(e) \/ ReadOut(e)
  BY <1>2, <1>3, <1>5, <1>6 DEF Between, NoIO, ReadIn, ReadOut, SameTx, SameRead
<1>. QED
  BY <1>4, <1>7, <1>8 DEF Working, ConnOK

\* The READ is over.
LEMMA ReadOver ==
  ASSUME NEW d, Between(d), d.inpipe = <<>>, NEW e, e = ReadDone(d)
  PROVE  ConnOK(e)
<1>1. PICK x : x = [d EXCEPT !.zc = None, !.dups = @ \ {d.zc.no}, !.tx = <<>>, !.tx_off = 0]
  OBVIOUS
<1>2. e = Drive(x)
  BY <1>1 DEF ReadDone
<1>3. IsConn(d) /\ d.pending_zc = None /\ d.zc \in ZcType
  BY DEF Between, Sound, Reading
<1>4. /\ IsConn(x) /\ x.ops = d.ops /\ x.inflight = d.inflight /\ x.tx_off = 0
      /\ SameCtl(d, x) /\ SameRx(d, x) /\ SameOwed(d, x)
      /\ x.zc = None /\ x.pending_zc = d.pending_zc /\ x.inpipe = d.inpipe /\ x.dups = d.dups \ {d.zc.no}
  BY <1>1, <1>3 DEF IsConn, Fields, SameCtl, SameRx, SameOwed
<1>5. x.dups = {}
  <2>1. d.dups = {d.zc.no}
    BY <1>3, OneDup DEF Between
  <2>. QED
    BY <1>4, <2>1
<1>6. Owned(x) = {}
  BY <1>3, <1>4 DEF Owned
<1>7. Sound(x)
  BY <1>4 DEF Between, Sound, Counted, SameOwed
<1>8. OpenOK(x)
  BY <1>4 DEF Between, OpenOK, SameCtl, SameRx, SameOwed
<1>9. Quiet(x)
  BY <1>4 DEF Between, NoIO, Reading, Quiet, SameCtl, SameOwed
<1>10. Base(x)
  BY <1>5, <1>6, <1>7, <1>9 DEF Base, Pinned, Quiet, NoIO
<1>. QED
  BY <1>2, <1>8, <1>9, <1>10, Drives

\* Units go into the pipe at its end, and come out at its front.
Push(q, n, no, from) == q \o [k \in 1..n |-> <<no, HDR + from + k>>]
Pop(q, n) == SubSeq(q, n + 1, Len(q))

LEMMA Joined ==
  ASSUME NEW S, NEW q \in Seq(S), NEW s \in Seq(S)
  PROVE  q \o s \in Seq(S) /\ Len(q \o s) = Len(q) + Len(s)
BY SMTT(30)

LEMMA Pushed ==
  ASSUME NEW q \in Seq(Nat \X Nat), NEW n \in Nat, NEW no \in Nat, NEW from \in Nat
  PROVE  Push(q, n, no, from) \in Seq(Nat \X Nat) /\ Len(Push(q, n, no, from)) = Len(q) + n
<1>1. PICK s : s = [k \in 1..n |-> <<no, HDR + from + k>>]
  OBVIOUS
<1>2. \A k \in 1..n : HDR + from + k \in Nat
  <2>1. HDR \in Nat
    BY ReactorAssumption
  <2>. QED
    BY <2>1, SMTT(30)
<1>3. \A k \in 1..n : <<no, HDR + from + k>> \in Nat \X Nat
  BY <1>2
<1>4. s \in Seq(Nat \X Nat) /\ Len(s) = n
  BY <1>1, <1>3, SMTT(30)
<1>5. Push(q, n, no, from) = q \o s
  BY <1>1 DEF Push
<1>6. q \o s \in Seq(Nat \X Nat) /\ Len(q \o s) = Len(q) + Len(s)
  BY <1>4, Joined
<1>. QED
  BY <1>4, <1>5, <1>6

LEMMA Popped ==
  ASSUME NEW q \in Seq(Nat \X Nat), NEW n \in 0..Len(q)
  PROVE  Pop(q, n) \in Seq(Nat \X Nat) /\ Len(Pop(q, n)) = Len(q) - n /\ (n = Len(q) => Pop(q, n) = <<>>)
BY SMTT(30) DEF Pop

\* What a READ asked for and got.
LEMMA ZcTyped ==
  ASSUME NEW z \in ZcType
  PROVE  /\ z.no \in Nat /\ z.want \in Nat /\ z.got \in Nat /\ z.out_left \in Nat /\ z.want <= ZLEN
         /\ z.chain \in 0..3
         /\ \A v \in 0..ZLEN : /\ [z EXCEPT !.got = v] \in ZcType
                               /\ [z EXCEPT !.got = v].no = z.no /\ [z EXCEPT !.got = v].got = v
                               /\ [z EXCEPT !.got = v].linked = z.linked
                               /\ [z EXCEPT !.out_left = v] \in ZcType
                               /\ [z EXCEPT !.out_left = v].no = z.no /\ [z EXCEPT !.out_left = v].out_left = v
                               /\ [z EXCEPT !.out_left = v].linked = z.linked
<1>1. /\ z.no \in Requests /\ z.want \in 0..ZLEN /\ z.got \in 0..ZLEN /\ z.out_left \in 0..ZLEN /\ z.chain \in 0..3
      /\ z.linked \in BOOLEAN /\ z.err \in BOOLEAN
  BY DEF ZcType
<1>2. ZLEN \in Nat /\ MaxFrames \in Nat
  BY ReactorAssumption
<1>3. z.no \in Nat /\ z.want \in Nat /\ z.got \in Nat /\ z.out_left \in Nat /\ z.want <= ZLEN
  BY <1>1, <1>2, SMTT(30) DEF Requests
<1>4. ASSUME NEW v \in 0..ZLEN
      PROVE  /\ [z EXCEPT !.got = v] \in ZcType
             /\ [z EXCEPT !.got = v].no = z.no /\ [z EXCEPT !.got = v].got = v
             /\ [z EXCEPT !.got = v].linked = z.linked
             /\ [z EXCEPT !.out_left = v] \in ZcType
             /\ [z EXCEPT !.out_left = v].no = z.no /\ [z EXCEPT !.out_left = v].out_left = v
             /\ [z EXCEPT !.out_left = v].linked = z.linked
  BY DEF ZcType
<1>. QED
  BY <1>1, <1>3, <1>4

\* zc_fail: the pipe is drained and an error sent instead.
LEMMA ReadFailed ==
  ASSUME NEW d, Between(d), Len(d.inpipe) = d.zc.got, NEW e, e = ZcFail(d)
  PROVE  ConnOK(e)
<1>1. IsConn(d) /\ d.pending_zc = None /\ d.zc \in ZcType /\ d.inpipe \in Seq(Nat \X Nat)
  BY DEF Between, Sound, Reading
<1>2. PICK q : q = SubSeq(d.inpipe, d.zc.got + 1, Len(d.inpipe))
  OBVIOUS
<1>3. q = <<>>
  <2>1. d.zc.got \in 0..Len(d.inpipe)
    BY <1>1, ZcTyped, SMTT(30)
  <2>. QED
    BY <1>1, <1>2, <2>1, SMTT(30)
<1>4. PICK x : x = [d EXCEPT !.inpipe = q]
  OBVIOUS
<1>5. PICK no : no = d.zc.no
  OBVIOUS
<1>6. e = SendReadErr(x, no)
  BY <1>2, <1>4, <1>5 DEF ZcFail
<1>7. /\ IsConn(x) /\ x.ops = d.ops /\ x.inflight = d.inflight
      /\ SameCtl(d, x) /\ SameRx(d, x) /\ SameOwed(d, x)
      /\ x.pending_zc = d.pending_zc /\ x.inpipe = q /\ x.dups = d.dups
  BY <1>1, <1>4 DEF IsConn, Fields, SameCtl, SameRx, SameOwed
<1>8. Sound(x)
  BY <1>7 DEF Between, Sound, Counted, SameOwed
<1>9. OpenOK(x)
  BY <1>7 DEF Between, OpenOK, SameCtl, SameRx, SameOwed
<1>10. NoIO(x) /\ ~x.driving
  BY <1>7 DEF Between, NoIO, Reading, SameCtl
<1>11. x.dups = {no}
  BY <1>1, <1>5, <1>7, OneDup DEF Between
<1>. QED
  BY <1>1, <1>3, <1>6, <1>7, <1>8, <1>9, <1>10, <1>11, ErrSends DEF Working, ConnOK

\* on_splice_in, the data is in the pipe: its header goes first.
LEMMA ReadHeads ==
  ASSUME NEW d, Between(d), ~d.zc.linked, Len(d.inpipe) = d.zc.got, NEW e, e = SendHeader(d)
  PROVE  ConnOK(e)
<1>1. IsConn(d) /\ d.zc \in ZcType /\ d.inpipe \in Seq(Nat \X Nat)
  BY DEF Between, Sound, Reading
<1>2. PICK z : z = [d.zc EXCEPT !.out_left = d.zc.got]
  OBVIOUS
<1>3. z \in ZcType /\ z.no = d.zc.no /\ z.out_left = d.zc.got /\ z.linked = d.zc.linked
  <2>1. d.zc.got \in 0..ZLEN
    BY <1>1 DEF ZcType
  <2>. QED
    BY <1>1, <1>2, <2>1, ZcTyped
<1>4. PICK t, u : e = SubmitSend([d EXCEPT !.zc = z, !.tx = u, !.tx_off = 0, !.total = t, !.txm = "ZcHdr"], TRUE)
  BY <1>2 DEF SendHeader
<1>5. PICK x : x = [d EXCEPT !.zc = z, !.tx = u, !.tx_off = 0, !.total = t, !.txm = "ZcHdr"]
  OBVIOUS
<1>6. /\ IsConn(x) /\ x.ops = d.ops /\ x.inflight = d.inflight /\ x.txm = "ZcHdr"
      /\ SameCtl(d, x) /\ SameRx(d, x) /\ SameOwed(d, x)
      /\ x.pending_zc = d.pending_zc /\ x.inpipe = d.inpipe /\ x.dups = d.dups /\ x.zc = z
  BY <1>1, <1>5 DEF IsConn, Fields, SameCtl, SameRx, SameOwed
<1>7. Between(x)
  BY <1>1, <1>3, <1>6, ReadKept
<1>8. ~x.zc.linked
  BY <1>3, <1>6
<1>9. Len(x.inpipe) = x.zc.out_left
  BY <1>3, <1>6
<1>10. HdrReady(x)
  BY <1>6, <1>7, <1>8, <1>9 DEF HdrReady, Between
<1>. QED
  BY <1>4, <1>5, <1>10, HdrSends

\* on_splice_in: units arrive in the pipe.
LEMMA SplicedIn ==
  ASSUME NEW d, Between(d), Len(d.inpipe) = d.zc.got, NEW n \in 0..(d.zc.want - d.zc.got),
         NEW e, e = [Spliced(d, n, d.zc.got) EXCEPT !.zc.got = @ + n]
  PROVE  Between(e) /\ e.txm = d.txm /\ e.zc.linked = d.zc.linked /\ Len(e.inpipe) = e.zc.got
<1>1. IsConn(d) /\ d.zc \in ZcType /\ d.inpipe \in Seq(Nat \X Nat)
  BY DEF Between, Sound, Reading
<1>a. PICK p, no, from : p = d.inpipe /\ no = d.zc.no /\ from = d.zc.got
  OBVIOUS
<1>2. PICK q : q = Push(p, n, no, from)
  OBVIOUS
<1>3. PICK w : w = [d EXCEPT !.inpipe = q]
  OBVIOUS
<1>4. e = [w EXCEPT !.zc.got = @ + n]
  BY <1>a, <1>2, <1>3 DEF Spliced, Push
<1>5. PICK z : z = [d.zc EXCEPT !.got = d.zc.got + n]
  OBVIOUS
<1>6. /\ IsConn(w) /\ w.ops = d.ops /\ w.inflight = d.inflight /\ w.txm = d.txm
      /\ SameCtl(d, w) /\ SameRx(d, w) /\ SameOwed(d, w)
      /\ w.pending_zc = d.pending_zc /\ w.inpipe = q /\ w.dups = d.dups /\ w.zc = d.zc
  BY <1>1, <1>3 DEF IsConn, Fields, SameCtl, SameRx, SameOwed
<1>7. e = [w EXCEPT !.zc = z]
  BY <1>4, <1>5, <1>6
<1>8. /\ IsConn(e) /\ e.ops = w.ops /\ e.inflight = w.inflight /\ e.txm = w.txm
      /\ SameCtl(w, e) /\ SameRx(w, e) /\ SameOwed(w, e)
      /\ e.pending_zc = w.pending_zc /\ e.inpipe = w.inpipe /\ e.dups = w.dups /\ e.zc = z
  BY <1>6, <1>7 DEF IsConn, Fields, SameCtl, SameRx, SameOwed
<1>9. d.zc.no \in Nat /\ d.zc.want \in Nat /\ d.zc.got \in Nat /\ d.zc.want <= ZLEN /\ ZLEN \in Nat
  BY <1>1, ZcTyped, ReactorAssumption
<1>10. n \in Nat /\ d.zc.got + n \in 0..ZLEN
  BY <1>9, SMTT(30)
<1>11. z \in ZcType /\ z.no = d.zc.no /\ z.got = d.zc.got + n /\ z.linked = d.zc.linked
  BY <1>1, <1>5, <1>10, ZcTyped
<1>12. q \in Seq(Nat \X Nat) /\ Len(q) = d.zc.got + n
  <2>1. p \in Seq(Nat \X Nat) /\ no \in Nat /\ from \in Nat
    BY <1>1, <1>a, <1>9
  <2>2. q \in Seq(Nat \X Nat) /\ Len(q) = Len(p) + n
    BY <1>2, <1>10, <2>1, Pushed
  <2>. QED
    BY <1>a, <2>2
<1>13. Between(e)
  <2>1. SameCtl(d, e) /\ SameRx(d, e) /\ SameOwed(d, e)
    BY <1>6, <1>8 DEF SameCtl, SameRx, SameOwed
  <2>. QED
    BY <1>6, <1>8, <1>11, <1>12, <2>1, ReadKept
<1>14. Len(e.inpipe) = e.zc.got
  BY <1>6, <1>8, <1>11, <1>12
<1>. QED
  BY <1>6, <1>8, <1>11, <1>13, <1>14

\* What is in the pipe is what is still to go out.
OwesOut(d) == Len(d.inpipe) = d.zc.out_left

Flushed(d, n) == [d EXCEPT !.inpipe = SubSeq(@, n + 1, Len(@)), !.zc.out_left = @ - n]

WentOut(d, n, e) ==
  /\ Between(e) /\ e.txm = d.txm /\ e.zc = [d.zc EXCEPT !.out_left = d.zc.out_left - n]
  /\ e.zc.linked = d.zc.linked /\ OwesOut(e)
  /\ e.zc.out_left > 0 \/ e.inpipe = <<>>

\* Units leave the pipe for the socket.
LEMMA SplicedOut ==
  ASSUME NEW d, Between(d), NEW n, n \in 1..Len(d.inpipe), OwesOut(d),
         NEW e, e = Flushed(d, n)
  PROVE  WentOut(d, n, e)
<1>1. IsConn(d) /\ d.zc \in ZcType /\ d.inpipe \in Seq(Nat \X Nat)
  BY DEF Between, Sound, Reading
<1>a. PICK p : p = d.inpipe
  OBVIOUS
<1>2. PICK q : q = Pop(p, n)
  OBVIOUS
<1>3. PICK z : z = [d.zc EXCEPT !.out_left = d.zc.out_left - n]
  OBVIOUS
<1>4. e = [d EXCEPT !.inpipe = q, !.zc = z]
  BY <1>1, <1>a, <1>2, <1>3 DEF Flushed, Pop, IsConn, Fields
<1>5. /\ IsConn(e) /\ e.ops = d.ops /\ e.inflight = d.inflight /\ e.txm = d.txm
      /\ SameCtl(d, e) /\ SameRx(d, e) /\ SameOwed(d, e)
      /\ e.pending_zc = d.pending_zc /\ e.inpipe = q /\ e.dups = d.dups /\ e.zc = z
  BY <1>1, <1>4 DEF IsConn, Fields, SameCtl, SameRx, SameOwed
<1>6. n \in 0..Len(p) /\ n \in Nat \ {0} /\ n <= d.zc.out_left /\ p \in Seq(Nat \X Nat) /\ Len(p) = d.zc.out_left
  BY <1>1, <1>a, SMTT(30) DEF OwesOut
<1>7. q \in Seq(Nat \X Nat) /\ Len(q) = Len(p) - n /\ (n = Len(p) => q = <<>>)
  <2>1. n \in 0..Len(p) /\ p \in Seq(Nat \X Nat)
    BY <1>6
  <2>. QED
    BY <1>2, <2>1, Popped
<1>8. d.zc.out_left \in 0..ZLEN
  BY <1>1 DEF ZcType
<1>9. d.zc.out_left - n \in 0..ZLEN /\ (d.zc.out_left - n > 0 \/ n = Len(p))
  <2>1. PICK m : m = d.zc.out_left
    OBVIOUS
  <2>2. m \in 0..ZLEN /\ n \in Nat \ {0} /\ n <= m
    BY <1>6, <1>8, <2>1
  <2>3. ZLEN \in Nat
    BY ReactorAssumption
  <2>4. m - n \in 0..ZLEN /\ (m - n > 0 \/ n = m)
    BY <2>2, <2>3, SMTT(30)
  <2>. QED
    BY <1>6, <2>1, <2>4
<1>10. z \in ZcType /\ z.no = d.zc.no /\ z.out_left = d.zc.out_left - n /\ z.linked = d.zc.linked
  BY <1>1, <1>3, <1>9, ZcTyped
<1>11. Between(e)
  BY <1>5, <1>7, <1>10, ReadKept
<1>12. OwesOut(e)
  BY <1>5, <1>6, <1>7, <1>10 DEF OwesOut
<1>13. e.zc.out_left > 0 \/ e.inpipe = <<>>
  BY <1>5, <1>7, <1>9, <1>10
<1>. QED
  BY <1>3, <1>5, <1>10, <1>11, <1>12, <1>13 DEF WentOut

------------------------------------------------------------------------------
(* The linked chain *)

\* A READ that goes as a chain.
Held(d) == Base(d) /\ OpenOK(d) /\ Reading(d) /\ d.zc.linked /\ d.txm = "ZcOut"

LEMMA HeldKept ==
  ASSUME NEW d, Held(d), NEW e, IsConn(e), e.ops = d.ops, e.inflight = d.inflight,
         SameCtl(d, e), SameRx(d, e), SameTx(d, e), SameOwed(d, e), e.pending_zc = d.pending_zc, e.dups = d.dups,
         e.zc \in ZcType, e.zc.no = d.zc.no, e.zc.linked = d.zc.linked, e.inpipe \in Seq(Nat \X Nat)
  PROVE  Held(e)
<1>1. Sound(e)
  BY DEF Held, Base, Sound, Counted, SameOwed
<1>2. OpenOK(e)
  BY DEF Held, OpenOK, SameCtl, SameRx, SameOwed
<1>3. Reading(e)
  BY DEF Held, Reading, SameCtl, SameOwed
<1>4. d.pending_zc = None /\ d.zc \in ZcType /\ e.pending_zc = None
  BY DEF Held, Reading
<1>5. e.dups = Owned(e)
  <2>1. Owned(d) = {d.zc.no}
    BY <1>4, OneDup
  <2>2. Owned(e) = {e.zc.no}
    BY <1>4, OneDup
  <2>. QED
    BY <2>1, <2>2 DEF Held, Base
<1>6. Pinned(e)
  BY DEF Held, Base, Pinned, SameTx, SameOwed
<1>7. e.zc.linked
  BY DEF Held
<1>8. e.txm = "ZcOut"
  BY DEF Held, SameTx
<1>. QED
  BY <1>1, <1>2, <1>3, <1>5, <1>6, <1>7, <1>8 DEF Held, Base

\* One of its operations completes.
LEMMA ChainRetired ==
  ASSUME NEW d, AtRest(d), d.zc # None, d.zc.linked, NEW op \in {"in", "send", "out"}, op \in d.ops,
         NEW e, e = Retire(d, op)
  PROVE  Chained(d) /\ Held(e) /\ SameRead(d, e) /\ e.ops = d.ops \ {op}
<1>1. /\ Sound(e) /\ e.ops = d.ops \ {op}
      /\ SameCtl(d, e) /\ SameRx(d, e) /\ SameTx(d, e) /\ SameOwed(d, e) /\ SameRead(d, e)
  BY Retires DEF AtRest, Base
<1>2. Chained(d)
  <2>1. ~ReadIn(d) /\ ~ReadHdr(d) /\ ~ReadOut(d)
    BY DEF ReadIn, ReadHdr, ReadOut
  <2>2. ~Resting(d) /\ ~Sends(d)
    BY DEF Resting, Quiet, Sends
  <2>. QED
    BY <2>1, <2>2 DEF AtRest, Working
<1>3. OpenOK(e)
  <2>1. op # "recv" /\ op # "inotify"
    OBVIOUS
  <2>2. ("recv" \in e.ops <=> "recv" \in d.ops) /\ ("inotify" \in e.ops <=> "inotify" \in d.ops)
    BY <1>1, <2>1
  <2>. QED
    BY <1>1, <2>2 DEF AtRest, OpenOK, SameCtl, SameRx, SameOwed
<1>4. Reading(e)
  BY <1>1, <1>2 DEF Chained, Reading, SameCtl, SameOwed, SameRead
<1>5. Base(e)
  BY <1>1 DEF AtRest, Base, Owned, Pinned, SameTx, SameOwed, SameRead
<1>6. e.zc.linked
  BY <1>1 DEF SameRead
<1>7. e.txm = "ZcOut"
  BY <1>1, <1>2 DEF Chained, SameTx
<1>. QED
  BY <1>1, <1>2, <1>3, <1>4, <1>5, <1>6, <1>7 DEF Held

\* on_linked_cqe counts it.
CountDown(d, failed) == [d EXCEPT !.zc.chain = @ - 1, !.zc.err = @ \/ failed]

ZcDown(z, failed) == [z EXCEPT !.chain = z.chain - 1, !.err = z.err \/ failed]
ZcCounted(z, failed, w) ==
  /\ w \in ZcType /\ w.no = z.no /\ w.out_left = z.out_left /\ w.linked = z.linked
  /\ w.chain = z.chain - 1 /\ w.err = (z.err \/ failed)

LEMMA ZcCounts ==
  ASSUME NEW z \in ZcType, z.chain \in 1..3, NEW failed \in BOOLEAN, NEW w, w = ZcDown(z, failed)
  PROVE  ZcCounted(z, failed, w)
<1>1. z.chain - 1 \in 0..3 /\ (z.err \/ failed) \in BOOLEAN
  BY SMTT(30)
<1>2. PICK k, b : k = z.chain - 1 /\ b = (z.err \/ failed)
  OBVIOUS
<1>3. k \in 0..3 /\ b \in BOOLEAN
  BY <1>1, <1>2
<1>4. w = [z EXCEPT !.chain = k, !.err = b]
  BY <1>2 DEF ZcDown
<1>5. w \in ZcType /\ w.no = z.no /\ w.out_left = z.out_left /\ w.linked = z.linked /\ w.chain = k /\ w.err = b
  BY <1>3, <1>4 DEF ZcType
<1>. QED
  BY <1>2, <1>5 DEF ZcCounted

IsDown(d, failed, e) ==
  /\ Held(e) /\ e.ops = d.ops /\ e.inpipe = d.inpipe /\ e.broken = d.broken
  /\ e.zc.out_left = d.zc.out_left /\ e.zc.chain = d.zc.chain - 1 /\ e.zc.err = (d.zc.err \/ failed)

LEMMA CountsDown ==
  ASSUME NEW d, Held(d), d.zc.chain \in 1..3, NEW failed \in BOOLEAN, NEW e, e = CountDown(d, failed)
  PROVE  IsDown(d, failed, e)
<1>1. IsConn(d) /\ d.zc \in ZcType /\ d.inpipe \in Seq(Nat \X Nat)
  BY DEF Held, Base, Sound, Reading
<1>2. PICK w : w = [d.zc EXCEPT !.chain = d.zc.chain - 1, !.err = d.zc.err \/ failed]
  OBVIOUS
<1>3. /\ w \in ZcType /\ w.no = d.zc.no /\ w.out_left = d.zc.out_left /\ w.linked = d.zc.linked
      /\ w.chain = d.zc.chain - 1 /\ w.err = (d.zc.err \/ failed)
  <2>1. PICK z : z = d.zc
    OBVIOUS
  <2>2. z \in ZcType /\ z.chain \in 1..3 /\ w = ZcDown(z, failed)
    BY <1>1, <1>2, <2>1 DEF ZcDown
  <2>3. ZcCounted(z, failed, w)
    BY <2>2, ZcCounts
  <2>. QED
    BY <2>1, <2>3 DEF ZcCounted
<1>4. e = [d EXCEPT !.zc = w]
  BY <1>1, <1>2 DEF CountDown
<1>5. /\ IsConn(e) /\ e.ops = d.ops /\ e.inflight = d.inflight
      /\ SameCtl(d, e) /\ SameRx(d, e) /\ SameTx(d, e) /\ SameOwed(d, e)
      /\ e.pending_zc = d.pending_zc /\ e.inpipe = d.inpipe /\ e.dups = d.dups /\ e.zc = w
  BY <1>1, <1>4 DEF IsConn, Fields, SameCtl, SameRx, SameTx, SameOwed
<1>6. e.broken = d.broken
  BY <1>1, <1>4 DEF IsConn, Fields
<1>7. Held(e)
  BY <1>1, <1>3, <1>5, HeldKept
<1>. QED
  BY <1>3, <1>5, <1>6, <1>7 DEF IsDown

ChainNext(x) ==
  IF x.zc.chain > 0 THEN x
  ELSE IF x.zc.err THEN CloseConn(x)
  ELSE IF x.zc.out_left > 0 THEN Submit([x EXCEPT !.zc.linked = FALSE], "out")
  ELSE ReadDone(x)

LEMMA ChainCounts ==
  ASSUME NEW d, NEW failed
  PROVE  LinkedCqe(d, failed) = ChainNext(CountDown(d, failed))
BY DEF LinkedCqe, CountDown, ChainNext

\* The splice into the pipe was the first to complete.
LEMMA ChainIn ==
  ASSUME NEW d, Held(d), d.zc.chain = 3, "in" \notin d.ops, "send" \in d.ops, "out" \in d.ops,
         d.broken \/ OwesOut(d), NEW failed \in BOOLEAN, NEW e, e = LinkedCqe(d, failed)
  PROVE  ConnOK(e)
<1>1. PICK x : x = CountDown(d, failed)
  OBVIOUS
<1>2. d.zc.chain \in 1..3
  BY SMTT(30)
<1>3. /\ Held(x) /\ x.ops = d.ops /\ x.inpipe = d.inpipe /\ x.broken = d.broken
      /\ x.zc.out_left = d.zc.out_left /\ x.zc.chain = d.zc.chain - 1
  <2>1. IsDown(d, failed, x)
    BY <1>1, <1>2, CountsDown
  <2>. QED
    BY <2>1 DEF IsDown
<1>4. x.zc.chain = 2 /\ x.zc.chain > 0
  BY <1>3, SMTT(30)
<1>5. e = x
  BY <1>1, <1>4, ChainCounts DEF ChainNext
<1>6. x.broken \/ Len(x.inpipe) = x.zc.out_left
  BY <1>3 DEF OwesOut
<1>7. Chained(x)
  BY <1>3, <1>4, <1>6 DEF Held, Chained
<1>. QED
  BY <1>3, <1>5, <1>7 DEF Held, Working, ConnOK

\* The send was.
LEMMA ChainSend ==
  ASSUME NEW d, Held(d), d.zc.chain = 2, "in" \notin d.ops, "send" \notin d.ops, "out" \in d.ops,
         NEW failed \in BOOLEAN, (d.broken /\ failed) \/ (~d.broken /\ OwesOut(d)), NEW e, e = LinkedCqe(d, failed)
  PROVE  ConnOK(e)
<1>1. PICK x : x = CountDown(d, failed)
  OBVIOUS
<1>2. d.zc.chain \in 1..3
  BY SMTT(30)
<1>3. /\ Held(x) /\ x.ops = d.ops /\ x.inpipe = d.inpipe /\ x.broken = d.broken
      /\ x.zc.out_left = d.zc.out_left /\ x.zc.chain = d.zc.chain - 1 /\ x.zc.err = (d.zc.err \/ failed)
  <2>1. IsDown(d, failed, x)
    BY <1>1, <1>2, CountsDown
  <2>. QED
    BY <2>1 DEF IsDown
<1>4. x.zc.chain = 1 /\ x.zc.chain > 0
  BY <1>3, SMTT(30)
<1>5. e = x
  BY <1>1, <1>4, ChainCounts DEF ChainNext
<1>6. (x.broken /\ x.zc.err) \/ (~x.broken /\ Len(x.inpipe) = x.zc.out_left)
  BY <1>3 DEF OwesOut
<1>7. Chained(x)
  BY <1>3, <1>4, <1>6 DEF Held, Chained
<1>. QED
  BY <1>3, <1>5, <1>7 DEF Held, Working, ConnOK

\* The splice to the socket was the last: the connection ends if anything failed, and
\* what is left in the pipe follows if it fell short.
LEMMA ChainOut ==
  ASSUME NEW d, Held(d), d.zc.chain = 1, NoIO(d), NEW failed \in BOOLEAN, failed \/ OwesOut(d),
         NEW e, e = LinkedCqe(d, failed)
  PROVE  ConnOK(e)
<1>1. PICK x : x = CountDown(d, failed)
  OBVIOUS
<1>2. d.zc.chain \in 1..3
  BY SMTT(30)
<1>3. /\ Held(x) /\ x.ops = d.ops /\ x.inpipe = d.inpipe
      /\ x.zc.out_left = d.zc.out_left /\ x.zc.chain = d.zc.chain - 1 /\ x.zc.err = (d.zc.err \/ failed)
  <2>1. IsDown(d, failed, x)
    BY <1>1, <1>2, CountsDown
  <2>. QED
    BY <2>1 DEF IsDown
<1>4. ~(x.zc.chain > 0)
  BY <1>3, SMTT(30)
<1>5. e = IF x.zc.err THEN CloseConn(x)
          ELSE IF x.zc.out_left > 0 THEN Submit([x EXCEPT !.zc.linked = FALSE], "out")
          ELSE ReadDone(x)
  BY <1>1, <1>4, ChainCounts DEF ChainNext
<1>6. Base(x) /\ Between(x) /\ x.txm = "ZcOut"
  BY <1>3 DEF Held, Base, Between, NoIO
<1>7. CASE x.zc.err
  BY <1>5, <1>6, <1>7, Closed
<1>8. CASE ~x.zc.err
  <2>1. ~failed
    BY <1>3, <1>8
  <2>2. Len(x.inpipe) = x.zc.out_left
    BY <1>3, <2>1 DEF OwesOut
  <2>3. IsConn(x) /\ x.zc \in ZcType /\ x.inpipe \in Seq(Nat \X Nat)
    BY <1>6 DEF Between, Sound, Reading
  <2>4. CASE x.zc.out_left > 0
    <3>1. PICK z : z = [x.zc EXCEPT !.linked = FALSE]
      OBVIOUS
    <3>2. z \in ZcType /\ z.no = x.zc.no /\ z.out_left = x.zc.out_left
      BY <2>3, <3>1 DEF ZcType
    <3>3. ~z.linked
      BY <2>3, <3>1 DEF ZcType
    <3>4. PICK y : y = [x EXCEPT !.zc = z]
      OBVIOUS
    <3>5. e = Submit(y, "out")
      BY <1>5, <1>8, <2>4, <3>1, <3>4
    <3>6. /\ IsConn(y) /\ y.ops = x.ops /\ y.inflight = x.inflight /\ y.txm = x.txm
          /\ SameCtl(x, y) /\ SameRx(x, y) /\ SameOwed(x, y)
          /\ y.pending_zc = x.pending_zc /\ y.inpipe = x.inpipe /\ y.dups = x.dups /\ y.zc = z
      BY <2>3, <3>4 DEF IsConn, Fields, SameCtl, SameRx, SameOwed
    <3>7. Between(y)
      BY <1>6, <2>3, <3>2, <3>6, ReadKept
    <3>8. ~y.zc.linked
      BY <3>3, <3>6
    <3>9. y.txm = "ZcOut" /\ Len(y.inpipe) = y.zc.out_left
      BY <1>6, <2>2, <3>2, <3>6
    <3>. QED
      BY <3>5, <3>7, <3>8, <3>9, ReadNext
  <2>5. CASE ~(x.zc.out_left > 0)
    <3>1. x.zc.out_left = 0
      BY <2>3, <2>5, ZcTyped, SMTT(30)
    <3>2. x.inpipe = <<>>
      BY <2>2, <2>3, <3>1, SMTT(30)
    <3>. QED
      BY <1>5, <1>6, <1>8, <2>5, <3>2, ReadOver
  <2>. QED
    BY <2>4, <2>5
<1>. QED
  BY <1>7, <1>8

\* Which operations of a chain are left.
LEMMA ChainAt ==
  ASSUME NEW d, Chained(d)
  PROVE  /\ "out" \in d.ops
         /\ "in" \in d.ops => /\ d.zc.chain = 3 /\ "send" \in d.ops
                              /\ d.inpipe = <<>> /\ d.zc.out_left = d.zc.want
         /\ "in" \notin d.ops /\ "send" \in d.ops => d.zc.chain = 2 /\ (d.broken \/ OwesOut(d))
         /\ "send" \notin d.ops => /\ d.zc.chain = 1 /\ "in" \notin d.ops
                                   /\ (d.broken /\ d.zc.err) \/ (~d.broken /\ OwesOut(d))
BY DEF Chained, OwesOut

------------------------------------------------------------------------------
(* Asynchronous responses *)

LEMMA RestKept ==
  ASSUME NEW d, AtRest(d), NEW e, Sound(e), SameCtl(d, e), SameRx(d, e), SameTx(d, e), SameOwed(d, e), SameRead(d, e),
         e.ops = d.ops
  PROVE  AtRest(e)
<1>1. SameIO(d, e)
  BY DEF SameIO
<1>2. OpenOK(e)
  BY DEF AtRest, OpenOK, SameCtl, SameRx, SameOwed
<1>3. Base(e)
  BY <1>1, PhaseKept DEF AtRest, Base
<1>4. ~e.driving
  BY DEF AtRest, SameCtl
<1>5. Working(d) => Working(e)
  BY <1>1, PhaseKept
<1>6. Resting(d) => Resting(e)
  BY <1>1, PhaseKept DEF Resting, SameCtl, SameTx, SameRx
<1>7. d.recv_inflight => e.recv_inflight
  BY DEF SameRx
<1>. QED
  BY <1>2, <1>3, <1>4, <1>5, <1>6, <1>7 DEF AtRest

\* What is deferred changes.
LEMMA RestDefers ==
  ASSUME NEW d, AtRest(d), NEW w, NEW q, NEW e, e = [d EXCEPT !.watches = w, !.deferred = q]
  PROVE  AtRest(e)
<1>1. IsConn(d)
  BY DEF AtRest, Base, Sound
<1>2. /\ IsConn(e) /\ e.ops = d.ops /\ e.inflight = d.inflight
      /\ SameCtl(d, e) /\ SameRx(d, e) /\ SameTx(d, e) /\ SameOwed(d, e) /\ SameRead(d, e)
  BY <1>1 DEF IsConn, Fields, SameCtl, SameRx, SameTx, SameOwed, SameRead
<1>3. Sound(e)
  BY <1>2 DEF AtRest, Base, Sound, Counted, SameOwed
<1>. QED
  BY <1>2, <1>3, RestKept

\* An idle connection runs its loop.
LEMMA IdleDrives ==
  ASSUME NEW d, AtRest(d), NEW e, e = IfIdleDrive(d)
  PROVE  ConnOK(e)
<1>1. CASE d.txm = "Idle"
  <2>1. ~Working(d)
    BY <1>1 DEF Working, Sends, ReadIn, ReadHdr, ReadOut, Chained
  <2>2. Quiet(d)
    BY <2>1 DEF AtRest, Resting
  <2>. QED
    BY <1>1, <2>2, Drives DEF IfIdleDrive, AtRest
<1>2. CASE d.txm # "Idle"
  BY <1>2, AtRestOK DEF IfIdleDrive
<1>. QED
  BY <1>1, <1>2

\* arm_inotify, after the last Read completed.
LEMMA Rearmed ==
  ASSUME NEW d, AtRest(d), "inotify" \in d.ops, NEW w, NEW q,
         NEW e, e = ArmInotify([Retire(d, "inotify") EXCEPT !.watches = w, !.deferred = q])
  PROVE  AtRest(e)
<1>1. PICK y : y = Retire(d, "inotify")
  OBVIOUS
<1>2. /\ Sound(y) /\ y.ops = d.ops \ {"inotify"}
      /\ SameCtl(d, y) /\ SameRx(d, y) /\ SameTx(d, y) /\ SameOwed(d, y) /\ SameRead(d, y)
  BY <1>1, Retires DEF AtRest, Base
<1>3. PICK x : x = [y EXCEPT !.watches = w, !.deferred = q]
  OBVIOUS
<1>4. /\ IsConn(x) /\ x.ops = y.ops /\ x.inflight = y.inflight
      /\ SameCtl(y, x) /\ SameRx(y, x) /\ SameTx(y, x) /\ SameOwed(y, x) /\ SameRead(y, x)
  BY <1>2, <1>3 DEF Sound, IsConn, Fields, SameCtl, SameRx, SameTx, SameOwed, SameRead
<1>5. Sound(x) /\ "inotify" \notin x.ops
  BY <1>2, <1>4 DEF Sound, Counted, SameOwed
<1>6. e = Submit(x, "inotify")
  BY <1>1, <1>3 DEF ArmInotify
<1>7. /\ Sound(e) /\ e.ops = x.ops \cup {"inotify"}
      /\ SameCtl(x, e) /\ SameRx(x, e) /\ SameTx(x, e) /\ SameOwed(x, e) /\ SameRead(x, e)
  BY <1>5, <1>6, Submits
<1>8. e.ops = d.ops
  BY <1>2, <1>4, <1>7
<1>9. SameCtl(d, e) /\ SameRx(d, e) /\ SameTx(d, e) /\ SameOwed(d, e) /\ SameRead(d, e)
  BY <1>2, <1>4, <1>7 DEF SameCtl, SameRx, SameTx, SameOwed, SameRead
<1>. QED
  BY <1>7, <1>8, <1>9, RestKept

------------------------------------------------------------------------------
(* The actions *)

ReactorInv == ConnOK(c) /\ arrived \in Nat

\* A completion finds the connection in one of its phases.
LEMMA Awaits ==
  ASSUME ReactorInv, c.state = "open", ~c.driving, NEW d, d = c
  PROVE  AtRest(d)
BY DEF ReactorInv, ConnOK, AtRest, Looping

------------------------------------------------------------------------------
(* drive's loop and receiving *)

LEMMA DriveEndStep ==
  ASSUME ReactorInv, DriveEnd
  PROVE  ReactorInv'
<1>1. PICK d : d = c
  OBVIOUS
<1>2. LoopOK(d)
  BY <1>1 DEF ReactorInv, ConnOK, DriveEnd, Resting, Working, Sends, ReadIn, ReadHdr, ReadOut, Chained,
     Reading, LoopOK
<1>3. PICK x : x = [d EXCEPT !.driving = FALSE]
  OBVIOUS
<1>4. PICK e : e = c'
  OBVIOUS
<1>5. e = MaybeArmRecv(IF x.tx # <<>> THEN StartSend(x) ELSE x) /\ (Len(d.tx) - d.tx_off >= TX_FLUSH \/ d.rx = <<>>)
      /\ arrived' = arrived
  BY <1>1, <1>3, <1>4 DEF DriveEnd
<1>6. ConnOK(e)
  BY <1>2, <1>3, <1>5, LoopEnds
<1>. QED
  BY <1>4, <1>5, <1>6 DEF ReactorInv

LEMMA DriveFrameStep ==
  ASSUME ReactorInv, DriveFrame
  PROVE  ReactorInv'
<1>1. PICK d : d = c
  OBVIOUS
<1>2. LoopOK(d)
  BY <1>1 DEF ReactorInv, ConnOK, DriveFrame, Resting, Working, Sends, ReadIn, ReadHdr, ReadOut, Chained,
     Reading, LoopOK
<1>3. PICK f : f = Head(d.rx)
  OBVIOUS
<1>4. PICK q : q = Tail(d.rx)
  OBVIOUS
<1>5. f \in Frames /\ q \in Seq(Frames)
  <2>1. d.rx \in Seq(Frames) /\ d.rx # <<>>
    BY <1>1, <1>2 DEF LoopOK, OpenOK, DriveFrame
  <2>. QED
    BY <1>3, <1>4, <2>1, SMTT(30)
<1>6. PICK x : x = [d EXCEPT !.rx = q]
  OBVIOUS
<1>7. LoopOK(x)
  <2>1. IsConn(d)
    BY <1>2 DEF LoopOK, Base, Sound
  <2>2. SameLoop(d, x)
    BY <1>5, <1>6, <2>1 DEF SameLoop, IsConn, Fields, SameCtl, SameOwed, SameRead
  <2>. QED
    BY <1>2, <2>2, LoopKept
<1>8. PICK e : e = c'
  OBVIOUS
<1>9. /\ CASE f.kind = "unsync"               -> e = CloseConn(d)
           [] f.kind = "violation"            -> e = CloseConn(x)
           [] f.kind = "smb1"                 -> e = StartSend([Buffered(x, f.no, 1) EXCEPT !.close_after_send = TRUE,
                                                                                         !.driving = FALSE])
           [] f.kind \in {"read", "readfull"} -> e \in ReadFrame(x, f)
           [] OTHER                           -> e \in Respond(x, f)
      /\ arrived' = arrived
  BY <1>1, <1>3, <1>4, <1>6, <1>8 DEF DriveFrame
<1>10. f.kind \in AllKinds
  BY <1>5, ReactorAssumption DEF Frames
<1>11. ASSUME f.kind = "unsync" PROVE ConnOK(e)
  <2>1. e = CloseConn(d)
    BY <1>9, <1>11
  <2>. QED
    BY <1>2, <2>1, Closed DEF LoopOK
<1>12. ASSUME f.kind = "violation" PROVE ConnOK(e)
  <2>1. e = CloseConn(x)
    BY <1>9, <1>12
  <2>. QED
    BY <1>7, <2>1, Closed DEF LoopOK
<1>13. ASSUME f.kind = "smb1" PROVE ConnOK(e)
  <2>1. PICK y : y = Buffered(x, f.no, 1)
    OBVIOUS
  <2>2. PICK z : z = [y EXCEPT !.close_after_send = TRUE, !.driving = FALSE]
    OBVIOUS
  <2>3. e = StartSend(z)
    BY <1>9, <1>13, <2>1, <2>2
  <2>. QED
    BY <1>7, <2>1, <2>2, <2>3, LoopBuffers, LoopSmb1
<1>14. ASSUME f.kind \in {"read", "readfull"} PROVE ConnOK(e)
  <2>1. e \in ReadFrame(x, f)
    BY <1>9, <1>14
  <2>. QED
    BY <1>5, <1>7, <2>1, LoopReads
<1>15. ASSUME f.kind \in {"small", "big", "notify", "cancel", "closedir"} PROVE ConnOK(e)
  <2>1. e \in Respond(x, f)
    BY <1>9, <1>15
  <2>. QED
    BY <1>7, <1>15, <2>1, LoopResponds, SMTT(30) DEF LoopOK, ConnOK
<1>16. ConnOK(e)
  BY <1>10, <1>11, <1>12, <1>13, <1>14, <1>15 DEF AllKinds
<1>. QED
  BY <1>8, <1>9, <1>16 DEF ReactorInv

LEMMA OnRecvStep ==
  ASSUME ReactorInv, NEW n \in 0..MaxRecv, NEW kinds \in [1..n -> Kinds], OnRecv(kinds)
  PROVE  ReactorInv'
<1>1. PICK d : d = c
  OBVIOUS
<1>2. AtRest(d) /\ "recv" \in d.ops
  BY <1>1, Awaits DEF OnRecv, Completes
<1>3. PICK x : x = [Retire(d, "recv") EXCEPT !.recv_inflight = FALSE]
  OBVIOUS
<1>4. Base(x) /\ OpenOK(x) /\ (Resting(x) \/ Working(x))
  BY <1>2, <1>3, RecvRetired
<1>5. PICK new : new = [i \in 1..Len(kinds) |-> [no |-> arrived + i, kind |-> kinds[i]]]
  OBVIOUS
<1>6. n \in Nat /\ Len(kinds) = n /\ arrived \in Nat /\ arrived + n <= MaxFrames /\ MaxFrames \in Nat
  BY ReactorAssumption, SMTT(30) DEF ReactorInv, OnRecv
<1>7. new \in Seq(Frames)
  <2>1. \A i \in 1..n : arrived + i \in Requests
    BY <1>6, SMTT(30) DEF Requests
  <2>2. \A i \in 1..n : [no |-> arrived + i, kind |-> kinds[i]] \in Frames
    BY <2>1 DEF Frames
  <2>. QED
    BY <1>5, <1>6, <2>2, SMTT(30)
<1>8. PICK q : q = x.rx \o new
  OBVIOUS
<1>9. q \in Seq(Frames)
  <2>1. x.rx \in Seq(Frames)
    BY <1>4 DEF OpenOK
  <2>. QED
    BY <1>7, <1>8, <2>1, SMTT(30)
<1>10. PICK y : y = [x EXCEPT !.rx = q]
  OBVIOUS
<1>11. PICK e : e = c'
  OBVIOUS
<1>12. e = IF y.txm = "Idle" THEN Drive(y) ELSE MaybeArmRecv(y)
  <2>1. y = [Retire(c, "recv") EXCEPT !.recv_inflight = FALSE, !.rx = @ \o new]
    BY <1>1, <1>2, <1>3, <1>8, <1>10 DEF Retire
  <2>. QED
    BY <1>5, <1>11, <2>1 DEF OnRecv
<1>13. ConnOK(e)
  BY <1>4, <1>9, <1>10, <1>12, Received
<1>14. arrived' \in Nat
  BY <1>6, SMTT(30) DEF OnRecv
<1>. QED
  BY <1>11, <1>13, <1>14 DEF ReactorInv

LEMMA OnRecvFailsStep ==
  ASSUME ReactorInv, OnRecvFails
  PROVE  ReactorInv'
<1>1. PICK d : d = c
  OBVIOUS
<1>2. AtRest(d) /\ "recv" \in d.ops
  BY <1>1, Awaits DEF OnRecvFails, Completes
<1>3. PICK x : x = [Retire(d, "recv") EXCEPT !.recv_inflight = FALSE]
  OBVIOUS
<1>4. Base(x) /\ OpenOK(x) /\ (Resting(x) \/ Working(x))
  BY <1>2, <1>3, RecvRetired
<1>5. PICK e : e = c'
  OBVIOUS
<1>6. (e = MaybeArmRecv(x) \/ e = CloseConn(x)) /\ arrived' = arrived
  BY <1>1, <1>3, <1>5 DEF OnRecvFails
<1>7. ConnOK(e)
  BY <1>4, <1>6, Armed, Closed
<1>. QED
  BY <1>5, <1>6, <1>7 DEF ReactorInv

------------------------------------------------------------------------------
(* Completions of a send *)

LEMMA OnSendStep ==
  ASSUME ReactorInv, NEW n, OnSend(n)
  PROVE  ReactorInv'
<1>1. PICK d : d = c
  OBVIOUS
<1>2. AtRest(d) /\ "send" \in d.ops /\ ~(d.zc # None /\ d.zc.linked)
  BY <1>1, Awaits DEF OnSend, Completes
<1>3. PICK e : e = c'
  OBVIOUS
<1>4. PICK y \in Noteds(Retire(d, "send")) :
        LET x == [y EXCEPT !.tx_off = @ + n]
            done == x.tx_off >= Len(x.tx)
        IN CASE x.txm = "ZcHdr" /\ done  -> e = Submit([x EXCEPT !.txm = "ZcOut"], "out")
             [] ~done                    -> e = SubmitSend(x, x.txm = "ZcHdr")
             [] OTHER                    -> e \in AllSent(x)
  BY <1>1, <1>3 DEF OnSend
<1>5. PICK x : x = [y EXCEPT !.tx_off = @ + n]
  OBVIOUS
<1>6. PICK done : done = (x.tx_off >= Len(x.tx))
  OBVIOUS
<1>7. (CASE x.txm = "ZcHdr" /\ done -> e = Submit([x EXCEPT !.txm = "ZcOut"], "out")
         [] ~done                   -> e = SubmitSend(x, x.txm = "ZcHdr")
         [] OTHER                   -> e \in AllSent(x))
  BY <1>4, <1>5, <1>6
<1>8. \/ x.txm = "ZcHdr" /\ e = Submit([x EXCEPT !.txm = "ZcOut"], "out")
      \/ e = SubmitSend(x, x.txm = "ZcHdr")
      \/ x.txm # "ZcHdr" /\ e \in AllSent(x)
  BY <1>7
<1>9. BatchSent(y) \/ HdrSent(y)
  BY <1>2, <1>4, SendRetired
<1>10. BatchSent(x) \/ HdrSent(x)
  <2>1. IsConn(y)
    BY <1>9 DEF BatchSent, HdrReady, HdrSent, Sendable, Sound
  <2>2. /\ IsConn(x) /\ x.ops = y.ops /\ x.inflight = y.inflight /\ x.tx = y.tx /\ x.txm = y.txm
        /\ x.kbuf = y.kbuf /\ x.send_is_zc = y.send_is_zc
        /\ SameCtl(y, x) /\ SameRx(y, x) /\ SameOwed(y, x) /\ SameRead(y, x)
    BY <1>5, <2>1 DEF IsConn, Fields, SameCtl, SameRx, SameOwed, SameRead
  <2>. QED
    BY <1>9, <2>2, SentKept
<1>11. ConnOK(e)
  <2>1. BatchSent(x) => x.txm # "ZcHdr"
    BY DEF BatchSent
  <2>2. HdrSent(x) => x.txm = "ZcHdr"
    BY DEF HdrReady, HdrSent
  <2>. QED
    BY <1>8, <1>10, <2>1, <2>2, HdrDone, Resent, AllSentOK
<1>12. arrived' = arrived
  BY DEF OnSend
<1>. QED
  BY <1>3, <1>11, <1>12 DEF ReactorInv

LEMMA OnSendFailsStep ==
  ASSUME ReactorInv, OnSendFails
  PROVE  ReactorInv'
<1>1. PICK d : d = c
  OBVIOUS
<1>2. AtRest(d) /\ "send" \in d.ops /\ ~(d.zc # None /\ d.zc.linked)
  BY <1>1, Awaits DEF OnSendFails, Completes
<1>3. PICK e : e = c'
  OBVIOUS
<1>4. PICK y \in Noteds(Retire(d, "send")) :
        \/ e = SubmitSend(y, y.txm = "ZcHdr")
        \/ y.send_is_zc /\ e = SubmitSend([y EXCEPT !.copy_next = TRUE], FALSE)
        \/ e = CloseConn(y)
  BY <1>1, <1>3 DEF OnSendFails
<1>5. BatchSent(y) \/ HdrSent(y)
  BY <1>2, <1>4, SendRetired
<1>6. ASSUME e = SubmitSend(y, y.txm = "ZcHdr")
      PROVE  ConnOK(e)
  BY <1>5, <1>6, Resent
<1>7. ASSUME y.send_is_zc, e = SubmitSend([y EXCEPT !.copy_next = TRUE], FALSE)
      PROVE  ConnOK(e)
  <2>1. BatchSent(y) /\ IsConn(y)
    BY <1>5, <1>7 DEF HdrReady, HdrSent, BatchSent, Sendable, Sound
  <2>2. PICK x : x = [y EXCEPT !.copy_next = TRUE]
    OBVIOUS
  <2>3. /\ IsConn(x) /\ x.ops = y.ops /\ x.inflight = y.inflight /\ x.tx = y.tx /\ x.txm = y.txm
        /\ x.kbuf = y.kbuf /\ x.send_is_zc = y.send_is_zc
        /\ SameCtl(y, x) /\ SameRx(y, x) /\ SameOwed(y, x) /\ SameRead(y, x)
    BY <2>1, <2>2 DEF IsConn, Fields, SameCtl, SameRx, SameOwed, SameRead
  <2>4. Sendable(x) /\ x.txm = "Send"
    BY <2>1, <2>3, SentKept DEF BatchSent
  <2>. QED
    BY <1>7, <2>2, <2>4, SendableSends DEF Working, ConnOK
<1>8. ASSUME e = CloseConn(y)
      PROVE  ConnOK(e)
  <2>1. Base(y)
    BY <1>5 DEF BatchSent, HdrReady, HdrSent, Sendable, Base, Pinned, NoIO, Reading
  <2>. QED
    BY <1>8, <2>1, Closed
<1>9. ConnOK(e)
  BY <1>4, <1>6, <1>7, <1>8
<1>10. arrived' = arrived
  BY DEF OnSendFails
<1>. QED
  BY <1>3, <1>9, <1>10 DEF ReactorInv

LEMMA OnSendNotifStep ==
  ASSUME ReactorInv, OnSendNotif
  PROVE  ReactorInv'
<1>1. PICK d : d = c
  OBVIOUS
<1>2. AtRest(d) /\ d.owed > 0
  BY <1>1, Awaits DEF OnSendNotif
<1>3. PICK x : x = [d EXCEPT !.owed = @ - 1, !.inflight = @ - 1, !.notif_pending = @ - 1]
  OBVIOUS
<1>4. PICK e : e = c'
  OBVIOUS
<1>5. (e \in IF x.notif_pending = 0 /\ x.txm = "Drain" THEN FinishSend(x) ELSE {x}) /\ arrived' = arrived
  BY <1>1, <1>3, <1>4 DEF OnSendNotif
<1>6. Base(d) /\ Sound(d) /\ OpenOK(d) /\ IsConn(d) /\ d.owed \in Nat /\ d.notif_pending = d.owed
  BY <1>2 DEF AtRest, Base, Sound, OpenOK
<1>7. d.owed # 0
  BY <1>2, <1>6, SMTT(30)
<1>8. Sends(d)
  BY <1>2, <1>7 DEF AtRest, Resting, Quiet, Working, ReadIn, ReadHdr, ReadOut, Chained, Reading
<1>9. /\ IsConn(x) /\ x.ops = d.ops /\ x.inflight = d.inflight - 1 /\ x.owed = d.owed - 1
      /\ x.notif_pending = d.notif_pending - 1
      /\ SameCtl(d, x) /\ SameRx(d, x) /\ SameTx(d, x) /\ SameRead(d, x)
  BY <1>3, <1>6 DEF IsConn, Fields, SameCtl, SameRx, SameTx, SameRead
<1>10. Sound(x)
  BY <1>2, <1>6, <1>9, NotifCounts
<1>11. OpenOK(x)
  <2>1. x.notif_pending = x.owed
    BY <1>6, <1>9
  <2>. QED
    BY <1>6, <1>9, <2>1 DEF OpenOK, SameCtl, SameRx
<1>12. Sends(x)
  BY <1>8, <1>9 DEF Sends, SameCtl, SameTx, SameRead
<1>13. x.dups = Owned(x) /\ Pinned(x)
  BY <1>6, <1>7, <1>9 DEF Base, Owned, Pinned, SameTx, SameRead
<1>14. CASE x.notif_pending = 0 /\ x.txm = "Drain"
  <2>1. "send" \notin x.ops
    BY <1>12, <1>14 DEF Sends
  <2>2. Sendable(x)
    BY <1>10, <1>11, <1>12, <1>13, <2>1 DEF Sendable, Sends, NoIO
  <2>3. x.owed = 0
    BY <1>11, <1>14 DEF OpenOK
  <2>4. ConnOK(e)
    BY <1>5, <1>14, <2>2, <2>3, Finished
  <2>. QED
    BY <1>4, <1>5, <2>4 DEF ReactorInv
<1>15. CASE ~(x.notif_pending = 0 /\ x.txm = "Drain")
  <2>1. e = x
    BY <1>5, <1>15
  <2>2. ConnOK(e)
    BY <1>10, <1>11, <1>12, <1>13, <2>1 DEF Base, Working, ConnOK
  <2>. QED
    BY <1>4, <1>5, <2>2 DEF ReactorInv
<1>. QED
  BY <1>14, <1>15

------------------------------------------------------------------------------
(* Zero-copy reads *)

LEMMA OnSpliceInStep ==
  ASSUME ReactorInv, NEW n, OnSpliceIn(n)
  PROVE  ReactorInv'
<1>1. PICK d : d = c
  OBVIOUS
<1>2. AtRest(d) /\ "in" \in d.ops /\ ~d.zc.linked
  BY <1>1, Awaits DEF OnSpliceIn, Completes
<1>3. PICK y : y = Retire(d, "in")
  OBVIOUS
<1>4. Between(y) /\ ~y.zc.linked /\ SameRead(d, y) /\ y.txm = "ZcIn" /\ Len(y.inpipe) = y.zc.got
  BY <1>2, <1>3, ReadRetired
<1>5. n \in 0..(y.zc.want - y.zc.got)
  BY <1>1, <1>4 DEF OnSpliceIn, SameRead
<1>6. PICK x : x = [Spliced(y, n, y.zc.got) EXCEPT !.zc.got = @ + n]
  OBVIOUS
<1>7. Between(x) /\ x.txm = y.txm /\ x.zc.linked = y.zc.linked /\ Len(x.inpipe) = x.zc.got
  BY <1>4, <1>5, <1>6, SplicedIn
<1>8. ~x.zc.linked
  BY <1>4, <1>7
<1>9. PICK e : e = c'
  OBVIOUS
<1>10. (e = Submit(x, "in") \/ e = ZcFail(x) \/ e = SendHeader(x)) /\ arrived' = arrived
  BY <1>1, <1>3, <1>6, <1>9 DEF OnSpliceIn
<1>11. ConnOK(e)
  BY <1>4, <1>7, <1>8, <1>10, ReadNext, ReadFailed, ReadHeads
<1>. QED
  BY <1>9, <1>10, <1>11 DEF ReactorInv

LEMMA OnSpliceInFailsStep ==
  ASSUME ReactorInv, OnSpliceInFails
  PROVE  ReactorInv'
<1>1. PICK d : d = c
  OBVIOUS
<1>2. AtRest(d) /\ "in" \in d.ops /\ ~d.zc.linked
  BY <1>1, Awaits DEF OnSpliceInFails, Completes
<1>3. PICK y : y = Retire(d, "in")
  OBVIOUS
<1>4. Between(y) /\ ~y.zc.linked /\ y.txm = "ZcIn" /\ Len(y.inpipe) = y.zc.got
  BY <1>2, <1>3, ReadRetired
<1>5. PICK e : e = c'
  OBVIOUS
<1>6. (e = Submit(y, "in") \/ e = ZcFail(y)) /\ arrived' = arrived
  BY <1>1, <1>3, <1>5 DEF OnSpliceInFails
<1>7. ConnOK(e)
  BY <1>4, <1>6, ReadNext, ReadFailed
<1>. QED
  BY <1>5, <1>6, <1>7 DEF ReactorInv

LEMMA OnSpliceOutStep ==
  ASSUME ReactorInv, NEW n, OnSpliceOut(n)
  PROVE  ReactorInv'
<1>1. PICK d : d = c
  OBVIOUS
<1>2. AtRest(d) /\ "out" \in d.ops /\ ~d.zc.linked
  BY <1>1, Awaits DEF OnSpliceOut, Completes
<1>3. PICK y : y = Retire(d, "out")
  OBVIOUS
<1>4. Between(y) /\ ~y.zc.linked /\ SameRead(d, y) /\ y.txm = "ZcOut" /\ Len(y.inpipe) = y.zc.out_left
  BY <1>2, <1>3, ReadRetired
<1>5. n \in 1..Len(y.inpipe)
  <2>1. n \in 1..MinOf(y.zc.out_left, Len(y.inpipe))
    BY <1>1, <1>4 DEF OnSpliceOut, SameRead
  <2>. QED
    BY <1>4, <2>1 DEF MinOf
<1>6. PICK x : x = Flushed(y, n)
  OBVIOUS
<1>7. /\ Between(x) /\ x.txm = y.txm /\ x.zc.linked = y.zc.linked /\ Len(x.inpipe) = x.zc.out_left
      /\ x.zc.out_left > 0 \/ x.inpipe = <<>>
  <2>1. Between(y) /\ OwesOut(y)
    BY <1>4 DEF OwesOut
  <2>2. WentOut(y, n, x)
    BY <1>5, <1>6, <2>1, SplicedOut
  <2>. QED
    BY <2>2 DEF WentOut, OwesOut
<1>8. ~x.zc.linked
  BY <1>4, <1>7
<1>9. PICK e : e = c'
  OBVIOUS
<1>10. arrived' = arrived
  BY DEF OnSpliceOut
<1>11. e = IF x.zc.out_left > 0 THEN Submit(x, "out") ELSE ReadDone(x)
  <2>1. c' = IF Flushed(Retire(c, "out"), n).zc.out_left > 0 THEN Submit(Flushed(Retire(c, "out"), n), "out")
             ELSE ReadDone(Flushed(Retire(c, "out"), n))
    BY DEF OnSpliceOut, Flushed
  <2>2. x = Flushed(Retire(c, "out"), n)
    BY <1>1, <1>3, <1>6
  <2>. QED
    BY <1>9, <2>1, <2>2
<1>12. ConnOK(e)
  BY <1>4, <1>7, <1>8, <1>11, ReadNext, ReadOver
<1>. QED
  BY <1>9, <1>10, <1>12 DEF ReactorInv

LEMMA OnSpliceOutFailsStep ==
  ASSUME ReactorInv, OnSpliceOutFails
  PROVE  ReactorInv'
<1>1. PICK d : d = c
  OBVIOUS
<1>2. AtRest(d) /\ "out" \in d.ops /\ ~d.zc.linked
  BY <1>1, Awaits DEF OnSpliceOutFails, Completes
<1>3. PICK y : y = Retire(d, "out")
  OBVIOUS
<1>4. Between(y) /\ ~y.zc.linked /\ y.txm = "ZcOut" /\ Len(y.inpipe) = y.zc.out_left
  BY <1>2, <1>3, ReadRetired
<1>5. PICK e : e = c'
  OBVIOUS
<1>6. (e = Submit(y, "out") \/ e = CloseConn(y)) /\ arrived' = arrived
  BY <1>1, <1>3, <1>5 DEF OnSpliceOutFails
<1>7. ConnOK(e)
  BY <1>4, <1>6, ReadNext, BetweenBase, Closed
<1>. QED
  BY <1>5, <1>6, <1>7 DEF ReactorInv

LEMMA LinkedInStep ==
  ASSUME ReactorInv, NEW n, LinkedIn(n)
  PROVE  ReactorInv'
<1>1. PICK d : d = c
  OBVIOUS
<1>2. AtRest(d) /\ "in" \in d.ops /\ d.zc # None /\ d.zc.linked
  BY <1>1, Awaits DEF LinkedIn, Linked, Completes
<1>3. PICK y : y = Retire(d, "in")
  OBVIOUS
<1>4. Chained(d) /\ Held(y) /\ SameRead(d, y) /\ y.ops = d.ops \ {"in"}
  BY <1>2, <1>3, ChainRetired
<1>5. d.zc.chain = 3 /\ "send" \in d.ops /\ "out" \in d.ops /\ d.inpipe = <<>> /\ d.zc.out_left = d.zc.want
  BY <1>2, <1>4, ChainAt
<1>6. y.zc = d.zc /\ y.inpipe = <<>> /\ IsConn(y) /\ y.zc \in ZcType
  BY <1>4, <1>5 DEF SameRead, Held, Base, Sound, Reading
<1>7. n = d.zc.want \/ n \in 0..(d.zc.want - 1)
  BY <1>1 DEF LinkedIn
<1>8. PICK no, want, b : no = d.zc.no /\ want = d.zc.want /\ b = (n < d.zc.want)
  OBVIOUS
<1>9. no \in Nat /\ want \in Nat /\ n \in Nat /\ (b \/ n = want)
  <2>1. no \in Nat /\ want \in Nat
    BY <1>6, <1>8, ZcTyped
  <2>2. n = want \/ n \in 0..(want - 1)
    BY <1>7, <1>8
  <2>3. n \in Nat
    BY <2>1, <2>2, SMTT(30)
  <2>4. n < want \/ n = want
    BY <2>1, <2>2, SMTT(30)
  <2>. QED
    BY <1>8, <2>1, <2>3, <2>4
<1>10. PICK q : q = Push(<<>>, n, no, 0)
  OBVIOUS
<1>11. q \in Seq(Nat \X Nat) /\ Len(q) = n
  <2>1. <<>> \in Seq(Nat \X Nat) /\ 0 \in Nat
    BY SMTT(30)
  <2>2. q \in Seq(Nat \X Nat) /\ Len(q) = Len(<<>>) + n
    BY <1>9, <1>10, <2>1, Pushed
  <2>3. Len(<<>>) + n = n
    BY <1>9, SMTT(30)
  <2>. QED
    BY <2>2, <2>3
<1>12. PICK x : x = [y EXCEPT !.inpipe = q, !.broken = b]
  OBVIOUS
<1>13. PICK e : e = c'
  OBVIOUS
<1>14. e = LinkedCqe(x, FALSE)
  <2>1. [Spliced(y, n, 0) EXCEPT !.broken = b] = x
    BY <1>6, <1>8, <1>10, <1>12 DEF Spliced, Push
  <2>2. c' = LinkedCqe([Spliced(Retire(c, "in"), n, 0) EXCEPT !.broken = n < c.zc.want], FALSE)
    BY DEF LinkedIn
  <2>. QED
    BY <1>1, <1>3, <1>8, <1>13, <2>1, <2>2
<1>15. /\ IsConn(x) /\ x.ops = y.ops /\ x.inflight = y.inflight
       /\ SameCtl(y, x) /\ SameRx(y, x) /\ SameTx(y, x) /\ SameOwed(y, x)
       /\ x.pending_zc = y.pending_zc /\ x.inpipe = q /\ x.dups = y.dups /\ x.zc = y.zc
  BY <1>6, <1>12 DEF IsConn, Fields, SameCtl, SameRx, SameTx, SameOwed
<1>16. x.broken = b
  BY <1>6, <1>12 DEF IsConn, Fields
<1>17. Held(x)
  BY <1>4, <1>6, <1>11, <1>15, HeldKept
<1>18. x.broken \/ OwesOut(x)
  BY <1>5, <1>6, <1>8, <1>9, <1>11, <1>15, <1>16 DEF OwesOut
<1>19. x.zc.chain = 3 /\ "in" \notin x.ops /\ "send" \in x.ops /\ "out" \in x.ops
  BY <1>4, <1>5, <1>6, <1>15
<1>20. ConnOK(e)
  BY <1>14, <1>17, <1>18, <1>19, ChainIn
<1>21. arrived' = arrived
  BY DEF LinkedIn
<1>. QED
  BY <1>13, <1>20, <1>21 DEF ReactorInv

LEMMA LinkedSendStep ==
  ASSUME ReactorInv, NEW n, LinkedSend(n)
  PROVE  ReactorInv'
<1>1. PICK d : d = c
  OBVIOUS
<1>2. AtRest(d) /\ "send" \in d.ops /\ d.zc # None /\ d.zc.linked /\ "in" \notin d.ops
  BY <1>1, Awaits DEF LinkedSend, Linked, Completes
<1>3. ~d.broken
  BY <1>1 DEF LinkedSend
<1>4. PICK y : y = Retire(d, "send")
  OBVIOUS
<1>5. Chained(d) /\ Held(y) /\ SameRead(d, y) /\ y.ops = d.ops \ {"send"}
  BY <1>2, <1>4, ChainRetired
<1>6. "out" \in d.ops /\ d.zc.chain = 2 /\ OwesOut(d)
  BY <1>2, <1>3, <1>5, ChainAt
<1>7. ~y.broken
  BY <1>3, <1>5 DEF SameRead
<1>8. y.zc.chain = 2 /\ OwesOut(y)
  BY <1>5, <1>6 DEF SameRead, OwesOut
<1>9. "in" \notin y.ops /\ "send" \notin y.ops /\ "out" \in y.ops
  BY <1>2, <1>5, <1>6
<1>10. PICK e : e = c'
  OBVIOUS
<1>11. e = LinkedCqe(y, FALSE) /\ arrived' = arrived
  BY <1>1, <1>4, <1>10 DEF LinkedSend
<1>12. ConnOK(e)
  BY <1>5, <1>7, <1>8, <1>9, <1>11, ChainSend
<1>. QED
  BY <1>10, <1>11, <1>12 DEF ReactorInv

LEMMA LinkedOutStep ==
  ASSUME ReactorInv, NEW n, LinkedOut(n)
  PROVE  ReactorInv'
<1>1. PICK d : d = c
  OBVIOUS
<1>2. AtRest(d) /\ "out" \in d.ops /\ d.zc # None /\ d.zc.linked /\ "send" \notin d.ops
  BY <1>1, Awaits DEF LinkedOut, Linked, Completes
<1>3. ~d.broken
  BY <1>1 DEF LinkedOut
<1>4. PICK y : y = Retire(d, "out")
  OBVIOUS
<1>5. Chained(d) /\ Held(y) /\ SameRead(d, y) /\ y.ops = d.ops \ {"out"}
  BY <1>2, <1>4, ChainRetired
<1>6. "in" \notin d.ops /\ d.zc.chain = 1 /\ OwesOut(d)
  BY <1>2, <1>3, <1>5, ChainAt
<1>7. NoIO(y)
  BY <1>2, <1>5, <1>6 DEF NoIO
<1>8. Between(y) /\ OwesOut(y)
  BY <1>5, <1>6, <1>7 DEF Held, Base, Between, SameRead, OwesOut
<1>9. n \in 1..Len(y.inpipe)
  BY <1>1, <1>5 DEF LinkedOut, SameRead
<1>10. PICK x : x = Flushed(y, n)
  OBVIOUS
<1>11. WentOut(y, n, x)
  BY <1>8, <1>9, <1>10, SplicedOut
<1>12. x.zc.chain = 1
  <2>1. x.zc = [y.zc EXCEPT !.out_left = y.zc.out_left - n] /\ y.zc \in ZcType /\ y.zc = d.zc
    BY <1>5, <1>11 DEF WentOut, SameRead, Held, Reading
  <2>. QED
    BY <1>6, <2>1 DEF ZcType
<1>13. x.zc.linked
  BY <1>5, <1>11 DEF WentOut, Held
<1>14. Held(x) /\ NoIO(x) /\ OwesOut(x)
  <2>1. Between(x) /\ OwesOut(x) /\ x.txm = "ZcOut"
    BY <1>5, <1>11 DEF WentOut, Held
  <2>2. Base(x)
    BY <2>1, BetweenBase
  <2>. QED
    BY <1>13, <2>1, <2>2 DEF Between, Held
<1>15. PICK e : e = c'
  OBVIOUS
<1>16. e = LinkedCqe(x, FALSE) /\ arrived' = arrived
  <2>1. c' = LinkedCqe(Flushed(Retire(c, "out"), n), FALSE) /\ arrived' = arrived
    BY DEF LinkedOut, Flushed
  <2>. QED
    BY <1>1, <1>4, <1>10, <1>15, <2>1
<1>17. ConnOK(e)
  BY <1>12, <1>14, <1>16, ChainOut
<1>. QED
  BY <1>15, <1>16, <1>17 DEF ReactorInv

LEMMA LinkedFailsStep ==
  ASSUME ReactorInv, LinkedFails
  PROVE  ReactorInv'
<1>1. PICK d : d = c
  OBVIOUS
<1>2. PICK e : e = c'
  OBVIOUS
<1>3. PICK op \in {"in", "send", "out"} :
        /\ d.state = "open" /\ ~d.driving /\ op \in d.ops /\ d.zc # None /\ d.zc.linked
        /\ op = "send" => "in" \notin d.ops
        /\ op = "out" => "send" \notin d.ops
        /\ e = LinkedCqe([Retire(d, op) EXCEPT !.broken = TRUE], TRUE)
  BY <1>1, <1>2 DEF LinkedFails, Linked, Completes
<1>4. AtRest(d)
  BY <1>1, <1>3, Awaits
<1>5. PICK y : y = Retire(d, op)
  OBVIOUS
<1>6. Chained(d) /\ Held(y) /\ SameRead(d, y) /\ y.ops = d.ops \ {op}
  BY <1>3, <1>4, <1>5, ChainRetired
<1>7. PICK x : x = [y EXCEPT !.broken = TRUE]
  OBVIOUS
<1>8. IsConn(y) /\ y.zc \in ZcType /\ y.inpipe \in Seq(Nat \X Nat) /\ y.zc = d.zc
  BY <1>6 DEF SameRead, Held, Base, Sound, Reading
<1>9. /\ IsConn(x) /\ x.ops = y.ops /\ x.inflight = y.inflight
      /\ SameCtl(y, x) /\ SameRx(y, x) /\ SameTx(y, x) /\ SameOwed(y, x)
      /\ x.pending_zc = y.pending_zc /\ x.inpipe = y.inpipe /\ x.dups = y.dups /\ x.zc = y.zc
  BY <1>7, <1>8 DEF IsConn, Fields, SameCtl, SameRx, SameTx, SameOwed
<1>10. x.broken
  BY <1>7, <1>8 DEF IsConn, Fields
<1>11. Held(x)
  BY <1>6, <1>8, <1>9, HeldKept
<1>12. e = LinkedCqe(x, TRUE) /\ x.ops = d.ops \ {op} /\ x.zc = d.zc
  BY <1>3, <1>5, <1>6, <1>7, <1>8, <1>9
<1>13. ASSUME op = "in"
       PROVE  ConnOK(e)
  <2>1. x.zc.chain = 3 /\ "in" \notin x.ops /\ "send" \in x.ops /\ "out" \in x.ops
    BY <1>3, <1>6, <1>12, <1>13, ChainAt
  <2>. QED
    BY <1>10, <1>11, <1>12, <2>1, ChainIn
<1>14. ASSUME op = "send"
       PROVE  ConnOK(e)
  <2>1. x.zc.chain = 2 /\ "in" \notin x.ops /\ "send" \notin x.ops /\ "out" \in x.ops
    BY <1>3, <1>6, <1>12, <1>14, ChainAt
  <2>. QED
    BY <1>10, <1>11, <1>12, <2>1, ChainSend
<1>15. ASSUME op = "out"
       PROVE  ConnOK(e)
  <2>1. x.zc.chain = 1 /\ NoIO(x)
    BY <1>3, <1>6, <1>12, <1>15, ChainAt DEF NoIO
  <2>. QED
    BY <1>11, <1>12, <2>1, ChainOut
<1>16. ConnOK(e)
  BY <1>3, <1>13, <1>14, <1>15
<1>17. arrived' = arrived
  BY DEF LinkedFails
<1>. QED
  BY <1>2, <1>16, <1>17 DEF ReactorInv

------------------------------------------------------------------------------
(* Asynchronous responses *)

LEMMA OnInotifyStep ==
  ASSUME ReactorInv, NEW fired, OnInotify(fired)
  PROVE  ReactorInv'
<1>1. PICK d : d = c
  OBVIOUS
<1>2. AtRest(d) /\ "inotify" \in d.ops
  BY <1>1, Awaits DEF OnInotify, Completes
<1>3. PICK w, q : /\ w = Retire(d, "inotify").watches \ Range(fired)
                  /\ q = Retire(d, "inotify").deferred \o [i \in 1..Len(fired) |-> Final(fired[i])]
  OBVIOUS
<1>4. PICK x : x = ArmInotify([Retire(d, "inotify") EXCEPT !.watches = w, !.deferred = q])
  OBVIOUS
<1>5. AtRest(x)
  BY <1>2, <1>4, Rearmed
<1>6. PICK e : e = c'
  OBVIOUS
<1>7. e = (IF x.deferred # <<>> THEN IfIdleDrive(x) ELSE x) /\ arrived' = arrived
  BY <1>1, <1>3, <1>4, <1>6 DEF OnInotify
<1>8. ConnOK(e)
  BY <1>5, <1>7, IdleDrives, AtRestOK
<1>. QED
  BY <1>6, <1>7, <1>8 DEF ReactorInv

LEMMA OnInotifyFailsStep ==
  ASSUME ReactorInv, OnInotifyFails
  PROVE  ReactorInv'
<1>1. PICK d : d = c
  OBVIOUS
<1>2. AtRest(d) /\ "inotify" \in d.ops
  BY <1>1, Awaits DEF OnInotifyFails, Completes
<1>3. PICK e : e = c'
  OBVIOUS
<1>4. PICK y : y = Retire(d, "inotify")
  OBVIOUS
<1>5. /\ Sound(y) /\ y.ops = d.ops \ {"inotify"}
      /\ SameCtl(d, y) /\ SameRx(d, y) /\ SameTx(d, y) /\ SameOwed(d, y) /\ SameRead(d, y)
  BY <1>2, <1>4, Retires DEF AtRest, Base
<1>6. (e = ArmInotify(y) \/ e = [y EXCEPT !.inotify = FALSE]) /\ arrived' = arrived
  BY <1>1, <1>3, <1>4 DEF OnInotifyFails
<1>7. ASSUME e = ArmInotify(y)
      PROVE  ConnOK(e)
  <2>1. /\ Sound(e) /\ e.ops = y.ops \cup {"inotify"}
        /\ SameCtl(y, e) /\ SameRx(y, e) /\ SameTx(y, e) /\ SameOwed(y, e) /\ SameRead(y, e)
    BY <1>5, <1>7, Submits DEF ArmInotify
  <2>2. e.ops = d.ops
    BY <1>2, <1>5, <2>1
  <2>3. SameCtl(d, e) /\ SameRx(d, e) /\ SameTx(d, e) /\ SameOwed(d, e) /\ SameRead(d, e)
    BY <1>5, <2>1 DEF SameCtl, SameRx, SameTx, SameOwed, SameRead
  <2>. QED
    BY <1>2, <2>1, <2>2, <2>3, RestKept, AtRestOK
<1>8. ASSUME e = [y EXCEPT !.inotify = FALSE]
      PROVE  ConnOK(e)
  <2>1. ~e.inotify
    BY <1>5, <1>8 DEF Sound, IsConn, Fields
  <2>2. /\ IsConn(e) /\ e.ops = y.ops /\ e.inflight = y.inflight /\ e.rx = y.rx /\ e.recv_inflight = y.recv_inflight
        /\ SameCtl(y, e) /\ SameTx(y, e) /\ SameOwed(y, e) /\ SameRead(y, e)
    BY <1>5, <1>8 DEF Sound, IsConn, Fields, SameCtl, SameTx, SameOwed, SameRead
  <2>3. Sound(e)
    BY <1>5, <2>2 DEF Sound, Counted, SameOwed
  <2>4. SameCtl(d, e) /\ SameTx(d, e) /\ SameOwed(d, e) /\ SameRead(d, e) /\ e.ops = d.ops \ {"inotify"}
    BY <1>5, <2>2 DEF SameCtl, SameTx, SameOwed, SameRead
  <2>5. SameIO(d, e)
    BY <2>4 DEF SameIO
  <2>6. e.rx = d.rx /\ e.recv_inflight = d.recv_inflight
    BY <1>5, <2>2 DEF SameRx
  <2>7. OpenOK(e)
    BY <1>2, <2>1, <2>4, <2>6 DEF AtRest, OpenOK, SameCtl, SameOwed
  <2>8. Base(e)
    BY <1>2, <2>3, <2>4, <2>5, PhaseKept DEF AtRest, Base
  <2>9. Resting(d) => Resting(e)
    BY <2>4, <2>5, <2>6, PhaseKept DEF Resting, SameCtl, SameTx
  <2>10. Working(d) => Working(e)
    BY <2>4, <2>5, PhaseKept
  <2>11. d.recv_inflight => e.recv_inflight
    BY <2>6
  <2>. QED
    BY <1>2, <2>7, <2>8, <2>9, <2>10, <2>11 DEF AtRest, ConnOK
<1>9. ConnOK(e)
  BY <1>6, <1>7, <1>8
<1>. QED
  BY <1>3, <1>6, <1>9 DEF ReactorInv

LEMMA DeliverBreakStep ==
  ASSUME ReactorInv, DeliverBreak
  PROVE  ReactorInv'
<1>1. PICK d : d = c
  OBVIOUS
<1>2. AtRest(d)
  BY <1>1, Awaits DEF DeliverBreak
<1>3. PICK q : q = Append(c.deferred, BreakMsg(breaks'))
  OBVIOUS
<1>4. PICK x : x = [d EXCEPT !.watches = d.watches, !.deferred = q]
  OBVIOUS
<1>5. AtRest(x)
  BY <1>2, <1>4, RestDefers
<1>6. x = [d EXCEPT !.deferred = q]
  BY <1>2, <1>4 DEF AtRest, Base, Sound, IsConn, Fields
<1>7. PICK e : e = c'
  OBVIOUS
<1>8. e = IfIdleDrive(x) /\ arrived' = arrived
  BY <1>1, <1>3, <1>6, <1>7 DEF DeliverBreak
<1>9. ConnOK(e)
  BY <1>5, <1>8, IdleDrives
<1>. QED
  BY <1>7, <1>8, <1>9 DEF ReactorInv

------------------------------------------------------------------------------
(* Draining *)

LEMMA ClosingCqeStep ==
  ASSUME ReactorInv, NEW op, ClosingCqe(op)
  PROVE  ReactorInv'
<1>1. PICK d : d = c
  OBVIOUS
<1>2. PICK e : e = c'
  OBVIOUS
<1>3. d.state = "closing" /\ op \in d.ops /\ arrived' = arrived
  BY <1>1 DEF ClosingCqe
<1>4. Base(d) /\ ~d.driving
  <2>1. d.state # "free" /\ d.state # "open"
    BY <1>3
  <2>. QED
    BY <1>1, <2>1 DEF ReactorInv, ConnOK, OpenOK
<1>5. PICK y : y = Retire(d, op)
  OBVIOUS
<1>6. PICK x : e = Drained(x) /\ (x = y \/ (op = "send" /\ x = Noted(y)))
  BY <1>1, <1>2, <1>5 DEF ClosingCqe, Noteds
<1>7. /\ Sound(y) /\ y.ops = d.ops \ {op}
      /\ SameCtl(d, y) /\ SameRx(d, y) /\ SameTx(d, y) /\ SameOwed(d, y) /\ SameRead(d, y)
  BY <1>3, <1>4, <1>5, Retires DEF Base
<1>8. y.dups = Owned(y)
  BY <1>4, <1>7 DEF Base, Owned, SameRead
<1>9. y.state = "closing" /\ ~y.driving
  BY <1>3, <1>4, <1>7 DEF SameCtl
<1>10. ASSUME x = y
       PROVE  Base(x) /\ x.state = "closing" /\ ~x.driving
  <2>1. Pinned(y)
    BY <1>4, <1>7 DEF Base, Pinned, SameTx, SameOwed
  <2>. QED
    BY <1>7, <1>8, <1>9, <1>10, <2>1 DEF Base
<1>11. ASSUME op = "send", x = Noted(y)
       PROVE  Base(x) /\ x.state = "closing" /\ ~x.driving
  <2>1. /\ Sound(x) /\ x.ops = y.ops
        /\ SameCtl(y, x) /\ SameRx(y, x) /\ SameTx(y, x) /\ SameRead(y, x)
    BY <1>7, <1>11, NotedCounts
  <2>2. y.tx = y.kbuf
    BY <1>3, <1>4, <1>7, <1>11 DEF Base, Pinned, SameTx
  <2>3. Pinned(x)
    BY <2>1, <2>2 DEF Pinned, SameTx
  <2>4. x.dups = Owned(x)
    BY <1>8, <2>1 DEF Owned, SameRead
  <2>5. x.state = "closing" /\ ~x.driving
    BY <1>9, <2>1 DEF SameCtl
  <2>. QED
    BY <2>1, <2>3, <2>4, <2>5 DEF Base
<1>12. ConnOK(e)
  BY <1>6, <1>10, <1>11, DrainedOK
<1>. QED
  BY <1>2, <1>3, <1>12 DEF ReactorInv

LEMMA ClosingNotifStep ==
  ASSUME ReactorInv, ClosingNotif
  PROVE  ReactorInv'
<1>1. PICK d : d = c
  OBVIOUS
<1>2. PICK e : e = c'
  OBVIOUS
<1>3. d.state = "closing" /\ d.owed > 0 /\ arrived' = arrived
  BY <1>1 DEF ClosingNotif
<1>4. Base(d) /\ ~d.driving
  <2>1. d.state # "free" /\ d.state # "open"
    BY <1>3
  <2>. QED
    BY <1>1, <2>1 DEF ReactorInv, ConnOK, OpenOK
<1>5. PICK x : x = [d EXCEPT !.owed = @ - 1, !.inflight = @ - 1]
  OBVIOUS
<1>6. e = Drained(x)
  BY <1>1, <1>2, <1>5 DEF ClosingNotif
<1>7. IsConn(d) /\ d.owed \in Nat
  BY <1>4 DEF Base, Sound
<1>8. /\ IsConn(x) /\ x.ops = d.ops /\ x.inflight = d.inflight - 1 /\ x.owed = d.owed - 1
      /\ SameCtl(d, x) /\ SameTx(d, x) /\ SameRead(d, x)
  BY <1>5, <1>7 DEF IsConn, Fields, SameCtl, SameTx, SameRead
<1>9. Sound(x)
  BY <1>3, <1>4, <1>8, NotifCounts DEF Base
<1>10. d.owed # 0
  BY <1>3, <1>7, SMTT(30)
<1>11. x.dups = Owned(x) /\ Pinned(x)
  BY <1>4, <1>8, <1>10 DEF Base, Owned, Pinned, SameTx, SameRead
<1>12. x.state = "closing" /\ ~x.driving
  BY <1>3, <1>4, <1>8 DEF SameCtl
<1>13. ConnOK(e)
  BY <1>6, <1>9, <1>11, <1>12, DrainedOK DEF Base
<1>. QED
  BY <1>2, <1>3, <1>13 DEF ReactorInv

------------------------------------------------------------------------------
(* The invariant holds *)

\* on_accept.
LEMMA InitOK ==
  ASSUME Init
  PROVE  ReactorInv
<1>1. PICK d : d = Fresh
  OBVIOUS
<1>2. /\ IsConn(d) /\ d.state = "open" /\ d.rx = <<>> /\ d.tx = <<>> /\ d.tx_off = 0 /\ d.txm = "Idle"
      /\ d.kbuf = <<>> /\ d.owed = 0 /\ d.notif_pending = 0 /\ d.inflight = 0 /\ d.ops = {}
      /\ d.pending_zc = None /\ d.zc = None /\ d.inpipe = <<>> /\ d.dups = {}
  BY <1>1, FreshConn
<1>3. ~d.driving /\ ~d.close_after_send
  BY <1>1, FreshConn
<1>4. ~d.recv_inflight /\ ~d.inotify
  BY <1>1, FreshConn
<1>5. Sound(d)
  <2>1. IsFiniteSet({}) /\ Cardinality({}) = 0
    BY FS_EmptySet
  <2>2. 0 \in Nat /\ 0 = 0 + 0
    BY SMTT(30)
  <2>. QED
    BY <1>2, <2>1, <2>2 DEF Sound, Counted
<1>6. Base(d)
  <2>1. Owned(d) = {}
    BY <1>2 DEF Owned
  <2>. QED
    BY <1>2, <1>5, <2>1 DEF Base, Pinned
<1>7. OpenOK(d)
  <2>1. <<>> \in Seq(Frames)
    BY SMTT(30)
  <2>. QED
    BY <1>2, <1>4, <2>1 DEF OpenOK
<1>8. Resting(d)
  BY <1>2, <1>3 DEF Resting, Quiet, NoIO
<1>9. PICK e : e = c
  OBVIOUS
<1>10. ConnOK(e)
  BY <1>1, <1>6, <1>7, <1>8, <1>9, Armed DEF Init
<1>11. arrived \in Nat
  BY DEF Init
<1>. QED
  BY <1>9, <1>10, <1>11 DEF ReactorInv

LEMMA InvStep ==
  ASSUME ReactorInv, [Next]_vars
  PROVE  ReactorInv'
<1>1. CASE DriveEnd \/ DriveFrame
  BY <1>1, DriveEndStep, DriveFrameStep
<1>2. CASE \E n \in 0..MaxRecv : \E kinds \in [1..n -> Kinds] : OnRecv(kinds)
  BY <1>2, OnRecvStep
<1>3. CASE OnRecvFails
  BY <1>3, OnRecvFailsStep
<1>4. CASE \E n \in 1..(TX_FLUSH + ZC_SEND_MIN + HDR) : OnSend(n)
  BY <1>4, OnSendStep
<1>5. CASE OnSendFails \/ OnSendNotif
  BY <1>5, OnSendFailsStep, OnSendNotifStep
<1>6. CASE \E n \in 0..ZLEN : OnSpliceIn(n)
  BY <1>6, OnSpliceInStep
<1>7. CASE \E n \in 1..ZLEN : OnSpliceOut(n)
  BY <1>7, OnSpliceOutStep
<1>8. CASE OnSpliceInFails \/ OnSpliceOutFails
  BY <1>8, OnSpliceInFailsStep, OnSpliceOutFailsStep
<1>9. CASE \E n \in 0..ZLEN : LinkedIn(n)
  BY <1>9, LinkedInStep
<1>10. CASE \E n \in 1..HDR : LinkedSend(n)
  BY <1>10, LinkedSendStep
<1>11. CASE \E n \in 1..ZLEN : LinkedOut(n)
  BY <1>11, LinkedOutStep
<1>12. CASE LinkedFails
  BY <1>12, LinkedFailsStep
<1>13. CASE \E S \in SUBSET c.watches : \E fired \in Bijection(1..Cardinality(S), S) : OnInotify(fired)
  BY <1>13, OnInotifyStep
<1>14. CASE OnInotifyFails \/ DeliverBreak
  BY <1>14, OnInotifyFailsStep, DeliverBreakStep
<1>15. CASE \E op \in Ops : ClosingCqe(op)
  BY <1>15, ClosingCqeStep
<1>16. CASE ClosingNotif
  BY <1>16, ClosingNotifStep
<1>17. CASE UNCHANGED vars
  <2>1. c' = c /\ arrived' = arrived
    BY <1>17 DEF vars
  <2>. QED
    BY <2>1 DEF ReactorInv
<1>. QED
  BY <1>1, <1>2, <1>3, <1>4, <1>5, <1>6, <1>7, <1>8, <1>9, <1>10, <1>11, <1>12, <1>13, <1>14, <1>15, <1>16, <1>17 DEF Next

LEMMA Invariance == Spec => []ReactorInv
<1>1. Init => ReactorInv
  BY InitOK
<1>2. ReactorInv /\ [Next]_vars => ReactorInv'
  BY InvStep
<1>. QED
  BY <1>1, <1>2, PTL DEF Spec

------------------------------------------------------------------------------
(* Theorems *)

\* `inflight` is the number of completions the kernel still owes, so close_conn_ring and
\* handle_cqe free a slot only when no operation refers to its buffers.
THEOREM CompletionsCounted == Spec => []InflightExact
<1>1. ReactorInv => InflightExact
  <2>1. SUFFICES ASSUME ReactorInv
                 PROVE  InflightExact
    OBVIOUS
  <2>2. c.inflight = Cardinality(c.ops) + c.owed
    BY <2>1 DEF ReactorInv, ConnOK, Base, Sound, Counted
  <2>3. c.state = "free" => c.state # "closing" /\ c.state # "open"
    OBVIOUS
  <2>4. c.state = "free" => c.ops = {} /\ c.owed = 0
    BY <2>1, <2>3 DEF ReactorInv, ConnOK, OpenOK
  <2>. QED
    BY <2>2, <2>4 DEF InflightExact
<1>. QED
  BY <1>1, Invariance, PTL

\* No handler touches tx while the kernel may read it: a send under way, or a send_zc whose
\* notification is still to come.
THEOREM BufferPinned == Spec => []TxPinned
<1>1. ReactorInv => TxPinned
  <2>1. SUFFICES ASSUME ReactorInv, "send" \in c.ops \/ c.owed > 0
                 PROVE  c.tx = c.kbuf
    BY DEF TxPinned
  <2>2. c.owed \in Nat
    BY <2>1 DEF ReactorInv, ConnOK, Base, Sound
  <2>3. "send" \in c.ops \/ c.owed # 0
    BY <2>1, <2>2, SMTT(30)
  <2>. QED
    BY <2>1, <2>3 DEF ReactorInv, ConnOK, Base, Pinned
<1>. QED
  BY <1>1, Invariance, PTL

\* Between READs the pipe is empty, whichever way the last one went and failed: the drain in
\* zc_fail, the short header of a chain and the close of a broken one leave nothing behind.
THEOREM PipeEmptyBetween == Spec => []PipeClean
<1>1. ReactorInv => PipeClean
  <2>1. SUFFICES ASSUME ReactorInv, c.state = "open", c.zc = None
                 PROVE  c.inpipe = <<>>
    BY DEF PipeClean
  <2>2. c.state # "free" /\ c.state # "closing" /\ c.zc \notin ZcType
    BY <2>1, NoneAssumption
  <2>3. ~Reading(c)
    BY <2>2 DEF Reading
  <2>4. Looping(c) \/ Resting(c) \/ Sends(c)
    BY <2>1, <2>2, <2>3 DEF ReactorInv, ConnOK, Working, ReadIn, ReadHdr, ReadOut, Chained
  <2>. QED
    BY <2>4 DEF Looping, Resting, Quiet, Sends
<1>. QED
  BY <1>1, Invariance, PTL

\* The dup a READ took of its file is open exactly while the Conn owns that READ: start_zc,
\* the handlers' error paths and Conn::drop each close it once.
THEOREM DupsExact == Spec => []DupsOwned
<1>1. ReactorInv => DupsOwned
  <2>1. SUFFICES ASSUME ReactorInv
                 PROVE  DupsOwned
    OBVIOUS
  <2>2. c.dups = Owned(c)
    BY <2>1 DEF ReactorInv, ConnOK, Base
  <2>3. c.state = "free" => c.state # "closing" /\ c.state # "open"
    OBVIOUS
  <2>4. c.state = "free" => c.dups = {}
    BY <2>1, <2>3 DEF ReactorInv, ConnOK, OpenOK
  <2>. QED
    BY <2>2, <2>4 DEF DupsOwned
<1>. QED
  BY <1>1, Invariance, PTL

\* An open connection that is not sending has a recv posted and nothing left in tx: every
\* path of drive and of the handlers back to Idle goes through maybe_arm_recv.
THEOREM AlwaysListening == Spec => []NeverDeaf
<1>1. ReactorInv => NeverDeaf
  <2>1. SUFFICES ASSUME ReactorInv, c.state = "open", ~c.driving, c.txm = "Idle"
                 PROVE  c.recv_inflight /\ c.tx = <<>>
    BY DEF NeverDeaf
  <2>2. c.state # "free" /\ c.state # "closing"
    BY <2>1
  <2>3. ~Working(c)
    BY <2>1 DEF Working, Sends, ReadIn, ReadHdr, ReadOut, Chained
  <2>4. Resting(c) /\ c.recv_inflight
    BY <2>1, <2>2, <2>3 DEF ReactorInv, ConnOK, Looping
  <2>. QED
    BY <2>4 DEF Resting
<1>. QED
  BY <1>1, Invariance, PTL
==============================================================================
