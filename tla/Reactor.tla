------------------------------- MODULE Reactor -------------------------------
(***************************************************************************)
(* One connection of a worker's io_uring reactor (uring.rs): the receive   *)
(* side, drive() and its batch of responses, sends by copy and by send_zc  *)
(* with their buffer-release notifications, zero-copy reads through the    *)
(* pipe (step by step and as one linked chain), CHANGE_NOTIFY and lease    *)
(* breaks on the deferred queue, and teardown that waits for the kernel.   *)
(*                                                                         *)
(* A worker is one thread: it takes one completion at a time and runs its  *)
(* handler to the end. Each completion is an action here, with the outcome *)
(* chosen by the kernel; drive's loop is one step per frame.               *)
(*                                                                         *)
(* Bytes are counted in units. A unit <<m, k>> is the k-th of message m;   *)
(* request i is answered by message i, a CHANGE_NOTIFY that was request i  *)
(* completes with message MaxFrames + i, and lease breaks come after those.*)
(***************************************************************************)
EXTENDS Integers, Sequences, FiniteSets, Functions

CONSTANTS
  Kinds,         \* what clients send, of AllKinds
  MaxFrames,     \* bound: frames a client sends
  MaxRecv,       \* bound: frames one recv completes
  MaxBreaks,     \* bound: lease breaks delivered
  MaxNotifs,     \* bound: send_zc notifications outstanding
  RxCap,         \* frames the receive buffer holds at its hard cap
  TX_FLUSH,      \* units of responses that end a batch
  ZC_SEND_MIN,   \* units from which a send uses send_zc
  HDR,           \* units of a READ response's header
  ZLEN,          \* units a zero-copy READ asks for
  PIPE_CAP,      \* units the pipe holds
  SendZcOk,      \* Worker.send_zc_ok
  Faults,        \* what goes wrong: of AllFaults
  None

AllKinds == {
  "small", "big",      \* answered at once, from the buffer
  "read", "readfull",  \* zero-copy READ; the second lies within the file
  "notify",            \* CHANGE_NOTIFY
  "cancel",            \* CANCEL of a CHANGE_NOTIFY: no response of its own
  "closedir",          \* CLOSE of a watched directory
  "smb1",              \* an SMB1-only NEGOTIATE: answered, then closed
  "violation",         \* a frame that ends in FrameAction::Close
  "unsync"}            \* not a session message, or one over the size limit

AllFaults == {
  "eintr", "enobufs", "drop", "io", "nopipe", "nowatch",
  "shorthdr"}          \* the linked chain's send takes only part of the header

ASSUME ReactorAssumption ==
  /\ Kinds \subseteq AllKinds /\ Faults \subseteq AllFaults /\ SendZcOk \in BOOLEAN
  /\ {MaxFrames, MaxRecv, MaxBreaks, MaxNotifs} \subseteq Nat
  /\ {RxCap, TX_FLUSH, ZC_SEND_MIN, HDR, ZLEN, PIPE_CAP} \subseteq Nat \ {0}

Requests == 1..MaxFrames
Final(i) == MaxFrames + i
BreakMsg(n) == 2 * MaxFrames + n
Messages == 1..(2 * MaxFrames + MaxBreaks)

\* A frame of the receive buffer, and a READ under way (Zc).
Frames == [no : Requests, kind : Kinds]
ZcType ==
  [no : Requests, want : 0..ZLEN, got : 0..ZLEN, out_left : 0..ZLEN, linked : BOOLEAN, chain : 0..3, err : BOOLEAN]

ASSUME NoneAssumption == None \notin Frames /\ None \notin ZcType

VARIABLES
  c,       \* the Conn in its slot, and the kernel's side of it
  arrived, \* frames the client has sent
  breaks,  \* lease breaks delivered
  sock     \* the units put on the socket

vars == <<c, arrived, breaks, sock>>

\* Conn, as on_accept makes it. `state` is open, closing or free (the slot);
\* `driving` says that drive's loop is running. The kernel's side: the operations
\* it has not completed (ops), send_zc notifications it owes (owed), the tx it was
\* last told to send from (kbuf), the units in the pipe, the READs whose dup of the
\* file is open, and whether the link of a chain is broken. `total` is the length each message's header announces.
Fresh ==
  [state |-> "open", driving |-> FALSE, rx |-> <<>>, recv_inflight |-> FALSE, tx |-> <<>>, tx_off |-> 0,
   txm |-> "Idle", pending_zc |-> None, pipe |-> FALSE, zc |-> None, deferred |-> <<>>,
   inotify |-> FALSE, inotify_cancelled |-> FALSE, watches |-> {}, inflight |-> 0, notif_pending |-> 0,
   send_is_zc |-> FALSE, copy_next |-> FALSE, close_after_send |-> FALSE,
   ops |-> {}, owed |-> 0, kbuf |-> <<>>, inpipe |-> <<>>, dups |-> {}, broken |-> FALSE,
   total |-> [m \in Messages |-> 1]]

Units(m, n) == [k \in 1..n |-> <<m, k>>]
MinOf(a, b) == IF a <= b THEN a ELSE b

------------------------------------------------------------------------------
(* Submitting and tearing down *)

\* sq_push_conn.
Submit(d, op) == [d EXCEPT !.ops = @ \cup {op}, !.inflight = @ + 1]

\* The completion of op is taken off the ring.
Retire(d, op) == [d EXCEPT !.ops = @ \ {op}, !.inflight = @ - 1]

\* The READs whose dup the Conn owns.
Owned(d) ==
  (IF d.pending_zc = None THEN {} ELSE {d.pending_zc.no}) \cup (IF d.zc = None THEN {} ELSE {d.zc.no})

\* Mutant: a READ still queued keeps its dup.
FinalizeClose_Queued(d) ==
  [Fresh EXCEPT !.state = "free", !.dups = d.dups \ Owned([d EXCEPT !.pending_zc = None]), !.total = d.total,
                !.inflight = d.inflight, !.ops = d.ops, !.owed = d.owed]

\* finalize_close and Conn::drop: the slot is free, the Conn gone, its fds closed.
FinalizeClose(d) ==
  [Fresh EXCEPT !.state = "free", !.dups = d.dups \ Owned(d), !.total = d.total,
                !.inflight = d.inflight, !.ops = d.ops, !.owed = d.owed]

\* Mutant: the parked inotify Read is left.
CloseConn_NoCancel(d) ==
  LET e == [d EXCEPT !.state = "closing", !.driving = FALSE]
  IN IF d.inflight = 0 THEN FinalizeClose(e) ELSE e

\* close_conn_ring: the parked inotify Read is cancelled, the socket shut down.
CloseConn(d) ==
  LET e == [d EXCEPT !.state = "closing", !.driving = FALSE, !.inotify_cancelled = d.inotify]
  IN IF d.inflight = 0 THEN FinalizeClose(e) ELSE e

\* maybe_arm_recv: frame_total's verdict on the first frame can end the
\* connection; a full buffer waits for frames to drain.
MaybeArmRecv(d) ==
  IF d.recv_inflight \/ d.state # "open" \/ d.close_after_send THEN d
  ELSE IF d.rx # <<>> /\ Head(d.rx).kind = "unsync" THEN CloseConn(d)
  ELSE IF Len(d.rx) >= RxCap THEN d
  ELSE Submit([d EXCEPT !.recv_inflight = TRUE], "recv")

------------------------------------------------------------------------------
(* Sending *)

\* submit_send: send_zc from ZC_SEND_MIN on, unless the header send of a READ
\* (MSG_MORE) or the retry by copy.
SubmitSend(d, more) ==
  Submit([d EXCEPT !.send_is_zc = SendZcOk /\ ~d.copy_next /\ ~more /\ Len(d.tx) - d.tx_off >= ZC_SEND_MIN,
                   !.copy_next = FALSE, !.kbuf = d.tx], "send")

StartSend(d) == SubmitSend([d EXCEPT !.txm = "Send"], FALSE)

\* An error response replaces a READ's data: build_read_err, and its dup closed.
SendReadErr(d, no) ==
  SubmitSend([d EXCEPT !.zc = None, !.dups = @ \ {no}, !.tx = Units(no, 1), !.tx_off = 0, !.txm = "Send"], FALSE)

\* drive begins: deferred responses go ahead of new work, up to a batch.
Drive(d) ==
  LET n == MinOf(Len(d.deferred), TX_FLUSH)
  IN [d EXCEPT !.driving = TRUE, !.txm = "Idle",
               !.tx = @ \o [i \in 1..n |-> <<d.deferred[i], 1>>],
               !.deferred = SubSeq(@, n + 1, Len(@))]

Zc(no, want, got, left, linked) ==
  [no |-> no, want |-> want, got |-> got, out_left |-> left, linked |-> linked, chain |-> IF linked THEN 3 ELSE 0,
   err |-> FALSE]

\* start_zc with a pipe: the linked chain for a READ within the file that fits
\* the pipe, splice by splice otherwise.
StartZcPiped(d, f) ==
  LET want == MinOf(ZLEN, PIPE_CAP)
  IN IF f.kind = "readfull" /\ ZLEN <= PIPE_CAP
     THEN [d EXCEPT !.pipe = TRUE, !.tx = Units(f.no, HDR), !.total[f.no] = HDR + ZLEN,
                    !.tx_off = 0, !.txm = "ZcOut", !.zc = Zc(f.no, want, want, ZLEN, TRUE), !.broken = FALSE,
                    !.kbuf = Units(f.no, HDR), !.ops = @ \cup {"in", "send", "out"}, !.inflight = @ + 3]
     ELSE Submit([d EXCEPT !.pipe = TRUE, !.txm = "ZcIn", !.zc = Zc(f.no, want, 0, 0, FALSE)], "in")

\* start_zc: pipe2 can fail the first time.
StartZc(d, f) ==
  {StartZcPiped(d, f)} \cup (IF d.pipe \/ "nopipe" \notin Faults THEN {} ELSE {SendReadErr(d, f.no)})

\* finish_send: tx is free again. The outcomes differ in whether a READ that was
\* queued behind this send gets its pipe.
FinishSend(d) ==
  LET e == [d EXCEPT !.tx = <<>>, !.tx_off = 0, !.pending_zc = None]
  IN IF d.close_after_send THEN {CloseConn(d)}
     ELSE IF d.pending_zc = None THEN {Drive(e)}
     ELSE StartZc(e, d.pending_zc)

------------------------------------------------------------------------------
(* drive's loop *)

\* A buffered response joins the batch.
Buffered(d, m, n) == [d EXCEPT !.tx = @ \o Units(m, n), !.total[m] = n]

\* service_notify, a completed CHANGE_NOTIFY: its watch goes, its final response
\* is deferred.
NotifyDone(d, i) == [d EXCEPT !.watches = @ \ {i}, !.deferred = Append(@, Final(i))]

\* arm_inotify.
ArmInotify(d) == Submit(d, "inotify")

\* service_notify, a new one: the inotify instance is made and its Read armed the
\* first time; a failure completes the CHANGE_NOTIFY at once.
NotifyNew(d, i) ==
  LET made == IF d.inotify THEN d ELSE ArmInotify([d EXCEPT !.inotify = TRUE])
  IN {[made EXCEPT !.watches = @ \cup {i}]}
       \cup (IF "nowatch" \in Faults THEN {NotifyDone(d, i), NotifyDone(made, i)} ELSE {})

\* What processing frame f makes of the connection, for the frames after which
\* the loop goes on. A CANCEL or a CLOSE names one CHANGE_NOTIFY, if it is still
\* pending.
Respond(d, f) ==
  CASE f.kind = "small"    -> {Buffered(d, f.no, 1)}
    [] f.kind = "big"      -> {Buffered(d, f.no, ZC_SEND_MIN)}
    [] f.kind = "notify"   -> NotifyNew(Buffered(d, f.no, 1), f.no)
    [] f.kind = "cancel"   -> LET e == [d EXCEPT !.total[f.no] = 0] IN {e} \cup {NotifyDone(e, i) : i \in d.watches}
    [] f.kind = "closedir" -> LET e == Buffered(d, f.no, 1) IN {e} \cup {NotifyDone(e, i) : i \in d.watches}

\* Mutant: the READ starts although responses wait in tx.
ReadFrame_NoFlush(d, f) == {MaybeArmRecv(x) : x \in StartZc([d EXCEPT !.dups = @ \cup {f.no}, !.driving = FALSE], f)}

\* A zero-copy READ leaves the loop: at once, or behind the batch.
ReadFrame(d, f) ==
  LET e == [d EXCEPT !.dups = @ \cup {f.no}, !.driving = FALSE]
  IN {MaybeArmRecv(x) : x \in IF d.tx = <<>> THEN StartZc(e, f)
                              ELSE {StartSend([e EXCEPT !.pending_zc = f])}}

\* Mutant: with nothing to send, no recv is posted.
DriveEnd_ArmIfSent ==
  /\ c.driving
  /\ Len(c.tx) - c.tx_off >= TX_FLUSH \/ c.rx = <<>>
  /\ LET d == [c EXCEPT !.driving = FALSE]
     IN c' = IF d.tx # <<>> THEN MaybeArmRecv(StartSend(d)) ELSE d
  /\ UNCHANGED <<arrived, breaks, sock>>

\* The batch is full or no frame is left: it goes out, and a recv stays posted.
DriveEnd ==
  /\ c.driving
  /\ Len(c.tx) - c.tx_off >= TX_FLUSH \/ c.rx = <<>>
  /\ LET d == [c EXCEPT !.driving = FALSE]
     IN c' = MaybeArmRecv(IF d.tx # <<>> THEN StartSend(d) ELSE d)
  /\ UNCHANGED <<arrived, breaks, sock>>

\* One frame.
DriveFrame ==
  /\ c.driving
  /\ Len(c.tx) - c.tx_off < TX_FLUSH /\ c.rx # <<>>
  /\ LET f == Head(c.rx)
         d == [c EXCEPT !.rx = Tail(@)]
     IN CASE f.kind = "unsync"               -> c' = CloseConn(c)
          [] f.kind = "violation"            -> c' = CloseConn(d)
          [] f.kind = "smb1"                 -> c' = StartSend([Buffered(d, f.no, 1) EXCEPT !.close_after_send = TRUE,
                                                                                        !.driving = FALSE])
          [] f.kind \in {"read", "readfull"} -> c' \in ReadFrame(d, f)
          [] OTHER                           -> c' \in Respond(d, f)
  /\ UNCHANGED <<arrived, breaks, sock>>

------------------------------------------------------------------------------
(* Completions. handle_cqe runs the handler of an open connection. *)

Completes(op) == c.state = "open" /\ ~c.driving /\ op \in c.ops

\* Mutant: a deferred response waits for the next completion.
IfIdleDrive_Never(d) == d

IfIdleDrive(d) == IF d.txm = "Idle" THEN Drive(d) ELSE d

\* on_recv: some bytes, perhaps completing frames.
OnRecv(kinds) ==
  LET new == [i \in 1..Len(kinds) |-> [no |-> arrived + i, kind |-> kinds[i]]]
      d   == [Retire(c, "recv") EXCEPT !.recv_inflight = FALSE, !.rx = @ \o new]
  IN /\ Completes("recv")
     /\ arrived + Len(kinds) <= MaxFrames /\ Len(c.rx) + Len(kinds) <= RxCap
     /\ arrived' = arrived + Len(kinds)
     /\ c' = IF d.txm = "Idle" THEN Drive(d) ELSE MaybeArmRecv(d)
     /\ UNCHANGED <<breaks, sock>>

\* on_recv, no bytes: interrupted, or the peer is gone.
OnRecvFails ==
  LET d == [Retire(c, "recv") EXCEPT !.recv_inflight = FALSE]
  IN /\ Completes("recv")
     /\ \/ "eintr" \in Faults /\ c' = MaybeArmRecv(d)
        \/ "drop" \in Faults /\ c' = CloseConn(d)
     /\ UNCHANGED <<arrived, breaks, sock>>

\* Mutant: the notification is not counted.
Noted_NotCounted(d) == [d EXCEPT !.notif_pending = @ + 1, !.owed = @ + 1]

\* handle_cqe: a send_zc completion with F_MORE announces a notification.
Noted(d) == [d EXCEPT !.inflight = @ + 1, !.notif_pending = @ + 1, !.owed = @ + 1]
Noteds(d) == IF d.send_is_zc /\ d.owed < MaxNotifs THEN {d, Noted(d)} ELSE {d}

\* Mutant: notifications are not waited for.
AllSent_NoDrain(d) == FinishSend(d)

\* on_send, everything sent: tx is kept until the last notification.
AllSent(d) == IF d.notif_pending > 0 THEN {[d EXCEPT !.txm = "Drain"]} ELSE FinishSend(d)

\* on_send of n units, not part of a chain.
OnSend(n) ==
  /\ Completes("send") /\ ~(c.zc # None /\ c.zc.linked)
  /\ n \in 1..(Len(c.tx) - c.tx_off)
  /\ sock' = sock \o SubSeq(c.tx, c.tx_off + 1, c.tx_off + n)
  /\ \E e \in Noteds(Retire(c, "send")) :
       LET d    == [e EXCEPT !.tx_off = @ + n]
           done == d.tx_off >= Len(d.tx)
       IN CASE d.txm = "ZcHdr" /\ done  -> c' = Submit([d EXCEPT !.txm = "ZcOut"], "out")
            [] ~done                    -> c' = SubmitSend(d, d.txm = "ZcHdr")
            [] OTHER                    -> c' \in AllSent(d)
  /\ UNCHANGED <<arrived, breaks>>

\* on_send, nothing sent: interrupted, no memory to pin (retried by copy), or the
\* socket is gone.
OnSendFails ==
  /\ Completes("send") /\ ~(c.zc # None /\ c.zc.linked)
  /\ \E d \in Noteds(Retire(c, "send")) :
       \/ "eintr" \in Faults /\ c' = SubmitSend(d, d.txm = "ZcHdr")
       \/ "enobufs" \in Faults /\ d.send_is_zc /\ c' = SubmitSend([d EXCEPT !.copy_next = TRUE], FALSE)
       \/ "drop" \in Faults /\ c' = CloseConn(d)
  /\ UNCHANGED <<arrived, breaks, sock>>

\* Mutant: the last notification does not finish the send.
OnSendNotif_NoFinish ==
  /\ c.state = "open" /\ ~c.driving /\ c.owed > 0
  /\ c' = [c EXCEPT !.owed = @ - 1, !.inflight = @ - 1, !.notif_pending = @ - 1]
  /\ UNCHANGED <<arrived, breaks, sock>>

\* on_send_notif.
OnSendNotif ==
  /\ c.state = "open" /\ ~c.driving /\ c.owed > 0
  /\ LET d == [c EXCEPT !.owed = @ - 1, !.inflight = @ - 1, !.notif_pending = @ - 1]
     IN c' \in IF d.notif_pending = 0 /\ d.txm = "Drain" THEN FinishSend(d) ELSE {d}
  /\ UNCHANGED <<arrived, breaks, sock>>
------------------------------------------------------------------------------
(* Zero-copy reads *)

\* n units of the file go into the pipe.
Spliced(d, n, from) ==
  [d EXCEPT !.inpipe = @ \o [k \in 1..n |-> <<d.zc.no, HDR + from + k>>]]

\* The READ is over: its dup is closed, tx is free, drive runs.
ReadDone(d) == Drive([d EXCEPT !.zc = None, !.dups = @ \ {d.zc.no}, !.tx = <<>>, !.tx_off = 0])

\* Mutant: what was spliced stays in the pipe.
ZcFail_NoDrain(d) == SendReadErr(d, d.zc.no)

\* zc_fail: the pipe is drained and an error sent instead.
ZcFail(d) == SendReadErr([d EXCEPT !.inpipe = SubSeq(@, d.zc.got + 1, Len(@))], d.zc.no)

\* Mutant: the header announces what was asked for, not what came.
SendHeader_Want(d) ==
  SubmitSend([d EXCEPT !.zc.out_left = d.zc.got, !.tx = Units(d.zc.no, HDR), !.tx_off = 0,
                       !.total[d.zc.no] = HDR + d.zc.want, !.txm = "ZcHdr"], TRUE)

\* on_splice_in, the data is in the pipe: its header goes first.
SendHeader(d) ==
  SubmitSend([d EXCEPT !.zc.out_left = d.zc.got, !.tx = Units(d.zc.no, HDR), !.tx_off = 0,
                       !.total[d.zc.no] = HDR + d.zc.got, !.txm = "ZcHdr"], TRUE)

\* on_splice_in of n units, none at the end of the file: more are asked for, or the
\* header is sent, or too few came (min_count is the client's choice).
OnSpliceIn(n) ==
  LET e == Retire(c, "in")
      d == [Spliced(e, n, e.zc.got) EXCEPT !.zc.got = @ + n]
      got == d.zc.got
  IN /\ Completes("in") /\ ~c.zc.linked
     /\ n \in 0..(c.zc.want - c.zc.got)
     /\ IF n > 0 /\ got < d.zc.want THEN c' = Submit(d, "in")
        ELSE \/ c' = ZcFail(d)
             \/ got > 0 /\ c' = SendHeader(d)
     /\ UNCHANGED <<arrived, breaks, sock>>

OnSpliceInFails ==
  /\ Completes("in") /\ ~c.zc.linked
  /\ \/ "eintr" \in Faults /\ c' = Submit(Retire(c, "in"), "in")
     \/ "io" \in Faults /\ c' = ZcFail(Retire(c, "in"))
  /\ UNCHANGED <<arrived, breaks, sock>>

\* on_splice_out of n units.
OnSpliceOut(n) ==
  LET d == [Retire(c, "out") EXCEPT !.inpipe = SubSeq(@, n + 1, Len(@)), !.zc.out_left = @ - n]
  IN /\ Completes("out") /\ ~c.zc.linked
     /\ n \in 1..MinOf(c.zc.out_left, Len(c.inpipe))
     /\ sock' = sock \o SubSeq(c.inpipe, 1, n)
     /\ c' = IF d.zc.out_left > 0 THEN Submit(d, "out") ELSE ReadDone(d)
     /\ UNCHANGED <<arrived, breaks>>

OnSpliceOutFails ==
  /\ Completes("out") /\ ~c.zc.linked
  /\ \/ "eintr" \in Faults /\ c' = Submit(Retire(c, "out"), "out")
     \/ "drop" \in Faults /\ c' = CloseConn(Retire(c, "out"))
  /\ UNCHANGED <<arrived, breaks, sock>>

\* on_linked_cqe, and what the kernel does to the chain: the operations run in
\* order, and one that fails or falls short cancels the rest. A send has not
\* fallen short, for the kernel, when it took only part of its buffer.
LinkedCqe(d, failed) ==
  LET e == [d EXCEPT !.zc.chain = @ - 1, !.zc.err = @ \/ failed]
  IN IF e.zc.chain > 0 THEN e
     ELSE IF e.zc.err THEN CloseConn(e)
     ELSE IF e.zc.out_left > 0 THEN Submit([e EXCEPT !.zc.linked = FALSE], "out")
     ELSE ReadDone(e)

Linked(op) == Completes(op) /\ c.zc # None /\ c.zc.linked

LinkedIn(n) ==
  /\ Linked("in")
  /\ n = c.zc.want \/ (n \in 0..(c.zc.want - 1) /\ "io" \in Faults)
  /\ c' = LinkedCqe([Spliced(Retire(c, "in"), n, 0) EXCEPT !.broken = n < c.zc.want], FALSE)
  /\ UNCHANGED <<arrived, breaks, sock>>

LinkedSend(n) ==
  /\ Linked("send") /\ "in" \notin c.ops /\ ~c.broken
  /\ n = HDR \/ (n \in 1..(HDR - 1) /\ "shorthdr" \in Faults)
  /\ sock' = sock \o SubSeq(c.tx, 1, n)
  /\ c' = LinkedCqe(Retire(c, "send"), FALSE)
  /\ UNCHANGED <<arrived, breaks>>

LinkedOut(n) ==
  /\ Linked("out") /\ "send" \notin c.ops /\ ~c.broken
  /\ n \in 1..Len(c.inpipe)
  /\ sock' = sock \o SubSeq(c.inpipe, 1, n)
  /\ c' = LinkedCqe([Retire(c, "out") EXCEPT !.inpipe = SubSeq(@, n + 1, Len(@)), !.zc.out_left = @ - n], FALSE)
  /\ UNCHANGED <<arrived, breaks>>

\* The next operation of the chain fails, or was cancelled.
LinkedFails ==
  \E op \in {"in", "send", "out"} :
    /\ Linked(op)
    /\ op = "send" => "in" \notin c.ops
    /\ op = "out" => "send" \notin c.ops
    /\ c.broken \/ ("io" \in Faults /\ op = "in") \/ ("drop" \in Faults /\ op # "in")
    /\ c' = LinkedCqe([Retire(c, op) EXCEPT !.broken = TRUE], TRUE)
    /\ UNCHANGED <<arrived, breaks, sock>>

------------------------------------------------------------------------------
(* Asynchronous responses *)

\* on_inotify: events complete the CHANGE_NOTIFYs in fired, in the order in which a
\* HashMap yields their watch descriptors.
OnInotify(fired) ==
  LET d == ArmInotify([Retire(c, "inotify") EXCEPT !.watches = @ \ Range(fired),
                          !.deferred = @ \o [i \in 1..Len(fired) |-> Final(fired[i])]])
  IN /\ Completes("inotify")
     /\ c' = IF d.deferred # <<>> THEN IfIdleDrive(d) ELSE d
     /\ UNCHANGED <<arrived, breaks, sock>>

\* on_inotify: interrupted, or the instance died.
OnInotifyFails ==
  /\ Completes("inotify")
  /\ \/ "eintr" \in Faults /\ c' = ArmInotify(Retire(c, "inotify"))
     \/ "io" \in Faults /\ c' = [Retire(c, "inotify") EXCEPT !.inotify = FALSE]
  /\ UNCHANGED <<arrived, breaks, sock>>

\* deliver_break.
DeliverBreak ==
  /\ c.state = "open" /\ ~c.driving
  /\ breaks < MaxBreaks
  /\ breaks' = breaks + 1
  /\ c' = IfIdleDrive([c EXCEPT !.deferred = Append(@, BreakMsg(breaks'))])
  /\ UNCHANGED <<arrived, sock>>

------------------------------------------------------------------------------
(* Draining: a closing connection only counts its completions. *)

Drained(d) == IF d.inflight = 0 THEN FinalizeClose(d) ELSE d

ClosingCqe(op) ==
  /\ c.state = "closing" /\ op \in c.ops
  /\ op = "inotify" => c.inotify_cancelled
  /\ \E d \in (IF op = "send" THEN Noteds(Retire(c, op)) ELSE {Retire(c, op)}) : c' = Drained(d)
  /\ UNCHANGED <<arrived, breaks, sock>>

ClosingNotif ==
  /\ c.state = "closing" /\ c.owed > 0
  /\ c' = Drained([c EXCEPT !.owed = @ - 1, !.inflight = @ - 1])
  /\ UNCHANGED <<arrived, breaks, sock>>

------------------------------------------------------------------------------

\* on_accept: the connection is made and a recv posted.
Init ==
  /\ c = MaybeArmRecv(Fresh)
  /\ arrived = 0
  /\ breaks = 0
  /\ sock = <<>>

Ops == {"recv", "send", "in", "out", "inotify"}

Next ==
  \/ DriveEnd \/ DriveFrame
  \/ \E n \in 0..MaxRecv : \E kinds \in [1..n -> Kinds] : OnRecv(kinds)
  \/ OnRecvFails
  \/ (\E n \in 1..(TX_FLUSH + ZC_SEND_MIN + HDR) : OnSend(n)) \/ OnSendFails \/ OnSendNotif
  \/ (\E n \in 0..ZLEN : OnSpliceIn(n)) \/ OnSpliceInFails
  \/ (\E n \in 1..ZLEN : OnSpliceOut(n)) \/ OnSpliceOutFails
  \/ (\E n \in 0..ZLEN : LinkedIn(n)) \/ (\E n \in 1..HDR : LinkedSend(n)) \/ (\E n \in 1..ZLEN : LinkedOut(n))
  \/ LinkedFails
  \/ (\E S \in SUBSET c.watches : \E fired \in Bijection(1..Cardinality(S), S) : OnInotify(fired)) \/ OnInotifyFails
  \/ DeliverBreak
  \/ (\E op \in Ops : ClosingCqe(op)) \/ ClosingNotif

Spec == Init /\ [][Next]_vars

\* The thread runs. The kernel finishes what it was asked to: a send or a splice
\* moves units or fails, and is not interrupted for ever; a notification comes; a
\* shut-down socket or a cancelled Read completes. Nothing obliges the peer to
\* send, or a watched directory to change.
Fairness ==
  /\ WF_vars(DriveEnd \/ DriveFrame)
  /\ SF_vars(\E n \in 1..(TX_FLUSH + ZC_SEND_MIN + HDR) : OnSend(n))
  /\ SF_vars(\E n \in 0..ZLEN : OnSpliceIn(n)) /\ SF_vars(\E n \in 1..ZLEN : OnSpliceOut(n))
  /\ WF_vars(LinkedFails \/ \E n \in 1..(HDR + ZLEN) : LinkedIn(n) \/ LinkedSend(n) \/ LinkedOut(n))
  /\ WF_vars(OnSendNotif) /\ WF_vars(ClosingNotif)
  /\ \A op \in Ops : WF_vars(ClosingCqe(op))

FairSpec == Spec /\ Fairness

------------------------------------------------------------------------------
(* Properties *)

\* The types of Conn's fields, and the offsets and counters within their buffers.
TypeOK ==
  /\ c.state \in {"open", "closing", "free"} /\ c.txm \in {"Idle", "Send", "Drain", "ZcIn", "ZcHdr", "ZcOut"}
  /\ {c.driving, c.recv_inflight, c.pipe, c.inotify, c.inotify_cancelled, c.send_is_zc, c.copy_next,
      c.close_after_send, c.broken} \subseteq BOOLEAN
  /\ Range(c.rx) \subseteq Frames /\ Len(c.rx) <= RxCap /\ c.pending_zc \in Frames \cup {None}
  /\ c.zc \in ZcType \cup {None} /\ Len(c.inpipe) <= PIPE_CAP
  /\ c.tx_off \in 0..Len(c.tx) /\ {c.tx[i][1] : i \in 1..Len(c.tx)} \cup Range(c.deferred) \subseteq Messages
  /\ c.watches \cup c.dups \subseteq Requests /\ c.ops \subseteq Ops
  /\ {c.inflight, c.notif_pending, c.owed} \subseteq 0..(5 + MaxNotifs)
  /\ arrived \in 0..MaxFrames /\ breaks \in 0..MaxBreaks

\* `inflight` counts exactly the completions the kernel still owes, so a Conn is
\* dropped, and its buffers freed, only when no operation refers to them: what
\* the SAFETY comments of sq_push and Conn::drop rest on.
InflightExact ==
  /\ c.inflight = Cardinality(c.ops) + c.owed
  /\ c.state = "free" => c.ops = {} /\ c.owed = 0

\* While the kernel may read tx (a send, or a send_zc whose notification is due),
\* tx is what it was when the send was submitted: neither extended, replaced,
\* cleared nor freed.
TxPinned ==
  "send" \in c.ops \/ c.owed > 0 => c.tx = c.kbuf

\* What the client reads is a sequence of whole messages: every message on the
\* socket is contiguous and has the length its header announces, whatever was
\* batched, deferred, sent in parts or spliced.
StreamWellFormed ==
  \A j \in 1..Len(sock) :
    LET m == sock[j][1]
        k == sock[j][2]
    IN /\ j = 1 => k = 1
       /\ j < Len(sock) => sock[j + 1] = <<m, k + 1>> \/ (k = c.total[m] /\ sock[j + 1][2] = 1)
       /\ k <= c.total[m]

\* Every request that has a response is answered, once, before any later request
\* is; a CHANGE_NOTIFY's final response comes once and after its interim one.
InOrder ==
  LET firsts == SelectSeq(sock, LAMBDA u : u[2] = 1)
      said   == [i \in 1..Len(firsts) |-> firsts[i][1]]
      Before(j) == {said[i] : i \in 1..(j - 1)}
  IN \A j \in 1..Len(said) :
       /\ said[j] \notin Before(j)
       /\ said[j] \in Requests => {r \in 1..(said[j] - 1) : c.total[r] > 0} \subseteq Before(j)
       /\ \A r \in Requests : said[j] = Final(r) => r \in Before(j)

\* Between READs the pipe is empty: no bytes of a failed or finished READ are left
\* to come out in the next one.
PipeClean == c.state = "open" /\ c.zc = None => c.inpipe = <<>>

\* A dup of a file descriptor is open exactly while a READ that is queued or
\* running owns it: none is closed under a splice, none leaks.
DupsOwned == c.dups = IF c.state = "free" THEN {} ELSE Owned(c)

\* An open connection that is sending nothing is listening.
NeverDeaf ==
  c.state = "open" /\ ~c.driving /\ c.txm = "Idle" => c.recv_inflight /\ c.tx = <<>>

\* Teardown ends: once closing, the slot is freed.
ClosingEnds == (c.state = "closing") ~> (c.state = "free")

\* Every frame received is processed, or the connection ends.
FramesProcessed == (c.rx # <<>>) ~> (c.rx = <<>> \/ c.state # "open")

\* Every deferred response is sent, or the connection ends: cancel()'s "a matching
\* pended operation completes with STATUS_CANCELLED via the notify queues".
DeferredSent == (c.deferred # <<>>) ~> (c.deferred = <<>> \/ c.state # "open")
=============================================================================
