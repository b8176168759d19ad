------------------------------- MODULE Leases --------------------------------
(***************************************************************************)
(* Read and handle leases across workers: the shared LeaseTable, the       *)
(* handlers that grant, release and break leases, the per-worker Mailbox   *)
(* with its eventfd, the delivery of a break to the connection that holds  *)
(* the lease, connection teardown, and what the client believes it may     *)
(* cache meanwhile.                                                        *)
(*                                                                         *)
(* Worker threads run concurrently. A step is what one thread does between *)
(* two points where another could see it: a system call on a file, one     *)
(* LeaseTable operation (its mutex), one Mailbox queue operation, one      *)
(* eventfd write. What a worker does to its own connections needs no lock. *)
(* The session mutex is held for the whole of a handler.                   *)
(***************************************************************************)
EXTENDS Integers, Sequences, FiniteSets

CONSTANTS
  Workers, Slots,     \* worker threads, connection slots of each
  Clients,            \* clients; the model gives each one lease key per file
  Files,              \* inodes of a share
  Conns,              \* connections made in a behaviour (a bound)
  None,               \* no connection in a slot, no lease key on a handle
  Workloads,          \* bound: what the clients of a behaviour do. The files they open, the
                      \* operations they use besides plain CREATE and CLOSE, the lease states
                      \* they ask for, and whether connections go down
  MaxOpens,           \* bound: opens a session has of one file
  MaxChannels,        \* connections a client has up at a time
  Reconnects,         \* a client whose connection went down connects again, and uses
                      \* the lease keys it used before
  MaxChanges,         \* bound: changes made to files
  MaxWire,            \* bound: frames in flight to one client
  GEN_MAX,            \* the largest slot generation (u16::MAX)
  MetaCached          \* the client also caches what a CREATE response says

ASSUME LeasesAssumption ==
  /\ None \notin Conns \cup Clients
  /\ MaxOpens \in Nat /\ MaxChannels \in Nat
  /\ MaxChanges \in Nat /\ MaxWire \in Nat
  /\ GEN_MAX \in Nat \ {0}
  /\ \A l \in Workloads :
       /\ l.files \subseteq Files
       /\ l.ops \subseteq {"read", "write", "overwrite", "rename", "dispose", "delete_on_close"}
       /\ l.reqs \subseteq {"none", "R", "RH"}
       /\ l.drops \in BOOLEAN
  /\ MetaCached \in BOOLEAN /\ Reconnects \in BOOLEAN

Locs == Workers \X Slots

VARIABLES
  load,     \* the workload of this behaviour
  slot,     \* Worker.conns: the connection in each slot, or None
  gen,      \* Worker.gens
  conn,     \* per connection: client, session, place, generation, state, tx side
  handles,  \* the HandleTable of each session, named by its first connection
  grants,   \* LeaseTable
  mbox,     \* Mailbox.queue of each worker
  efd,      \* its eventfd is readable
  armed,    \* a ring Read on the eventfd is posted
  cqe,      \* that Read has completed and on_wake is due
  wk,       \* what each worker's thread is in the middle of
  ver,      \* per file and client: changes made under other lease keys
  deleted,  \* files unlinked
  link,     \* the client's end of each connection: up, frames in flight
  belief,   \* the lease each client believes it holds
  cache     \* per client and file: the ver it last read under a lease

servervars == <<slot, gen, conn, handles, grants, mbox, efd, armed, cqe, wk>>
filevars == <<ver, deleted>>
clientvars == <<link, belief, cache>>
vars == <<servervars, filevars, clientvars>>
allvars == <<load, vars>>

NoCache == -1

\* A worker's thread: where it is (pc), the connection and session it serves, the
\* files whose leases it will break, except under which key, the messages still
\* to post and the worker to signal, what comes after the breaks (next), the
\* handle and the response of the request, the handles a teardown has left to
\* close, and the messages on_wake has drained.
Idle == [pc |-> "idle", id |-> None, sess |-> None, todo |-> <<>>, except |-> None,
         msgs |-> {}, signal |-> None, next |-> None, h |-> None, resp |-> None,
         rest |-> {}, inbox |-> <<>>]

------------------------------------------------------------------------------
(* LeaseTable *)

\* Mutant: a grant evicts the other keys' leases on the file.
WithGrant_Evicts(g) == {e \in grants : e.f # g.f} \cup {g}

\* grant: one lease per (file, key), a re-open with the key replaces it.
WithGrant(g) == {e \in grants : ~(e.f = g.f /\ e.key = g.key)} \cup {g}

\* Mutant: the test against the writer's own key is inverted.
Conflicts_OwnKey(f, except) == {g \in grants : g.f = f /\ g.key = except}

\* break_conflicts: every lease on f under another key.
Conflicts(f, except) == {g \in grants : g.f = f /\ g.key # except}

\* release: the lease on f under this key.
WithoutKey(f, key) == {g \in grants : ~(g.f = f /\ g.key = key)}

\* Mutant: the generation has already been advanced when the leases are dropped.
WithoutConn_NextGen(loc, n) == {g \in grants : ~(g.loc = loc /\ g.gen = n + 1)}

\* release_conn: every lease whose holder is the connection at this place.
WithoutConn(loc, n) == {g \in grants : ~(g.loc = loc /\ g.gen = n)}

------------------------------------------------------------------------------
(* The connection's tx side, as far as the order of frames goes. *)

\* Frames put on the wire; a client that has gone does not see them.
Sent(l, frames) == IF l.up THEN [l EXCEPT !.wire = @ \o frames] ELSE l

\* A response goes out. Plain acknowledgements carry nothing to tell apart and
\* are left out of the wire.
Reply(id, frame) ==
  /\ link' = [link EXCEPT ![id] = Sent(@, IF frame.kind = "ack" THEN <<>> ELSE <<frame>>)]
  /\ conn' = [conn EXCEPT ![id].sending = TRUE]

\* Mutant: the deferred queue is not drained.
Flushed_NotDrained(c) == [c EXCEPT !.sending = FALSE]

\* drive: what was deferred goes out ahead of anything else.
Flushed(c) == [c EXCEPT !.deferred = <<>>, !.sending = c.deferred # <<>>]

\* A send has completed (finish_send): the tx side is idle and drive runs.
SendDone(id) ==
  /\ conn[id].state = "open" /\ conn[id].sending
  /\ wk[conn[id].loc[1]].pc = "idle"
  /\ conn' = [conn EXCEPT ![id] = Flushed(@)]
  /\ link' = [link EXCEPT ![id] = Sent(@, conn[id].deferred)]
  /\ UNCHANGED <<slot, gen, handles, grants, mbox, efd, armed, cqe, wk, filevars, belief, cache>>

------------------------------------------------------------------------------
(* Handlers *)

\* A handler is running on session s, on some worker, under the session mutex.
SessionBusy(s) == \E v \in Workers : wk[v].pc # "idle" /\ wk[v].sess = s

\* A request on connection id reaches its handler: the thread and the session
\* mutex are free and the tx side is idle.
Ready(w, id) ==
  /\ conn[id].state = "open" /\ conn[id].loc[1] = w
  /\ ~conn[id].sending
  /\ Len(link[id].wire) < MaxWire
  /\ wk[w].pc = "idle"
  /\ ~SessionBusy(conn[id].sess)

\* A change to f under a key: every other client's copy falls behind.
Newer(f, key) == [c \in Clients |-> IF c = key THEN ver[f][c] ELSE ver[f][c] + 1]
Changes(f, key) == ver' = [ver EXCEPT ![f] = Newer(f, key)]
MayChange == \A f \in Files, c \in Clients : ver[f][c] < MaxChanges

\* break_leases for the files in todo is next; then comes the step `next`.
Breaking(id, todo, except, next, h, resp) ==
  [Idle EXCEPT !.pc = "break", !.id = id, !.sess = conn[id].sess, !.todo = todo,
               !.except = except, !.next = next, !.h = h, !.resp = resp]

AfterBreak(r) == IF r.todo = <<>> THEN r.next ELSE "break"

\* CREATE up to and including fstat: open_raw, with O_TRUNC for the overwriting
\* dispositions, which then break the other holders.
CreateOpen(w, id, f, want, overwrite, doc) ==
  LET c   == conn[id].client
      s   == conn[id].sess
      key == IF want = "none" THEN None ELSE c
      Free == {n \in 1..MaxOpens : \A h \in handles[s] : h.f = f => h.no # n}
      no  == CHOOSE n \in Free : TRUE
      new == [f |-> f, no |-> no, key |-> key, granted |-> want, doc |-> doc]
      r   == Breaking(id, IF overwrite THEN <<f>> ELSE <<>>, key, "grant", new,
                      [kind |-> "create", f |-> f, no |-> no, granted |-> want, ver |-> ver'[f][c]])
  IN /\ Ready(w, id)
     /\ ~deleted[f]
     /\ Free # {}
     /\ IF overwrite THEN MayChange /\ Changes(f, key) ELSE UNCHANGED ver
     /\ wk' = [wk EXCEPT ![w] = [r EXCEPT !.pc = AfterBreak(r)]]
     /\ UNCHANGED <<slot, gen, conn, handles, grants, mbox, efd, armed, cqe, deleted, clientvars>>

\* The rest of CREATE: the handle is inserted, the lease granted to this
\* connection, the response written.
Grant(w) ==
  LET r == wk[w]
      l == conn[r.id]
  IN /\ r.pc = "grant"
     /\ handles' = [handles EXCEPT ![r.sess] = @ \cup {r.h}]
     /\ grants' = IF r.h.granted = "none" THEN grants
                  ELSE WithGrant([f |-> r.h.f, key |-> r.h.key, state |-> r.h.granted,
                                  loc |-> l.loc, gen |-> l.gen, id |-> r.id])
     /\ Reply(r.id, r.resp)
     /\ wk' = [wk EXCEPT ![w] = Idle]
     /\ UNCHANGED <<slot, gen, mbox, efd, armed, cqe, filevars, belief, cache>>

\* READ.
Read(w, id, h) ==
  /\ Ready(w, id)
  /\ h \in handles[conn[id].sess]
  /\ Reply(id, [kind |-> "read", f |-> h.f, ver |-> ver[h.f][conn[id].client]])
  /\ UNCHANGED <<slot, gen, handles, grants, mbox, efd, armed, cqe, wk, filevars, belief, cache>>

\* WRITE: the data first, then the break.
Write(w, id, h) ==
  /\ Ready(w, id)
  /\ h \in handles[conn[id].sess]
  /\ MayChange
  /\ Changes(h.f, h.key)
  /\ wk' = [wk EXCEPT ![w] = Breaking(id, <<h.f>>, h.key, "reply", h, [kind |-> "wrote", f |-> h.f])]
  /\ UNCHANGED <<slot, gen, conn, handles, grants, mbox, efd, armed, cqe, deleted, clientvars>>

\* SET_INFO rename, replacing file g when g # f: the renamed file's holders and
\* the replaced file's are broken, after the rename. (FileEndOfFileInformation
\* takes the steps of Write.)
Rename(w, id, h, g) ==
  /\ Ready(w, id)
  /\ h \in handles[conn[id].sess]
  /\ MayChange /\ ~deleted[h.f] /\ ~deleted[g]
  /\ ver' = [x \in Files |-> IF x \in {h.f, g} THEN Newer(x, h.key) ELSE ver[x]]
  /\ deleted' = IF g = h.f THEN deleted ELSE [deleted EXCEPT ![g] = TRUE]
  /\ wk' = [wk EXCEPT ![w] = Breaking(id, IF g = h.f THEN <<h.f>> ELSE <<h.f, g>>, h.key, "reply", h,
                                      [kind |-> "ack", f |-> h.f])]
  /\ UNCHANGED <<slot, gen, conn, handles, grants, mbox, efd, armed, cqe, clientvars>>

\* SET_INFO disposition: setting the flag breaks the other holders, clearing it
\* breaks nobody.
SetDisposition(w, id, h, flag) ==
  LET s == conn[id].sess
  IN /\ Ready(w, id)
     /\ h \in handles[s]
     /\ handles' = [handles EXCEPT ![s] = (@ \ {h}) \cup {[h EXCEPT !.doc = flag]}]
     /\ IF flag
        THEN /\ MayChange /\ Changes(h.f, h.key)
             /\ wk' = [wk EXCEPT ![w] = Breaking(id, <<h.f>>, h.key, "reply", h, [kind |-> "ack", f |-> h.f])]
             /\ UNCHANGED <<conn, link>>
        ELSE /\ Reply(id, [kind |-> "ack", f |-> h.f])
             /\ UNCHANGED <<wk, ver>>
     /\ UNCHANGED <<slot, gen, grants, mbox, efd, armed, cqe, deleted, belief, cache>>

\* finish_close, first part: a lease without H goes with the handle.
Released(h) == IF h.granted = "R" THEN WithoutKey(h.f, h.key) ELSE grants

\* A client that closes its last handle on f under its key stops relying on the
\* lease, unless that has H: then it outlives the handle.
LastClose(s, h) == \A x \in handles[s] : x.f = h.f /\ x.key # None => x = h
Forget(c, f) ==
  /\ belief' = [belief EXCEPT ![c][f] = "none"]
  /\ cache' = [cache EXCEPT ![c][f] = NoCache]

\* CLOSE: the handle leaves the table, its lease is released and, on
\* delete-on-close, the other holders are broken before the unlink.
Close(w, id, h) ==
  LET s == conn[id].sess
      c == conn[id].client
  IN /\ Ready(w, id)
     /\ h \in handles[s]
     /\ handles' = [handles EXCEPT ![s] = @ \ {h}]
     /\ grants' = Released(h)
     /\ IF LastClose(s, h) /\ belief[c][h.f] # "RH" THEN Forget(c, h.f) ELSE UNCHANGED <<belief, cache>>
     /\ IF h.doc
        THEN /\ wk' = [wk EXCEPT ![w] = Breaking(id, <<h.f>>, h.key, "unlink", h, [kind |-> "ack", f |-> h.f])]
             /\ UNCHANGED <<conn, link>>
        ELSE /\ Reply(id, [kind |-> "ack", f |-> h.f])
             /\ UNCHANGED wk
     /\ UNCHANGED <<slot, gen, mbox, efd, armed, cqe, filevars>>

\* finish_close, last part: the unlink. The thread goes on with its teardown or
\* answers the CLOSE.
Unlink(w) ==
  /\ wk[w].pc = "unlink"
  /\ deleted' = [deleted EXCEPT ![wk[w].h.f] = TRUE]
  /\ wk' = [wk EXCEPT ![w].pc = IF conn[wk[w].id].state = "open" THEN "reply" ELSE "teardown"]
  /\ UNCHANGED <<slot, gen, conn, handles, grants, mbox, efd, armed, cqe, ver, clientvars>>

\* The handler's last step: its response goes out.
Respond(w) ==
  /\ wk[w].pc = "reply"
  /\ Reply(wk[w].id, wk[w].resp)
  /\ wk' = [wk EXCEPT ![w] = Idle]
  /\ UNCHANGED <<slot, gen, handles, grants, mbox, efd, armed, cqe, filevars, belief, cache>>

------------------------------------------------------------------------------
(* break_leases *)

\* break_conflicts: under the table's mutex the conflicting leases are removed
\* and turned into messages to their holders.
BreakConflicts(w) ==
  LET r  == wk[w]
      bs == Conflicts(Head(r.todo), r.except)
      r2 == [r EXCEPT !.todo = Tail(@), !.msgs = bs]
  IN /\ r.pc = "break"
     /\ grants' = grants \ bs
     /\ wk' = [wk EXCEPT ![w] = [r2 EXCEPT !.pc = IF bs = {} THEN AfterBreak(r2) ELSE "post"]]
     /\ UNCHANGED <<slot, gen, conn, handles, mbox, efd, armed, cqe, filevars, clientvars>>

\* Mailbox::post, the push onto the queue of the holder's worker.
PostPush(w, m) ==
  LET r == wk[w]
  IN /\ r.pc = "post"
     /\ mbox' = [mbox EXCEPT ![m.loc[1]] = Append(@, m)]
     /\ wk' = [wk EXCEPT ![w] = [r EXCEPT !.pc = "signal", !.msgs = r.msgs \ {m}, !.signal = m.loc[1]]]
     /\ UNCHANGED <<slot, gen, conn, handles, grants, efd, armed, cqe, filevars, clientvars>>

\* Mutant: the write is left out for a message that found the queue empty.
PostSignal_Coalesced(w) ==
  LET r == wk[w]
  IN /\ r.pc = "signal"
     /\ efd' = [efd EXCEPT ![r.signal] = @ \/ Len(mbox[r.signal]) > 1]
     /\ wk' = [wk EXCEPT ![w].pc = IF r.msgs = {} THEN AfterBreak(r) ELSE "post"]
     /\ UNCHANGED <<slot, gen, conn, handles, grants, mbox, armed, cqe, filevars, clientvars>>

\* Mailbox::post, the eventfd write.
PostSignal(w) ==
  LET r == wk[w]
  IN /\ r.pc = "signal"
     /\ efd' = [efd EXCEPT ![r.signal] = TRUE]
     /\ wk' = [wk EXCEPT ![w].pc = IF r.msgs = {} THEN AfterBreak(r) ELSE "post"]
     /\ UNCHANGED <<slot, gen, conn, handles, grants, mbox, armed, cqe, filevars, clientvars>>

\* The kernel completes the posted Read of a readable eventfd.
KernelWake(w) ==
  /\ armed[w] /\ efd[w]
  /\ efd' = [efd EXCEPT ![w] = FALSE]
  /\ armed' = [armed EXCEPT ![w] = FALSE]
  /\ cqe' = [cqe EXCEPT ![w] = TRUE]
  /\ UNCHANGED <<slot, gen, conn, handles, grants, mbox, wk, filevars, clientvars>>

\* Mutant: the generation guard is missing.
Deliverable_NoGen(m) == slot[m.loc] # None /\ conn[slot[m.loc]].state = "open"

\* deliver_break's target test: the slot holds a connection of the generation
\* the message names, and it is not being torn down.
Deliverable(m) ==
  /\ slot[m.loc] # None
  /\ conn[slot[m.loc]].gen = m.gen
  /\ conn[slot[m.loc]].state = "open"

\* on_wake: the queue is drained.
OnWake(w) ==
  /\ cqe[w] /\ wk[w].pc = "idle"
  /\ cqe' = [cqe EXCEPT ![w] = FALSE]
  /\ mbox' = [mbox EXCEPT ![w] = <<>>]
  /\ wk' = [wk EXCEPT ![w] = [Idle EXCEPT !.pc = "deliver", !.inbox = mbox[w]]]
  /\ UNCHANGED <<slot, gen, conn, handles, grants, efd, armed, filevars, clientvars>>

\* deliver_break: the notification is queued on the connection's deferred queue,
\* and drive sends it at once when the tx side is idle.
DeliverBreak(w) ==
  LET m  == Head(wk[w].inbox)
      id == slot[m.loc]
      q  == [conn[id] EXCEPT !.deferred =
               Append(@, [kind |-> "break", f |-> m.f, key |-> m.key, to |-> m.id])]
  IN /\ wk[w].pc = "deliver" /\ wk[w].inbox # <<>>
     /\ wk' = [wk EXCEPT ![w].inbox = Tail(@)]
     /\ IF Deliverable(m)
        THEN /\ conn' = [conn EXCEPT ![id] = IF q.sending THEN q ELSE Flushed(q)]
             /\ link' = [link EXCEPT ![id] = IF q.sending THEN link[id] ELSE Sent(link[id], q.deferred)]
        ELSE UNCHANGED <<conn, link>>
     /\ UNCHANGED <<slot, gen, handles, grants, mbox, efd, armed, cqe, filevars, belief, cache>>

\* Mutant: the Read is posted again only while another wake-up is waiting.
ArmWake_OnlyIfMore(w) ==
  /\ wk[w].pc = "deliver" /\ wk[w].inbox = <<>>
  /\ armed' = [armed EXCEPT ![w] = mbox[w] # <<>>]
  /\ wk' = [wk EXCEPT ![w] = Idle]
  /\ UNCHANGED <<slot, gen, conn, handles, grants, mbox, efd, cqe, filevars, clientvars>>

\* arm_wake: the Read is posted again, whatever on_wake found.
ArmWake(w) ==
  /\ wk[w].pc = "deliver" /\ wk[w].inbox = <<>>
  /\ armed' = [armed EXCEPT ![w] = TRUE]
  /\ wk' = [wk EXCEPT ![w] = Idle]
  /\ UNCHANGED <<slot, gen, conn, handles, grants, mbox, efd, cqe, filevars, clientvars>>

------------------------------------------------------------------------------
(* Connections *)

\* Fewer than MaxChannels connections of c are up: no MaxChannels of them are distinct.
MayConnect(c) ==
  ~\E up \in [1..MaxChannels -> {i \in Conns : conn[i].client = c /\ link[i].up}] :
     \A m, n \in 1..MaxChannels : up[m] = up[n] => m = n

\* on_accept, and the session the client sets up on it: a new one (s = id), or
\* one of its sessions that it binds this connection to as another channel.
\* Bound: a slot whose generation has wrapped is not used again.
Accept(l, id, c, s) ==
  /\ slot[l] = None /\ (gen[l] = 1 => \A i \in Conns : conn[i].loc # l) /\ wk[l[1]].pc = "idle"
  /\ conn[id].state = "unborn"
  /\ MayConnect(c)
  /\ s = id \/ \E i \in Conns : conn[i].state = "open" /\ conn[i].sess = s /\ conn[i].client = c /\ link[i].up
  /\ Reconnects \/ s # id \/ \A i \in Conns : conn[i].client # c
  /\ slot' = [slot EXCEPT ![l] = id]
  /\ conn' = [conn EXCEPT ![id] = [@ EXCEPT !.client = c, !.sess = s, !.loc = l, !.gen = gen[l],
                                            !.state = "open"]]
  /\ link' = [link EXCEPT ![id].up = TRUE]
  /\ UNCHANGED <<gen, handles, grants, mbox, efd, armed, cqe, wk, filevars, belief, cache>>

\* close_conn_ring: the peer went away, or the server drops the connection.
CloseConn(id) ==
  /\ load.drops
  /\ conn[id].state = "open" /\ wk[conn[id].loc[1]].pc = "idle"
  /\ conn' = [conn EXCEPT ![id].state = "closing"]
  /\ UNCHANGED <<slot, gen, handles, grants, mbox, efd, armed, cqe, wk, filevars, clientvars>>

\* finalize_close starts: teardown_conn drops the channel and, with the
\* session's last one, takes its handles.
FinalizeClose(w, id) ==
  LET s    == conn[id].sess
      last == \A i \in Conns \ {id} : conn[i].sess = s => conn[i].state \notin {"open", "closing"}
  IN /\ conn[id].state = "closing" /\ conn[id].loc[1] = w /\ wk[w].pc = "idle"
     /\ wk' = [wk EXCEPT ![w] = [Breaking(id, <<>>, None, "teardown", None, None)
                                   EXCEPT !.pc = "teardown", !.sess = None, !.rest = IF last THEN handles[s] ELSE {}]]
     /\ handles' = IF last THEN [handles EXCEPT ![s] = {}] ELSE handles
     /\ conn' = [conn EXCEPT ![id].state = "gone"]
     /\ UNCHANGED <<slot, gen, grants, mbox, efd, armed, cqe, filevars, clientvars>>

\* end_session: finish_close of one of the session's handles.
TeardownHandle(w, h) ==
  LET r  == wk[w]
      r2 == [r EXCEPT !.rest = @ \ {h}]
  IN /\ r.pc = "teardown" /\ h \in r.rest
     /\ grants' = Released(h)
     /\ wk' = [wk EXCEPT ![w] =
                  IF h.doc THEN [r2 EXCEPT !.h = h, !.except = h.key, !.next = "unlink", !.todo = <<h.f>>, !.pc = "break"]
                  ELSE r2]
     /\ UNCHANGED <<slot, gen, conn, handles, mbox, efd, armed, cqe, filevars, clientvars>>

\* `wrapping_add(1).max(1)` on the u16 generation.
NextGen(n) == IF n = GEN_MAX THEN 1 ELSE n + 1

\* release_conn: whatever lease the connection still holds goes, then the slot
\* is recycled under the next generation.
ReleaseConn(w) ==
  LET l == conn[wk[w].id].loc
  IN /\ wk[w].pc = "teardown" /\ wk[w].rest = {}
     /\ grants' = WithoutConn(l, gen[l])
     /\ gen' = [gen EXCEPT ![l] = NextGen(@)]
     /\ slot' = [slot EXCEPT ![l] = None]
     /\ wk' = [wk EXCEPT ![w] = Idle]
     /\ UNCHANGED <<conn, handles, mbox, efd, armed, cqe, filevars, clientvars>>

------------------------------------------------------------------------------
(* The client: what it believes and caches. *)

OnCreate(c, m) ==
  /\ belief' = IF m.granted = "none" THEN belief ELSE [belief EXCEPT ![c][m.f] = m.granted]
  /\ cache' = IF MetaCached /\ m.granted # "none" THEN [cache EXCEPT ![c][m.f] = m.ver] ELSE cache

OnRead(c, m) ==
  /\ cache' = IF belief[c][m.f] = "none" THEN cache ELSE [cache EXCEPT ![c][m.f] = m.ver]
  /\ UNCHANGED belief

ClientRecv(id) ==
  LET m == Head(link[id].wire)
      c == conn[id].client
  IN /\ link[id].up /\ link[id].wire # <<>>
     /\ link' = [link EXCEPT ![id].wire = Tail(@)]
     /\ CASE m.kind = "create" -> OnCreate(c, m)
          [] m.kind = "read"   -> OnRead(c, m)
          [] m.kind = "break"  -> Forget(c, m.f)
          [] OTHER             -> UNCHANGED <<belief, cache>>
     /\ UNCHANGED <<servervars, filevars>>

\* The client's end goes down: because the server's did (frames still in flight
\* are lost), or by the client's own choice. With its last connection the
\* session's leases are gone.
ClientDown(id) ==
  LET c == conn[id].client
  IN /\ load.drops
     /\ link[id].up
     /\ link' = [link EXCEPT ![id] = [up |-> FALSE, wire |-> <<>>]]
     /\ IF \E i \in Conns \ {id} : link[i].up /\ conn[i].client = c
        THEN UNCHANGED <<belief, cache>>
        ELSE /\ belief' = [belief EXCEPT ![c] = [f \in Files |-> "none"]]
             /\ cache' = [cache EXCEPT ![c] = [f \in Files |-> NoCache]]
     /\ UNCHANGED <<servervars, filevars>>

------------------------------------------------------------------------------

Init ==
  /\ load \in Workloads
  /\ slot = [l \in Locs |-> None]
  /\ gen = [l \in Locs |-> 1]
  /\ conn = [id \in Conns |-> [state |-> "unborn", client |-> None, sess |-> None, loc |-> None, gen |-> 0,
                               deferred |-> <<>>, sending |-> FALSE]]
  /\ handles = [s \in Conns |-> {}]
  /\ grants = {}
  /\ mbox = [w \in Workers |-> <<>>]
  /\ efd = [w \in Workers |-> FALSE]
  /\ armed = [w \in Workers |-> TRUE]
  /\ cqe = [w \in Workers |-> FALSE]
  /\ wk = [w \in Workers |-> Idle]
  /\ ver = [f \in Files |-> [c \in Clients |-> 0]]
  /\ deleted = [f \in Files |-> FALSE]
  /\ link = [id \in Conns |-> [up |-> FALSE, wire |-> <<>>]]
  /\ belief = [c \in Clients |-> [f \in Files |-> "none"]]
  /\ cache = [c \in Clients |-> [f \in Files |-> NoCache]]

\* The handles a request can name: the session's, once the client has read the
\* CREATE response with the file id.
HandlesOf(id) ==
  LET s == conn[id].sess
      Unread(h) == \E i \in Conns : conn[i].sess = s /\ \E k \in 1..Len(link[i].wire) :
                     LET m == link[i].wire[k] IN m.kind = "create" /\ m.f = h.f /\ m.no = h.no
  IN IF conn[id].state = "open" THEN {h \in handles[s] : ~Unread(h)} ELSE {}

\* A CREATE option is on only if clients use it.
Options(op) == IF op \in load.ops THEN BOOLEAN ELSE {FALSE}

Request(w, id) ==
  \/ \E f \in load.files, want \in load.reqs :
       \E overwrite \in Options("overwrite"), doc \in Options("delete_on_close") :
         CreateOpen(w, id, f, want, overwrite, doc)
  \/ \E h \in HandlesOf(id) :
       \/ "read" \in load.ops /\ Read(w, id, h)
       \/ "write" \in load.ops /\ Write(w, id, h)
       \/ \E g \in load.files : "rename" \in load.ops /\ Rename(w, id, h, g)
       \/ \E flag \in BOOLEAN : "dispose" \in load.ops /\ SetDisposition(w, id, h, flag)
       \/ Close(w, id, h)

\* The steps that finish what a thread has started.
Continue(w) ==
  \/ Grant(w) \/ Unlink(w) \/ Respond(w)
  \/ BreakConflicts(w) \/ PostSignal(w) \/ \E m \in wk[w].msgs : PostPush(w, m)
  \/ DeliverBreak(w) \/ ArmWake(w)
  \/ ReleaseConn(w) \/ \E h \in wk[w].rest : TeardownHandle(w, h)

Next ==
  \/ \E w \in Workers :
       \/ \E id \in Conns : Request(w, id) \/ FinalizeClose(w, id)
       \/ Continue(w)
       \/ KernelWake(w)
       \/ OnWake(w)
  \/ \E id \in Conns : SendDone(id) \/ CloseConn(id) \/ ClientRecv(id) \/ ClientDown(id)
  \/ \E l \in Locs, id, s \in Conns, c \in Clients : Accept(l, id, c, s)

Spec == Init /\ [][Next /\ UNCHANGED load]_allvars

\* Threads run; a worker takes every completion its ring holds before it waits
\* again, so a wake-up or a finished send is not passed over for ever by new
\* requests; the kernel completes a ready Read; a client reads its socket and
\* notices a connection the server has closed.
Fairness ==
  /\ \A w \in Workers :
       /\ WF_vars(Continue(w)) /\ WF_vars(KernelWake(w)) /\ SF_vars(OnWake(w))
       /\ \A id \in Conns : SF_vars(FinalizeClose(w, id))
  /\ \A id \in Conns :
       /\ SF_vars(SendDone(id)) /\ WF_vars(ClientRecv(id))
       /\ WF_vars(conn[id].state \in {"closing", "gone"} /\ ClientDown(id))

FairSpec == Spec /\ Fairness

------------------------------------------------------------------------------
(* Properties *)

States == {"unborn", "open", "closing", "gone"}
LeaseStates == {"none", "R", "RH"}
Keys == Clients \cup {None}
Handle == [f : Files, no : 1..MaxOpens, key : Keys, granted : LeaseStates, doc : BOOLEAN]
LeaseGrant == [f : Files, key : Keys, state : LeaseStates, loc : Locs, gen : 1..GEN_MAX, id : Conns]
BreakFrame == [kind : {"break"}, f : Files, key : Keys, to : Conns]
Response ==
  [kind : {"create"}, f : Files, no : 1..MaxOpens, granted : LeaseStates, ver : Nat]
    \cup [kind : {"read"}, f : Files, ver : Nat]
    \cup [kind : {"wrote", "ack"}, f : Files]
ThreadState ==
  [pc : {"idle", "break", "post", "signal", "grant", "unlink", "reply", "deliver", "teardown"},
   id : Conns \cup {None}, sess : Conns \cup {None}, todo : Seq(Files), except : Keys,
   msgs : SUBSET LeaseGrant, signal : Workers \cup {None},
   next : {None, "grant", "unlink", "reply", "teardown"}, h : Handle \cup {None},
   resp : Response \cup {None}, rest : SUBSET Handle, inbox : Seq(LeaseGrant)]

\* The type invariant: among the rest, a slot generation is never 0.
TypeOK ==
  /\ load \in Workloads
  /\ slot \in [Locs -> Conns \cup {None}]
  /\ gen \in [Locs -> 1..GEN_MAX]
  /\ conn \in [Conns -> [state : States, client : Keys, sess : Conns \cup {None}, loc : Locs \cup {None},
                         gen : 0..GEN_MAX, deferred : Seq(BreakFrame), sending : BOOLEAN]]
  /\ handles \in [Conns -> SUBSET Handle]
  /\ grants \subseteq LeaseGrant
  /\ mbox \in [Workers -> Seq(LeaseGrant)]
  /\ efd \in [Workers -> BOOLEAN] /\ armed \in [Workers -> BOOLEAN] /\ cqe \in [Workers -> BOOLEAN]
  /\ wk \in [Workers -> ThreadState]
  /\ ver \in [Files -> [Clients -> Nat]]
  /\ deleted \in [Files -> BOOLEAN]
  /\ link \in [Conns -> [up : BOOLEAN, wire : Seq(BreakFrame \cup Response)]]
  /\ belief \in [Clients -> [Files -> LeaseStates]]
  /\ cache \in [Clients -> [Files -> Nat \cup {NoCache}]]

\* A break of client c's lease on f is on its way: being posted, in a mailbox, in
\* a connection's deferred queue, or in flight to the client.
BreakPending(c, f) ==
  LET Is(m) == m.f = f /\ m.key = c
      In(q) == \E i \in 1..Len(q) : q[i].kind = "break" /\ Is(q[i])
  IN \/ \E w \in Workers :
          \/ \E m \in wk[w].msgs : Is(m)
          \/ \E i \in 1..Len(mbox[w]) : Is(mbox[w][i])
          \/ \E i \in 1..Len(wk[w].inbox) : Is(wk[w].inbox[i])
     \/ \E id \in Conns : In(conn[id].deferred) \/ In(link[id].wire)

\* The server has given up a connection of c and c has yet to notice.
DropPending(c) ==
  \E id \in Conns : conn[id].client = c /\ link[id].up /\ conn[id].state \in {"closing", "gone"}

\* A worker has changed f and not yet reached the break of c's lease on it.
BreakDue(c, f) ==
  \E w \in Workers :
    /\ wk[w].except # c
    /\ \E i \in 1..Len(wk[w].todo) : wk[w].todo[i] = f

Stale(c, f) == cache[c][f] # NoCache /\ cache[c][f] # ver[f][c]

\* The lease table never names a connection that is gone: every grant belongs to
\* the connection now in its slot, under the slot's current generation. A grant
\* left behind would send its break nowhere, or to a stranger.
NoDeadGrant == \A g \in grants : slot[g.loc] = g.id /\ gen[g.loc] = g.gen

\* A break reaches only the connection the lease was granted on, however slots
\* were recycled while the message waited in a mailbox.
BreakRouted ==
  \A id \in Conns :
    LET Mine(q) == \A i \in 1..Len(q) : q[i].kind = "break" => q[i].to = id
    IN Mine(conn[id].deferred) /\ Mine(link[id].wire)

\* A lease the client believes in is one the server would break: it is in the
\* table, or its break (or the connection's end) is already on the way. In
\* particular a break never overtakes the CREATE response that granted it.
LeaseTracked ==
  \A c \in Clients, f \in Files :
    belief[c][f] # "none" =>
      \/ \E g \in grants : g.f = f /\ g.key = c
      \/ BreakPending(c, f)
      \/ DropPending(c)

\* "every operation that changes what an R or H holder has cached breaks the
\* leases of the other lease keys on that file": data a client cached under a
\* lease is current, or the client is about to be told.
Coherent ==
  \A c \in Clients, f \in Files :
    Stale(c, f) => BreakDue(c, f) \/ BreakPending(c, f) \/ DropPending(c)

\* The tx side never goes idle with something deferred: a break queued behind a
\* send leaves with the end of that send.
NothingStuck ==
  \A id \in Conns : conn[id].state = "open" /\ ~conn[id].sending => conn[id].deferred = <<>>

\* No wake-up is lost: a worker with a queued break is about to be signalled, or
\* its eventfd is readable and a Read is posted on it (or on_wake is about to
\* post one), or the Read has completed.
NoLostWake ==
  \A w \in Workers : mbox[w] # <<>> =>
    \/ \E v \in Workers : wk[v].pc = "signal" /\ wk[v].signal = w
    \/ efd[w] /\ (armed[w] \/ wk[w].pc = "deliver")
    \/ cqe[w]

\* Every stale copy is dropped in the end: no break is lost between the write that
\* causes it and the client that has to hear of it, through mailbox, eventfd,
\* deferred queue and teardown.
EventuallyCoherent ==
  \A c \in Clients, f \in Files : Stale(c, f) ~> ~Stale(c, f)
=============================================================================
