-------------------------------- MODULE Notify -------------------------------
(***************************************************************************)
(* CHANGE_NOTIFY on one connection: the queues the handlers fill           *)
(* (notify_new, notify_active, notify_done), service_notify, which turns   *)
(* them into inotify watches at the end of each frame, and on_inotify,     *)
(* which completes the requests when events have been read.                *)
(*                                                                         *)
(* The worker is one thread, but the kernel is not part of it: files       *)
(* change, and the posted Read of the inotify fd completes, between any    *)
(* two of its system calls. The other channels of a session close its      *)
(* handles from other threads. Handle ids are unique within a session      *)
(* (HandleTable), not among the sessions of a connection.                  *)
(***************************************************************************)
EXTENDS Integers, Sequences, FiniteSets, SequencesExt

CONSTANTS
  Sessions,      \* the sessions with a channel on this connection
  Fids,          \* handle ids
  Dirs,          \* directories
  NoDir,         \* no directory: a handle id not open, no inotify instance
  MAX_NOTIFY,    \* MAX_NOTIFY_PER_CONN
  MaxPends,      \* bound: CHANGE_NOTIFYs in a behaviour
  MaxMembers,    \* bound: members of a frame that matter here
  MaxEvents,     \* bound: events queued in the kernel
  MaxChanges,    \* bound: changes made in the directories
  MaxDeaths      \* bound: how often the inotify instance fails

ASSUME NotifyAssumption ==
  /\ NoDir \notin Dirs
  /\ {MAX_NOTIFY, MaxPends, MaxMembers, MaxEvents, MaxChanges, MaxDeaths} \subseteq Nat

AsyncIds == 1..MaxPends

VARIABLES
  dirOf,     \* the directory each open handle of each session is for
  closedHere,\* history: handles closed by a CLOSE or TREE_DISCONNECT of this connection
  ncq,       \* the queues of ProtoConn and the watches of Conn
  frame,     \* the frame in progress: how many members ran; serving its queues or not
  kern,      \* the kernel's inotify instance, its queue, and the directories
  answers    \* how many final responses went to each CHANGE_NOTIFY

notifyvars == <<dirOf, closedHere, ncq, frame, kern, answers>>

\* notify_new, notify_active, notify_done, next_async_id; Conn.watches. A watch
\* remembers the instance its descriptor belongs to (history).
NoQueues == [new |-> <<>>, active |-> {}, done |-> <<>>, next |-> 1, watches |-> {}]

\* inst numbers the instances made so far, up whether there is one now; live is the
\* set of its watches; q its queue; armed and ibuf the posted Read and what the
\* last one brought.
NoKernel == [inst |-> 0, up |-> FALSE, live |-> {}, wd |-> 1, q |-> <<>>, armed |-> FALSE, ibuf |-> <<>>,
             exists |-> Dirs, changes |-> 0]

------------------------------------------------------------------------------
(* inotify *)

Event(w, kind) == [wd |-> w.wd, dir |-> w.dir, kind |-> kind]

\* The watches in S go; the kernel says so with one more event each.
Dropped(k, S) ==
  [k EXCEPT !.live = @ \ S,
            !.q = @ \o SetToSeq({Event(w, "gone") : w \in S})]

\* inotify_rm_watch; a descriptor that is not there yields EINVAL.
RmWatch(k, wd) == Dropped(k, {w \in k.live : w.wd = wd})

\* inotify_add_watch: a directory already watched keeps its descriptor.
AddWatch(k, d) ==
  IF \E w \in k.live : w.dir = d THEN k
  ELSE [k EXCEPT !.live = @ \cup {[wd |-> k.wd, dir |-> d]}, !.wd = @ + 1]

Room(k) == Len(k.q) < MaxEvents

\* Something happens in a directory. Events without a name are possible too; both
\* complete the requests.
Change(d) ==
  /\ d \in kern.exists /\ kern.changes < MaxChanges /\ Room(kern)
  /\ kern' = [kern EXCEPT !.changes = @ + 1,
                          !.q = @ \o SetToSeq({Event(w, "change") : w \in {x \in kern.live : x.dir = d}})]
  /\ UNCHANGED <<dirOf, closedHere, ncq, frame, answers>>

\* A directory goes away, and with it its watch.
RemoveDir(d) ==
  /\ d \in kern.exists /\ kern.changes < MaxChanges /\ Room(kern)
  /\ kern' = [Dropped(kern, {w \in kern.live : w.dir = d}) EXCEPT !.exists = @ \ {d}, !.changes = @ + 1]
  /\ UNCHANGED <<dirOf, closedHere, ncq, frame, answers>>

\* The posted Read completes with events from the head of the queue.
KernelRead(n) ==
  /\ kern.up /\ kern.armed /\ n \in 1..Len(kern.q)
  /\ kern' = [kern EXCEPT !.armed = FALSE, !.ibuf = SubSeq(kern.q, 1, n),
                          !.q = SubSeq(kern.q, n + 1, Len(kern.q))]
  /\ UNCHANGED <<dirOf, closedHere, ncq, frame, answers>>

------------------------------------------------------------------------------
(* The handlers, one member of a frame each *)

Member ==
  /\ frame.at = "run" /\ frame.members < MaxMembers
  /\ frame' = [frame EXCEPT !.members = @ + 1]

IsOpen(s, f) == dirOf[s][f] # NoDir

\* change_notify, past its early returns.
ChangeNotify(s, f) ==
  /\ Member
  /\ Cardinality(ncq.active) < MAX_NOTIFY
  /\ IsOpen(s, f)
  /\ ncq.next <= MaxPends
  /\ ncq' = [ncq EXCEPT !.new = Append(@, [aid |-> ncq.next, sid |-> s, fid |-> f, dir |-> dirOf[s][f]]),
                        !.active = @ \cup {[fid |-> f, aid |-> ncq.next]},
                        !.next = @ + 1]
  /\ UNCHANGED <<dirOf, closedHere, kern, answers>>

\* The entries of S leave notify_active for notify_done. (The status they will be
\* answered with is left out.)
Completed(q, S) == [q EXCEPT !.active = @ \ S, !.done = @ \o SetToSeq({a.aid : a \in S})]

\* cancel.
Cancel(a) ==
  /\ Member
  /\ a \in ncq.active
  /\ ncq' = Completed(ncq, {a})
  /\ UNCHANGED <<dirOf, closedHere, kern, answers>>

\* notify_cleanup: everything pended under this handle id.
Cleanup(q, F) == Completed(q, {a \in q.active : a.fid \in F})

\* Mutant: the requests on the handle stay.
CloseDir_NoCleanup(s, f) ==
  /\ Member
  /\ IsOpen(s, f)
  /\ dirOf' = [dirOf EXCEPT ![s][f] = NoDir]
  /\ closedHere' = closedHere \cup {<<s, f>>}
  /\ UNCHANGED <<ncq, kern, answers>>

\* close.
CloseDir(s, f) ==
  /\ Member
  /\ IsOpen(s, f)
  /\ dirOf' = [dirOf EXCEPT ![s][f] = NoDir]
  /\ closedHere' = closedHere \cup {<<s, f>>}
  /\ ncq' = Cleanup(ncq, {f})
  /\ UNCHANGED <<kern, answers>>

\* TREE_DISCONNECT: every open of the tree, here all of the session.
Disconnect(s) ==
  LET F == {f \in Fids : IsOpen(s, f)}
  IN  /\ Member
      /\ F # {}
      /\ dirOf' = [dirOf EXCEPT ![s] = [f \in Fids |-> NoDir]]
      /\ closedHere' = closedHere \cup {<<s, f>> : f \in F}
      /\ ncq' = Cleanup(ncq, F)
      /\ UNCHANGED <<kern, answers>>

\* The session ends (LOGOFF here, or its end on another channel), or another
\* channel closes one of its handles: this connection's queues are not told.
CloseElsewhere(s, F) ==
  /\ \E f \in F : IsOpen(s, f)
  /\ dirOf' = [dirOf EXCEPT ![s] = [f \in Fids |-> IF f \in F THEN NoDir ELSE @[f]]]
  /\ UNCHANGED <<closedHere, ncq, frame, kern, answers>>

------------------------------------------------------------------------------
(* drive, after a frame: service_notify *)

EndMembers ==
  /\ frame.at = "run" /\ frame.members > 0
  /\ frame' = [frame EXCEPT !.at = "serve"]
  /\ UNCHANGED <<dirOf, closedHere, ncq, kern, answers>>

Answer(A) == answers' = [a \in AsyncIds |-> IF a \in A THEN answers[a] + 1 ELSE answers[a]]

\* complete_notify of a request without a watch: no instance can be made, or
\* inotify_add_watch fails (the directory is gone, the user's watches are used up).
NotWatched ==
  LET p == Head(ncq.new)
  IN  /\ frame.at = "serve" /\ ncq.new # <<>>
      /\ ncq' = [ncq EXCEPT !.new = Tail(@), !.active = {a \in @ : a.aid # p.aid}]
      /\ Answer({p.aid})
      /\ \/ ~kern.up /\ UNCHANGED kern
         \/ kern' = IF kern.up THEN kern ELSE [kern EXCEPT !.up = TRUE, !.inst = @ + 1, !.armed = TRUE, !.wd = 1]
      /\ UNCHANGED <<dirOf, closedHere, frame>>

\* Mutant: no Read is posted on the new instance.
Watch_NotArmed ==
  LET p == Head(ncq.new)
      k == IF kern.up THEN kern ELSE [kern EXCEPT !.up = TRUE, !.inst = @ + 1, !.armed = FALSE, !.wd = 1]
      j == AddWatch(k, p.dir)
      w == CHOOSE x \in j.live : x.dir = p.dir
  IN  /\ frame.at = "serve" /\ ncq.new # <<>>
      /\ p.dir \in kern.exists
      /\ kern' = j
      /\ ncq' = [ncq EXCEPT !.new = Tail(@),
                            !.watches = @ \cup {[aid |-> p.aid, sid |-> p.sid, fid |-> p.fid, dir |-> p.dir,
                                                 wd |-> w.wd, inst |-> k.inst]}]
      /\ UNCHANGED <<dirOf, closedHere, frame, answers>>

\* A new request gets its watch; the instance is made the first time.
Watch ==
  LET p == Head(ncq.new)
      k == IF kern.up THEN kern ELSE [kern EXCEPT !.up = TRUE, !.inst = @ + 1, !.armed = TRUE, !.wd = 1]
      j == AddWatch(k, p.dir)
      w == CHOOSE x \in j.live : x.dir = p.dir
  IN  /\ frame.at = "serve" /\ ncq.new # <<>>
      /\ p.dir \in kern.exists
      /\ kern' = j
      /\ ncq' = [ncq EXCEPT !.new = Tail(@),
                            !.watches = @ \cup {[aid |-> p.aid, sid |-> p.sid, fid |-> p.fid, dir |-> p.dir,
                                                 wd |-> w.wd, inst |-> k.inst]}]
      /\ UNCHANGED <<dirOf, closedHere, frame, answers>>

\* A completed one is answered, if it is still watched; the kernel's watch goes
\* with the last request that uses it.
Unwatch ==
  LET W == {w \in ncq.watches : w.aid = Head(ncq.done)}
  IN  /\ frame.at = "serve" /\ ncq.new = <<>> /\ ncq.done # <<>>
      /\ ncq' = [ncq EXCEPT !.done = Tail(@), !.watches = @ \ W]
      /\ Answer({w.aid : w \in W})
      /\ kern' = IF \E w \in W : kern.up /\ ~\E x \in ncq.watches \ W : x.wd = w.wd
                 THEN RmWatch(kern, (CHOOSE w \in W : TRUE).wd) ELSE kern
      /\ UNCHANGED <<dirOf, closedHere, frame>>

EndFrame ==
  /\ frame.at = "serve" /\ ncq.new = <<>> /\ ncq.done = <<>>
  /\ frame' = [at |-> "run", members |-> 0]
  /\ UNCHANGED <<dirOf, closedHere, ncq, kern, answers>>

Between == frame.at = "run" /\ frame.members = 0

------------------------------------------------------------------------------
(* on_inotify *)

Wds(evs, kind) == {evs[i].wd : i \in {j \in DOMAIN evs : evs[j].kind = kind}}

\* Mutant: a watch the kernel has dropped answers nothing.
OnInotify_Gone ==
  LET changed == Wds(kern.ibuf, "change")
      fired   == {w \in ncq.watches : w.wd \in changed}
      aids    == {w.aid : w \in fired}
  IN  /\ Between /\ kern.up /\ kern.ibuf # <<>>
      /\ ncq' = [ncq EXCEPT !.watches = @ \ fired, !.active = {a \in @ : a.aid \notin aids}]
      /\ Answer(aids)
      /\ kern' = [Dropped(kern, {w \in kern.live : w.wd \in changed}) EXCEPT !.ibuf = <<>>, !.armed = TRUE]
      /\ UNCHANGED <<dirOf, closedHere, frame>>

\* The events are grouped by descriptor; every request on one of them is answered
\* and the kernel's watch removed (requests are answered once). A watch the kernel
\* has dropped answers its requests too. The Read is posted again.
OnInotify ==
  LET changed == Wds(kern.ibuf, "change")
      fired   == {w \in ncq.watches : w.wd \in changed \cup Wds(kern.ibuf, "gone")}
      aids    == {w.aid : w \in fired}
  IN  /\ Between /\ kern.up /\ kern.ibuf # <<>>
      /\ ncq' = [ncq EXCEPT !.watches = @ \ fired, !.active = {a \in @ : a.aid \notin aids}]
      /\ Answer(aids)
      /\ kern' = [Dropped(kern, {w \in kern.live : w.wd \in changed}) EXCEPT !.ibuf = <<>>, !.armed = TRUE]
      /\ UNCHANGED <<dirOf, closedHere, frame>>

\* The Read fails: the instance is closed. The requests keep their watches.
InstanceDies ==
  /\ Between /\ kern.up /\ kern.armed
  /\ kern.inst <= MaxDeaths
  /\ kern' = [kern EXCEPT !.up = FALSE, !.armed = FALSE, !.live = {}, !.q = <<>>]
  /\ UNCHANGED <<dirOf, closedHere, ncq, frame, answers>>

------------------------------------------------------------------------------

NotifyInit ==
  /\ dirOf \in [Sessions -> [Fids -> Dirs]]
  /\ closedHere = {}
  /\ ncq = NoQueues
  /\ frame = [at |-> "run", members |-> 0]
  /\ kern = NoKernel
  /\ answers = [a \in AsyncIds |-> 0]

Serve == NotWatched \/ Watch \/ Unwatch \/ EndFrame

NotifyNext ==
  \/ \E s \in Sessions :
       \/ \E f \in Fids : ChangeNotify(s, f) \/ CloseDir(s, f)
       \/ Disconnect(s)
       \/ \E F \in SUBSET Fids : CloseElsewhere(s, F)
  \/ \E a \in ncq.active : Cancel(a)
  \/ EndMembers
  \/ Serve
  \/ \E d \in Dirs : Change(d) \/ RemoveDir(d)
  \/ \E n \in 1..MaxEvents : KernelRead(n)
  \/ OnInotify
  \/ InstanceDies

\* A frame is finished; the kernel completes a Read that has something to return;
\* a completion is taken between any two frames sooner or later.
NotifyFairness ==
  /\ WF_notifyvars(EndMembers) /\ WF_notifyvars(Serve)
  /\ WF_notifyvars(\E n \in 1..MaxEvents : KernelRead(n))
  /\ SF_notifyvars(OnInotify)

NotifySpec == NotifyInit /\ [][NotifyNext]_notifyvars /\ NotifyFairness

------------------------------------------------------------------------------
(* Properties *)

Issued == 1..(ncq.next - 1)
Watched == {w.aid : w \in ncq.watches}

\* Every CHANGE_NOTIFY is answered once: it is either waiting (queued as new, or
\* watched) or has had exactly one final response, whichever of events, CANCEL,
\* CLOSE, and the failure to watch came first or together. Between frames
\* notify_active, on which MAX_NOTIFY_PER_CONN counts, lists the waiting ones
\* exactly, and none of them waits on a handle this connection has closed
\* (notify_cleanup: "Complete any CHANGE_NOTIFY pended on handle `fid`").
PendsAccounted ==
  /\ \A a \in Issued :
       answers[a] = IF a \in Watched \/ \E i \in DOMAIN ncq.new : ncq.new[i].aid = a THEN 0 ELSE 1
  /\ Between =>
       /\ {a.aid : a \in ncq.active} = Watched
       /\ \A w \in ncq.watches : <<w.sid, w.fid>> \notin closedHere

\* A watched request will hear of its directory: the kernel has a watch under its
\* descriptor, or an event that will answer it is on the way; and whatever is on the
\* way under that descriptor is about its directory. The exception is what on_inotify
\* says of a failed instance: "pending notifies will complete via cancel/close
\* paths".
WatchesHeard ==
  \A w \in ncq.watches :
    w.inst = kern.inst /\ kern.up =>
      LET about == SelectSeq(kern.ibuf \o kern.q, LAMBDA ev : ev.wd = w.wd)
      IN  /\ [wd |-> w.wd, dir |-> w.dir] \in kern.live \/ about # <<>>
          /\ \A i \in DOMAIN about : about[i].dir = w.dir

\* A change in a watched directory answers the request in the end, unless the
\* instance fails.
ChangeAnswered ==
  \A a \in AsyncIds :
    (\E w \in ncq.watches : w.aid = a /\ \E i \in DOMAIN kern.q : kern.q[i].wd = w.wd)
      ~> (answers[a] > 0 \/ \A w \in ncq.watches : w.aid = a => ~kern.up \/ w.inst # kern.inst)
==============================================================================
