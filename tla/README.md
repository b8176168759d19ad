# Formal model of rocketsmbd

rocketsmbd is an SMB2/3 file server in Rust. One worker thread per core runs an
io_uring reactor; connections are spread over the workers by `SO_REUSEPORT` and
never move. What workers share lives in `Srv`: the session registry, the lease
table and one break mailbox per worker. This directory holds TLA+ models of the
parts in which order, concurrency or failure matter, the TLC configurations that
check them, and TLAPS proofs.

Source paths below are relative to `src/src/`.

## 1. The system

| part | state | operations that change it | what is hard |
|---|---|---|---|
| MessageId window (`smb2/handlers.rs` `consume_msg_ids`) | `msg_low`, `msg_seen` | every request but CANCEL | forgetting ids without running one twice; end of u64; memory limit |
| Credits (`dispatch`) | `credits_out` | every request | clamping at both ends, zero charges, CANCEL |
| Compounds (`smb2/mod.rs` `process_frame`, `process_plain`) | chain state, replies of the frame, `close` | one frame | related members, a violation or a LOGOFF in the middle of a frame, replies protected after the last member ran |
| Sealing and signing (`smb2/mod.rs`) | keys and nonce counter of a channel | every reply, notify final and lease break | keys that go while their reply is still to be sent; one counter for several senders |
| NEGOTIATE, preauthentication (`negotiate`, `process_plain`, `ioctl`) | dialect, cipher, hashes | NEGOTIATE, SESSION_SETUP, validation | order of hashing and key derivation over interleaved legs |
| Lease table (`lease.rs`) | grants per (share, inode) | CREATE, CLOSE, WRITE, SET_INFO, rename, teardown, all workers | breaks racing grants and releases |
| Mailbox and eventfd (`lease.rs`, `uring.rs`) | queue, counter, posted Read | `post`, `on_wake`, `deliver_break`, `arm_wake` | lost wake-ups; slots recycled while a break waits |
| Reactor connection (`uring.rs`) | `Conn`: rx, tx, `Tx`, zero-copy read, deferred queue, in-flight counters | one handler per completion | partial sends, buffer release, pipes, teardown while the kernel owns memory |
| Slots and generations (`uring.rs` `Worker`) | `conns`, `gens` | accept, `finalize_close` | generation reuse |
| Session registry (`session.rs`) | id → `Arc<Mutex<SessionInner>>` | SESSION_SETUP, LOGOFF, teardown | check and act under two locks |
| Channels (`ProtoConn.channels`) | pending, established, keys | SESSION_SETUP, LOGOFF | interleaved legs, half-finished setups |
| Trees and handles (`vfs.rs` `HandleTable`) | slots, generations, free list, per session | TREE_CONNECT, CREATE, CLOSE, `end_session` | a request that holds the Arc of an ended session; file ids that come round |
| Byte-range locks (`vfs.rs`, LOCK) | OFD locks in the kernel | LOCK, CLOSE | batches that fail half-way, dups |
| Directory enumeration (`query_directory`, `dir_snapshot`) | snapshot and cursor of a handle | QUERY_DIRECTORY | a directory that changes, entries that do not fit |
| CHANGE_NOTIFY | `notify_new/active/done`, watches | CHANGE_NOTIFY, CANCEL, CLOSE, inotify events | five ways to complete one request; watch descriptors shared and reused |
| Authorization, paths, wire codec, cryptography | none that is shared | | pure functions |

The reactor calls `process_plain`, which calls `dispatch`, which runs a handler
to its end on the worker's thread. Handlers of different workers meet in the
registry, the session mutexes, the lease table and the mailboxes, and in the file
system.

`PROJECT.json` lists all components with their status, the hazards with the line
at which each bites, and the source lines each definition stands for.

## 2. Modules

| module | models | how |
|---|---|---|
| `MsgWindow` | `consume_msg_ids`, credits, frames | any client: any id, charge and credit request |
| `CreditFlow` | `MsgWindow` with a client that keeps the rules | requests and grants on the wire are explicit |
| `Frames` | `process_frame`, `process_plain`, the checks of `dispatch`, protection of replies and pushes | one action per member, one for what follows the last |
| `Handshake` | NEGOTIATE, the legs of setups, key derivation, validation | client, server and a network that may alter messages; hashes and keys are terms |
| `Sessions` | registry, channels, setups, binding, LOGOFF, teardown, trees and opens | one step per lock |
| `OpenTable` | what a session's table of opens promises | abstract specification |
| `HandleTable` | `HandleTable` and the handlers that use it | refines `OpenTable` |
| `Locks` | LOCK, `range_lock`, CLOSE, the dup of a READ | one step per `fcntl` |
| `DirScan` | QUERY_DIRECTORY and `dir_snapshot` | reading a directory is two steps, which changes may come between |
| `Notify` | the queues of CHANGE_NOTIFY, `service_notify`, `on_inotify` | one connection, several sessions and handles, one inotify instance after another |
| `Leases` | lease table, handlers that change files or leases, mailbox, eventfd, delivery, slots, teardown, clients' caches | one step per lock or system call |
| `Reactor` | one `Conn` of a worker | one action per completion, the kernel chooses the outcome |
| `MCWire` | `CreditFlow`, `Frames`, `Handshake` for TLC | and the closing loop of `consume_msg_ids` as the code writes it |
| `MCOpens` | `HandleTable`, `Locks`, `DirScan`, `Notify` for TLC | |
| `MCLeases`, `MCSessions` | workloads and symmetry for TLC | |
| `MsgWindowProofs`, `HandleTableProofs`, `HandshakeProofs`, `SessionsProofs`, `ReactorProofs`, `LeasesProofs`, `LeasesAlone`, `LeasesCoherence` | theorems | section 4 |

`MCWire` and `MCOpens` put components side by side that share no state: `part`,
chosen in the initial state, says which one a behaviour exercises, and the others
stay where they began. What they reach is the sum of the components' states.

### MsgWindow and CreditFlow

The variables are the fields of `ProtoConn` (`msg_low`, `msg_seen`, `credits_out`,
`close`), the member counter of the frame, whether the connection is up, and a
history of how often each id got past the check. `Accept` is a request whose ids
are fresh, `Refuse` one whose ids are not (the connection closes at the end of the
frame), `Cancel` skips the ids but not the credit accounting, `Oversized` is a
frame over the member or response limit. The closing loop of `consume_msg_ids` is
stated by what it computes (`Settle`: the first stop at or above `msg_low`);
`SettleIsTheLoop` compares that with the loop from every reachable state. `CreditFlow`
is both clients: one that keeps the rules and, with `conforming` false, any.

### Frames

`chan` is `ProtoConn.channels` with what protection needs of a `ChannelState`; `frame` is
the frame being processed: the session that sealed it and its keys, the chain's
session, the replies buffered. `BeginFrame` and `BadTransform` are `process_frame` up to
the members, `Member` is one turn of the loop with `dispatch` in it (`Violation`,
`RefuseMember`, the setups, `Logoff`, `Serve`), `FinishFrame` is the post-pass that signs
and the sealing. `NotifyFinal` and `LeaseBreak` are the reactor's pushes. A key is named
after the session and the setup that derived it; a sealed message carries key and
nonce, a signed one the key. `under` in a message is history: what the channel
demanded when the request was served; a pended CHANGE_NOTIFY remembers it until its
final, which is judged by what the channel demands by then, or, once the channel has
been logged off, by what it demanded of the request (`Late`). Error replies and setup
replies are told from results, and `ResultsProtected` is about results.

### Handshake

A hash is the sequence of the messages in it. The client's side is external and
keeps its own hash; it trusts a session when the last setup reply verifies and, below
3.1.1, when validation agrees. `AlterNegotiate` and `AlterLeg` change a message on
the way, which is what the preauthentication hash and the validation exist to
notice. `Offers` holds one request for each path through `negotiate`. A key tells
apart what `derive_sign_ctx` does: the dialects of 2, of 3.0 (3.0 and 3.0.2 derive
alike) and 3.1.1, whose key alone depends on the hash.

### Leases

Workers are threads with a program counter (`wk[w]`). A handler is cut where
another thread can see the difference: a system call on a file, one lease table
operation, one queue operation, one eventfd write; the session mutex is held
throughout, as in the code. `CreateOpen`/`Grant` are CREATE before and after its
break; `Write`, `Rename`, `SetDisposition` and `Close` change the file and then run
`BreakConflicts`, `PostPush`, `PostSignal` for every holder. `KernelWake`, `OnWake`,
`DeliverBreak`, `ArmWake` are the receiving worker. `FinalizeClose`,
`TeardownHandle`, `ReleaseConn` are a teardown, which ends with the generation's
advance. `ver[f][c]` counts the changes of a file under keys other than c's, so
that "stale" is a comparison of two numbers; `belief` and `cache` are the client's
view. Clients, the network and the file system are external: the client drops its
cache when it hears of a break, loses its connection or closes the last of its opens
that carry the lease's key (`LastClose`). What the clients do is a
workload (`load`), chosen in the initial state: files, operations, lease states,
and whether connections drop.

### Reactor

The record `c` is the `Conn` with its kernel side: operations submitted (`ops`),
`send_zc` notifications owed, the tx bytes the kernel was told to read (`kbuf`), the
pipe, the dups of files. Bytes are units `<<message, k>>`, so that the socket's
content can be compared with what the headers announce. `DriveFrame` is one
iteration of `drive`'s loop, `DriveEnd` its exits; `OnRecv`, `OnSend`, `OnSendNotif`,
`OnSpliceIn`, `OnSpliceOut`, `OnInotify` and the linked chain are the completions,
each with partial, interrupted and failing outcomes; `ClosingCqe` and `ClosingNotif`
retire operations of a closing connection.

### Sessions

Each connection has a thread of its own, the assignment to workers with the most
interleavings. A thread that has fetched a session from the registry keeps it
(`thread[c].sid`) while the registry may lose it, as the `Arc` does. Setups are
`NtlmNegotiate`/`NtlmAuthenticate`, `OneLegSetup` (anonymous, one-leg Kerberos) and
`KerberosContinue`/`KerberosLeg`, ending in `Establish` or `Reject`; binding is
`BindNegotiate`, `BindCheck`, `NtlmAuthenticate`, `Bind`. `Logoff` and
`TeardownChannel` share `DropChannel`, `EndSession`, `TakeAll`. `Request` and
`RunRequest` are the two locks of `dispatch`; a request may name any tree, and whether the
session has it is looked up only under the second lock. What a token proves is an input. The
configuration (`encrypt`, `allow_guest`, `multichannel`) is chosen in `Init`.

### HandleTable and OpenTable

`table` is the slab: `slots`, `gens`, `free`. `Create`, `Lookup`, `Close`, `TreeDisconnect`
and `TakeAll` are what the handlers do with it, each under the session's mutex. `closed`
and `retired` are history: how often a slot was closed, and when an id was last
retired. `OpenTable` knows ids and opens only: an id stands for its open until that
is closed, then for nothing, and is given out again only after `GEN_MAX` closes of
its place. The mapping is `open <- opened`, the slab read through `slot()`.

### Locks

`held` is the kernel's lock on each byte, by open file description; `told` is what the
client has been told it holds, "unsure" for a byte it asked to unlock in a batch that is
under way or was refused. A batch mixes locks, unlocks and invalid elements; a lock is on
bytes the client does not hold when that element comes (`Fresh`). A LOCK is `Lock`, then one `ApplyElement` or
`RefuseElement` for each element, `Unwind` for each element to be undone, and the
reply. `Span` is the range `range_lock` passes on after clamping u64 to i64, `Fcntl`
what the kernel makes of it, `Means` what the client meant. `ReadDup`/`ReadDone` are
the dup a zero-copy READ keeps.

### DirScan

`dir` is the handle's `DirState`; `Query` answers from it, `BeginSnapshot`/`EndSnapshot`
read the directory anew, between which `Edit` may change it: names that were there
throughout are listed, names that came or went may be. Names that `dir_snapshot` passes
over (not UTF-8, or without metadata) are `Skipped`: they come and go in the directory
and no snapshot has them. `got`, `stayed` and `came` are history, of the names that can be
listed. A name is one of a few, of one of two sizes.

### Notify

`ncq` holds `notify_new`, `notify_done`, `notify_active` and the watches; `kern` is the
inotify instance: live watches, queue, what a posted Read returned. A frame is a few
members (`ChangeNotify`, `Cancel`, `CloseDir`, `Disconnect`), then `EndMembers` and
`service_notify` (`NotWatched`, `Watch`, `Unwatch`, `EndFrame`). `CloseElsewhere` is
`end_session` by another connection of the session. `InstanceDies` is a failed Read.

## 3. Runs

A passing run takes from about forty seconds to two and a half minutes on two cores.

| run | checks | shows |
|---|---|---|
| `wire` | `NoReplay`, `GapsGivenUpOnlyWhenFull`, `SeenBounded`, `SettleIsTheLoop` | no id runs twice, ids are given up only when the memory limit forces it, memory is bounded |
| | `CreditConservation`, `ConformingNeverRefused` | the server's credit balance is the client's; a client that spends only its credits is refused only when it comes back to an id behind more than `MSG_SEEN_MAX` used ones |
| | `ServedAuthentic`, `ResultsProtected`, `NonceFresh` | a request is served only on the authority its session demands, its result leaves protected as demanded then (but for what a LOGOFF leaves behind, below), and no key seals two messages with one nonce |
| | `HandshakeAgrees` | a client that trusts a session agrees with the server on what was negotiated, and setups fail only if something was altered |
| `opens` | `FreeExact`, `OpensKept` | the slab loses and shares no slot and implements the table of opens |
| | `LocksAsTold` | the kernel's locks of an open handle are those its client was told of |
| | `ScanComplete` | an enumeration that has ended listed every name that stayed, none twice |
| | `PendsAccounted`, `WatchesHeard`, `ChangeAnswered` | each CHANGE_NOTIFY is answered once; a watched one hears of its directory and a change answers it in the end |
| `leases` | `LeaseTracked`, `Coherent`, `NoLostWake`, `NothingStuck` | with reads, writes, overwrites, renames, deletes and dropped connections a stale cache always has its break on the way; no wake-up is lost, no break stays queued |
| `leases_recycle` | `NoDeadGrant`, `BreakRouted` | slots and generations recycle, the generation wrapping, and no break reaches a stranger |
| `leases_live` | `EventuallyCoherent` | every stale copy is dropped in the end |
| `reactor` | `InflightExact`, `TxPinned`, `StreamWellFormed`, `InOrder`, `PipeClean`, `DupsOwned`, `NeverDeaf` | the byte stream is whole and in order, buffers stay put while the kernel reads them, nothing leaks, the connection never goes deaf |
| `reactor_live` | `ClosingEnds`, `FramesProcessed`, `DeferredSent` | teardown ends, frames are processed, deferred frames are sent |
| `sessions` | `ChannelCount`, `RegistryOwned`, `NoOrphanOpens`, `BindingProven`, `SealedAlways`, `SingleChannelAlive` | counts are exact, no session leaks, an ended session gets open files only from two channels that joined it while it ended, a channel is only in a session whose user it proved |

Four runs record where the code departs from what its documents say; TLC must
find the violation.

| run | property | what happens |
|---|---|---|
| `leases_two_opens` | `Coherent` | a client opens a file twice under one lease key; the first CLOSE releases the lease (`handlers.rs:1773`) that the second open, leased too, still relies on, and a later write breaks nobody |
| `reactor_cancel` | `DeferredSent` | a CANCEL alone in its batch completes a CHANGE_NOTIFY; the final response is put on `deferred`, which `drive` has already looked at (`uring.rs:779`), and nothing starts `drive` again |
| `sessions_bind_race` | `TornDownWithLastChannel` | the last channel's count drops to zero, the lock is released, another connection's binding succeeds, and `end_session` removes the session under it |
| `frames_sealed_break` | `BreaksSealed` | a lease is granted because the channel of the header's session id does not encrypt (`handlers.rs:200`), while the member is for another session, or before the channel's first sealed request; the break leaves unsealed |

Some settings make a property fail, for reasons in the code; the passing runs
leave them out, or the property sets the case apart:

- `MaxChannels = 2` (Leases): a lease is tied to the channel of its CREATE;
  `release_conn` (`uring.rs:666`) drops it though the session lives on.
- `Reconnects = TRUE` with a data operation (Leases, `Coherent`): the late teardown
  of a dead session releases by (file, key) the lease its successor was granted.
- `MetaCached = TRUE` (Leases, `Coherent`): CREATE's attributes are read
  (`handlers.rs:1569`) before the lease is granted (1626).
- `Faults` with `"shorthdr"` (Reactor, `StreamWellFormed`): a linked chain goes on
  after a send that took only part of the header (`uring.rs:1238`).
- `CancelReqs` with a value above 1 (CreditFlow, `CreditConservation`): CANCEL is
  granted credits that no response carries.
- A plain compound `[request, LOGOFF]` (Frames, `ResultsProtected`): the post-pass
  (`mod.rs:923`) no longer finds a key for the first reply, which leaves unsigned. The
  property names these replies `orphan`.
- A CHANGE_NOTIFY that is pending when its session logs off (Frames, `ResultsProtected`):
  `build_notify_final` (`mod.rs:554`) finds no channel any more, and the final leaves
  neither sealed nor signed, whatever the channel demanded when the request was pended.
  The property names these finals `late`. The comment there says "On an encrypting
  channel the completion goes out sealed, like every other response there".
- A client that locks a range it partly holds (Locks, `LocksAsTold`): unwinding a
  failed batch (`handlers.rs:2664`) unlocks what was held before. `Fresh` excludes it.
- A refused batch with unlocks before the element that failed (Locks, `LocksAsTold`): the
  unwinding undoes locks only. The property says nothing of the bytes unlocked
  (`unsure`), until the client is told of them again.
- A handle closed while a zero-copy READ has a dup of its fd (Locks, `LocksAsTold`): its
  locks stay until the READ is done, although `finish_close` (`handlers.rs:1769`) says that
  dropping the open drops them. The model has it; the property is about open handles.
- Two channels that join a session while it ends (Sessions, `NoOrphanOpens`): one may
  connect a tree and the other create in it after `end_session` emptied the session, and nobody
  closes that handle as `finish_close` does. The count, which is not decremented once the
  session has left the registry, stays at two or more, and the property exempts such
  sessions.
- An overflow of the kernel's inotify queue (Notify, `ChangeAnswered`): its event names
  no watch and `on_inotify` passes over it. `Room` keeps the queue below `MaxEvents`.
- A failed inotify instance (Notify, `WatchesHeard`, `ChangeAnswered`): the code leaves
  its requests to the cancel and close paths (`uring.rs:935`), and the properties
  exempt them.

### Bounds

- `wire`. Ids 0..6, a window of 5, two remembered ids, a credit window of 3: the window
  reaches the end of the id space, the memory limit is below the window (so gaps
  are given up) and charges exceed the gaps; larger numbers only repeat these cases,
  and the theorems cover them all. Two session ids, two frames of up to two
  members, one push: a related member can take its session from a setup, a LOGOFF or
  another session's request, in a plain or sealed frame, and what it left behind is
  there in the next frame; leases are granted where one session is set up before. Two
  setups of up to two legs, two NEGOTIATEs, one altered message.
- `opens`. Three slots, three closes of each and a largest generation of 2, so that a
  generation comes round while other slots live. Two handles on a file of two bytes,
  batches of two elements against single ones, ranges inside, past the end and empty
  (an empty one as an exclusive lock: `range_lock` returns before it looks at the kind).
  Two names and one that is never listed and there from the start; the patterns are one
  name, that third name and the wildcard. Two changes, two enumerations, buffers that
  hold one small entry or both sizes. Two sessions with a handle each, two directories, two requests (the limit
  is two), two events queued, two changes, one failed instance.
- Leases. Two workers, two clients, one file (two for rename), one change. A break
  involves one holder and one writer; the second worker makes every post
  cross-thread. `leases_recycle` has three connections for two slots and
  `GEN_MAX = 3`, so that a generation comes round while a break waits; the model's
  `Accept` never lets a slot be reused `GEN_MAX` times while one message waits,
  which for the real 65535 is the code's own assumption.
- Reactor. Three frames of any kind, a header of two units and a READ of two, a pipe
  that holds two: every operation can be partial, a batch can overflow `TX_FLUSH`,
  and a frame can wait behind a READ. `reactor_live` has two frames, and two
  `send_zc` notifications owed at once where `reactor` has one.
- Sessions. Two sessions ever created between two connections, or one among three
  (`Few`), one tree and one open handle, in one of the sessions,
  `MAX_PENDING_SETUPS = 1`: sessions share connections and not files. Two connections
  are what a race between an ending and a joining channel takes; two that join while a third ends
  the session take three, and need `multichannel` (`Few` lets the third in under that
  setting only, without `encrypt` and `allow_guest`). The theorems cover any number.

Symmetry is used for workers, clients and connections where no property and no
fairness condition tells them apart; the runs with liveness properties use none.

Deadlock is not checked in the runs whose client may simply stop sending or whose
bounded supply of frames, ids or connections runs out; `sessions` checks it.

### Fairness

`leases_live` and `reactor_live` assume that a worker goes on with the handler it
runs (weak fairness of its thread), that the kernel completes what was submitted
and wakes a posted Read whose eventfd is readable, and that the peer reads its
socket. Strong fairness is needed where a worker's other work, or an interrupted
and retried operation, disables the step again and again: the reactor takes
completions in queue order, so none is passed over for ever, and an operation is
not interrupted for ever. `opens` assumes of Notify that a frame is finished and its
queues are served, that the kernel completes a Read that has something to return
(weak), and that the reactor takes that completion between two frames sooner or
later, however many frames arrive (strong, for the same queue order). No fairness
is assumed of what clients send, of faults, or of changes in a directory: a
CHANGE_NOTIFY may stay pending for ever.

## 4. Proofs

`MsgWindowProofs` proves for all values of the constants (`WindowAssumption`: naturals,
the window, the credit window and the frame limit not zero):

- `ReplaySafety`: `Spec => [](TypeOK /\ NoReplay)`. `NoReplay` is not inductive: it
  has to be known that every id that ran is below `msg_low` or remembered, and that
  every remembered id ran. That is `WindowInv`; `AcceptFacts` collects what
  `ConsumeMsgIds` does to the two, and the induction has one step per action.
- `MemoryBound`: `Spec => []SeenBounded`. From the stop condition of `Settle` and
  the upper edge of the window.
- `GapSafety`: `Spec => []GapsGivenUpOnlyWhenFull`. An id passed over was no stop, so
  more than `MSG_SEEN_MAX` remembered ids lie above it, and remembered ids ran.
- `CreditSafety`: `Spec => []CreditsInWindow`, from bounds on charge and grant.

`SessionsProofs` proves for any finite set of connections and any sessions, users,
trees and configuration (`SessionConstants`): `CountIsExact`, `NoSessionLeaks`,
`EndedSessionsAreEmpty`, `BindingIsProven`, `ChannelsSealed` and `AloneKeepsSession`. One
invariant serves all of them: `IInv` is `TypeOK` with, for each session,

- `Fresh`: an id not yet drawn is known to nobody;
- `Legs`: the leg a channel awaits and the label a thread is at say whether the
  session is established, and a thread about to establish it was admitted;
- `Private`: before it is established, one connection only has to do with it;
- `Count`: `channels` is the number of established channels plus the threads that
  removed one and have yet to decrease the count;
- `Alive`: a session in the registry has someone who will end it;
- `Proven`, `Named`: who authenticated;
- `Taken`, with `Spare`: once the session has left the registry its count is no
  smaller than the number of threads that wait on its lock; a tree connected after it
  was emptied has used up one channel more, and an open file two. So
  `EndedSessionsAreEmpty` says exactly what remains possible: a handle in an ended session takes
  two channels that joined it while it ended.

None of the properties is inductive without `Legs` and `Private`: what a thread does
at its second lock depends on what it saw at its first. A step of a handler touches
one connection and one session; `LocalStep` reduces `IInv'` to the invariant of that
session, and there is one lemma per action for it. `AloneKeepsSession` adds `SingleInv`: without
multichannel one connection at most is tied to a session.

`HandleTableProofs` proves for any table size, largest generation, trees and files:

- `FreeListExact`: `Spec => []FreeExact`;
- `SlabKeepsOpens`: `Spec => OpensKept`, the refinement of `OpenTable`: `Init` maps to its
  `Init`, and `Create` to `Open`, `Lookup` to `Find`, `Close` to `Close`, `TreeDisconnect` to
  `CloseTree`, `TakeAll` to `CloseAll`. The invariant `TableInv` adds `Aged`: since an id was
  retired its slot was closed at least as often as its generation has moved on from
  the id's, so an id that is current again has rested `GEN_MAX` closes. A tree disconnect and
  `take_all` empty the slots one by one, `OpenTable` all at once; the lemmas on `Vacated`
  say what the whole loop leaves.

`HandshakeProofs` proves `TrustMeansAgreement` (`ShakeSpec => []HandshakeAgrees`) for any offers,
setups, legs, tries and altered messages. `ShakeInv` says that one NEGOTIATE at most is
accepted and its choice stands (`ServerOK`, `WireOK`); that the hash of a setup begins, on either side,
with the exchange as that side saw it (`SetupOK`), so that equal 3.1.1 keys mean equal exchanges;
and that the two sides' hashes differ by the message in flight while nothing was altered
(`HonestOK`), so that an honest setup does not fail.

`ReactorProofs` proves, for any frames, faults and sizes, `CompletionsCounted`
(`InflightExact`), `BufferPinned` (`TxPinned`), `PipeEmptyBetween` (`PipeClean`), `DupsExact`
(`DupsOwned`) and `AlwaysListening` (`NeverDeaf`). None of them is inductive by itself: what a
completion may do to the pipe or to tx depends on what the connection was doing. `ConnOK` lists
the phases (`Looping`, `Resting`, `Sends`, `ReadIn`, `ReadHdr`, `ReadOut`, `Chained`) with what each implies for the
operations in flight, the pipe and the dups. There is one lemma per operator of `Reactor`,
from phase to phase, and one per completion.

`LeasesProofs` proves, for any number of workers, slots, clients, files and connections,
`GrantsAreLive` (`NoDeadGrant`), `BreaksReachHolders` (`BreakRouted`), `WakesArrive` (`NoLostWake`) and
`DeferredLeave` (`NothingStuck`). The invariant `RouteInv` follows a lease from the table through a
thread's messages, a mailbox and an inbox: `Addressed` says that it names its connection's place and
generation all the way, `PlaceOK` that every later occupant of a slot has a later generation.

`LeasesAlone` and `LeasesCoherence` prove `LeasesAreTracked` (`LeaseTracked`) and `CachesAreCoherent`
(`Coherent`) for clients that are `Alone`: one connection, one open of a file at a time, no
reconnects, no attributes cached. These are the settings of the run `leases`, and lifting any one
of them breaks one of the two properties (above); workers, slots, clients, files and connections are any number.
`RouteInv` is strengthened by `OwnInv`, `HandleInv`, `ClientInv`, `ViewInv` and `LeaseInv`: a response
in flight will become the client's belief, so the invariant asks for a break behind every frame
that grants a lease no longer in the table or carries a page out of date.

Only model-checked: the liveness properties (the prover has neither fairness nor
ENABLED), `SettleIsTheLoop` (its loop is recursive), `StreamWellFormed` and `InOrder`, the two
properties of CreditFlow, and everything about Frames, Locks, DirScan and Notify.

## 5. Not modelled

- Cryptography, signatures and token contents: results are inputs, keys and hashes
  are terms.
- Authorization and path resolution: pure functions without state, whose cases the
  unit tests list.
- QUERY_INFO and the other IOCTLs: they format answers and change nothing.
- Configuration, wire codec, logging, health endpoint, start-up: sequential text and
  byte handling, or I/O without shared state.
- Names apart from inodes: a rename or unlink acts on the inode, so the races
  between looking a name up and changing it (`handlers.rs:1782`, 1785, 2568) are not
  covered. `PROJECT.json` lists them as hazards without a property.
- The listener, multishot accept and the limit on a worker's slots.
- Leases with both several channels and reconnects at once; an inotify queue that
  overflows; lock batches over ranges the handle already holds.
- Components are checked apart where they share nothing but the connection: a frame's
  message ids (MsgWindow) and its protection (Frames) do not influence each other, but
  that a violation ends the connection is in both.
