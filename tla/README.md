# FCKTLS: a TLA+ verification project

FCKTLS watches the TLS connections of one program. eBPF tracepoints report
process execs and exits, uprobes on libssl, libgnutls and `crypto/tls` report
handshakes, key material and plaintext, and one daemon correlates the events
into sessions and writes each session's summary when its process has ended.
This directory models that daemon, its goroutines, the attaching of probes, the
probe programs, the gate that stops Go programs at exec, the inspector that
calls functions inside a traced process, and the files a session leaves. TLC
checks small instances; TLAPS proves the safety properties for every value of
the constants.

Source paths below are relative to `src/`.

## 1. Inventory

| Part | Source | State | Operations | Made correct by |
|---|---|---|---|---|
| Daemon handlers | `pkg/fcktls/daemon.go` | `tracked`, `seenTLS`, `exited`, `fdBySession`, `inspectedSessions`, `inspectAttempts` | one handler for each event kind, `flushExited`, `emitUnsupportedRuntime`, the ends of `Run` | nothing kept for a process that will not be flushed; no session lost, duplicated or closed early; "unsupported" only for processes without sessions |
| Session store | `pkg/fcktls/session_store.go`, `types.go` | map from (pid, pointer) to metadata and streams | `MergeMetadata`, `AppendChunk`, `Finalize`, `FinalizeByPID` | key status agrees with key lines; streams only grow |
| Run loop | `daemon.go`: `Run`, the pumps | seven channels, `errCh`, readers, context | pump goroutines, `select`, the closing goroutine, deferred `Close` | ends when asked or when a reader fails; no event lost in a drain; no pump blocked |
| Library attachment | `daemon.go`: `attachLibraries`; `pkg/ebpf/attach.go`, `openssl.go`, `gnutls.go` | `attachments`, links in the kernel | a pass at start and at each tick, `AttachLibraryPath`, roll-back, `Close` | no probe leaked, doubled or half in place |
| Uprobe programs | `pkg/ebpf/bpf/*_uprobe.c` | pending maps (LRU hashes), ring buffers | entry program, return program | each event is true of one call, and each call gives one event |
| Go exec gate, Go TLS loader | `pkg/fcktls/go_exec_gate.go`, `pkg/ebpf/go_tls.go` | `attachments` by pid, a process held by SIGSTOP | inspect, stop, attach, resume | whoever is stopped is resumed; "attached" means probed |
| Process tracepoints and matching | `bpf/process_events.c`, `process_events.go`, `process_monitor.go` | ring buffer | exec and exit events, `MatchPID` | (input of the two above) |
| OpenSSL inspector | `openssl_inspector_linux.go` | the stopped process's registers and code, references held in it | resolver, ptrace attach, some twenty remote calls, deferred frees, detach | the process gets its code, its registers, its references and, unless a late SIGSTOP halts it, its leader thread back; the daemon's only event goroutine gets back from it |
| Go TLS inspector | `go_tls_inspector_linux.go` | none | reads a remote `tls.Conn` | (pure) |
| Artifacts, rendering | `artifacts.go`, `render.go`, `httpfmt.go` | a directory per session, which outlives the daemon | `WriteSession` | files agree with the snapshot, also after failed writes and restarts |
| Discovery, sockets, CLI, generated bindings | rest | none | | |

How they interact: the probes write to rings in the kernel; a pump goroutine
per ring moves events to a channel of its own; `Run` takes them one at a time
from whichever channel `select` picks and calls the handlers, which alone touch
the maps and the store. A matched exec calls the gate synchronously; OpenSSL
handlers call the inspector synchronously. The ticker attaches libraries and
flushes the processes that have exited; a flush writes the sessions' files
before the next event is taken.

What is hard here:

* order: events of one process come on up to seven rings, and `select` is
  random; a TLS event may come before the exec that makes its pid known, after
  its exit, or after the flush;
* pid reuse between an exit and its flush, and pids whose image changes;
* shutdown: two closers of the same readers, pumps that hold an event, a full
  error channel, a pass over the libraries that is still under way;
* partial failure: one library, one hook, one reader, one remote call, one file;
* a daemon that is killed between two files and started again beside the same
  processes and the same directories;
* the traced processes do not wait: they call functions while probes are being
  attached, nest calls, die under the gate's hands, and take signals while the
  inspector has them run a function of its choice.

`PROJECT.json` lists each of these as a hazard at its line, with the properties
that cover it or the reason why none does.

## 2. Modules

| Module | Models | Checked by | Proofs |
|---|---|---|---|
| `SessionStore` | the store's record and table operations, as operators | through `Daemon` | `SessionStoreProofs` |
| `SessionCapture` | the abstract recording of sessions: open, grow, hand over once | as `Implements` of `Daemon` | `DaemonProofs` |
| `Daemon` (extends `SessionStore`) | the handlers, flushes and ends of `Run` | `MCDaemon` | `DaemonProofs` |
| `Artifacts` (extends `Daemon`) | `flushSnapshot` and `WriteSession`, failing writes, kill and restart | `MCArtifacts` | `ArtifactsProofs` |
| `EventDelivery` | the abstract delivery of events: each handled once or still under way | as `Implements` of `RunLoop` | `RunLoopProofs` |
| `RunLoop` | pumps, channels, context, `select`, deferred calls | `MCRunLoop` | `RunLoopProofs` |
| `LibraryAttach` | passes over the libraries against `Close` | `MCLibraryAttach` | `LibraryAttachProofs` |
| `Probes` | entry and return programs on threads that nest calls | `MCProbes` | `ProbesProofs` |
| `GoExecGate` | `HandleMatch` and `AttachProcess` against live processes | `MCGoExecGate` | `GoExecGateProofs` |
| `RemoteInspector` | one `Inspect` and the process it works on | `MCRemoteInspector` | `RemoteInspectorProofs` |

An operator named `X_Y` is a faulty variant of `X` with the same parameters: the
slip a change of the code could make. No specification uses one; replacing `X`
by it must break the property named for it in `PROJECT.json`, which shows that
the property can see that part of the code.

### Daemon and SessionStore

The variables have the names of `Run`'s local maps; `sessions` is the store's
map, `written` the snapshots the latest step gave to `flushSnapshot`,
`flushedAt` the reading of the wall clock by which a tick took processes (0 for
every other step), `phase` whether `Run` is in its loop or how it ended. Each
case of the `select` is one action, since `Run` executes the cases one after
the other:

| Action | Code |
|---|---|
| `HandleExec`, `HandleExit` | `handleProcessEvent` |
| `HandleOpenSSLEvent`, `HandleGnuTLSEvent`, `HandleGoTLSEvent` | the handlers of the same names, inspection included |
| `HandleOpenSSLAppData`, `HandlePlainAppData` | `handleAppDataEvent`; `handleGnuTLSAppDataEvent` and `handleGoTLSAppDataEvent`, whose text is the same |
| `IgnoreEvent` | the early returns of all of them |
| `Tick`, `Drain` | `flushExited` from the ticker and after the loop |
| `Cancel`, `ReadError` | the `ctx.Done` and `errCh` cases |

Any event may come at any time with any timestamp of `EventTimes`: that covers
every order the rings, the pumps and `select` can produce. The content of an
event is reduced to what some decision depends on (its type, whether the
handshake succeeded, the role, the key line). A record keeps executable, role,
capture mode, key status, key lines, both streams and the two timestamps; the
other fields are last-writer-wins like the executable. What the OpenSSL
inspector answers is an input: an error, or lines and whether the version is
TLS 1.3.

`Tick` takes all processes that are due at once with one value of the wall
clock; the code goes through them one at a time and reads the clock for each
placeholder. The processes' keys are disjoint, so nothing else differs.
`OnlyExitedAreClosed` compares the exits of the sessions a tick closes with
`flushedAt`, the tick's own reading.

### SessionCapture, and Daemon as an implementation of it

`SessionCapture` says what recording sessions means without naming an event, a
runtime or a process: `open` maps the sessions being recorded to what is
recorded of them, `closed` is what the latest step handed over, `ended` that
the recording is over. One step observes one session, of which nothing already
recorded is lost, or closes some sessions and hands them over as they are. In
`Daemon` the store's table is `open` (streams and key lines of each record), the
snapshots in `written` that have a pointer are `closed`, and `ended` is that
`Run` has left its loop. Placeholders have no pointer and are no sessions. The
run `daemon` checks the refinement (`Implements`), `Refines` proves it.

### Artifacts

`queue` holds the snapshots a handler has still to flush: the next case of
`Run`'s `select` is not taken before it is empty. `WriteSession` writes the
files of `Plan` in the code's order; `WriteFails` stops before or in the middle
of any of them, as the code does at the first error, and gives the record up
with a printed error (`reported`). `Restart` is a kill, or a return, at any
moment, also between two files, followed by a new daemon with an empty store
beside the same `files`. Of a file only its origin is kept: the session written
last under the directory's name (`own`), or an older session or torn write
(`stale`). The HTTP parser is external: a stream is taken for a message by its
first byte.

`Tells` says when a directory tells its session, by what was recorded of it and
not by the mode the record happens to have. It makes one exception: plaintext
of a session of which no metadata event was ever handled (`Unidentified`: the
record was opened by `AppendChunk` or by an inspection without an answer, and
names no executable). Its stream is not written and no error is printed; that
is the finding `plaintext_is_written` below.

`CaptureReachesDisk` joins both halves: while a daemon goes on, what is recorded
of a session stays in the store or goes whole to the writer, and the writer is
done with it when its directory tells it or the failure was reported. What it
does not say, and the code does not do, is that a daemon that ends leaves
nothing behind: the store is memory, and a kill, `ctx.Done` and an error of a
reader each drop the sessions in it (finding `stop_writes_sessions`). Of a
daemon that ended because its readers did, and has finished its writes, it says
that only sessions of processes that have not exited are dropped.

### RunLoop

`pump[p]` is where a pump goroutine stands (reading, sending, reporting an
error, closing its channel, done), `queue[p]` the length of its channel, `main`
and `result` where `Run` is, `closer` and `deferred` how many loaders the
context's goroutine and the deferred calls have closed, in opposite orders. An
event is counted, not described: what it does is `Daemon`'s. `reads[p]` counts
the events pump `p` took from its reader, `handled[p]` those `Run` gave to a
handler. An absent loader's channels are closed by `Run` itself; such pumps start
as done.

### EventDelivery, and RunLoop as an implementation of it

`EventDelivery` says what `Run` promises of the kernel's events without naming a
goroutine or a channel: an event that has arrived is handled once, at most `Room`
events of a stream are under way, a stream that has ended gives no more, and the
handling ends because it was stopped, because a reader broke, or because all
streams have ended and all events are handled. In `RunLoop`, `reads` is
`arrived`, `Room` is the channel's capacity and one event in the pump's hand, a
stream has ended when its pump has left its loop, and the outcome is what `Run`
returns. An event may still arrive after the end (a pump's last read before the
loaders are closed) and is then not handled: the abstract specification allows it
as the code does.

### LibraryAttach

One step for each probe the kernel attaches or refuses, because `Close` may run
in between: the loader's mutex covers the look-up, the store and the closing of
links, not the attaching. `open` counts the links the kernel holds, for each
path and probe. `Close` takes two steps per loader: its links, then its readers
and programs; after that no probe attaches. The finders answer any subset of
the paths at each pass.

### Probes

A thread calls functions of `Fns` and may call one from within another; its
stack is `calls`. The entry program overwrites the thread's slot in the map of
the function's kind; a return runs one return program for each attached copy,
and each of them reports and deletes the slot if it finds one. Probes are
attached entry first while threads are running, so a call can be seen by its
entry program only. `room` of a return is whether the ring takes the event.

The pending maps are LRU hashes. An entry is always kept, and a map that is full
of other threads' entries makes room by dropping one used long ago: `Evict`
takes a thread's entry at any moment, and its call knows (`evicted`), for
nothing will be reported of it. `Crowded` names the slots to which this may
happen. The entry program of `SSL_ctrl` records one command and its return
program runs for all (`Conditional`, `asks`): a call of which nothing was
recorded knows that (`skipped`), since its return may find, and take, the entry
of a call around it. `shadowedBy` of a call has the inner calls that replaced or
took its entry.

One return program is one step: an entry that is evicted between its look-up
and its use, and an update that fails for want of memory, are not modelled.
Go's `client_handshake`, `server_handshake` and `connection_state` programs,
which run on entry only and keep nothing, are not in the model.

### GoExecGate

Processes exec, die and hand on their pids at any moment, also while stopped
(SIGKILL). The daemon takes an exec event, matches the executable the pid has by
then, and goes through the steps of `HandleMatch`, each of which is a separate
action. A probe belongs to a process and a file: it stays when the process
execs another image and fires no more, and is gone when the process is.

### RemoteInspector

The inspector's `pc` is where it stands in `attachRemoteProcess` and `Call`; `at`
is the function of libssl or libcrypto it is to call next, named as in C. What
a call returns is reduced to where `Inspect` goes because of it (`Leads`): the
next call, the end, or an error return. `Scope` says between which calls a
certificate, a session or a BIO is held; the deferred frees run innermost first
when the scope is left, on every path. A missing symbol is an error before the
step (`Resolves`), or for a free function a reference left behind (`unfreed`).

The process has a leader thread, which the inspector stops, patches and makes
call, and other threads, of which the model keeps that they take and release
the libraries' lock. A signal of somebody else may stop the leader anywhere, in
any order with the inspector's own SIGSTOP; `waitForStop` and `waitForTrap` take
any stop. `Dies` may come at any time: killed by others, or by a thread that ran
into the patched instruction. `maps` is one of a set of listings of
`/proc/<pid>/maps`, from which the resolver takes the load bases. The attach may
fail with a live process, before it waits (`Attach`) or when the stopped
leader's registers or code cannot be read, after which it detaches
(`FailAttach`). A `wait4`, or a request of a remote call, fails in the model
only because the process is gone.

`Daemon` uses the inspector as an input: any answer, or an error.

## 3. Runs

| Run | Instance | Shows |
|---|---|---|
| `daemon` | 1 pid, 1 pointer, 1 key line, 2 bytes at most, 2 event times, 2 wall times, grace 1, capture mode, inspector with 3 attempts, fair | types, `KeyStatusHonest`, `NothingOrphaned`, `InspectionOfLive`, `PlaceholderAlone`, `CaptureIsKept`, `OnlyExitedAreClosed`, `ExitsAreFlushed`, `Implements` |
| `artifacts` | 1 pid, 1 pointer, 1 byte, 1 key line, any number of kills and restarts | types and hand-over, `FilesComeInOrder`, `DirectoryTellsSession`, `CaptureReachesDisk` |
| `runloop` | 3 pumps on 2 loaders, channels of 1, readers that give 1, 2 and 0 events, `errCh` of 3, fair | types, `ErrChNeverBlocks`, `DrainDeliversAll`, `StopsOnCancel`, `FailureEndsRun`, `PumpsEnd`, `Implements` |
| `libraries` | 2 OpenSSL paths, one broken, 1 GnuTLS path, 3 hooks | types, `LinksAreOwned`, `NoDoubleProbe`, `HooksAreWhole`, `ClosedAfterRun` |
| `probes` | 2 threads, 4 functions on 3 maps, a function nested in itself and in the others, 2 copies, 2 connections (symmetric), one thread whose entries for reads and writes may be evicted | `EventsAreTrue`, `OneEventPerCall`, `CallIsReported`, `NoStalePending` |
| `go_gate` | 2 pids, 3 images (two matched Go programs), 3 execs per pid, a ring of 2, fair | types, `NotLeftStopped`, `AlwaysResumed`, `HeldWhileAttached`, `FirstImageIsProbed` |
| `inspector` | 3 listings, 2 foreign signals, the functions that allocate or count take the lock, fair | types, `LeftAsFound`, `CallsAreSound`, `NothingLeaks`, `LockIsReturned`, `EndsUnlessLocked` |

Why the bounds are enough:

* `daemon`: sessions interact through their pid only, and different runtimes on
  the same key are covered with one pointer. Two event times and two wall times
  with a grace of 1 give an exit that is due and one that is not yet at the same
  reading (a tick that ignored the grace breaks `OnlyExitedAreClosed`), and every
  exit is due at the last. Three attempts with one session exhaust the
  limit. Two bytes give an append to each stream and to a stream that is not
  empty.
  Two processes would show that a flush reaches too far: that no event or flush
  touches the sessions of another process is proved for every set of pids
  (`CaptureKept`, `ClosedCorrect`, `Refines`).
* `artifacts`: leftovers need two sessions of one name one after the other, which
  a restart, or an exit and an exec, gives with one key; directories of
  different keys do not touch. One byte per stream is enough for a file, and it
  is one an HTTP message begins with, so rendered files occur.
* `runloop`: a channel of 1 is full after one event, and the reader that gives
  two has the second in the pump's hand; the third pump shares a loader with the
  second, may be absent, and only ends or fails; each pump can fail, so `errCh`
  gets as many errors as it can hold.
* `libraries`: one path before and one after the one that fails, on both
  loaders; each kind of hook that occurs in the attach specs but optional
  entry-only hooks more than once. The number of passes is not bounded.
* `probes`: read and write share a map, handshakes and `SSL_ctrl` have one each:
  nesting within a map and across maps. Reads and `SSL_ctrl` nest in themselves
  (`MaxDepth` bounds each function of each thread), so an inner call of the same
  function, recorded or not, meets an outer one. One thread's entries of one map
  can be evicted, once or again, which is each thread's own affair. Payloads of
  2 with a limit of 1 are cut. The second thread only reads: a thread's slots,
  being its own, do not need the nesting twice.
* `go_gate`: three execs let a pid be reused or change its image twice; a ring
  of 2 is full with one event of each pid.
* `inspector`: the calls of one `Inspect` are all there, in their order; two
  foreign signals cut two calls short (one may be the clean-up of the other) or
  overtake the SIGSTOP twice. The listings have the libraries in either order,
  a segment mapped higher than its offset says, and one without libcrypto.

Bounds that are part of a module: `MaxBytes` (`Daemon`), `MaxReads`
(`RunLoop`), `MaxExecs` and `MaxQueue` (`GoExecGate`), `MaxDepth`, `Lengths`,
`Results`, `Crowded` (`Probes`), `MaxSignals` (`RemoteInspector`).
`MCGoExecGate.cfg` switches the deadlock check off because a state in which
every exec is used up, every process has ended and every event is handled has
no successor; the other specifications stutter only where `Run` has returned.

Fairness:

* `Daemon`: the ticker fires every 5 s, `select` chooses at random among ready
  cases, and the wall clock goes on; so for each pid a tick at which it is due
  is taken when one stays possible.
* `RunLoop`: goroutines are scheduled fairly and a ready case of `select` is
  chosen at some time (weak fairness of each case and of each pump's own
  steps). Readers promise nothing: whether an event or an error comes is open.
* `GoExecGate`: `HandleMatch` runs to its end once called. Nothing is assumed of
  the processes.
* `RemoteInspector`: the inspector goes on when it can, a traced thread takes its
  signals, a function of the libraries that can run runs and returns, the other
  threads release the lock, and who waits for the lock gets it in the end
  (strong fairness of `Enters`: the lock may be taken by others in between).
  The leader's own code is not assumed to go on while it is stopped, so an
  inspection that stopped the leader inside the lock can wait for ever.
  `EndsUnlessLocked` excepts that and one case more: a remote call that a foreign
  signal cut short inside a function of the libraries leaves their lock taken,
  and a later call that wants it waits for ever too.

## 4. Where the code departs from the documents

Each of these runs checks one statement of a document and TLC finds a behaviour
of the code that breaks it. The documents are in `docs/superpowers/specs/`.

| Run | Statement | What the code does |
|---|---|---|
| `stop_writes_sessions` | partial sessions must still produce a summary | on a cancelled context `Run` writes placeholders for all tracked pids and drops the sessions in the store |
| `plaintext_is_written` | the stream file exists when capture is enabled and bytes are observed | a session opened by a plaintext event stays metadata-only if no metadata event follows, and its streams are not written. In the run a matched process execs and exits, a GnuTLS or Go plaintext event of it comes late and opens the record, and the tick flushes it; there is no inspector. With one, a failed inspection at an OpenSSL plaintext event opens the record the same way |
| `supported_attached` | each supported library gets its uprobes | a pass ends at the first library that fails, in every pass |
| `metadata_survives` | if the key export fails, metadata is still emitted | `Inspect` returns an empty inspection with the error, so what it had read is lost |
| `attached_is_probed` | Go uprobes are attached to that PID and executable | a pid that was attached once is never attached again, whatever runs under it |

## 5. Proofs

Every theorem holds for all values of the constants that satisfy the named
assumptions of the module: no bound on pids, sessions, pumps, threads or copies.
Each safety theorem goes by an inductive invariant, one lemma per group of
actions, and a temporal step at the end.

* `SessionStoreProofs`: lemmas about the store's operators. Merging and appending
  keep records well formed and the key status honest. Four theorems say how far
  the order in which `select` takes the rings' events matters to a record: an
  update merged twice leaves what it left once (`MergedTwice`); metadata and
  plaintext of one session commute (`MetadataAndData`); two metadata updates
  commute but for the fields that the last writer decides
  (`MetadataInAnyOrder`, for updates whose key status agrees with their lines);
  and sessions do not disturb each other (`SessionsIndependent`). Chunks of one
  direction come from one ring, in order, and do not commute.
* `DaemonProofs`: `IInv` is the conjunction of the five invariants and two
  facts that `Artifacts` needs: a record that names an executable has the
  daemon's capture mode (`ModeFits`), and a drained daemon has flushed every
  exit (`DrainedIsFlushed`). They need each other: a flush leaves no
  bookkeeping only if all bookkeeping belongs to tracked pids, and a
  placeholder stands alone only if none was left in the store. Every handler of
  a TLS or plaintext event is reduced to one step formula (`TouchStep`) and
  every flush to another (`FlushStep`), so that the preservation proof has one
  case for each. `CaptureKept` and `ClosedCorrect` are action properties from
  the same two formulas; that a tick closes only sessions whose grace is over
  by its own clock is in the second.
* `RunLoopProofs`: the invariant has three parts. `BaseInv`: `errCh` holds at
  most as many errors as there are pumps past their report (`Past`); a pump that
  still has to report is not among them, so there is room. That needs no more
  than `PumpsAssumption`, errCh's capacity being at least the number of pumps; a
  channel seen closed is closed and empty for good. `Conserved`: the events read
  from a reader are those handled, those in the channel and the one in the pump's
  hand (`NothingLost`). `MainInv`: `Run` is in its loop exactly while it has no
  result. `DrainComplete` needs the first two: channels closed and empty, nothing
  in hand, hence all handled. `Refines` maps every step to a step of
  `EventDelivery` or a stutter; `Conserved` bounds what is under way. An error
  that `Run` returns is one a pump reported, which is why `broken` outlasts the
  pump's failure.
* `DaemonProofs`, refinement: `Refines` goes by the same step formulas. A
  `TouchStep` observes its session; a flush closes the live sessions of the due
  pids, because it takes out of the table what it writes (`FlushCloses`, which
  needs `PlaceholderAlone` to tell placeholders from sessions); every other step
  closes the empty set or stutters.
* `DaemonProofs`, exits: `ExitsAnswered` follows every way an exit event can
  leave the books.
* `GoExecGateProofs`: the invariant adds what holds of a pid that has had one
  process only (`Held`, `Probed`) and of one that has had none (`Untouched`).
* `ProbesProofs`: evictions and calls that are not recorded included.
  `Pairing`, then `ReportedAtMostOnce`: once a return has been reported its
  slot is empty, so a second copy of the program finds nothing. `Entries` is
  the invariant for the content of events, one statement about the stack of a
  thread's calls, its return under way and its slots (`ThreadInv`): a call that
  was recorded, and whose entry nobody replaced, took or evicted, finds it in
  its slot until a return program takes it, and an entry that a return will
  take belongs to a call under way. Entering, leaving and returning are proved
  for one thread; the others do not notice.
* `LibraryAttachProofs`: `NoDoubleProbe` needs that the path being attached has
  nothing in the loader's table yet (`LinksInv`); `HooksAreWhole` needs how far
  the current path has got (`HooksInv`); `ClosedAfterRun` that what a deferred
  call has closed stays closed although a pass may still be storing (`EndInv`).
* `RemoteInspectorProofs`: `LeaderInv` and `SignalInv` tie the leader to the
  inspector's position: a SIGSTOP still pending was overtaken by a foreign
  signal and no call has returned since. `PlanInv` and `RefsInv` say which
  references are held at each call and that the process has them; a reference
  neither held nor given back is accounted for (`LeakInv`). The order of the
  calls enters through two lemmas only, `Nesting` and `LeadsTo`.
  `ListingsAssumption` says what a process listing looks like; TLC evaluates it
  for the sample listings.
* `ArtifactsProofs`: `AInv` is `Daemon`'s invariant, that a handler hands each
  session over once and takes it out of the store (`HandedOver`), and that
  directories are in order. The plan of `WriteSession` is orderly by
  construction, file by file (`AddFile`), so every prefix of it leaves a
  directory in order. `CaptureDurable` takes the handlers' half from `Daemon`'s
  step formulas, on which the sessions a step removes are the ones it queues, and
  the writer's half from what the proof of `DirectoryTellsSession` shows of a
  directory whose plan is done (`WholeTells`). `ModeFits` tells that a session
  with a metadata event has its streams in the plan; `DrainedIsFlushed`, with
  `NothingOrphaned`, what a drained daemon still holds (`DrainedHoldsTheLiving`).

What the liveness properties rest on, short of fairness, is proved as well. Each
of these theorems leaves to the scheduler only that a step which stays possible
is taken:

| Theorem | Statement | Towards |
|---|---|---|
| `NoDeadlock` (`RunLoopProofs`) | a pump that cannot move waits for the kernel or for a receive `Run` is ready to make | `StopsOnCancel`, `FailureEndsRun` |
| `PumpsWindDown` (`RunLoopProofs`) | once `Run` has returned, a pump has at most three steps left and takes no event | `PumpsEnd` |
| `ExitsAnswered` (`DaemonProofs`) | an exit is forgotten only by a matched exec of the pid, or by a flush that writes each of its sessions and clears its tables | `ExitsAreFlushed` |
| `ResumedInTwoSteps` (`GoExecGateProofs`) | a stopped process is let go by the second step of the gate from there, and nothing diverts the gate | `AlwaysResumed` |
| `Advances` (`RemoteInspectorProofs`) | every step of `Inspect` lowers `StepsLeft`, whatever the calls return, and nothing else changes it | `EndsUnlessLocked` |
| `BlockedByLock` (`RemoteInspectorProofs`) | until `Inspect` is over, it or the leader can move, or the leader waits for the libraries' lock | `EndsUnlessLocked` |
| `PassEnds` (`LibraryAttachProofs`) | every step of a pass lowers a bound in the number of libraries and hooks | the ticker's case ends |

`StepsLeft` of the inspector counts the remote calls still ahead by the rank of
the next one (`Rank`) and what is held, since a reference costs one more call to
free; `Leads` never goes up in rank (`RankLeads`).

Assumptions on constants are named `...Assumption` in the module that declares
the constants, and TLC evaluates them in every run. They say what the code's
types and set-up give: `ExesAssumption`, for one, that no matched executable has
the empty name, by which a record without a metadata event is known.

Only model-checked: liveness (`ExitsAreFlushed`, `StopsOnCancel`,
`FailureEndsRun`, `PumpsEnd`, `AlwaysResumed`, `EndsUnlessLocked`), which is out
of the prover's reach; the table above says what of each is proved. Every
invariant, every step property and both refinements of the passing runs are
proved.

## 6. Not modelled

* A goroutine that changes threads between the entry and the return of a Go
  call: it needs the kernel's own bookkeeping of return probes, of which the
  repository says nothing. Entry-only programs; the contents of payloads.
* What is printed (`render.go`) and the layout of the files; library files that
  are replaced while a process maps them; memory reads of the Go TLS inspector,
  of which `Daemon` takes the role or an error.
* What the kernel does with an evicted pending entry that a program still reads.
* The clocks: the code compares exit times of the monotonic clock with the wall
  clock. `EventTimes` and `WallTimes` are arbitrary sets, so the properties do
  not depend on how the two relate; in the code every exit is due at the first
  tick after it.
* Thread-group-leader exits, pid namespaces, lost exit events.
* The loaders' constructors (opening objects and rings before the first event),
  library discovery, `/proc/net` look-ups, the command line, generated bindings:
  start-up and pure input.

## 7. Plan

What would be worth adding to this project:

1. `System`: the rings and pumps of `RunLoop` with `Daemon`'s handlers in one
   specification. `Daemon` already allows every order of events; the composition
   would show how many events a drain takes with it.
2. `GoExecGate` as an implementation of an abstract hold: stopped, probed,
   released.
3. Goroutine migration in `Probes`, once the kernel's return-probe stack is
   described.
