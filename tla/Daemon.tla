-------------------------------- MODULE Daemon --------------------------------
(***************************************************************************)
(* The handlers of the daemon's run loop, pkg/fcktls/daemon.go: one action *)
(* per case of Run's select.  Run executes them one at a time, so each is  *)
(* one step.  Which event comes next is left open: the probes, the kernel  *)
(* rings and the random choice select makes among ready channels allow any *)
(* order between events of different kinds.  RunLoop models the channels   *)
(* and the goroutines that fill them.                                      *)
(*                                                                         *)
(* tracked, seenTLS, exited and fdBySession are Run's local maps;          *)
(* inspected and attempts are d.inspectedSessions and d.inspectAttempts;   *)
(* sessions is d.Store.  written holds the snapshots the latest step gave  *)
(* to flushSnapshot, and flushedAt what d.Now() was when it took processes *)
(* out of the maps; 0 if it took none.                                     *)
(*                                                                         *)
(* An operator X_Y is a faulty variant of the operator X below it: what a  *)
(* slip in the code would make of X.  No behaviour of Spec uses one.       *)
(***************************************************************************)
EXTENDS SessionStore

CONSTANTS CaptureMode,     \* d.Config.CaptureMode
          HasInspector,    \* d.Inspector # nil
          InspectLimit,    \* attempts per session: 3 in the code
          EventTimes,      \* timestamps the probes put on events
          WallTimes,       \* values of d.Now()
          Grace,           \* the tick's 100 ms between an exit and its flush
          MaxBytes,        \* bound: app data stops at this many bytes a session
          NoMatch          \* what tracked maps an untracked pid to

Alive == 0                 \* what exited maps a pid without an exit event to

ASSUME ModesAssumption == CaptureMode \in CaptureModes /\ HasInspector \in BOOLEAN
ASSUME LimitsAssumption ==
  InspectLimit \in Nat /\ MaxBytes \in Nat /\ Grace \in Nat
ASSUME TimesAssumption ==
  EventTimes \subseteq Nat \ {Alive} /\ WallTimes \subseteq Nat
ASSUME NoMatchAssumption == NoMatch \notin Exes

VARIABLES phase, tracked, seenTLS, exited, fdBySession, inspected, attempts,
          sessions, written, flushedAt

procVars    == <<tracked, seenTLS, exited>>
inspectVars == <<inspected, attempts>>
vars == <<phase, procVars, fdBySession, inspectVars, sessions, written, flushedAt>>

Init ==
  /\ phase = "running"
  /\ tracked = [pid \in Pids |-> NoMatch]
  /\ seenTLS = [pid \in Pids |-> FALSE]
  /\ exited = [pid \in Pids |-> Alive]
  /\ fdBySession = {}
  /\ inspected = {}
  /\ attempts = [key \in Keys |-> 0]
  /\ sessions = EmptyStore
  /\ written = {}
  /\ flushedAt = 0

Running == phase = "running" /\ UNCHANGED phase

NothingFlushed == written' = {} /\ flushedAt' = 0

Tracked(pid) == tracked[pid] # NoMatch

\* A metadata update of the handlers; the inspector's sets neither exe nor mode.
Update(exe, role, status, lines, at) ==
  [exe |-> exe, role |-> role, capture |-> CaptureMode, status |-> status,
   lines |-> lines, at |-> at]

-------------------------------------------------------------------------------
(* Process events *)

\* handleProcessEvent, Exec, when MatchPID matches; gated is what the Go exec
\* gate answered (always FALSE for a binary without crypto/tls).
HandleExec(pid, exe, gated) ==
  /\ Running
  /\ tracked' = [tracked EXCEPT ![pid] = exe]
  /\ seenTLS' = [seenTLS EXCEPT ![pid] = gated]
  /\ exited' = [exited EXCEPT ![pid] = Alive]
  /\ NothingFlushed
  /\ UNCHANGED <<fdBySession, inspectVars, sessions>>

\* handleProcessEvent, Exit: also for a pid that is not tracked.
HandleExit(pid, at) ==
  /\ Running
  /\ exited' = [exited EXCEPT ![pid] = at]
  /\ NothingFlushed
  /\ UNCHANGED <<tracked, seenTLS, fdBySession, inspectVars, sessions>>

\* The early returns: an exec that does not match, an event of an untracked
\* pid, an event without a session pointer.
IgnoreEvent ==
  /\ Running
  /\ NothingFlushed
  /\ UNCHANGED <<procVars, fdBySession, inspectVars, sessions>>

-------------------------------------------------------------------------------
(* The OpenSSL inspector as inspectOpenSSLSession uses it *)

Inspections == [failed: {TRUE}, tls13: {FALSE}, lines: {{}}]
          \cup [failed: {FALSE}, tls13: BOOLEAN, lines: SUBSET KeyLines]

InspectionComplete(i) == ~i.failed /\ (i.lines # {} \/ i.tls13)

MayInspect_NoLimit(key) == HasInspector /\ key \notin inspected

MayInspect(key) ==
  /\ HasInspector
  /\ key \notin inspected
  /\ attempts[key] < InspectLimit

\* MergeMetadata of what Inspect returned, an error included.
InspectionUpdate(i, at) ==
  [exe |-> "", role |-> "", capture |-> "",
   status |-> IF i.lines # {} THEN "available" ELSE "unavailable",
   lines |-> i.lines, at |-> at]

\* inspectOpenSSLSession, when the handler calls it: its effect on the store ...
InspectedStore(store, key, i, at) ==
  IF MayInspect(key) THEN MergeMetadata(store, key, InspectionUpdate(i, at))
                     ELSE store

\* ... and on the bookkeeping of attempts.
CountInspection(key, i) ==
  IF MayInspect(key)
  THEN /\ attempts' = [attempts EXCEPT ![key] = @ + 1]
       /\ inspected' = IF InspectionComplete(i) THEN inspected \cup {key}
                                                ELSE inspected
  ELSE UNCHANGED inspectVars

-------------------------------------------------------------------------------
(* TLS metadata events *)

\* What the OpenSSL probes report.  "config" stands for SetSNI, SetGroups and
\* SetVerify, "observed" for SessionReused, VerifyResult and NegotiatedGroup.
\* role is roleFromProbeKind of the probe, which is known only for the
\* handshakes of SSL_connect and SSL_accept; lines is the formatted key-log
\* line, {} if formatOpenSSLKeyMaterialLine refuses the event.
OpenSSLPayloads ==
       [type: {"config", "set_fd", "observed"}, role: {"unknown"},
        ok: {TRUE}, lines: {{}}]
  \cup [type: {"key_material"}, role: {"unknown"}, ok: {TRUE},
        lines: {{}} \cup {{l} : l \in KeyLines}]
  \cup [type: {"handshake"}, role: {"client", "server", "unknown"},
        ok: BOOLEAN, lines: {{}}]

OpenSSLStatus(e) ==
  CASE e.type = "key_material" /\ e.lines # {}              -> "available"
    [] e.type = "handshake" /\ ~e.ok                        -> "partial"
    [] e.type = "handshake" /\ e.ok /\ ~HasInspector        -> "unavailable"
    [] OTHER                                                -> ""

\* shouldInspectOpenSSLEvent
ShouldInspect(e) ==
  e.type \in {"observed", "key_material"} \/ (e.type = "handshake" /\ e.ok)

\* What the three metadata handlers share once the event is theirs to handle.
SeeTLS(pid, key, isSetFD) ==
  /\ Running
  /\ Tracked(pid)
  /\ seenTLS' = [seenTLS EXCEPT ![pid] = TRUE]
  /\ fdBySession' = IF isSetFD THEN fdBySession \cup {key} ELSE fdBySession
  /\ NothingFlushed
  /\ UNCHANGED <<tracked, exited>>

HandleOpenSSLEvent(pid, ptr, e, i, at) ==
  LET key    == <<pid, ptr>>
      merged == MergeMetadata(sessions, key,
                  Update(tracked[pid], e.role, OpenSSLStatus(e), e.lines, at))
  IN /\ SeeTLS(pid, key, e.type = "set_fd")
     /\ IF ShouldInspect(e)
        THEN /\ sessions' = InspectedStore(merged, key, i, at)
             /\ CountInspection(key, i)
        ELSE /\ sessions' = merged
             /\ UNCHANGED inspectVars

GnuTLSPayloads == [type: {"config", "set_fd"}, ok: {TRUE}]
             \cup [type: {"handshake"}, ok: BOOLEAN]

GnuTLSStatus(e) ==
  IF e.type # "handshake" THEN "" ELSE IF e.ok THEN "unavailable" ELSE "partial"

HandleGnuTLSEvent(pid, ptr, e, at) ==
  /\ SeeTLS(pid, <<pid, ptr>>, e.type = "set_fd")
  /\ sessions' = MergeMetadata(sessions, <<pid, ptr>>,
                   Update(tracked[pid], "", GnuTLSStatus(e), {}, at))
  /\ UNCHANGED inspectVars

GoProbes == {"client_handshake", "server_handshake", "connection_state"}

\* What reading the remote tls.Conn gives: the conn's side, nothing, an error.
GoInspections == {"client", "server", "none", "error"}

\* goTLSProbeKindRole, with isClient = TRUE where nothing could be read.
GoRole(probe, g) ==
  CASE probe = "client_handshake" -> "client"
    [] probe = "server_handshake" -> "server"
    [] OTHER                      -> IF g = "server" THEN "server" ELSE "client"

HandleGoTLSEvent(pid, ptr, probe, g, at) ==
  /\ SeeTLS(pid, <<pid, ptr>>, FALSE)
  /\ sessions' = MergeMetadata(sessions, <<pid, ptr>>,
                   Update(tracked[pid], GoRole(probe, g),
                          IF g = "error" THEN "partial" ELSE "unavailable", {}, at))
  /\ UNCHANGED inspectVars

-------------------------------------------------------------------------------
(* Plaintext events: their pumps run in capture mode only *)

BytesOf(key) ==
  Len(Ensured(sessions, key).c2s) + Len(Ensured(sessions, key).s2c)

SeeAppData(pid, key) ==
  /\ Running
  /\ CaptureMode = "capture"
  /\ Tracked(pid)
  /\ BytesOf(key) < MaxBytes
  /\ NothingFlushed
  /\ UNCHANGED <<procVars, fdBySession>>

\* handleAppDataEvent: inspects the session first.
HandleOpenSSLAppData(pid, ptr, direction, byte, i, at) ==
  LET key == <<pid, ptr>>
  IN /\ SeeAppData(pid, key)
     /\ CountInspection(key, i)
     /\ sessions' = AppendChunk(InspectedStore(sessions, key, i, at),
                                key, direction, <<byte>>, at)

\* handleGnuTLSAppDataEvent and, with the same text, handleGoTLSAppDataEvent.
HandlePlainAppData(pid, ptr, direction, byte, at) ==
  /\ SeeAppData(pid, <<pid, ptr>>)
  /\ sessions' = AppendChunk(sessions, <<pid, ptr>>, direction, <<byte>>, at)
  /\ UNCHANGED inspectVars

-------------------------------------------------------------------------------
(* Flushing *)

\* emitUnsupportedRuntime: the placeholder record, merged and finalized at once.
Placeholder(pid, now) ==
  [key |-> <<pid, NullPtr>>,
   rec |-> Touched(Merged(Ensured(sessions, <<pid, NullPtr>>),
                          Update(tracked[pid], "", "unknown", {}, now)), now)]

Unsupported_SeenOnly(due) == {pid \in due : Tracked(pid) /\ ~seenTLS[pid]}

\* The exited processes flushExited has nothing else to say about.
Unsupported(due) ==
  {pid \in due : LiveOf(sessions, {pid}) = {} /\ Tracked(pid) /\ ~seenTLS[pid]}

WithoutDue_None(keys, due) == keys

WithoutDue(keys, due) == {key \in keys : PidOf(key) \notin due}

\* flushExited for the pids that are due.
FlushExited(due, now) ==
  /\ written' = FinalizedByPID(sessions, due, exited)
           \cup {Placeholder(pid, now) : pid \in Unsupported(due)}
  /\ flushedAt' = IF due = {} THEN 0 ELSE now
  /\ sessions' = WithoutPIDs(sessions, due)
  /\ tracked' = [pid \in Pids |-> IF pid \in due THEN NoMatch ELSE tracked[pid]]
  /\ seenTLS' = [pid \in Pids |-> IF pid \in due THEN FALSE ELSE seenTLS[pid]]
  /\ exited' = [pid \in Pids |-> IF pid \in due THEN Alive ELSE exited[pid]]
  /\ fdBySession' = WithoutDue(fdBySession, due)
  /\ inspected' = WithoutDue(inspected, due)
  /\ attempts' = [key \in Keys |-> IF PidOf(key) \in due THEN 0 ELSE attempts[key]]

Exited_TrackedOnly == {pid \in Pids : exited[pid] # Alive /\ Tracked(pid)}

Exited == {pid \in Pids : exited[pid] # Alive}

Due_NoGrace(now) == {pid \in Exited : exited[pid] <= now}

Due(now) == {pid \in Exited : exited[pid] + Grace <= now}

\* The 5 s ticker (its attachLibraries is LibraryAttach's).
Tick(now) == Running /\ FlushExited(Due(now), now)

\* Every channel is closed: the last flush has a cutoff beyond any exit.
Drain(now) ==
  /\ phase = "running"
  /\ phase' = "drained"
  /\ FlushExited(Exited, now)

\* ctx.Done: placeholders for all that is tracked, and Run returns.
Cancel(now) ==
  /\ phase = "running"
  /\ phase' = "cancelled"
  /\ written' = {Placeholder(pid, now) : pid \in {p \in Pids : Tracked(p)}}
  /\ flushedAt' = 0
  /\ UNCHANGED <<procVars, fdBySession, inspectVars, sessions>>

\* An error on errCh: Run returns it.
ReadError ==
  /\ phase = "running"
  /\ phase' = "failed"
  /\ NothingFlushed
  /\ UNCHANGED <<procVars, fdBySession, inspectVars, sessions>>

Finished == phase # "running" /\ UNCHANGED vars

-------------------------------------------------------------------------------
ProcessEvent ==
  \E pid \in Pids :
    \/ \E exe \in Exes, gated \in BOOLEAN : HandleExec(pid, exe, gated)
    \/ \E at \in EventTimes : HandleExit(pid, at)

TLSEvent ==
  \E pid \in Pids, ptr \in Ptrs, at \in EventTimes :
    \/ \E e \in OpenSSLPayloads, i \in Inspections :
         HandleOpenSSLEvent(pid, ptr, e, i, at)
    \/ \E e \in GnuTLSPayloads : HandleGnuTLSEvent(pid, ptr, e, at)
    \/ \E probe \in GoProbes, g \in GoInspections :
         HandleGoTLSEvent(pid, ptr, probe, g, at)

AppDataEvent ==
  \E pid \in Pids, ptr \in Ptrs, at \in EventTimes,
     direction \in Directions, byte \in Bytes :
    \/ HandlePlainAppData(pid, ptr, direction, byte, at)
    \/ \E i \in Inspections : HandleOpenSSLAppData(pid, ptr, direction, byte, i, at)

Stop == ReadError \/ \E now \in WallTimes : Drain(now) \/ Cancel(now)

Next ==
  \/ ProcessEvent
  \/ TLSEvent
  \/ AppDataEvent
  \/ IgnoreEvent
  \/ \E now \in WallTimes : Tick(now)
  \/ Stop
  \/ Finished

Spec == Init /\ [][Next]_vars

\* The ticker fires every 5 s, select picks it with the same chance as any other
\* ready case, and the wall clock passes every exit time plus the grace.
FlushPasses(pid) == \E now \in WallTimes : pid \in Due(now) /\ Tick(now)

FairSpec == Spec /\ \A pid \in Pids : WF_vars(FlushPasses(pid))

-------------------------------------------------------------------------------
(* What the daemon promises *)

TypeOK ==
  /\ phase \in {"running", "drained", "cancelled", "failed"}
  /\ tracked \in [Pids -> Exes \cup {NoMatch}]
  /\ seenTLS \in [Pids -> BOOLEAN]
  /\ exited \in [Pids -> EventTimes \cup {Alive}]
  /\ fdBySession \subseteq Keys
  /\ inspected \subseteq Keys
  /\ attempts \in [Keys -> 0..InspectLimit]
  /\ sessions \in [Keys -> Records \cup {NoSession}]
  /\ written \subseteq Snapshots
  /\ flushedAt \in WallTimes \cup {0}

\* A session says its keys are available exactly if it holds key-log lines,
\* whatever the three runtimes and the inspector reported of it and in whatever
\* order, and so does every summary written from it (mergeMetadata,
\* shouldPreserveAvailableKeyStatus).
KeyStatusHonest ==
  /\ \A key \in Live(sessions) : HonestRecord(sessions[key])
  /\ \A s \in written : HonestRecord(s.rec)

\* What is remembered about a session belongs to a pid that is tracked: nothing
\* is kept for a process the next exit event would not clean up (flushExited
\* and the handlers' early returns, over five maps).
NothingOrphaned ==
  /\ \A key \in Live(sessions) : Tracked(PidOf(key))
  /\ \A key \in fdBySession \cup inspected : Tracked(PidOf(key))
  /\ \A key \in Keys : attempts[key] > 0 => Tracked(PidOf(key))
  /\ \A pid \in Pids : seenTLS[pid] => Tracked(pid)

\* The inspection bookkeeping is about sessions in the store: a session that is
\* opened anew under the key of a flushed one is inspected again.
InspectionOfLive ==
  \A key \in Keys :
    (key \in inspected \/ attempts[key] > 0) => key \in Live(sessions)

\* The placeholder of emitUnsupportedRuntime never stays in the store, and no
\* summary of a flush calls a process unsupported when the same flush writes a
\* session of that process.
PlaceholderAlone ==
  /\ \A pid \in Pids : <<pid, NullPtr>> \notin Live(sessions)
  /\ \A s, t \in written :
       /\ PidOf(s.key) = PidOf(t.key)
       /\ PtrOf(s.key) = NullPtr
       => t = s

IsPrefixOf(s, t) == Len(s) <= Len(t) /\ SubSeq(t, 1, Len(s)) = s

Extends(new, old) ==
  /\ IsPrefixOf(old.c2s, new.c2s)
  /\ IsPrefixOf(old.s2c, new.s2c)
  /\ old.lines \subseteq new.lines

\* Captured plaintext and key-log lines only grow while a session lives, and
\* when it leaves the store it is in a summary written by that very step:
\* nothing captured is overwritten or dropped by a flush (AppendChunk,
\* appendUniqueStrings, FinalizeByPID, flushExited).
CaptureIsKept ==
  [][\A key \in Live(sessions) :
       \/ key \in Live(sessions') /\ Extends(sessions'[key], sessions[key])
       \/ \E s \in written' :
            /\ s.key = key
            /\ s.rec.c2s = sessions[key].c2s
            /\ s.rec.s2c = sessions[key].s2c
            /\ s.rec.lines = sessions[key].lines]_vars

\* A session leaves the store only because its process has exited and, by the
\* clock of the tick that flushes it, the grace has passed since: no event of
\* another process, no exec and no tick before that closes it, and only the last
\* flush of a run whose readers have all ended does without the grace (flushExited,
\* FinalizeByPID).
OnlyExitedAreClosed ==
  [][\A key \in Live(sessions) \ Live(sessions') :
       LET pid == PidOf(key)
       IN /\ exited[pid] # Alive
          /\ phase' = "drained" \/ exited[pid] + Grace <= flushedAt']_vars

\* An exit event is acted on: the pid is flushed and forgotten, unless a matched
\* exec takes the pid back or Run returns first (the ticker of Run).
ExitsAreFlushed ==
  \A pid \in Pids :
    exited[pid] # Alive ~> (exited[pid] = Alive \/ phase # "running")

\* The daemon implements the recording of sessions that SessionCapture states:
\* its table is what is being recorded, the summaries of the latest step are what
\* has just been handed over, placeholders aside.
Content(r) == [c2s |-> r.c2s, s2c |-> r.s2c, lines |-> r.lines]

Recording == INSTANCE SessionCapture WITH
  Sessions <- Keys,
  open     <- [key \in Live(sessions) |-> Content(sessions[key])],
  closed   <- {<<s.key, Content(s.rec)>> : s \in {t \in written : PtrOf(t.key) # NullPtr}},
  ended    <- phase # "running"

Implements == Recording!Spec

-------------------------------------------------------------------------------
(* What the documents promise and the code does not keep *)

\* When Run returns on a cancelled context, the sessions of matched processes
\* have been written.  (2026-05-09-fcktls-openssl-curl-poc-design.md: "Partial
\* sessions must still produce a summary.json when enough identifying context
\* exists."  The ctx.Done case of Run writes placeholders only.)
StopWritesSessions == phase = "cancelled" => Live(sessions) = {}

\* A summary of a session with plaintext is one that lets WriteSession write
\* the streams.  (Same document: the session directory contains
\* "stream-client-to-server.bin when capture is enabled and client-to-server
\* bytes are observed".  AppendChunk opens a record as metadata-only.)
PlaintextIsWritten ==
  \A s \in written : s.rec.c2s # <<>> => s.rec.capture = "capture"
===============================================================================
