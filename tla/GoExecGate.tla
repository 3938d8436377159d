------------------------------- MODULE GoExecGate -------------------------------
(***************************************************************************)
(* The exec gate of Go programs: pkg/fcktls/go_exec_gate.go, called by     *)
(* Daemon.handleProcessEvent, and GoTLSLoader.AttachProcess of             *)
(* pkg/ebpf/go_tls.go.  A process that executes a matched Go program with  *)
(* crypto/tls is stopped, probed and resumed; meanwhile it, and every      *)
(* other process, may be killed, execute something else or give its pid to *)
(* another one.                                                            *)
(*                                                                         *)
(* An operator X_Y is a faulty variant of the operator X below it.         *)
(***************************************************************************)
EXTENDS Naturals, Sequences

CONSTANTS Pids,
          Images,    \* executables
          Matched,   \* the ones whose basename is the target's
          GoTLS,     \* the ones with the symbols of crypto/tls
          Gone,      \* no process has this pid
          MaxExecs,  \* bound: execs under one pid
          MaxQueue   \* bound: exec events the ring buffer holds

ASSUME GateAssumption ==
  /\ Matched \subseteq Images
  /\ GoTLS \subseteq Images
  /\ Gone \notin Images
  /\ MaxExecs \in Nat
  /\ MaxQueue \in Nat

VARIABLES image,        \* [pid -> what it executes, or Gone]
          execs,        \* [pid -> number of execs under it]
          stopped,      \* [pid -> held by SIGSTOP]
          probes,       \* [pid -> images whose uprobes fire in this process]
          events,       \* exec events under way to the daemon
          attachments,  \* pids that the loader holds links for
          gate,         \* the HandleMatch call under way: step, pid, exe, attached
          seenTLS       \* [pid -> Daemon's seenTLS, as far as the gate sets it]

procVars == <<image, execs, stopped, probes, events>>
vars == <<image, execs, stopped, probes, events, attachments, gate, seenTLS>>

Steps == {"idle", "inspect", "stop", "attach", "resume"}
Idle(g) == [g EXCEPT !.step = "idle", !.attached = FALSE]

Init ==
  /\ image = [p \in Pids |-> Gone]
  /\ execs = [p \in Pids |-> 0]
  /\ stopped = [p \in Pids |-> FALSE]
  /\ probes = [p \in Pids |-> {}]
  /\ events = <<>>
  /\ attachments = {}
  /\ gate \in [step : {"idle"}, pid : Pids, exe : Images, attached : {FALSE}]
  /\ seenTLS = [p \in Pids |-> FALSE]

-------------------------------------------------------------------------------
(* Processes *)

\* The tracepoint program drops an event that finds the ring buffer full.
Emitted(p) == IF Len(events) < MaxQueue THEN Append(events, p) ELSE events

\* A new process, or the next image of a running one: the uprobes are of files
\* and processes, they stay with the pid.
Exec(p, img) ==
  /\ execs[p] < MaxExecs
  /\ ~stopped[p]
  /\ image' = [image EXCEPT ![p] = img]
  /\ execs' = [execs EXCEPT ![p] = @ + 1]
  /\ events' = Emitted(p)
  /\ UNCHANGED <<stopped, probes, attachments, gate, seenTLS>>

\* A stopped process can still be killed.  The uprobes were for this process; a
\* later one with its pid is not probed.
Exit(p) ==
  /\ image[p] # Gone
  /\ image' = [image EXCEPT ![p] = Gone]
  /\ stopped' = [stopped EXCEPT ![p] = FALSE]
  /\ probes' = [probes EXCEPT ![p] = {}]
  /\ UNCHANGED <<execs, events, attachments, gate, seenTLS>>

-------------------------------------------------------------------------------
(* The daemon *)

MatchPID_ErrorIgnored(p) == image[p] \in Matched \cup {Gone}

\* The process is there and its executable has the target's name.
MatchPID(p) == image[p] \in Matched

\* handleProcessEvent: the executable is the one the pid has by now; a process
\* that is gone or not matched is passed over.
HandleExec ==
  /\ gate.step = "idle"
  /\ events # <<>>
  /\ events' = Tail(events)
  /\ LET p == Head(events)
     IN IF MatchPID(p)
        THEN /\ gate' = [step |-> "inspect", pid |-> p, exe |-> image[p], attached |-> FALSE]
             /\ seenTLS' = [seenTLS EXCEPT ![p] = FALSE]
        ELSE UNCHANGED <<gate, seenTLS>>
  /\ UNCHANGED <<image, execs, stopped, probes, attachments>>

AfterInspect_NoStop == "attach"

\* A supported program is stopped before it is probed.
AfterInspect == "stop"

AfterAttach_TriesAgain(ok) == IF ok THEN "resume" ELSE "stop"

AfterAttach_OnlySuccess(ok) == IF ok THEN "resume" ELSE "idle"

\* The deferred resume runs whatever became of the attach.
AfterAttach(ok) == "resume"

Outcome_ErrorLost(attached, resumed) == resumed

\* err == nil && attached
Outcome(attached, resumed) == attached /\ resumed

\* InspectGoBinary: the file can have become unreadable.
Inspect ==
  /\ gate.step = "inspect"
  /\ \/ gate' = Idle(gate)
     \/ /\ gate.exe \in GoTLS
        /\ gate' = [gate EXCEPT !.step = AfterInspect]
  /\ UNCHANGED <<procVars, attachments, seenTLS>>

\* kill(pid, SIGSTOP): to whatever process has the pid.
Stop ==
  /\ gate.step = "stop"
  /\ IF image[gate.pid] = Gone
     THEN gate' = Idle(gate) /\ UNCHANGED stopped
     ELSE /\ gate' = [gate EXCEPT !.step = "attach"]
          /\ stopped' = [stopped EXCEPT ![gate.pid] = TRUE]
  /\ UNCHANGED <<image, execs, probes, events, attachments, seenTLS>>

\* AttachProcess when the loader knows the pid: nothing is attached.
AttachKnown ==
  /\ gate.step = "attach"
  /\ gate.pid \in attachments
  /\ gate' = [gate EXCEPT !.step = AfterAttach(TRUE), !.attached = TRUE]
  /\ UNCHANGED <<procVars, attachments, seenTLS>>

AttachNew ==
  /\ gate.step = "attach"
  /\ gate.pid \notin attachments
  /\ image[gate.pid] # Gone
  /\ gate' = [gate EXCEPT !.step = AfterAttach(TRUE), !.attached = TRUE]
  /\ attachments' = attachments \cup {gate.pid}
  /\ probes' = [probes EXCEPT ![gate.pid] = @ \cup {gate.exe}]
  /\ UNCHANGED <<image, execs, stopped, events, seenTLS>>

\* A symbol, the file or the process is missing: the links made so far are closed.
AttachFails ==
  /\ gate.step = "attach"
  /\ gate.pid \notin attachments
  /\ gate' = [gate EXCEPT !.step = AfterAttach(FALSE)]
  /\ UNCHANGED <<procVars, attachments, seenTLS>>

\* kill(pid, SIGCONT) and the return to the daemon.
Resume ==
  /\ gate.step = "resume"
  /\ stopped' = [stopped EXCEPT ![gate.pid] = FALSE]
  /\ seenTLS' = [seenTLS EXCEPT ![gate.pid] =
                   Outcome(gate.attached, image[gate.pid] # Gone)]
  /\ gate' = Idle(gate)
  /\ UNCHANGED <<image, execs, probes, events, attachments>>

GateStep == Inspect \/ Stop \/ AttachKnown \/ AttachNew \/ AttachFails \/ Resume

Next ==
  \/ \E p \in Pids, img \in Images : Exec(p, img)
  \/ \E p \in Pids : Exit(p)
  \/ HandleExec
  \/ GateStep

Spec == Init /\ [][Next]_vars

\* HandleMatch runs to its end once called: it waits for nothing.
FairSpec == Spec /\ WF_vars(GateStep)

-------------------------------------------------------------------------------
TypeOK ==
  /\ image \in [Pids -> Images \cup {Gone}]
  /\ execs \in [Pids -> Nat]
  /\ stopped \in [Pids -> BOOLEAN]
  /\ probes \in [Pids -> SUBSET Images]
  /\ events \in Seq(Pids)
  /\ attachments \in SUBSET Pids
  /\ gate \in [step : Steps, pid : Pids, exe : Images, attached : BOOLEAN]
  /\ seenTLS \in [Pids -> BOOLEAN]

\* No process stays stopped on behalf of a gate that has gone on: whatever fails,
\* dies or changes its pid's owner in between, only the process under the gate's
\* hands is ever stopped.
NotLeftStopped ==
  \A p \in Pids : stopped[p] => gate.pid = p /\ gate.step \in {"attach", "resume"}

\* "The daemon must always resume the process, including attach failure paths."
AlwaysResumed == \A p \in Pids : stopped[p] ~> ~stopped[p]

\* A process is not running while its uprobes are put in place, so that it makes
\* no TLS call between the first and the last of them (as long as its pid is
\* nobody else's).
HeldWhileAttached ==
  [][\A p \in Pids : probes'[p] # probes[p] /\ execs[p] = 1 /\ image'[p] # Gone
                       => stopped[p]]_vars

\* When the daemon takes a Go process for probed, and so writes no "unsupported"
\* note at its exit, it is probed: for the first program under a pid.
FirstImageIsProbed ==
  \A p \in Pids : seenTLS[p] /\ execs[p] = 1 /\ image[p] # Gone => image[p] \in probes[p]

\* "Go TLS uprobes are attached to that PID and executable": for every program
\* whose exec the daemon has handled.  The loader's table of pids, from which
\* nothing is removed when a process ends or executes another program, breaks it.
AttachedIsProbed ==
  \A p \in Pids :
    /\ seenTLS[p]
    /\ image[p] \in Matched \cap GoTLS
    /\ \A i \in 1..Len(events) : events[i] # p
    /\ gate.pid = p => gate.step = "idle"
    => image[p] \in probes[p]
===============================================================================
