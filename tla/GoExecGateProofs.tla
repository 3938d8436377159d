---------------------------- MODULE GoExecGateProofs ----------------------------
(* Proofs about the exec gate: no process stays stopped, none is probed while *)
(* it runs, and the first program of a pid taken for probed is probed.        *)
EXTENDS GoExecGate, TLAPS

USE GateAssumption

\* While the gate is between the stop and the resume of a pid that no other
\* process has had, that process is stopped or has died.
Held ==
  \A p \in Pids :
    gate.pid = p /\ gate.step \in {"attach", "resume"} /\ execs[p] = 1 /\ image[p] # Gone
      => stopped[p]

\* What the gate is about to report, and what it has reported.
Probed ==
  \A p \in Pids :
    execs[p] = 1 /\ image[p] # Gone =>
      /\ p \in attachments => image[p] \in probes[p]
      /\ gate.pid = p /\ gate.step # "idle" => gate.exe = image[p]
      /\ seenTLS[p] => p \in attachments
      /\ gate.pid = p /\ gate.attached => p \in attachments

\* A pid that has had no process has left no trace.
Untouched ==
  \A p \in Pids : 
    /\ image[p] # Gone => execs[p] > 0
    /\ execs[p] = 0 => /\ p \notin attachments
                       /\ ~seenTLS[p]
                       /\ gate.pid = p => gate.step = "idle" /\ ~gate.attached

IInv == TypeOK /\ NotLeftStopped /\ Held /\ Probed /\ Untouched

-------------------------------------------------------------------------------
\* The inductive invariant holds at the start.
LEMMA InitIInv == Init => IInv
<1> SUFFICES ASSUME Init PROVE IInv
  OBVIOUS
<1> USE DEF Init, TypeOK
<1>1. TypeOK
  <2>1. gate \in [step : Steps, pid : Pids, exe : Images, attached : BOOLEAN]
    BY DEF Steps
  <2>2. events \in Seq(Pids) /\ attachments \in SUBSET Pids
    OBVIOUS
  <2>3. image \in [Pids -> Images \cup {Gone}] /\ execs \in [Pids -> Nat]
    OBVIOUS
  <2>4. stopped \in [Pids -> BOOLEAN] /\ seenTLS \in [Pids -> BOOLEAN]
    OBVIOUS
  <2>5. probes \in [Pids -> SUBSET Images]
    OBVIOUS
  <2> QED
    BY <2>1, <2>2, <2>3, <2>4, <2>5
<1>2. NotLeftStopped
  BY DEF NotLeftStopped
<1>3. Held /\ Probed
  BY DEF Held, Probed
<1>4. Untouched
  BY DEF Untouched
<1> QED
  BY <1>1, <1>2, <1>3, <1>4 DEF IInv

\* The next value of the queue of events is a queue of events.
LEMMA QueueType ==
  ASSUME TypeOK, NEW p \in Pids
  PROVE  Emitted(p) \in Seq(Pids)
BY DEF TypeOK, Emitted

\* Executing a program preserves the invariant: the pid's second program is
\* outside of what Held and Probed claim, its first one finds nothing there.
LEMMA ExecIInv ==
  ASSUME IInv, NEW p \in Pids, NEW img \in Images, Exec(p, img)
  PROVE  IInv'
<1>1. TypeOK'
  BY QueueType DEF IInv, TypeOK, Exec
<1>2. NotLeftStopped'
  BY DEF IInv, NotLeftStopped, Exec
<1>3. Held'
  BY DEF IInv, TypeOK, Held, Untouched, Exec
<1>4. Probed'
  BY DEF IInv, TypeOK, Probed, Untouched, Exec
<1>5. Untouched'
  BY DEF IInv, TypeOK, Untouched, Exec
<1> QED
  BY <1>1, <1>2, <1>3, <1>4, <1>5 DEF IInv

\* The end of a process preserves the invariant.
LEMMA ExitIInv ==
  ASSUME IInv, NEW p \in Pids, Exit(p)
  PROVE  IInv'
<1>1. TypeOK'
  BY DEF IInv, TypeOK, Exit
<1>2. NotLeftStopped'
  BY DEF IInv, TypeOK, NotLeftStopped, Exit
<1>3. Held' /\ Probed' /\ Untouched'
  BY DEF IInv, TypeOK, Held, Probed, Untouched, Exit
<1> QED
  BY <1>1, <1>2, <1>3 DEF IInv

\* Taking an exec event preserves the invariant: the gate was idle, so nothing
\* is stopped, and it starts with the program the process has.
LEMMA HandleExecIInv ==
  ASSUME IInv, HandleExec
  PROVE  IInv'
<1> DEFINE p == Head(events)
<1>1. p \in Pids /\ events' \in Seq(Pids)
  BY DEF IInv, TypeOK, HandleExec
<1>2. CASE MatchPID(p)
  <2>1. /\ gate' = [step |-> "inspect", pid |-> p, exe |-> image[p], attached |-> FALSE]
        /\ seenTLS' = [seenTLS EXCEPT ![p] = FALSE]
        /\ image[p] \in Images /\ image[p] # Gone
    BY <1>2 DEF HandleExec, MatchPID
  <2>2. TypeOK'
    BY <1>1, <2>1 DEF IInv, TypeOK, HandleExec, Steps
  <2>3. NotLeftStopped' /\ Held'
    BY <1>1, <2>1 DEF IInv, TypeOK, HandleExec, NotLeftStopped, Held
  <2>4. Probed' /\ Untouched'
    BY <1>1, <2>1 DEF IInv, TypeOK, HandleExec, Probed, Untouched
  <2> QED
    BY <2>2, <2>3, <2>4 DEF IInv
<1>3. CASE ~MatchPID(p)
  BY <1>1, <1>3 DEF IInv, TypeOK, HandleExec, NotLeftStopped, Held, Probed, Untouched
<1> QED
  BY <1>2, <1>3

\* Each step of the gate preserves the type invariant.
LEMMA GateType ==
  ASSUME IInv, GateStep
  PROVE  TypeOK'
<1> USE DEF IInv, TypeOK, Steps, procVars, Idle, AfterAttach
<1>1. CASE Inspect
  BY <1>1 DEF Inspect, AfterInspect
<1>2. CASE Stop
  <2>1. CASE image[gate.pid] = Gone
    BY <1>2, <2>1 DEF Stop
  <2>2. CASE image[gate.pid] # Gone
    <3>1. gate' \in [step : Steps, pid : Pids, exe : Images, attached : BOOLEAN]
      <4>1. gate' = [gate EXCEPT !.step = "attach"]
        BY <1>2, <2>2 DEF Stop
      <4> QED
        BY <4>1
    <3>2. stopped' \in [Pids -> BOOLEAN]
      BY <1>2, <2>2 DEF Stop
    <3> QED
      BY <1>2, <3>1, <3>2 DEF Stop
  <2> QED
    BY <2>1, <2>2
<1>3. CASE AttachKnown
  BY <1>3 DEF AttachKnown
<1>4. CASE AttachNew
  BY <1>4 DEF AttachNew
<1>5. CASE AttachFails
  BY <1>5 DEF AttachFails
<1>6. CASE Resume
  BY <1>6 DEF Resume, Outcome
<1> QED
  BY <1>1, <1>2, <1>3, <1>4, <1>5, <1>6 DEF GateStep

\* Each step of the gate stops no process but the one it then resumes.
LEMMA GateHolds ==
  ASSUME IInv, GateStep
  PROVE  NotLeftStopped' /\ Held'
<1> USE DEF IInv, TypeOK, NotLeftStopped, Held, procVars, Idle, AfterAttach
<1>1. CASE Inspect
  BY <1>1 DEF Inspect, AfterInspect
<1>2. CASE Stop
  <2>1. CASE image[gate.pid] = Gone
    BY <1>2, <2>1 DEF Stop
  <2>2. CASE image[gate.pid] # Gone
    <3>1. /\ gate'.pid = gate.pid /\ gate'.step = "attach"
          /\ stopped' = [stopped EXCEPT ![gate.pid] = TRUE]
          /\ image' = image /\ execs' = execs
      BY <1>2, <2>2 DEF Stop
    <3>2. \A p \in Pids : ~stopped[p]
      BY <1>2 DEF Stop
    <3> QED
      BY <3>1, <3>2
  <2> QED
    BY <2>1, <2>2
<1>3. CASE AttachKnown
  BY <1>3 DEF AttachKnown
<1>4. CASE AttachNew
  BY <1>4 DEF AttachNew
<1>5. CASE AttachFails
  BY <1>5 DEF AttachFails
<1>6. CASE Resume
  BY <1>6 DEF Resume
<1> QED
  BY <1>1, <1>2, <1>3, <1>4, <1>5, <1>6 DEF GateStep

\* Each step of the gate keeps what it knows about the first programs.
LEMMA GateProbes ==
  ASSUME IInv, GateStep
  PROVE  Probed' /\ Untouched'
<1> USE DEF IInv, TypeOK, Probed, Untouched, procVars, Idle, AfterAttach
<1>1. CASE Inspect
  BY <1>1 DEF Inspect, AfterInspect
<1>2. CASE Stop
  BY <1>2 DEF Stop
<1>3. CASE AttachKnown
  BY <1>3 DEF AttachKnown
<1>4. CASE AttachNew
  BY <1>4 DEF AttachNew
<1>5. CASE AttachFails
  BY <1>5 DEF AttachFails
<1>6. CASE Resume
  BY <1>6 DEF Resume, Outcome
<1> QED
  BY <1>1, <1>2, <1>3, <1>4, <1>5, <1>6 DEF GateStep

\* The conjunction of the four is an inductive invariant of the gate.
THEOREM Inductive == Spec => []IInv
<1>1. IInv /\ [Next]_vars => IInv'
  <2> SUFFICES ASSUME IInv, [Next]_vars PROVE IInv'
    OBVIOUS
  <2>1. ASSUME NEW p \in Pids, NEW img \in Images, Exec(p, img) PROVE IInv'
    BY <2>1, ExecIInv
  <2>2. ASSUME NEW p \in Pids, Exit(p) PROVE IInv'
    BY <2>2, ExitIInv
  <2>3. CASE HandleExec
    BY <2>3, HandleExecIInv
  <2>4. CASE GateStep
    BY <2>4, GateType, GateHolds, GateProbes DEF IInv
  <2>5. CASE UNCHANGED vars
    BY <2>5 DEF vars, IInv, TypeOK, NotLeftStopped, Held, Probed, Untouched
  <2> QED
    BY <2>1, <2>2, <2>3, <2>4, <2>5 DEF Next
<1> QED
  BY InitIInv, <1>1, PTL DEF Spec

\* Every variable of the gate and of the processes keeps its type: the gate never
\* holds on to an executable it failed to resolve.
THEOREM TypeCorrect == Spec => []TypeOK
<1>1. IInv => TypeOK
  BY DEF IInv
<1> QED
  BY Inductive, <1>1, PTL

\* No process stays stopped: at any time only the one under the gate's hands is,
\* for any number of processes, kills, re-executions and reused pids.
THEOREM NoneLeftStopped == Spec => []NotLeftStopped
<1>1. IInv => NotLeftStopped
  BY DEF IInv
<1> QED
  BY Inductive, <1>1, PTL

\* The first program of a pid that the daemon takes for probed is probed.
THEOREM FirstImageCorrect == Spec => []FirstImageIsProbed
<1>1. IInv => FirstImageIsProbed
  BY DEF IInv, Probed, FirstImageIsProbed
<1> QED
  BY Inductive, <1>1, PTL

\* Uprobes are put into a process only while it is held.
THEOREM HeldCorrect == Spec => HeldWhileAttached
<1> DEFINE A == \A p \in Pids : probes'[p] # probes[p] /\ execs[p] = 1 /\ image'[p] # Gone
                                 => stopped[p]
<1>1. IInv /\ [Next]_vars => [A]_vars
  <2> SUFFICES ASSUME IInv, Next PROVE A
    OBVIOUS
  <2> USE DEF IInv, TypeOK
  <2>1. ASSUME NEW p \in Pids, NEW img \in Images, Exec(p, img) PROVE A
    BY <2>1 DEF Exec
  <2>2. ASSUME NEW p \in Pids, Exit(p) PROVE A
    BY <2>2 DEF Exit
  <2>3. CASE HandleExec
    BY <2>3 DEF HandleExec
  <2>4. CASE AttachNew
    BY <2>4 DEF AttachNew, Held
  <2>5. CASE Inspect \/ Stop \/ AttachKnown \/ AttachFails \/ Resume
    BY <2>5 DEF Inspect, Stop, AttachKnown, AttachFails, Resume, procVars
  <2> QED
    BY <2>1, <2>2, <2>3, <2>4, <2>5 DEF Next, GateStep
<1> QED
  BY Inductive, <1>1, PTL DEF Spec, HeldWhileAttached

-------------------------------------------------------------------------------
\* The steps the gate has still to make in one HandleMatch.
StepsLeft ==
  CASE gate.step = "inspect" -> 4
    [] gate.step = "stop"    -> 3
    [] gate.step = "attach"  -> 2
    [] gate.step = "resume"  -> 1
    [] OTHER                 -> 0

\* The gate goes straight to its end: each of its steps leaves fewer to make,
\* only a call by the idle daemon starts it again, and the processes neither delay
\* nor turn it - so that a process is held for two steps of the gate, the last of
\* which lets it go (AlwaysResumed without the fairness).
HeldBriefly ==
  [][/\ GateStep => StepsLeft' < StepsLeft
     /\ ~GateStep => gate' = gate \/ (HandleExec /\ StepsLeft = 0)
     /\ \A p \in Pids : stopped[p] =>
          /\ StepsLeft \in {1, 2}
          /\ GateStep /\ StepsLeft = 1 => ~stopped'[p]
          /\ ~GateStep => gate' = gate]_vars

\* A step of the gate leaves fewer.
LEMMA GateForward ==
  ASSUME TypeOK, GateStep
  PROVE  StepsLeft' < StepsLeft
<1> USE DEF TypeOK, StepsLeft, Steps, Idle, AfterAttach, AfterInspect
<1>1. CASE Inspect
  <2>1. gate.step = "inspect" /\ gate'.step \in {"idle", "stop"}
    BY <1>1 DEF Inspect
  <2> QED
    BY <2>1
<1>2. CASE Stop
  <2>1. gate.step = "stop" /\ gate'.step \in {"idle", "attach"}
    BY <1>2 DEF Stop
  <2> QED
    BY <2>1
<1>3. CASE AttachKnown \/ AttachNew \/ AttachFails
  <2>1. gate.step = "attach" /\ gate'.step = "resume"
    BY <1>3 DEF AttachKnown, AttachNew, AttachFails
  <2> QED
    BY <2>1
<1>4. CASE Resume
  <2>1. gate.step = "resume" /\ gate'.step = "idle"
    BY <1>4 DEF Resume
  <2> QED
    BY <2>1
<1> QED
  BY <1>1, <1>2, <1>3, <1>4 DEF GateStep

\* No process is held longer than the gate takes to attach and resume.
THEOREM ResumedInTwoSteps == Spec => HeldBriefly
<1> DEFINE A ==
  /\ GateStep => StepsLeft' < StepsLeft
  /\ ~GateStep => gate' = gate \/ (HandleExec /\ StepsLeft = 0)
  /\ \A p \in Pids : stopped[p] =>
       /\ StepsLeft \in {1, 2}
       /\ GateStep /\ StepsLeft = 1 => ~stopped'[p]
       /\ ~GateStep => gate' = gate
<1>1. IInv /\ [Next]_vars => [A]_vars
  <2> SUFFICES ASSUME IInv, Next PROVE A
    OBVIOUS
  <2> USE DEF IInv
  <2>1. GateStep => StepsLeft' < StepsLeft
    BY GateForward
  <2>2. ~GateStep => gate' = gate \/ (HandleExec /\ gate.step = "idle")
    BY DEF Next, Exec, Exit, HandleExec
  <2>3. ASSUME NEW p \in Pids, stopped[p]
        PROVE  gate.pid = p /\ gate.step \in {"attach", "resume"}
    BY <2>3 DEF NotLeftStopped
  <2>4. ASSUME NEW p \in Pids, stopped[p], GateStep, StepsLeft = 1
        PROVE  ~stopped'[p]
    <3>1. gate.pid = p /\ gate.step = "resume"
      BY <2>3, <2>4 DEF StepsLeft
    <3>2. Resume
      BY <2>4, <3>1 DEF GateStep, Inspect, Stop, AttachKnown, AttachNew, AttachFails
    <3> QED
      BY <3>1, <3>2 DEF Resume, TypeOK
  <2> QED
    BY <2>1, <2>2, <2>3, <2>4 DEF StepsLeft
<1> QED
  BY Inductive, <1>1, PTL DEF Spec, HeldBriefly
================================================================================
