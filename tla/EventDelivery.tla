----------------------------- MODULE EventDelivery -----------------------------
(***************************************************************************)
(* What Daemon.Run, pkg/fcktls/daemon.go, promises of the events that its  *)
(* readers take from the kernel, whatever goroutines and channels carry    *)
(* them: an event is handled once or is still under way; a slow handler    *)
(* holds the readers back instead of losing events; and the handling ends  *)
(* because it was told to stop, because a reader broke, or because every   *)
(* stream has ended and everything is handled.  RunLoop implements it      *)
(* (RunLoop!Implements).                                                   *)
(***************************************************************************)
EXTENDS Naturals

CONSTANTS Streams,     \* one for each reader
          Room         \* events of a stream that may be under way

VARIABLES arrived,     \* number of events taken from each stream
          handled,     \* number of them that were handled
          ended,       \* streams from which nothing more is taken
          broken,      \* some reader has failed
          stopped,     \* the run was told to stop
          outcome      \* how the handling ended

vars == <<arrived, handled, ended, broken, stopped, outcome>>

Init ==
  /\ arrived = [s \in Streams |-> 0]
  /\ handled = [s \in Streams |-> 0]
  /\ ended \in SUBSET Streams
  /\ broken = FALSE
  /\ stopped = FALSE
  /\ outcome = "none"

Arrive(s) ==
  /\ s \notin ended
  /\ arrived[s] - handled[s] < Room[s]
  /\ arrived' = [arrived EXCEPT ![s] = @ + 1]
  /\ UNCHANGED <<handled, ended, broken, stopped, outcome>>

Handle(s) ==
  /\ outcome = "none"
  /\ handled[s] < arrived[s]
  /\ handled' = [handled EXCEPT ![s] = @ + 1]
  /\ UNCHANGED <<arrived, ended, broken, stopped, outcome>>

\* A stream ends, or breaks.
EndStream(s) ==
  /\ s \notin ended
  /\ ended' = ended \cup {s}
  /\ broken' \in {broken, TRUE}
  /\ UNCHANGED <<arrived, handled, stopped, outcome>>

Stop ==
  /\ stopped' = TRUE
  /\ UNCHANGED <<arrived, handled, ended, broken, outcome>>

Finish ==
  /\ outcome = "none"
  /\ \/ stopped /\ outcome' = "cancelled"
     \/ broken /\ outcome' = "error"
     \/ ended = Streams /\ handled = arrived /\ outcome' = "drained"
  /\ UNCHANGED <<arrived, handled, ended, broken, stopped>>

Next ==
  \/ \E s \in Streams : Arrive(s) \/ Handle(s) \/ EndStream(s)
  \/ Stop
  \/ Finish

Spec == Init /\ [][Next]_vars
===============================================================================
