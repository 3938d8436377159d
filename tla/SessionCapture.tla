---------------------------- MODULE SessionCapture ----------------------------
(***************************************************************************)
(* What the daemon of pkg/fcktls promises of the sessions it records,      *)
(* whatever events, probes, runtimes and processes there are: a session is *)
(* opened by the first event about it, what is recorded of it only grows,  *)
(* it is handed over once, whole, when it is closed, and nothing happens   *)
(* after the end.  Daemon implements it (Daemon!Implements).               *)
(***************************************************************************)
EXTENDS Naturals, Sequences

CONSTANT Sessions

VARIABLES open,      \* what is recorded of the sessions that are open
          closed,    \* the sessions the latest step handed over
          ended      \* the recording is over

StartsWith(t, s) == Len(s) <= Len(t) /\ SubSeq(t, 1, Len(s)) = s

Grows(old, new) ==
  /\ StartsWith(new.c2s, old.c2s)
  /\ StartsWith(new.s2c, old.s2c)
  /\ old.lines \subseteq new.lines

Init ==
  /\ open = [s \in {} |-> {}]
  /\ closed = {}
  /\ ended = FALSE

\* Something is observed of one session, which is opened if need be.
Observe(s) ==
  /\ ~ended
  /\ ended' = ended
  /\ closed' = {}
  /\ DOMAIN open' = DOMAIN open \cup {s}
  /\ \A t \in DOMAIN open \ {s} : open'[t] = open[t]
  /\ s \in DOMAIN open => Grows(open[s], open'[s])

\* Some sessions are closed and handed over as they are; this may end it all.
Close(S) ==
  /\ ~ended
  /\ ended' \in BOOLEAN
  /\ closed' = {<<s, open[s]>> : s \in S}
  /\ open' = [s \in DOMAIN open \ S |-> open[s]]

Next == \/ \E s \in Sessions : Observe(s)
        \/ \E S \in SUBSET DOMAIN open : Close(S)

Spec == Init /\ [][Next]_<<open, closed, ended>>
===============================================================================
