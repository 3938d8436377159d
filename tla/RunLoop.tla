-------------------------------- MODULE RunLoop --------------------------------
(***************************************************************************)
(* The goroutines of Daemon.Run, pkg/fcktls/daemon.go, and the channels    *)
(* between them.  One pump goroutine per ring-buffer reader reads events   *)
(* and sends them on a channel of its own; a pump that meets an error      *)
(* other than ErrClosed reports it on errCh, and every pump closes its     *)
(* channel when it ends.  Run selects over the channels, errCh, the        *)
(* context and the ticker until each channel has been closed and emptied.  *)
(* The loaders are closed twice: by the goroutine that waits for the       *)
(* context, and by Run's deferred calls.                                   *)
(*                                                                         *)
(* What the handlers do with an event is Daemon's; here an event is only   *)
(* counted.  The ticker's case changes nothing modelled here.              *)
(*                                                                         *)
(* An operator X_Y is a faulty variant of the operator X below it: what a  *)
(* slip in the code would make of X.  No behaviour of Spec uses one.       *)
(***************************************************************************)
EXTENDS Naturals, Sequences, FiniteSets

CONSTANTS Pumps,       \* one for each channel of events: seven in the code
          Optional,    \* pumps of GnuTLS, Go TLS and plaintext: may be absent
          Loaders,     \* sequence of sets: the pumps each loader feeds
          ChanCap,     \* capacity of a pump's channel: 32 or 64
          ErrCap,      \* capacity of errCh: 7
          MaxReads     \* bound: events each reader gives

ASSUME PumpsAssumption ==
  Pumps # {} /\ IsFiniteSet(Pumps) /\ Cardinality(Pumps) <= ErrCap
ASSUME CapsAssumption ==
  /\ ErrCap \in Nat
  /\ ChanCap \in [Pumps -> Nat \ {0}]
  /\ MaxReads \in [Pumps -> Nat]
ASSUME LoadersAssumption ==
  /\ Loaders \in Seq(SUBSET Pumps)
  /\ Optional \subseteq Pumps
  /\ \A p \in Pumps : \E i \in 1..Len(Loaders) : p \in Loaders[i]

VARIABLES pump,        \* where each pump goroutine is
          queue,       \* events in its channel
          nilled,      \* channels Run has seen closed and set to nil
          errs,        \* errors in errCh
          cancelled,   \* ctx is done
          closer,      \* loaders the context's goroutine has closed
          deferred,    \* loaders Run's deferred calls have closed
          main,        \* where Run is
          result,      \* what Run returns
          reads,       \* events each pump got from its reader
          handled      \* events of each pump Run has given to a handler

pumpVars == <<pump, queue, errs, reads>>
mainVars == <<nilled, main, result, deferred, handled>>
ctxVars  == <<cancelled, closer>>
vars == <<pumpVars, mainVars, ctxVars>>

Init ==
  /\ \E off \in SUBSET Optional :
       pump = [p \in Pumps |-> IF p \in off THEN "done" ELSE "read"]
  /\ queue = [p \in Pumps |-> 0]
  /\ nilled = {}
  /\ errs = 0
  /\ cancelled = FALSE
  /\ closer = 0
  /\ deferred = 0
  /\ main = "select"
  /\ result = "none"
  /\ reads = [p \in Pumps |-> 0]
  /\ handled = [p \in Pumps |-> 0]

\* The reader of pump p answers ErrClosed: the context's goroutine closes the
\* loaders in order, the deferred calls in the opposite order.
ReaderClosed_Deferred(p) == \E i \in 1..closer : p \in Loaders[i]

ReaderClosed(p) ==
  \E i \in 1..Len(Loaders) :
    /\ p \in Loaders[i]
    /\ i <= closer \/ i > Len(Loaders) - deferred

\* defer close(out): also the channels Run closes itself for absent pumps.
ChanClosed_Ended(p) == pump[p] \in {"close", "fail", "done"}

ChanClosed(p) == pump[p] = "done"

-------------------------------------------------------------------------------
(* The pumps *)

ReadEvent(p) ==
  /\ pump[p] = "read"
  /\ ~ReaderClosed(p)
  /\ reads[p] < MaxReads[p]
  /\ pump' = [pump EXCEPT ![p] = "send"]
  /\ reads' = [reads EXCEPT ![p] = @ + 1]
  /\ UNCHANGED <<queue, errs, mainVars, ctxVars>>

SendEvent_Drops(p) ==
  /\ pump[p] = "send"
  /\ pump' = [pump EXCEPT ![p] = "read"]
  /\ queue' = [queue EXCEPT ![p] = IF @ < ChanCap[p] THEN @ + 1 ELSE @]
  /\ UNCHANGED <<errs, reads, mainVars, ctxVars>>

\* out <- event, which waits while the channel is full.
SendEvent(p) ==
  /\ pump[p] = "send"
  /\ queue[p] < ChanCap[p]
  /\ pump' = [pump EXCEPT ![p] = "read"]
  /\ queue' = [queue EXCEPT ![p] = @ + 1]
  /\ UNCHANGED <<errs, reads, mainVars, ctxVars>>

SeeReaderClosed(p) ==
  /\ pump[p] = "read"
  /\ ReaderClosed(p)
  /\ pump' = [pump EXCEPT ![p] = "close"]
  /\ UNCHANGED <<queue, errs, reads, mainVars, ctxVars>>

\* A sample that does not decode, or an error of the ring buffer.
ReadFails(p) ==
  /\ pump[p] = "read"
  /\ ~ReaderClosed(p)
  /\ pump' = [pump EXCEPT ![p] = "fail"]
  /\ UNCHANGED <<queue, errs, reads, mainVars, ctxVars>>

\* The pump's way on after it reported an error.
AfterReport_Retry == "read"

AfterReport == "close"

\* errCh <- err, which would wait while errCh is full.
ReportError(p) ==
  /\ pump[p] = "fail"
  /\ errs < ErrCap
  /\ errs' = errs + 1
  /\ pump' = [pump EXCEPT ![p] = AfterReport]
  /\ UNCHANGED <<queue, reads, mainVars, ctxVars>>

CloseChan(p) ==
  /\ pump[p] = "close"
  /\ pump' = [pump EXCEPT ![p] = "done"]
  /\ UNCHANGED <<queue, errs, reads, mainVars, ctxVars>>

-------------------------------------------------------------------------------
(* The context *)

CancelContext ==
  /\ ~cancelled
  /\ cancelled' = TRUE
  /\ UNCHANGED <<closer, pumpVars, mainVars>>

\* The goroutine that waits for ctx.Done.
CloseNextLoader ==
  /\ cancelled
  /\ closer < Len(Loaders)
  /\ closer' = closer + 1
  /\ UNCHANGED <<cancelled, pumpVars, mainVars>>

-------------------------------------------------------------------------------
(* Run's select and its return *)

Receive_NoOk(p) ==
  /\ main = "select"
  /\ p \notin nilled
  /\ queue[p] > 0 \/ ChanClosed(p)
  /\ queue' = [queue EXCEPT ![p] = @ - 1]
  /\ handled' = [handled EXCEPT ![p] = @ + 1]
  /\ UNCHANGED <<pump, errs, reads, nilled, main, result, deferred, ctxVars>>

Receive(p) ==
  /\ main = "select"
  /\ p \notin nilled
  /\ queue[p] > 0
  /\ queue' = [queue EXCEPT ![p] = @ - 1]
  /\ handled' = [handled EXCEPT ![p] = @ + 1]
  /\ UNCHANGED <<pump, errs, reads, nilled, main, result, deferred, ctxVars>>

\* A receive with ok = FALSE sets the variable to nil; the loop ends when every
\* one is nil.
SeeClosed(p) ==
  /\ main = "select"
  /\ p \notin nilled
  /\ queue[p] = 0
  /\ ChanClosed(p)
  /\ nilled' = nilled \cup {p}
  /\ IF nilled' = Pumps THEN main' = "returning" /\ result' = "drained"
                        ELSE UNCHANGED <<main, result>>
  /\ UNCHANGED <<deferred, handled, pumpVars, ctxVars>>

TakeError_Continues ==
  /\ main = "select"
  /\ errs > 0
  /\ errs' = errs - 1
  /\ UNCHANGED <<pump, queue, reads, mainVars, ctxVars>>

TakeError ==
  /\ main = "select"
  /\ errs > 0
  /\ errs' = errs - 1
  /\ main' = "returning"
  /\ result' = "error"
  /\ UNCHANGED <<pump, queue, reads, nilled, deferred, handled, ctxVars>>

SeeCancelled ==
  /\ main = "select"
  /\ cancelled
  /\ main' = "returning"
  /\ result' = "cancelled"
  /\ UNCHANGED <<nilled, deferred, handled, pumpVars, ctxVars>>

DeferredClose_Joins ==
  /\ main = "returning"
  /\ IF deferred < Len(Loaders)
     THEN deferred' = deferred + 1 /\ UNCHANGED main
     ELSE /\ \A p \in Pumps : pump[p] = "done"
          /\ main' = "returned"
          /\ UNCHANGED deferred
  /\ UNCHANGED <<nilled, result, handled, pumpVars, ctxVars>>

\* The deferred Close calls, then the caller has Run's result.
DeferredClose ==
  /\ main = "returning"
  /\ IF deferred < Len(Loaders)
     THEN deferred' = deferred + 1 /\ UNCHANGED main
     ELSE main' = "returned" /\ UNCHANGED deferred
  /\ UNCHANGED <<nilled, result, handled, pumpVars, ctxVars>>

-------------------------------------------------------------------------------
\* What a pump does on its own; when its reader has an event or fails is left
\* to the kernel.
PumpStep(p) == SendEvent(p) \/ SeeReaderClosed(p) \/ ReportError(p) \/ CloseChan(p)

Pump(p) == PumpStep(p) \/ ReadEvent(p) \/ ReadFails(p)

Main == (\E p \in Pumps : Receive(p) \/ SeeClosed(p))
        \/ TakeError \/ SeeCancelled \/ DeferredClose

Terminated ==
  /\ main = "returned"
  /\ UNCHANGED vars

Next == (\E p \in Pumps : Pump(p)) \/ Main \/ CancelContext \/ CloseNextLoader
        \/ Terminated

Spec == Init /\ [][Next]_vars

\* Goroutines are scheduled fairly, and select chooses at random among the ready
\* cases: each case that stays ready is chosen at some time.
FairSpec ==
  /\ Spec
  /\ \A p \in Pumps : WF_vars(PumpStep(p)) /\ WF_vars(Receive(p)) /\ WF_vars(SeeClosed(p))
  /\ WF_vars(TakeError)
  /\ WF_vars(SeeCancelled)
  /\ WF_vars(DeferredClose)
  /\ WF_vars(CloseNextLoader)

-------------------------------------------------------------------------------
(* What the run loop promises *)

TypeOK ==
  /\ pump \in [Pumps -> {"read", "send", "fail", "close", "done"}]
  /\ queue \in [Pumps -> Nat]
  /\ \A p \in Pumps : queue[p] <= ChanCap[p]
  /\ nilled \subseteq Pumps
  /\ errs \in 0..ErrCap
  /\ cancelled \in BOOLEAN
  /\ closer \in 0..Len(Loaders)
  /\ deferred \in 0..Len(Loaders)
  /\ main \in {"select", "returning", "returned"}
  /\ result \in {"none", "drained", "error", "cancelled"}
  /\ reads \in [Pumps -> Nat]
  /\ handled \in [Pumps -> Nat]

\* A pump that has an error to report finds room in errCh, whether Run still
\* selects or has returned long ago: its capacity is one per pump and a pump
\* reports once, so no pump hangs in the report with its channel left open.
ErrChNeverBlocks == \A p \in Pumps : pump[p] = "fail" => errs < ErrCap

\* When the loop ends because every channel was closed, nothing a pump took from
\* its reader is left behind, in a channel or in the pump's hand, and nothing was
\* lost on the way: Run handled it all before the last flush.
DrainDeliversAll ==
  result = "drained" =>
    \A p \in Pumps : pump[p] = "done" /\ queue[p] = 0 /\ handled[p] = reads[p]

\* Run returns after the context is cancelled, however many events the rings
\* still hold.
StopsOnCancel == cancelled ~> main = "returned"

\* One failing reader ends Run, whatever the other ones do.
FailureEndsRun == \A p \in Pumps : pump[p] = "fail" ~> main = "returned"

\* After Run has returned, by whichever case, a pump ends too: no pump waits for
\* its reader for ever, and the only ones left hold an event for a full channel.
PumpsEnd ==
  \A p \in Pumps :
    main = "returned" ~> pump[p] = "done" \/ (pump[p] = "send" /\ queue[p] = ChanCap[p])

\* What the handlers get is what EventDelivery promises, whatever pumps,
\* channels and loaders there are: each event once, the ones under way bounded
\* by the channels, and an end only for a reason.
Delivery == INSTANCE EventDelivery WITH
  Streams <- Pumps,
  Room    <- [p \in Pumps |-> ChanCap[p] + 1],
  arrived <- reads,
  ended   <- {p \in Pumps : pump[p] \in {"fail", "close", "done"}},
  broken  <- (\E p \in Pumps : pump[p] = "fail") \/ errs > 0 \/ result = "error",
  stopped <- cancelled,
  outcome <- result

Implements == Delivery!Spec
===============================================================================
