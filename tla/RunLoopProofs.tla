----------------------------- MODULE RunLoopProofs -----------------------------
(***************************************************************************)
(* The channels of Run for any number of pumps and loaders.                *)
(***************************************************************************)
EXTENDS RunLoop, FiniteSetTheorems, TLAPS

\* The pumps that are past the only place where a pump reports an error.
Past == {p \in Pumps : pump[p] \in {"close", "done"}}

\* The event a pump has read and not yet sent.
InHand(p) == IF pump[p] = "send" THEN 1 ELSE 0

\* Every event a reader gave has been handled, is in the channel or is in the
\* pump's hand.
Conserved ==
  \A p \in Pumps : reads[p] = handled[p] + queue[p] + InHand(p)

\* Run is in its loop exactly as long as it has no result and some channel is not
\* nil, and it returns with every loader closed.
MainInv ==
  /\ main = "select" <=> result = "none"
  /\ main = "select" => nilled # Pumps
  /\ main = "returned" => deferred = Len(Loaders)

\* errCh holds at most one error of each pump that is past its report, and a
\* channel Run has set to nil is closed and empty for good.
BaseInv ==
  /\ TypeOK
  /\ errs <= Cardinality(Past)
  /\ \A p \in nilled : pump[p] = "done" /\ queue[p] = 0
  /\ result = "drained" => nilled = Pumps

IInv == BaseInv /\ Conserved /\ MainInv

\* The capacities and the number of loaders are numbers.
LEMMA CapsTypes ==
  /\ ErrCap \in Nat
  /\ Len(Loaders) \in Nat
  /\ \A p \in Pumps : ChanCap[p] \in Nat \ {0}
  BY CapsAssumption, LoadersAssumption

\* A set of pumps that misses one is smaller than errCh.
LEMMA RoomForOne ==
  ASSUME NEW S \in SUBSET Pumps, NEW p \in Pumps \ S
  PROVE  /\ Cardinality(S) \in Nat
         /\ Cardinality(S \cup {p}) = Cardinality(S) + 1
         /\ Cardinality(S) < ErrCap
<1>1. IsFiniteSet(Pumps) /\ Cardinality(Pumps) \in Nat
  BY PumpsAssumption, FS_CardinalityType
<1>2. IsFiniteSet(S) /\ Cardinality(S) \in Nat
  BY <1>1, FS_Subset, FS_CardinalityType
<1>3. Cardinality(S) < Cardinality(Pumps)
  <2>1. /\ Cardinality(S) <= Cardinality(Pumps)
        /\ Cardinality(Pumps) = Cardinality(S) => Pumps = S
    BY <1>1, FS_Subset
  <2>2. Pumps # S  OBVIOUS
  <2>3. QED  BY <1>1, <1>2, <2>1, <2>2
<1>4. Cardinality(S \cup {p}) = Cardinality(S) + 1
  BY <1>2, FS_AddElement
<1>5. QED  BY <1>1, <1>2, <1>3, <1>4, PumpsAssumption, CapsAssumption

\* The number of pumps past their report is a number.
LEMMA PastType == Past \subseteq Pumps /\ Cardinality(Past) \in Nat
<1>1. Past \subseteq Pumps  BY DEF Past
<1>2. QED  BY <1>1, PumpsAssumption, FS_Subset, FS_CardinalityType

\* A pump with an error to report is not past it, so the invariant leaves room.
LEMMA RoomToReport ==
  ASSUME IInv, NEW p \in Pumps, pump[p] = "fail"
  PROVE  errs < ErrCap
<1>1. p \in Pumps \ Past  BY DEF Past
<1>2. Cardinality(Past) < ErrCap  BY <1>1, PastType, RoomForOne
<1>3. QED  BY <1>2, PastType, CapsAssumption DEF IInv, BaseInv, TypeOK

\* A pump that does not move leaves the bound on errs alone.
LEMMA PastKept ==
  ASSUME UNCHANGED pump
  PROVE  Past' = Past
  BY DEF Past

\* A pump that moves among the places before the report changes nothing either.
LEMMA PastKeptBefore ==
  ASSUME TypeOK, NEW p \in Pumps, pump[p] \notin {"close", "done"},
         NEW q \in {"read", "send", "fail"}, pump' = [pump EXCEPT ![p] = q]
  PROVE  Past' = Past
  BY DEF Past, TypeOK

\* Every step of a pump keeps the invariant.
LEMMA PumpKeeps ==
  ASSUME IInv, NEW p \in Pumps, Pump(p)
  PROVE  BaseInv'
<1> USE DEF IInv, BaseInv, TypeOK, pumpVars, mainVars, ctxVars
<1>1. CASE ReadEvent(p)
  <2>1. Past' = Past  BY <1>1, PastKeptBefore DEF ReadEvent
  <2>2. QED  BY <1>1, <2>1 DEF ReadEvent
<1>2. CASE ReadFails(p)
  <2>1. Past' = Past  BY <1>2, PastKeptBefore DEF ReadFails
  <2>2. QED  BY <1>2, <2>1 DEF ReadFails
<1>3. CASE SendEvent(p)
  <2>1. Past' = Past  BY <1>3, PastKeptBefore DEF SendEvent
  <2>2. p \notin nilled  BY <1>3 DEF SendEvent
  <2>3. /\ queue'[p] = queue[p] + 1
        /\ \A r \in Pumps \ {p} : queue'[r] = queue[r] /\ pump'[r] = pump[r]
    BY <1>3 DEF SendEvent
  <2>4. queue[p] \in Nat /\ ChanCap[p] \in Nat /\ queue'[p] <= ChanCap[p]
    <3>1. queue[p] \in Nat  OBVIOUS
    <3>2. ChanCap[p] \in Nat  BY CapsTypes
    <3>3. queue[p] < ChanCap[p]  BY <1>3 DEF SendEvent
    <3>4. QED  BY <3>1, <3>2, <3>3, <2>3
  <2>5. \A r \in Pumps : queue'[r] <= ChanCap[r]
    BY <2>3, <2>4
  <2>6. queue' \in [Pumps -> Nat] /\ pump' \in [Pumps -> {"read", "send", "fail", "close", "done"}]
    BY <1>3, <2>4 DEF SendEvent
  <2>7. TypeOK'
    BY <1>3, <2>5, <2>6 DEF SendEvent
  <2>8. \A r \in nilled' : pump'[r] = "done" /\ queue'[r] = 0
    BY <1>3, <2>2, <2>3 DEF SendEvent
  <2>9. QED  BY <1>3, <2>1, <2>7, <2>8 DEF SendEvent
<1>4. CASE SeeReaderClosed(p)
  <2>1. Past' = Past \cup {p} /\ p \in Pumps \ Past
    BY <1>4 DEF SeeReaderClosed, Past
  <2>2. Cardinality(Past') = Cardinality(Past) + 1  BY <2>1, PastType, RoomForOne
  <2>3. QED  BY <1>4, <2>2, PastType DEF SeeReaderClosed
<1>5. CASE ReportError(p)
  <2>1. Past' = Past \cup {p} /\ p \in Pumps \ Past
    BY <1>5 DEF ReportError, AfterReport, Past
  <2>2. Cardinality(Past') = Cardinality(Past) + 1  BY <2>1, PastType, RoomForOne
  <2>3. QED  BY <1>5, <2>2, PastType, CapsAssumption DEF ReportError, AfterReport
<1>6. CASE CloseChan(p)
  <2>1. Past' = Past  BY <1>6 DEF CloseChan, Past
  <2>2. QED  BY <1>6, <2>1 DEF CloseChan
<1>7. QED  BY <1>1, <1>2, <1>3, <1>4, <1>5, <1>6 DEF Pump, PumpStep

\* So does every step of Run.
LEMMA MainKeeps ==
  ASSUME IInv, Main
  PROVE  BaseInv'
<1> USE DEF IInv, BaseInv, TypeOK, pumpVars, mainVars, ctxVars
<1>1. Past' = Past
  BY PastKept DEF Main, Receive, SeeClosed, TakeError, SeeCancelled, DeferredClose
<1>2. ASSUME NEW p \in Pumps, Receive(p)  PROVE BaseInv'
  <2>1. queue[p] \in Nat /\ queue[p] - 1 \in Nat /\ queue[p] <= ChanCap[p]
        /\ ChanCap[p] \in Nat
    BY <1>2, CapsTypes DEF Receive
  <2>2. queue' \in [Pumps -> Nat] /\ queue'[p] = queue[p] - 1
    BY <1>2, <2>1 DEF Receive
  <2>3. \A r \in Pumps \ {p} : queue'[r] = queue[r]
    BY <1>2 DEF Receive
  <2>4. ASSUME NEW r \in Pumps  PROVE queue'[r] <= ChanCap[r]
    <3>1. queue[r] \in Nat /\ queue[r] <= ChanCap[r] /\ ChanCap[r] \in Nat
      BY CapsTypes
    <3>2. CASE r = p  BY <2>1, <2>2, <3>2
    <3>3. CASE r # p  BY <2>3, <3>1, <3>3
    <3>4. QED  BY <3>2, <3>3
  <2>5. TypeOK'
    <3>1. handled' \in [Pumps -> Nat]  BY <1>2 DEF Receive
    <3>2. QED  BY <1>2, <2>2, <2>4, <3>1 DEF Receive
  <2>6. \A r \in nilled' : pump'[r] = "done" /\ queue'[r] = 0
    BY <1>2, <2>3 DEF Receive
  <2>7. QED  BY <1>1, <1>2, <2>5, <2>6 DEF Receive
<1>3. ASSUME NEW p \in Pumps, SeeClosed(p)  PROVE BaseInv'
  BY <1>1, <1>3 DEF SeeClosed, ChanClosed
<1>4. CASE TakeError
  BY <1>1, <1>4, PastType, CapsAssumption DEF TakeError
<1>5. CASE SeeCancelled
  BY <1>1, <1>5 DEF SeeCancelled
<1>6. CASE DeferredClose
  BY <1>1, <1>6, LoadersAssumption DEF DeferredClose
<1>7. QED  BY <1>2, <1>3, <1>4, <1>5, <1>6 DEF Main

\* The context's steps and the end leave the invariant's variables alone.
LEMMA ContextKeeps ==
  ASSUME IInv, CancelContext \/ CloseNextLoader \/ UNCHANGED vars
  PROVE  BaseInv'
<1> USE DEF IInv, BaseInv, TypeOK, pumpVars, mainVars, ctxVars
<1>1. Past' = Past
  BY PastKept DEF CancelContext, CloseNextLoader, vars
<1>2. closer' \in 0..Len(Loaders)
  <2>1. closer' = closer \/ (closer < Len(Loaders) /\ closer' = closer + 1)
    BY DEF CancelContext, CloseNextLoader, vars
  <2>2. QED  BY <2>1, CapsTypes
<1>3. UNCHANGED <<pumpVars, mainVars>>
  BY DEF CancelContext, CloseNextLoader, vars
<1>4. cancelled' \in BOOLEAN
  BY DEF CancelContext, CloseNextLoader, vars
<1>5. QED  BY <1>1, <1>2, <1>3, <1>4

\* A pump gains an event in its hand only from its reader and loses it only to
\* its channel.
LEMMA PumpConserves ==
  ASSUME IInv, NEW p \in Pumps, Pump(p)
  PROVE  Conserved'
<1> USE DEF IInv, BaseInv, TypeOK, Conserved, InHand, pumpVars, mainVars
<1>1. ASSUME NEW r \in Pumps
      PROVE  reads'[r] = handled'[r] + queue'[r] + InHand(r)'
  <2>1. reads[r] \in Nat /\ handled[r] \in Nat /\ queue[r] \in Nat
    OBVIOUS
  <2>2. CASE ReadEvent(p)
    BY <2>1, <2>2 DEF ReadEvent
  <2>3. CASE ReadFails(p)
    BY <2>1, <2>3 DEF ReadFails
  <2>4. CASE SendEvent(p)
    BY <2>1, <2>4 DEF SendEvent
  <2>5. CASE SeeReaderClosed(p) \/ ReportError(p) \/ CloseChan(p)
    BY <2>1, <2>5 DEF SeeReaderClosed, ReportError, CloseChan, AfterReport
  <2>6. QED  BY <2>2, <2>3, <2>4, <2>5 DEF Pump, PumpStep
<1>2. QED  BY <1>1

\* Run takes an event from a channel only to handle it.
LEMMA MainConserves ==
  ASSUME IInv, Main
  PROVE  Conserved'
<1> USE DEF IInv, BaseInv, TypeOK, Conserved, InHand, pumpVars, ctxVars
<1>1. ASSUME NEW p \in Pumps, Receive(p)  PROVE Conserved'
  <2>1. ASSUME NEW r \in Pumps
        PROVE  reads'[r] = handled'[r] + queue'[r] + InHand(r)'
    <3>1. reads[r] \in Nat /\ handled[r] \in Nat /\ queue[r] \in Nat
      OBVIOUS
    <3>2. QED  BY <1>1, <3>1 DEF Receive
  <2>2. QED  BY <2>1
<1>2. ASSUME NEW p \in Pumps, SeeClosed(p)  PROVE Conserved'
  BY <1>2 DEF SeeClosed
<1>3. CASE TakeError \/ SeeCancelled \/ DeferredClose
  BY <1>3 DEF TakeError, SeeCancelled, DeferredClose
<1>4. QED  BY <1>1, <1>2, <1>3 DEF Main

\* Run leaves its loop with a result, and returns when all loaders are closed.
LEMMA MainMoves ==
  ASSUME IInv, Main
  PROVE  MainInv'
<1> USE DEF IInv, BaseInv, TypeOK, MainInv, pumpVars, ctxVars
<1>1. ASSUME NEW p \in Pumps, Receive(p)  PROVE MainInv'
  BY <1>1 DEF Receive
<1>2. ASSUME NEW p \in Pumps, SeeClosed(p)  PROVE MainInv'
  BY <1>2 DEF SeeClosed
<1>3. CASE TakeError \/ SeeCancelled
  BY <1>3 DEF TakeError, SeeCancelled
<1>4. CASE DeferredClose
  BY <1>4, CapsTypes DEF DeferredClose
<1>5. QED  BY <1>1, <1>2, <1>3, <1>4 DEF Main

\* Nothing else moves Run, and nothing else but a pump or Run moves an event.
LEMMA OthersKeep ==
  /\ IInv /\ (\E p \in Pumps : Pump(p)) => MainInv'
  /\ IInv /\ (CancelContext \/ CloseNextLoader \/ UNCHANGED vars)
       => Conserved' /\ MainInv'
<1> USE DEF IInv, MainInv, pumpVars, mainVars
<1>1. IInv /\ (\E p \in Pumps : Pump(p)) => MainInv'
  BY DEF Pump, PumpStep, ReadEvent, ReadFails, SendEvent, SeeReaderClosed,
         ReportError, CloseChan
<1>2. IInv /\ (CancelContext \/ CloseNextLoader \/ UNCHANGED vars)
        => Conserved' /\ MainInv'
  BY DEF Conserved, InHand, CancelContext, CloseNextLoader, vars
<1>3. QED  BY <1>1, <1>2

\* At the start errCh is empty and no channel is nil.
LEMMA InitInv == Init => IInv
<1>1. SUFFICES ASSUME Init PROVE IInv  OBVIOUS
<1>2. 0 \in 0..ErrCap /\ 0 \in 0..Len(Loaders)  BY CapsTypes
<1>3. pump \in [Pumps -> {"read", "send", "fail", "close", "done"}]
  BY <1>1 DEF Init
<1>4. \A p \in Pumps : queue[p] \in Nat /\ queue[p] <= ChanCap[p]
  BY <1>1, CapsTypes DEF Init
<1>5. TypeOK  BY <1>1, <1>2, <1>3, <1>4 DEF Init, TypeOK
<1>6. errs <= Cardinality(Past)  BY <1>1, PastType DEF Init
<1>7. Conserved  BY <1>1 DEF Init, Conserved, InHand
<1>8. MainInv  BY <1>1, PumpsAssumption DEF Init, MainInv
<1>9. QED  BY <1>1, <1>5, <1>6, <1>7, <1>8 DEF Init, IInv, BaseInv

\* The invariant holds of every reachable state.
THEOREM Inductive == Spec => []IInv
<1>1. ASSUME IInv, [Next]_vars  PROVE IInv'
  <2>1. ASSUME NEW p \in Pumps, Pump(p)  PROVE IInv'
    BY <1>1, <2>1, PumpKeeps, PumpConserves, OthersKeep DEF IInv
  <2>2. CASE Main
    BY <1>1, <2>2, MainKeeps, MainConserves, MainMoves DEF IInv
  <2>3. CASE CancelContext \/ CloseNextLoader \/ UNCHANGED vars
    BY <1>1, <2>3, ContextKeeps, OthersKeep DEF IInv
  <2>4. QED  BY <1>1, <2>1, <2>2, <2>3 DEF Next, Terminated
<1>2. QED  BY <1>1, InitInv, PTL DEF Spec

\* Type correctness, with each channel within its capacity.
THEOREM TypeCorrect == Spec => []TypeOK
<1>1. IInv => TypeOK  BY DEF IInv, BaseInv
<1>2. QED  BY <1>1, Inductive, PTL

\* No pump ever waits to report its error: errCh has a place for each (errCh of
\* Run, whose capacity is the number of pumps).
THEOREM ErrorsFit == Spec => []ErrChNeverBlocks
<1>1. IInv => ErrChNeverBlocks  BY RoomToReport DEF ErrChNeverBlocks
<1>2. QED  BY <1>1, Inductive, PTL

\* At every moment each event a reader gave has been handled, once, or is in the
\* pump's channel or the pump's hand: no interleaving of pumps, closers and Run
\* loses or doubles one.
THEOREM NothingLost == Spec => []Conserved
<1>1. IInv => Conserved  BY DEF IInv
<1>2. QED  BY <1>1, Inductive, PTL

\* A loop that ends by itself has received and handled all that was read.
THEOREM DrainComplete == Spec => []DrainDeliversAll
<1>1. ASSUME IInv, result = "drained", NEW p \in Pumps
      PROVE  pump[p] = "done" /\ queue[p] = 0 /\ handled[p] = reads[p]
  <2>1. pump[p] = "done" /\ queue[p] = 0
    BY <1>1 DEF IInv, BaseInv
  <2>2. reads[p] = handled[p] + queue[p] + InHand(p) /\ InHand(p) = 0
    BY <1>1, <2>1 DEF IInv, Conserved, InHand
  <2>3. handled[p] \in Nat
    BY <1>1 DEF IInv, BaseInv, TypeOK
  <2>4. QED  BY <2>1, <2>2, <2>3
<1>2. IInv => DrainDeliversAll  BY <1>1 DEF DrainDeliversAll
<1>3. QED  BY <1>2, Inductive, PTL

-------------------------------------------------------------------------------
(* What the liveness of the run rests on *)

\* A pump that is not done has a step that nothing blocks, or waits for its open
\* reader, or holds an event for a full channel; and that channel Run, if it is
\* still in its loop, can receive from.  Run listens to some channel as long as it
\* is in its loop.
NeverStuck ==
  /\ main = "select" => nilled # Pumps
  /\ \A p \in Pumps :
       \/ pump[p] = "done"
       \/ pump[p] = "close"
       \/ pump[p] = "fail" /\ errs < ErrCap
       \/ pump[p] = "read"
       \/ pump[p] = "send" /\ queue[p] < ChanCap[p]
       \/ pump[p] = "send" /\ queue[p] > 0 /\ p \notin nilled

\* Run, its pumps and errCh never block each other: a pump waits for the kernel
\* or for a receive that Run is ready to make, and Run for a pump that moves
\* (the select of Run, the pumps).
THEOREM NoDeadlock == Spec => []NeverStuck
<1>1. ASSUME IInv  PROVE NeverStuck
  <2>1. main = "select" => nilled # Pumps
    BY <1>1 DEF IInv, MainInv
  <2>2. ASSUME NEW p \in Pumps
        PROVE  \/ pump[p] \in {"done", "close", "read"}
               \/ pump[p] = "fail" /\ errs < ErrCap
               \/ pump[p] = "send" /\ queue[p] < ChanCap[p]
               \/ pump[p] = "send" /\ queue[p] > 0 /\ p \notin nilled
    <3>1. queue[p] \in Nat /\ pump[p] \in {"read", "send", "fail", "close", "done"}
      BY <1>1 DEF IInv, BaseInv, TypeOK
    <3>2. pump[p] = "fail" => errs < ErrCap
      BY <1>1, RoomToReport
    <3>3. pump[p] = "send" => p \notin nilled
      BY <1>1 DEF IInv, BaseInv
    <3>4. queue[p] = 0 => queue[p] < ChanCap[p]
      BY CapsTypes
    <3>5. QED  BY <3>1, <3>2, <3>3, <3>4
  <2>3. QED  BY <2>1, <2>2 DEF NeverStuck
<1>2. QED  BY <1>1, Inductive, PTL

\* The steps a pump can still take once its reader is closed.
StepsLeft == [send |-> 3, read |-> 2, fail |-> 2, close |-> 1, done |-> 0]

WindsDown ==
  [][main = "returned" =>
       \A p \in Pumps :
         /\ reads'[p] = reads[p]
         /\ pump'[p] = pump[p] \/ StepsLeft[pump'[p]] < StepsLeft[pump[p]]]_vars

\* Once Run has returned every reader is closed, whether or not the context was
\* ever cancelled.
LEMMA AllReadersClosed ==
  ASSUME IInv, main = "returned", NEW p \in Pumps
  PROVE  ReaderClosed(p)
<1>1. PICK i \in 1..Len(Loaders) : p \in Loaders[i]
  BY LoadersAssumption
<1>2. deferred = Len(Loaders)
  BY DEF IInv, MainInv
<1>3. i > Len(Loaders) - deferred
  BY <1>1, <1>2, CapsTypes
<1>4. QED  BY <1>1, <1>3 DEF ReaderClosed

\* A pump that outlives Run takes no event any more and has at most three steps
\* left: send, see the reader closed, close its channel (the deferred Close calls
\* and the pumps).  What PumpsEnd needs besides is that the scheduler is fair.
THEOREM PumpsWindDown == Spec => WindsDown
<1> DEFINE A == main = "returned" =>
                  \A p \in Pumps :
                    /\ reads'[p] = reads[p]
                    /\ pump'[p] = pump[p] \/ StepsLeft[pump'[p]] < StepsLeft[pump[p]]
<1>1. ASSUME IInv, Next  PROVE A
  <2>1. SUFFICES ASSUME main = "returned", NEW r \in Pumps
                 PROVE  /\ reads'[r] = reads[r]
                        /\ pump'[r] = pump[r] \/ StepsLeft[pump'[r]] < StepsLeft[pump[r]]
    OBVIOUS
  <2> USE DEF StepsLeft, IInv, BaseInv, TypeOK, pumpVars, mainVars
  <2>2. ASSUME NEW p \in Pumps, PumpStep(p)
        PROVE  /\ reads'[r] = reads[r]
               /\ pump'[r] = pump[r] \/ StepsLeft[pump'[r]] < StepsLeft[pump[r]]
    BY <1>1, <2>2 DEF PumpStep, SendEvent, SeeReaderClosed, ReportError, CloseChan, AfterReport
  <2>3. ASSUME NEW p \in Pumps, ReadEvent(p) \/ ReadFails(p)  PROVE FALSE
    BY <1>1, <2>1, <2>3, AllReadersClosed DEF ReadEvent, ReadFails
  <2>4. CASE CancelContext \/ CloseNextLoader \/ Terminated
    BY <2>4 DEF CancelContext, CloseNextLoader, Terminated, vars
  <2>5. CASE Main
    BY <2>1, <2>5 DEF Main, Receive, SeeClosed, TakeError, SeeCancelled, DeferredClose
  <2>6. QED  BY <1>1, <2>2, <2>3, <2>4, <2>5 DEF Next, Pump
<1>2. IInv /\ [Next]_vars => [A]_vars  BY <1>1
<1>3. QED  BY <1>2, Inductive, PTL DEF Spec, WindsDown

-------------------------------------------------------------------------------
(* The run loop implements EventDelivery *)

\* The streams that have ended and whether one has broken, in EventDelivery's
\* sense.
EndedPumps == {p \in Pumps : pump[p] \in {"fail", "close", "done"}}

Broken == (\E p \in Pumps : pump[p] = "fail") \/ errs > 0 \/ result = "error"

\* At the start nothing has arrived, and the absent pumps have ended.
LEMMA InitRefines == Init => Delivery!Init
<1>1. SUFFICES ASSUME Init PROVE Delivery!Init  OBVIOUS
<1>2. \A p \in Pumps : pump[p] # "fail"  BY <1>1 DEF Init
<1>3. (Broken) = FALSE  BY <1>1, <1>2 DEF Init, Broken
<1>4. EndedPumps \in SUBSET Pumps  BY DEF EndedPumps
<1>5. QED  BY <1>1, <1>3, <1>4 DEF Init, Delivery!Init, EndedPumps, Broken

\* A step that leaves the counts, the ends, the breaks, the context and the result
\* alone is no step of the delivery.
LEMMA Stutters ==
  ASSUME UNCHANGED <<reads, handled, cancelled, result>>,
         EndedPumps' = EndedPumps, Broken' = Broken
  PROVE  UNCHANGED Delivery!vars
BY DEF Delivery!vars, EndedPumps, Broken

\* A pump that has no event in its hand has room for one more in its channel.
LEMMA RoomUnderWay ==
  ASSUME IInv, NEW p \in Pumps, pump[p] = "read"
  PROVE  reads[p] - handled[p] < ChanCap[p] + 1
<1>1. reads[p] = handled[p] + queue[p] /\ queue[p] <= ChanCap[p]
  BY DEF IInv, BaseInv, TypeOK, Conserved, InHand
<1>2. queue[p] \in Nat /\ handled[p] \in Nat /\ ChanCap[p] \in Nat
  BY CapsTypes DEF IInv, BaseInv, TypeOK
<1>3. QED  BY <1>1, <1>2

\* Reading takes an event in, or ends or breaks the stream; the rest of a pump's
\* work is not seen.
LEMMA PumpRefines ==
  ASSUME IInv, NEW p \in Pumps, Pump(p)
  PROVE  [Delivery!Next]_(Delivery!vars)
<1> USE DEF IInv, BaseInv, TypeOK, pumpVars, mainVars, ctxVars
<1>1. CASE ReadEvent(p)
  <2>1. EndedPumps' = EndedPumps /\ p \notin EndedPumps /\ Broken' = Broken
    BY <1>1 DEF ReadEvent, EndedPumps, Broken
  <2>2. reads[p] - handled[p] < [q \in Pumps |-> ChanCap[q] + 1][p]
    BY <1>1, RoomUnderWay DEF ReadEvent
  <2>3. Delivery!Arrive(p)
    BY <1>1, <2>1, <2>2 DEF ReadEvent, Delivery!Arrive, EndedPumps, Broken
  <2>4. QED  BY <2>3 DEF Delivery!Next
<1>2. CASE ReadFails(p) \/ SeeReaderClosed(p)
  <2>1. p \notin EndedPumps /\ EndedPumps' = EndedPumps \cup {p}
    BY <1>2 DEF ReadFails, SeeReaderClosed, EndedPumps
  <2>2. Broken' \in {Broken, TRUE}
    <3>1. CASE ReadFails(p)
      BY <3>1 DEF ReadFails, Broken
    <3>2. CASE SeeReaderClosed(p)
      BY <3>2 DEF SeeReaderClosed, Broken
    <3>3. QED  BY <1>2, <3>1, <3>2
  <2>3. UNCHANGED <<reads, handled, cancelled, result>>
    BY <1>2 DEF ReadFails, SeeReaderClosed
  <2>4. Delivery!EndStream(p)
    BY <2>1, <2>2, <2>3 DEF Delivery!EndStream, EndedPumps, Broken
  <2>5. QED  BY <2>4 DEF Delivery!Next
<1>3. CASE SendEvent(p) \/ ReportError(p) \/ CloseChan(p)
  <2>1. UNCHANGED <<reads, handled, cancelled, result>>
    BY <1>3 DEF SendEvent, ReportError, CloseChan
  <2>2. EndedPumps' = EndedPumps
    BY <1>3 DEF SendEvent, ReportError, CloseChan, AfterReport, EndedPumps
  <2>3. Broken' = Broken
    <3>1. CASE SendEvent(p) \/ CloseChan(p)
      BY <3>1 DEF SendEvent, CloseChan, Broken
    <3>2. CASE ReportError(p)
      <4>1. errs' > 0 /\ pump[p] = "fail"
        BY <3>2, CapsTypes DEF ReportError
      <4>2. QED  BY <4>1 DEF Broken
    <3>3. QED  BY <1>3, <3>1, <3>2
  <2>4. QED  BY <2>1, <2>2, <2>3, Stutters
<1>4. QED  BY <1>1, <1>2, <1>3 DEF Pump, PumpStep

\* Receiving handles an event, leaving the loop finishes the delivery with the
\* reason it needs, and the deferred calls are not seen.
LEMMA MainRefines ==
  ASSUME IInv, IInv', Main
  PROVE  [Delivery!Next]_(Delivery!vars)
<1> USE DEF pumpVars, ctxVars
<1>1. EndedPumps' = EndedPumps
  BY DEF Main, Receive, SeeClosed, TakeError, SeeCancelled, DeferredClose, EndedPumps
<1>2. main = "select" => result = "none"
  BY DEF IInv, MainInv
<1>3. ASSUME NEW p \in Pumps, Receive(p)  PROVE [Delivery!Next]_(Delivery!vars)
  <2>1. Broken' = Broken
    BY <1>3 DEF Receive, Broken
  <2>2. handled[p] < reads[p]
    <3>1. reads[p] = handled[p] + queue[p] + InHand(p) /\ queue[p] > 0
      BY <1>3 DEF Receive, IInv, Conserved
    <3>2. handled[p] \in Nat /\ queue[p] \in Nat /\ InHand(p) \in Nat
      BY DEF IInv, BaseInv, TypeOK, InHand
    <3>3. QED  BY <3>1, <3>2
  <2>3. Delivery!Handle(p)
    BY <1>1, <1>2, <1>3, <2>1, <2>2 DEF Receive, Delivery!Handle, EndedPumps, Broken
  <2>4. QED  BY <2>3 DEF Delivery!Next
<1>4. ASSUME NEW p \in Pumps, SeeClosed(p)  PROVE [Delivery!Next]_(Delivery!vars)
  <2>1. CASE nilled' = Pumps
    <3>1. result = "none" /\ result' = "drained"
      BY <1>2, <1>4, <2>1 DEF SeeClosed
    <3>2. Broken' = Broken
      BY <1>4, <3>1 DEF SeeClosed, Broken
    <3>3. \A q \in Pumps : pump'[q] = "done" /\ queue'[q] = 0
      BY <2>1 DEF IInv, BaseInv
    <3>4. UNCHANGED <<reads, handled, cancelled, pump, queue>>
      BY <1>4 DEF SeeClosed
    <3>5. EndedPumps = Pumps
      BY <3>3, <3>4 DEF EndedPumps
    <3>6. handled = reads
      <4>1. reads \in [Pumps -> Nat] /\ handled \in [Pumps -> Nat]
        BY DEF IInv, BaseInv, TypeOK
      <4>2. \A q \in Pumps : reads[q] = handled[q]
        BY <3>3, <3>4, <4>1 DEF IInv, Conserved, InHand
      <4>3. QED  BY <4>1, <4>2
    <3>7. Delivery!Finish
      BY <1>1, <3>1, <3>2, <3>4, <3>5, <3>6 DEF Delivery!Finish, EndedPumps, Broken
    <3>8. QED  BY <3>7 DEF Delivery!Next
  <2>2. CASE nilled' # Pumps
    <3>1. UNCHANGED <<reads, handled, cancelled, result>> /\ Broken' = Broken
      BY <1>4, <2>2 DEF SeeClosed, Broken
    <3>2. QED  BY <1>1, <3>1, Stutters
  <2>3. QED  BY <2>1, <2>2
<1>5. CASE TakeError
  <2>1. result = "none" /\ result' = "error" /\ Broken = TRUE /\ Broken' = TRUE
    BY <1>2, <1>5 DEF TakeError, Broken
  <2>2. Delivery!Finish
    BY <1>1, <1>5, <2>1 DEF TakeError, Delivery!Finish, EndedPumps, Broken
  <2>3. QED  BY <2>2 DEF Delivery!Next
<1>6. CASE SeeCancelled
  <2>1. result = "none" /\ result' = "cancelled" /\ cancelled /\ Broken' = Broken
    BY <1>2, <1>6 DEF SeeCancelled, Broken
  <2>2. Delivery!Finish
    BY <1>1, <1>6, <2>1 DEF SeeCancelled, Delivery!Finish, EndedPumps, Broken
  <2>3. QED  BY <2>2 DEF Delivery!Next
<1>7. CASE DeferredClose
  <2>1. UNCHANGED <<reads, handled, cancelled, result>> /\ Broken' = Broken
    BY <1>7 DEF DeferredClose, Broken
  <2>2. QED  BY <1>1, <2>1, Stutters
<1>8. QED  BY <1>3, <1>4, <1>5, <1>6, <1>7 DEF Main

\* Every step of the run loop is a step of the delivery or is not seen by it.
LEMMA StepRefines ==
  ASSUME IInv, IInv', [Next]_vars
  PROVE  [Delivery!Next]_(Delivery!vars)
<1>1. ASSUME NEW p \in Pumps, Pump(p)  PROVE [Delivery!Next]_(Delivery!vars)
  BY <1>1, PumpRefines
<1>2. CASE Main
  BY <1>2, MainRefines
<1>3. CASE CancelContext
  <2>1. Delivery!Stop
    BY <1>3 DEF CancelContext, Delivery!Stop, pumpVars, mainVars
  <2>2. QED  BY <2>1 DEF Delivery!Next
<1>4. CASE CloseNextLoader \/ Terminated \/ UNCHANGED vars
  BY <1>4 DEF CloseNextLoader, Terminated, vars, pumpVars, mainVars, ctxVars, Delivery!vars
<1>5. QED  BY <1>1, <1>2, <1>3, <1>4 DEF Next

\* The run loop implements EventDelivery: whatever pumps, channels, closers and
\* failures there are, each event that was read is handled once or is still under
\* way, and the loop ends for one of three reasons (Run and its goroutines).
THEOREM Refines == Spec => Implements
<1>1. IInv /\ IInv' /\ [Next]_vars => [Delivery!Next]_(Delivery!vars)
  BY StepRefines
<1>2. QED  BY <1>1, InitRefines, Inductive, PTL DEF Spec, Implements, Delivery!Spec
===============================================================================
