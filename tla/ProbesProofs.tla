------------------------------ MODULE ProbesProofs ------------------------------
(* Proof that a call is reported once, for any number of threads, probed      *)
(* functions, nested calls and attached copies of the programs.               *)
EXTENDS Probes, TLAPS

USE SizesAssumption

Entry  == [fn : Fns, conn : Conns, len : Lengths, paired : BOOLEAN]
Call   == [fn : Fns, conn : Conns, paired : BOOLEAN, skipped : BOOLEAN,
           evicted : BOOLEAN, shadowedBy : SUBSET BOOLEAN]
Event  == [fn : Fns, conn : Conns, length : Nat]
Returning == [rc : Results, left : Nat, events : Seq(Event), dropped : BOOLEAN]

ProbesType ==
  /\ hook \in [Fns -> {"none", "enter", "both"}]
  /\ calls \in [Threads -> Seq(Call)]
  /\ returning \in [Threads -> Returning \cup {Nothing}]
  /\ pending \in [Maps \X Threads -> Entry \cup {Nothing}]

\* A call returns only while it is one.
InACall == \A t \in Threads : returning[t] # Nothing => calls[t] # <<>>

\* Once the returning call has been reported, its pending entry is gone.
ReportedOnce ==
  \A t \in Threads :
    returning[t] # Nothing =>
      \/ returning[t].events = <<>>
      \/ Len(returning[t].events) = 1 /\ pending[Slot(Top(t).fn, t)] = Nothing

PInv == ProbesType /\ InACall /\ ReportedOnce

On(c) == MapOf[c.fn]

-------------------------------------------------------------------------------
\* The slot of a probed function is a slot of the pending maps, and the slots of
\* two threads differ.
LEMMA SlotType ==
  ASSUME NEW fn \in Fns, NEW t \in Threads
  PROVE  /\ Slot(fn, t) \in Maps \X Threads
         /\ \A g \in Fns, u \in Threads : u # t => Slot(g, u) # Slot(fn, t)
BY DEF Slot, Maps

\* The innermost call is a call.
LEMMA TopType ==
  ASSUME ProbesType, NEW t \in Threads, calls[t] # <<>>
  PROVE  Top(t) \in Call
BY DEF ProbesType, Top

\* An event's length is a natural number.
LEMMA LengthType ==
  ASSUME NEW rc \in Nat, NEW len \in Nat
  PROVE  PayloadLength(rc, len) \in Nat
BY DEF PayloadLength

\* What a return program makes of a return under way is one again, with the
\* same events if it reports nothing.
LEMMA ReturnType ==
  ASSUME NEW r \in Returning, r.left > 0
  PROVE  /\ [r EXCEPT !.left = @ - 1] \in Returning
         /\ [r EXCEPT !.left = @ - 1, !.dropped = TRUE] \in Returning
         /\ [r EXCEPT !.left = @ - 1].events = r.events
         /\ [r EXCEPT !.left = @ - 1, !.dropped = TRUE].events = r.events
<1>1. r.left - 1 \in Nat
  BY DEF Returning
<1>2. [r EXCEPT !.left = r.left - 1] \in Returning
  BY <1>1, Zenon DEF Returning
<1>3. [r EXCEPT !.left = r.left - 1, !.dropped = TRUE] \in Returning
  BY <1>1, Zenon DEF Returning
<1> QED
  BY <1>2, <1>3, Zenon DEF Returning

\* Likewise if it reports an event.
LEMMA ReportType ==
  ASSUME NEW r \in Returning, r.left > 0, NEW e \in Event
  PROVE  LET sent == [r EXCEPT !.left = @ - 1, !.events = Append(@, e)]
         IN sent \in Returning /\ sent.events = Append(r.events, e)
<1> DEFINE more == Append(r.events, e)
<1>1. r.left - 1 \in Nat /\ more \in Seq(Event)
  BY DEF Returning
<1> HIDE DEF more
<1>2. [r EXCEPT !.left = r.left - 1, !.events = more] \in Returning
  BY <1>1, Zenon DEF Returning
<1>3. [r EXCEPT !.left = r.left - 1, !.events = more].events = more
  BY Zenon DEF Returning
<1> QED
  BY <1>2, <1>3, Zenon DEF more

\* What a return program that finds an entry makes of the return.
LEMMA ReportedType ==
  ASSUME NEW r \in Returning, r.left > 0, NEW fn \in Fns, NEW entry \in Entry,
         NEW room \in BOOLEAN
  PROVE  LET new == Reported(r, fn, entry, room)
         IN new \in Returning /\ (new.events = r.events \/ \E x \in Event : new.events = Append(r.events, x))
<1> DEFINE e == [fn |-> entry.fn, conn |-> entry.conn,
                 length |-> PayloadLength(r.rc, entry.len)]
           unsent == [r EXCEPT !.left = @ - 1]
           dropped == [r EXCEPT !.left = @ - 1, !.dropped = TRUE]
           sent == [r EXCEPT !.left = @ - 1, !.events = Append(@, e)]
           new == Reported(r, fn, entry, room)
<1>1. e \in Event
  <2>1. r.rc \in Nat /\ entry.len \in Nat /\ entry.fn \in Fns /\ entry.conn \in Conns
    BY DEF Entry, Returning
  <2>2. PayloadLength(r.rc, entry.len) \in Nat
    BY <2>1, LengthType
  <2> QED
    BY <2>1, <2>2, Zenon DEF Event
<1>2. new = unsent \/ new = dropped \/ new = sent
  BY Zenon DEF Reported
<1> HIDE DEF e
<1>3. /\ unsent \in Returning /\ unsent.events = r.events
      /\ dropped \in Returning /\ dropped.events = r.events
  BY ReturnType, Zenon
<1>4. sent \in Returning /\ sent.events = Append(r.events, e)
  BY <1>1, ReportType, Zenon
<1> HIDE DEF unsent, dropped, sent, new
<1>5. new \in Returning /\ (new.events = r.events \/ \E x \in Event : new.events = Append(r.events, x))
  BY <1>1, <1>2, <1>3, <1>4, Zenon
<1> QED
  BY <1>5, Zenon DEF new

\* Entering a call preserves the invariant: it is not the caller's time to report,
\* and the slots of the other threads are others.
LEMMA EnterPInv ==
  ASSUME PInv, NEW t \in Threads, NEW fn \in Fns, NEW conn \in Conns, NEW len \in Lengths,
         NEW asks \in BOOLEAN, Enter(t, fn, conn, len, asks)
  PROVE  PInv'
<1> DEFINE paired == hook[fn] = "both"
           kept == hook[fn] # "none" /\ asks
           shadow(c) == IF (kept \/ paired) /\ MapOf[c.fn] = MapOf[fn]
                        THEN [c EXCEPT !.shadowedBy = @ \cup {paired}]
                        ELSE c
           new == [fn |-> fn, conn |-> conn, paired |-> paired, skipped |-> paired /\ ~kept,
                   evicted |-> FALSE, shadowedBy |-> {}]
           marked == [i \in 1..Len(calls[t]) |-> shadow(calls[t][i])]
<1>1. /\ returning[t] = Nothing
      /\ calls' = [calls EXCEPT ![t] = Append(marked, new)]
      /\ pending' = IF kept
                    THEN [pending EXCEPT ![Slot(fn, t)] =
                            [fn |-> fn, conn |-> conn, len |-> len, paired |-> paired]]
                    ELSE pending
      /\ UNCHANGED <<hook, returning>>
  BY DEF Enter, Left
<1>2. ProbesType'
  <2>1. calls[t] \in Seq(Call)
    BY DEF PInv, ProbesType
  <2>2. \A c \in Call : shadow(c) \in Call
    <3> HIDE DEF kept
    <3> QED
      BY DEF Call
  <2>3. marked \in Seq(Call)
    <3> HIDE DEF shadow
    <3> QED
      BY <2>1, <2>2
  <2>4. paired \in BOOLEAN /\ kept \in BOOLEAN
    OBVIOUS
  <2>5. new \in Call
    <3> HIDE DEF paired, kept
    <3> QED
      BY <2>4, Zenon DEF Call
  <2>6. Append(marked, new) \in Seq(Call)
    <3> HIDE DEF marked, new
    <3> QED
      BY <2>3, <2>5
  <2>7. calls' \in [Threads -> Seq(Call)]
    <3> HIDE DEF marked, new
    <3> QED
      BY <1>1, <2>6 DEF PInv, ProbesType
  <2>8. [fn |-> fn, conn |-> conn, len |-> len, paired |-> paired] \in Entry
    BY <2>4, Zenon DEF Entry
  <2>9. pending' \in [Maps \X Threads -> Entry \cup {Nothing}]
    <3> HIDE DEF paired, kept
    <3> QED
      BY <1>1, <2>8, SlotType DEF PInv, ProbesType
  <2> QED
    BY <1>1, <2>7, <2>9 DEF PInv, ProbesType
<1>3. ASSUME NEW u \in Threads, returning'[u] # Nothing
      PROVE  /\ calls'[u] # <<>>
             /\ \/ returning'[u].events = <<>>
                \/ Len(returning'[u].events) = 1 /\ pending'[Slot(Top(u)'.fn, u)] = Nothing
  <2>1. u # t /\ returning'[u] = returning[u] /\ calls'[u] = calls[u]
    <3> HIDE DEF marked, new
    <3> QED
      BY <1>1, <1>3 DEF PInv, ProbesType
  <2>2. calls[u] # <<>> /\ Top(u)' = Top(u)
    BY <1>3, <2>1 DEF PInv, InACall, Top
  <2>3. Top(u).fn \in Fns
    BY <2>2, TopType DEF PInv, Call
  <2>4. pending'[Slot(Top(u).fn, u)] = pending[Slot(Top(u).fn, u)]
    <3> HIDE DEF kept
    <3> QED
      BY <1>1, <2>1, <2>3, SlotType DEF PInv, ProbesType
  <2> QED
    BY <1>3, <2>1, <2>2, <2>4 DEF PInv, ReportedOnce
<1> QED
  BY <1>2, <1>3 DEF PInv, InACall, ReportedOnce, Slot

\* An eviction takes an entry and marks calls; it reports nothing.
LEMMA EvictPInv ==
  ASSUME PInv, NEW m \in Maps, NEW t \in Threads, Evict(m, t)
  PROVE  /\ PInv'
         /\ \A u \in Threads : u # t => calls'[u] = calls[u]
         /\ calls'[t] = [i \in 1..Len(calls[t]) |->
              IF On(calls[t][i]) = m THEN [calls[t][i] EXCEPT !.evicted = TRUE]
                                     ELSE calls[t][i]]
<1> DEFINE lose(c) == IF On(c) = m THEN [c EXCEPT !.evicted = TRUE] ELSE c
           st == calls[t]
           lost == [i \in 1..Len(st) |-> lose(st[i])]
<1>1. /\ calls' = [calls EXCEPT ![t] = lost]
      /\ pending' = [pending EXCEPT ![<<m, t>>] = Nothing]
      /\ UNCHANGED <<hook, returning>>
  BY DEF Evict, On
<1>2. st \in Seq(Call)
  BY DEF PInv, ProbesType
<1>3. \A c \in Call : lose(c) \in Call /\ lose(c).fn = c.fn
  BY DEF Call
<1> HIDE DEF lose
<1>4. /\ lost \in Seq(Call) /\ Len(lost) = Len(st)
      /\ \A i \in 1..Len(st) : lost[i].fn = st[i].fn
  BY <1>2, <1>3
<1> HIDE DEF lost, st
<1>5. calls'[t] = lost /\ \A u \in Threads : u # t => calls'[u] = calls[u]
  BY <1>1 DEF PInv, ProbesType
<1>6. ProbesType'
  <2>1. calls' \in [Threads -> Seq(Call)]
    BY <1>1, <1>4 DEF PInv, ProbesType
  <2>2. pending' \in [Maps \X Threads -> Entry \cup {Nothing}]
    BY <1>1 DEF PInv, ProbesType
  <2>3. QED  BY <1>1, <2>1, <2>2 DEF PInv, ProbesType
<1>7. ASSUME NEW u \in Threads, returning[u] # Nothing
      PROVE  calls'[u] # <<>> /\ Top(u)'.fn = Top(u).fn /\ Top(u).fn \in Fns
  <2>1. calls[u] # <<>> /\ Top(u).fn \in Fns
    BY <1>7, TopType DEF PInv, InACall, Call
  <2>2. CASE u = t
    <3>1. Len(st) \in Nat \ {0} /\ Len(st) \in 1..Len(st)
      BY <1>2, <2>1, <2>2 DEF st
    <3>2. lost # <<>>
      BY <1>4, <3>1
    <3>3. lost[Len(lost)].fn = st[Len(st)].fn
      BY <1>4, <3>1
    <3>4. QED  BY <1>5, <2>1, <2>2, <3>2, <3>3 DEF Top, st
  <2>3. CASE u # t
    BY <1>5, <2>1, <2>3 DEF Top
  <2>4. QED  BY <2>2, <2>3
<1>8. ASSUME NEW u \in Threads, returning[u] # Nothing, pending[Slot(Top(u).fn, u)] = Nothing
      PROVE  pending'[Slot(Top(u)'.fn, u)] = Nothing
  <2>1. Slot(Top(u).fn, u) \in Maps \X Threads /\ Top(u)'.fn = Top(u).fn
    BY <1>7, <1>8, SlotType
  <2>2. QED  BY <1>1, <1>8, <2>1 DEF PInv, ProbesType
<1>9. PInv'
  BY <1>1, <1>6, <1>7, <1>8 DEF PInv, InACall, ReportedOnce, Slot
<1>10. QED  BY <1>5, <1>9 DEF lost, lose, st

\* The start of a return, and the end of a call, preserve the invariant.
LEMMA ReturnsPInv ==
  ASSUME PInv, NEW t \in Threads,
         ReturnUnseen(t) \/ Returned(t) \/ \E rc \in Results : Return(t, rc)
  PROVE  PInv'
<1> USE DEF PInv
<1>1. CASE ReturnUnseen(t) \/ Returned(t)
  <2>1. /\ calls[t] # <<>>
        /\ calls' = [calls EXCEPT ![t] = SubSeq(calls[t], 1, Len(calls[t]) - 1)]
        /\ returning' = [returning EXCEPT ![t] = Nothing]
        /\ UNCHANGED <<hook, pending>>
    BY <1>1 DEF ReturnUnseen, Returned, Popped, ProbesType, InACall
  <2>2. SubSeq(calls[t], 1, Len(calls[t]) - 1) \in Seq(Call)
    BY DEF ProbesType
  <2>3. ProbesType'
    BY <2>1, <2>2 DEF ProbesType
  <2>4. \A u \in Threads : returning'[u] # Nothing =>
           u # t /\ returning'[u] = returning[u] /\ calls'[u] = calls[u]
    BY <2>1 DEF ProbesType
  <2> QED
    BY <2>1, <2>3, <2>4 DEF InACall, ReportedOnce, Slot, Top
<1>2. ASSUME NEW rc \in Results, Return(t, rc) PROVE PInv'
  <2>1. /\ calls[t] # <<>>
        /\ returning' = [returning EXCEPT ![t] =
             [rc |-> rc, left |-> Copies, events |-> <<>>, dropped |-> FALSE]]
        /\ UNCHANGED <<hook, calls, pending>>
    BY <1>2 DEF Return
  <2>2. [rc |-> rc, left |-> Copies, events |-> <<>>, dropped |-> FALSE] \in Returning
    BY DEF Returning
  <2>3. ProbesType'
    BY <2>1, <2>2 DEF ProbesType
  <2>4. returning'[t].events = <<>>
    BY <2>1 DEF ProbesType
  <2>5. \A u \in Threads : u # t => returning'[u] = returning[u]
    BY <2>1 DEF ProbesType
  <2> QED
    BY <2>1, <2>3, <2>4, <2>5 DEF InACall, ReportedOnce, Slot, Top
<1> QED
  BY <1>1, <1>2

\* A return program preserves the invariant: it reports a call only if it finds
\* the pending entry, and then takes it away.
LEMMA ReturnProgramPInv ==
  ASSUME PInv, NEW t \in Threads, NEW room \in BOOLEAN, ReturnProgram(t, room)
  PROVE  PInv'
<1> DEFINE r == returning[t]
           slot == Slot(Top(t).fn, t)
           entry == pending[slot]
<1> USE DEF PInv
<1>1. r \in Returning /\ r.left > 0 /\ calls[t] # <<>>
  BY DEF ReturnProgram, ProbesType, InACall
<1>2. Top(t).fn \in Fns /\ slot \in Maps \X Threads
  BY <1>1, TopType, SlotType DEF Call
<1>3. /\ returning' = [returning EXCEPT ![t] =
           IF entry = Nothing THEN [r EXCEPT !.left = @ - 1]
                              ELSE Reported(r, Top(t).fn, entry, room)]
      /\ pending' = [pending EXCEPT ![slot] = Nothing]
      /\ UNCHANGED <<hook, calls>>
  BY DEF ReturnProgram, Taken
<1>4. /\ returning'[t] \in Returning
      /\ \/ returning'[t].events = r.events
         \/ entry # Nothing /\ \E x \in Event : returning'[t].events = Append(r.events, x)
  <2>1. CASE entry = Nothing
    <3>1. returning'[t] = [r EXCEPT !.left = @ - 1]
      BY <1>3, <2>1, Zenon DEF ProbesType
    <3> QED
      BY <1>1, <3>1, ReturnType, Zenon
  <2>2. CASE entry # Nothing
    <3>1. returning'[t] = Reported(r, Top(t).fn, entry, room)
      BY <1>3, <2>2, Zenon DEF ProbesType
    <3>2. entry \in Entry
      BY <1>2, <2>2 DEF ProbesType
    <3> DEFINE new == Reported(r, Top(t).fn, entry, room)
    <3>3. new \in Returning /\ (new.events = r.events \/ \E x \in Event : new.events = Append(r.events, x))
      BY <1>1, <1>2, <3>2, ReportedType
    <3> HIDE DEF new
    <3> QED
      BY <2>2, <3>1, <3>3, Zenon DEF new
  <2> QED
    BY <2>1, <2>2
<1>5. ProbesType'
  <2>1. \A u \in Threads : u # t => returning'[u] = returning[u]
    BY <1>3 DEF ProbesType
  <2>2. returning' \in [Threads -> Returning \cup {Nothing}]
    BY <1>3, <1>4, <2>1 DEF ProbesType
  <2> QED
    BY <1>2, <1>3, <2>2 DEF ProbesType
<1>6. ASSUME NEW u \in Threads, u # t
      PROVE  returning'[u] = returning[u]
             /\ (returning[u] # Nothing =>
                   pending'[Slot(Top(u).fn, u)] = pending[Slot(Top(u).fn, u)])
  <2>1. returning'[u] = returning[u]
    BY <1>3, <1>6 DEF ProbesType
  <2>2. ASSUME returning[u] # Nothing
        PROVE  pending'[Slot(Top(u).fn, u)] = pending[Slot(Top(u).fn, u)]
    <3>1. Top(u).fn \in Fns
      BY <2>2, TopType DEF InACall, Call
    <3> QED
      BY <1>2, <1>3, <1>6, <3>1, SlotType DEF ProbesType
  <2> QED
    BY <2>1, <2>2
<1>7. pending'[slot] = Nothing
  BY <1>2, <1>3 DEF ProbesType
<1>8. returning'[t].events = <<>> \/ Len(returning'[t].events) = 1
  <2>1. returning[t] # Nothing
    BY DEF ReturnProgram
  <2>2. CASE r.events = <<>>
    <3>1. \A x \in Event : Len(Append(<<>>, x)) = 1
      OBVIOUS
    <3> QED
      BY <1>4, <2>2, <3>1
  <2>3. CASE r.events # <<>>
    BY <1>4, <2>1, <2>3 DEF ReportedOnce
  <2> QED
    BY <2>2, <2>3
<1>9. Top(t)' = Top(t) /\ \A u \in Threads : Top(u)' = Top(u)
  BY <1>3 DEF Top
<1>10. InACall'
  BY <1>1, <1>3, <1>6 DEF InACall
<1>11. ReportedOnce'
  BY <1>6, <1>7, <1>8, <1>9 DEF ReportedOnce, Slot
<1> QED
  BY <1>5, <1>10, <1>11

\* The pairing of entries and returns has the invariant PInv.
THEOREM Pairing == Spec => []PInv
<1>1. ASSUME Init PROVE PInv
  <2>1. ProbesType
    BY <1>1 DEF Init, ProbesType
  <2> QED
    BY <1>1, <2>1 DEF Init, PInv, InACall, ReportedOnce
<1>2. PInv /\ [Next]_vars => PInv'
  <2> SUFFICES ASSUME PInv, [Next]_vars PROVE PInv'
    OBVIOUS
  <2>1. ASSUME NEW fn \in Fns, AttachEnter(fn) \/ AttachReturn(fn) PROVE PInv'
    BY <2>1 DEF AttachEnter, AttachReturn, PInv, ProbesType, InACall, ReportedOnce, Slot, Top
  <2>2. ASSUME NEW t \in Threads, ThreadStep(t) PROVE PInv'
    BY <2>2, EnterPInv, ReturnsPInv, ReturnProgramPInv DEF ThreadStep
  <2>4. ASSUME NEW t \in Threads, NEW m \in Maps, Evict(m, t) PROVE PInv'
    BY <2>4, EvictPInv
  <2>3. CASE UNCHANGED vars
    BY <2>3 DEF vars, PInv, ProbesType, InACall, ReportedOnce, Slot, Top
  <2> QED
    BY <2>1, <2>2, <2>3, <2>4 DEF Next
<1> QED
  BY <1>1, <1>2, PTL DEF Spec

\* No call is reported twice, however many copies of the programs are attached.
THEOREM ReportedAtMostOnce == Spec => []OneEventPerCall
<1>1. PInv => OneEventPerCall
  <2> SUFFICES ASSUME PInv, NEW t \in Threads PROVE Len(Events(t)) <= 1
    BY DEF OneEventPerCall
  <2>1. CASE returning[t] = Nothing
    BY <2>1 DEF Events
  <2>2. CASE returning[t] # Nothing
    <3>1. Events(t) = returning[t].events
      BY <2>2, Zenon DEF Events
    <3>2. Events(t) = <<>> \/ Len(Events(t)) = 1
      BY <2>2, <3>1, Zenon DEF PInv, ReportedOnce
    <3>3. CASE Events(t) = <<>>
      BY <3>3
    <3>4. CASE Len(Events(t)) = 1
      BY <3>4
    <3> QED
      BY <3>2, <3>3, <3>4
  <2> QED
    BY <2>1, <2>2
<1> QED
  BY Pairing, <1>1, PTL

-------------------------------------------------------------------------------
(* What an event says, and which calls get one.  The invariant of a thread is  *)
(* about its stack of calls st, its return r and its pending entries pend.      *)

PendingOf(t) == [m \in Maps |-> pending[<<m, t>>]]

\* A call inside the i-th one whose return will take the same slot.
Above(st, i) ==
  \E j \in (i + 1)..Len(st) : st[j].paired /\ On(st[j]) = On(st[i])

\* At least one return program has run for the call that returns.
Reporting(r) == r # Nothing /\ r.left < Copies

\* A call whose own entry is in its slot until it returns.
Untouched(c) == c.paired /\ ~c.skipped /\ ~c.evicted /\ c.shadowedBy = {}

\* An entry that some return will take belongs to a call under way.
Witnessed(st, pend) ==
  \A m \in Maps : pend[m] # Nothing /\ pend[m].paired =>
    \E i \in 1..Len(st) : st[i].paired /\ On(st[i]) = m

\* What a recorded call finds in its slot is its own entry, unless an entry-only
\* call replaced it or an inner call that will take it away is still under way.
Matching(st, pend) ==
  \A i \in 1..Len(st) :
    st[i].paired /\ ~st[i].skipped /\ FALSE \notin st[i].shadowedBy =>
      \/ pend[On(st[i])] = Nothing
      \/ pend[On(st[i])].fn = st[i].fn /\ pend[On(st[i])].conn = st[i].conn
      \/ Above(st, i)

\* An untouched call keeps its entry until its return is reported.
Intact(st, r, pend) ==
  \A i \in 1..Len(st) :
    Untouched(st[i]) =>
      /\ ~Above(st, i)
      /\ pend[On(st[i])] # Nothing \/ (i = Len(st) /\ Reporting(r))

\* An event of the return r of the call c.
TrueEvent(e, r, c) ==
  /\ e.length <= r.rc
  /\ e.length <= MaxPayload
  /\ ~c.skipped /\ FALSE \notin c.shadowedBy => e.fn = c.fn /\ e.conn = c.conn

ReturnOK(st, r, pend) ==
  r # Nothing =>
    /\ st[Len(st)].paired
    /\ r.left <= Copies
    /\ Reporting(r) => pend[On(st[Len(st)])] = Nothing
    /\ /\ Reporting(r) /\ Untouched(st[Len(st)]) /\ ~r.dropped
       /\ Reports(st[Len(st)].fn, r.rc)
       => r.events # <<>>
    /\ \A k \in 1..Len(r.events) : TrueEvent(r.events[k], r, st[Len(st)])

ThreadInv(st, r, pend) ==
  Witnessed(st, pend) /\ Matching(st, pend) /\ Intact(st, r, pend) /\ ReturnOK(st, r, pend)

TInv == PInv /\ \A t \in Threads : ThreadInv(calls[t], returning[t], PendingOf(t))

\* A call and its slot have the right types.
LEMMA OnType ==
  ASSUME NEW c \in Call
  PROVE  /\ On(c) \in Maps /\ c.fn \in Fns
         /\ c.paired \in BOOLEAN /\ c.skipped \in BOOLEAN /\ c.evicted \in BOOLEAN
         /\ c.shadowedBy \subseteq BOOLEAN
BY DEF On, Maps, Call

\* A call new is put on the stack st and, if kept, leaves its entry e; it marks
\* the calls whose entry it replaces or will take.
EntersAs(st, pend, e, kept, new, st2, pend2) ==
  /\ st \in Seq(Call) /\ pend \in [Maps -> Entry \cup {Nothing}]
  /\ e \in Entry /\ kept \in BOOLEAN
  /\ new \in Call /\ new.fn = e.fn /\ new.conn = e.conn /\ new.paired = e.paired
  /\ new.skipped = (e.paired /\ ~kept) /\ ~new.evicted /\ new.shadowedBy = {}
  /\ st2 \in Seq(Call) /\ Len(st2) = Len(st) + 1 /\ st2[Len(st) + 1] = new
  /\ \A i \in 1..Len(st) :
       /\ st2[i].fn = st[i].fn /\ st2[i].conn = st[i].conn
       /\ st2[i].paired = st[i].paired /\ st2[i].skipped = st[i].skipped
       /\ st2[i].evicted = st[i].evicted
       /\ st2[i].shadowedBy = IF (kept \/ e.paired) /\ On(st[i]) = On(new)
                              THEN st[i].shadowedBy \cup {e.paired}
                              ELSE st[i].shadowedBy
  /\ \A m \in Maps : pend2[m] = IF kept /\ m = On(new) THEN e ELSE pend[m]

\* Entering a call, with the entry in place (kept) or not.
LEMMA EnterThread ==
  ASSUME NEW st, NEW pend, NEW e, NEW kept, NEW new, NEW st2, NEW pend2,
         EntersAs(st, pend, e, kept, new, st2, pend2), ThreadInv(st, Nothing, pend)
  PROVE  ThreadInv(st2, Nothing, pend2)
<1> USE DEF EntersAs
<1> DEFINE n == Len(st)
<1>1. n \in Nat /\ Len(st2) = n + 1 /\ st2[n + 1] = new
  OBVIOUS
<1>2. \A i \in 1..n : st[i] \in Call /\ st2[i] \in Call /\ On(st[i]) \in Maps
  BY OnType
<1>3. \A i \in 1..n : On(st2[i]) = On(st[i])
  BY DEF On
<1>4. On(new) \in Maps /\ On(new) = MapOf[e.fn] /\ e # Nothing
  BY OnType, NothingAssumption DEF On, Entry
<1>5. \A i \in 1..n : Above(st2, i) <=>
                        Above(st, i) \/ (new.paired /\ On(new) = On(st[i]))
  <2> SUFFICES ASSUME NEW i \in 1..n
               PROVE  Above(st2, i) <=>
                        Above(st, i) \/ (new.paired /\ On(new) = On(st[i]))
    OBVIOUS
  <2>1. ASSUME NEW j \in (i + 1)..n
        PROVE  st2[j].paired = st[j].paired /\ On(st2[j]) = On(st[j])
    <3>1. j \in 1..n  BY <1>1
    <3>2. QED  BY <1>3, <3>1
  <2>2. (i + 1)..Len(st2) = ((i + 1)..n) \cup {n + 1}
    BY <1>1
  <2>3. Above(st2, i) <=>
          (\E j \in (i + 1)..n : st[j].paired /\ On(st[j]) = On(st[i]))
            \/ (new.paired /\ On(new) = On(st[i]))
    <3> HIDE DEF EntersAs
    <3>1. Above(st2, i) <=> (\E j \in (i + 1)..n : st2[j].paired /\ On(st2[j]) = On(st2[i]))
                              \/ (st2[n + 1].paired /\ On(st2[n + 1]) = On(st2[i]))
      BY <2>2, Zenon DEF Above
    <3>2. QED  BY <1>1, <1>3, <2>1, <3>1, Zenon
  <2>4. QED  BY <2>3, Zenon DEF Above
<1>6. ~Above(st2, n + 1)
  BY <1>1 DEF Above
<1>7. \A i \in 1..(n + 1) : i \in 1..n \/ i = n + 1
  BY <1>1
<1> HIDE DEF n
<1>8. Witnessed(st2, pend2)
  <2> SUFFICES ASSUME NEW m \in Maps, pend2[m] # Nothing, pend2[m].paired
               PROVE  \E i \in 1..(n + 1) : st2[i].paired /\ On(st2[i]) = m
    BY <1>1 DEF Witnessed
  <2>1. CASE kept /\ m = On(new)
    BY <1>1, <2>1
  <2>2. CASE ~(kept /\ m = On(new))
    <3>1. PICK i \in 1..n : st[i].paired /\ On(st[i]) = m
      BY <2>2 DEF ThreadInv, Witnessed, n
    <3>2. i \in 1..(n + 1)  BY <1>1
    <3>3. st2[i].paired /\ On(st2[i]) = m
      BY <1>3, <3>1 DEF n
    <3>4. QED  BY <3>2, <3>3
  <2>3. QED  BY <2>1, <2>2
<1>9. Matching(st2, pend2)
  <2> SUFFICES ASSUME NEW i \in 1..(n + 1), st2[i].paired, ~st2[i].skipped,
                      FALSE \notin st2[i].shadowedBy
               PROVE  \/ pend2[On(st2[i])] = Nothing
                      \/ /\ pend2[On(st2[i])].fn = st2[i].fn
                         /\ pend2[On(st2[i])].conn = st2[i].conn
                      \/ Above(st2, i)
    BY <1>1 DEF Matching
  <2>1. CASE i = n + 1
    BY <1>1, <1>4, <2>1
  <2>2. CASE i \in 1..n
    <3>1. CASE kept /\ On(st[i]) = On(new)
      <4>1. e.paired # FALSE /\ e.paired \in BOOLEAN
        BY <2>2, <3>1 DEF n, Entry
      <4>2. QED  BY <1>5, <2>2, <3>1, <4>1
    <3>2. CASE ~(kept /\ On(st[i]) = On(new))
      <4>1. st[i].paired /\ ~st[i].skipped /\ FALSE \notin st[i].shadowedBy
        BY <2>2, <3>2 DEF n
      <4>2. \/ pend[On(st[i])] = Nothing
            \/ pend[On(st[i])].fn = st[i].fn /\ pend[On(st[i])].conn = st[i].conn
            \/ Above(st, i)
        BY <2>2, <4>1 DEF ThreadInv, Matching, n
      <4>3. pend2[On(st2[i])] = pend[On(st[i])]
        BY <1>2, <1>3, <2>2, <3>2
      <4>4. st2[i].fn = st[i].fn /\ st2[i].conn = st[i].conn
        BY <2>2 DEF n
      <4>5. QED  BY <1>5, <2>2, <4>2, <4>3, <4>4
    <3>3. QED  BY <3>1, <3>2
  <2>3. QED  BY <1>7, <2>1, <2>2
<1>10. Intact(st2, Nothing, pend2)
  <2> SUFFICES ASSUME NEW i \in 1..(n + 1), Untouched(st2[i])
               PROVE  ~Above(st2, i) /\ pend2[On(st2[i])] # Nothing
    BY <1>1 DEF Intact
  <2>1. CASE i = n + 1
    <3>1. e.paired /\ kept  BY <1>1, <2>1 DEF Untouched
    <3>2. QED  BY <1>1, <1>4, <1>6, <2>1, <3>1
  <2>2. CASE i \in 1..n
    <3>1. ~((kept \/ e.paired) /\ On(st[i]) = On(new)) /\ Untouched(st[i])
      BY <2>2 DEF Untouched, n
    <3>2. ~Above(st, i) /\ pend[On(st[i])] # Nothing
      BY <2>2, <3>1 DEF ThreadInv, Intact, Reporting, n
    <3>3. ~(new.paired /\ On(new) = On(st[i]))
      BY <1>4, <3>1, <3>2
    <3>4. pend2[On(st2[i])] = pend[On(st[i])]
      BY <1>2, <1>3, <2>2, <3>1
    <3>5. QED  BY <1>5, <2>2, <3>2, <3>3, <3>4
  <2>3. QED  BY <1>7, <2>1, <2>2
<1>11. QED  BY <1>8, <1>9, <1>10 DEF ThreadInv, ReturnOK

\* Leaving a call, whose slot is empty if its return was probed.
LEMMA PopThread ==
  ASSUME NEW st \in Seq(Call), st # <<>>, NEW pend \in [Maps -> Entry \cup {Nothing}], NEW r,
         ThreadInv(st, r, pend),
         st[Len(st)].paired => pend[On(st[Len(st)])] = Nothing
  PROVE  ThreadInv(SubSeq(st, 1, Len(st) - 1), Nothing, pend)
<1> DEFINE n == Len(st) - 1
           st2 == SubSeq(st, 1, n)
<1>1. n \in Nat /\ Len(st) = n + 1 /\ Len(st2) = n /\ \A i \in 1..n : st2[i] = st[i]
  <2>1. Len(st) \in Nat /\ Len(st) # 0  OBVIOUS
  <2>2. n \in Nat /\ Len(st) = n + 1  BY <2>1
  <2> HIDE DEF n
  <2>3. Len(st2) = n /\ \A i \in 1..n : st2[i] = st[i]  BY <2>2
  <2>4. QED  BY <2>2, <2>3
<1> HIDE DEF st2, n
<1>2. \A i \in 1..n : i \in 1..Len(st) /\ i # n + 1
  BY <1>1
<1>3. \A i \in 1..Len(st) : i \in 1..n \/ i = n + 1
  BY <1>1
<1>4. \A i \in 1..n :
        Above(st, i) <=> Above(st2, i) \/ (st[n + 1].paired /\ On(st[n + 1]) = On(st[i]))
  <2> SUFFICES ASSUME NEW i \in 1..n
               PROVE  Above(st, i) <=>
                        Above(st2, i) \/ (st[n + 1].paired /\ On(st[n + 1]) = On(st[i]))
    OBVIOUS
  <2>1. ASSUME NEW j \in (i + 1)..n PROVE st2[j] = st[j]
    <3>1. j \in 1..n  BY <1>1
    <3>2. QED  BY <1>1, <3>1
  <2>2. (i + 1)..Len(st) = ((i + 1)..n) \cup {n + 1}
    BY <1>1
  <2>3. QED  BY <1>1, <2>1, <2>2 DEF Above
<1>5. Witnessed(st2, pend)
  <2> SUFFICES ASSUME NEW m \in Maps, pend[m] # Nothing, pend[m].paired
               PROVE  \E i \in 1..n : st2[i].paired /\ On(st2[i]) = m
    BY <1>1 DEF Witnessed
  <2>1. PICK i \in 1..Len(st) : st[i].paired /\ On(st[i]) = m
    BY DEF ThreadInv, Witnessed
  <2>2. i # n + 1
    BY <1>1, <2>1
  <2>3. QED  BY <1>1, <1>3, <2>1, <2>2
<1>6. Matching(st2, pend)
  <2> SUFFICES ASSUME NEW i \in 1..n, st[i].paired, ~st[i].skipped,
                      FALSE \notin st[i].shadowedBy
               PROVE  \/ pend[On(st[i])] = Nothing
                      \/ pend[On(st[i])].fn = st[i].fn /\ pend[On(st[i])].conn = st[i].conn
                      \/ Above(st2, i)
    BY <1>1 DEF Matching
  <2>1. \/ pend[On(st[i])] = Nothing
        \/ pend[On(st[i])].fn = st[i].fn /\ pend[On(st[i])].conn = st[i].conn
        \/ Above(st, i)
    BY <1>2 DEF ThreadInv, Matching
  <2>2. QED  BY <1>1, <1>4, <2>1
<1>7. Intact(st2, Nothing, pend)
  <2> SUFFICES ASSUME NEW i \in 1..n, Untouched(st[i])
               PROVE  ~Above(st2, i) /\ pend[On(st[i])] # Nothing
    BY <1>1 DEF Intact
  <2>1. ~Above(st, i) /\ (pend[On(st[i])] # Nothing \/ i = Len(st))
    BY <1>2 DEF ThreadInv, Intact
  <2>2. QED  BY <1>1, <1>2, <1>4, <2>1
<1>8. ThreadInv(st2, Nothing, pend)
  BY <1>5, <1>6, <1>7 DEF ThreadInv, ReturnOK
<1>9. QED  BY <1>8 DEF st2, n

\* The entry in slot m is evicted: the calls of its map are no longer untouched.
LEMMA EvictThread ==
  ASSUME NEW st \in Seq(Call), NEW r, NEW m \in Maps,
         NEW pend \in [Maps -> Entry \cup {Nothing}], NEW st2, NEW pend2,
         ThreadInv(st, r, pend), r # Nothing => st # <<>>,
         st2 = [i \in 1..Len(st) |->
                  IF On(st[i]) = m THEN [st[i] EXCEPT !.evicted = TRUE] ELSE st[i]],
         \A k \in Maps : pend2[k] = IF k = m THEN Nothing ELSE pend[k]
  PROVE  ThreadInv(st2, r, pend2)
<1> DEFINE n == Len(st)
<1>1. \A c \in Call :
        LET d == [c EXCEPT !.evicted = TRUE]
        IN /\ d.fn = c.fn /\ d.conn = c.conn /\ d.paired = c.paired
           /\ d.skipped = c.skipped /\ d.shadowedBy = c.shadowedBy /\ d.evicted
  BY DEF Call
<1>2. n \in Nat /\ Len(st2) = n /\ \A i \in 1..n : st[i] \in Call /\ On(st[i]) \in Maps
  BY OnType
<1>3. \A i \in 1..n :
        /\ st2[i].fn = st[i].fn /\ st2[i].conn = st[i].conn
        /\ st2[i].paired = st[i].paired /\ st2[i].skipped = st[i].skipped
        /\ st2[i].shadowedBy = st[i].shadowedBy
        /\ Untouched(st2[i]) => Untouched(st[i]) /\ On(st[i]) # m
  BY <1>1, <1>2 DEF Untouched
<1>4. \A i \in 1..n : On(st2[i]) = On(st[i])
  BY <1>3 DEF On
<1> HIDE DEF n
<1>5. \A i \in 1..n : Above(st2, i) <=> Above(st, i)
  <2> SUFFICES ASSUME NEW i \in 1..n PROVE Above(st2, i) <=> Above(st, i)
    OBVIOUS
  <2>1. \A j \in (i + 1)..n : j \in 1..n  BY <1>2
  <2>2. QED  BY <1>2, <1>3, <1>4, <2>1 DEF Above, n
<1>6. Witnessed(st2, pend2)
  BY <1>2, <1>3, <1>4 DEF ThreadInv, Witnessed, n
<1>7. Matching(st2, pend2)
  <2> SUFFICES ASSUME NEW i \in 1..n, st2[i].paired, ~st2[i].skipped,
                      FALSE \notin st2[i].shadowedBy
               PROVE  \/ pend2[On(st2[i])] = Nothing
                      \/ /\ pend2[On(st2[i])].fn = st2[i].fn
                         /\ pend2[On(st2[i])].conn = st2[i].conn
                      \/ Above(st2, i)
    BY <1>2 DEF Matching
  <2>1. st[i].paired /\ ~st[i].skipped /\ FALSE \notin st[i].shadowedBy
    BY <1>3
  <2>2. \/ pend[On(st[i])] = Nothing
        \/ pend[On(st[i])].fn = st[i].fn /\ pend[On(st[i])].conn = st[i].conn
        \/ Above(st, i)
    BY <2>1 DEF ThreadInv, Matching, n
  <2>3. pend2[On(st2[i])] = Nothing \/ pend2[On(st2[i])] = pend[On(st[i])]
    BY <1>2, <1>4
  <2>4. QED  BY <1>3, <1>5, <2>2, <2>3
<1>8. Intact(st2, r, pend2)
  <2> SUFFICES ASSUME NEW i \in 1..n, Untouched(st2[i])
               PROVE  /\ ~Above(st2, i)
                      /\ pend2[On(st2[i])] # Nothing \/ (i = n /\ Reporting(r))
    BY <1>2 DEF Intact
  <2>1. Untouched(st[i]) /\ On(st[i]) # m
    BY <1>3
  <2>2. ~Above(st, i) /\ (pend[On(st[i])] # Nothing \/ (i = n /\ Reporting(r)))
    BY <2>1 DEF ThreadInv, Intact, n
  <2>3. pend2[On(st2[i])] = pend[On(st[i])]
    BY <1>2, <1>4, <2>1
  <2>4. QED  BY <1>5, <2>2, <2>3
<1>9. ReturnOK(st2, r, pend2)
  <2> SUFFICES ASSUME r # Nothing PROVE ReturnOK(st2, r, pend2)
    BY DEF ReturnOK
  <2>1. n \in 1..n  BY <1>2 DEF n
  <2>2. ReturnOK(st, r, pend)  BY DEF ThreadInv
  <2>3. /\ st2[n].paired = st[n].paired /\ st2[n].fn = st[n].fn
        /\ st2[n].conn = st[n].conn /\ st2[n].skipped = st[n].skipped
        /\ st2[n].shadowedBy = st[n].shadowedBy
        /\ On(st2[n]) = On(st[n]) /\ On(st[n]) \in Maps
        /\ Untouched(st2[n]) => Untouched(st[n])
    BY <1>2, <1>3, <1>4, <2>1
  <2>4. Reporting(r) => pend2[On(st2[n])] = Nothing
    BY <2>2, <2>3 DEF ReturnOK, n
  <2>5. /\ Reporting(r) /\ Untouched(st2[n]) /\ ~r.dropped /\ Reports(st2[n].fn, r.rc)
        => r.events # <<>>
    BY <2>2, <2>3 DEF ReturnOK, n
  <2>6. \A k \in 1..Len(r.events) : TrueEvent(r.events[k], r, st2[n])
    BY <2>2, <2>3 DEF ReturnOK, TrueEvent, n
  <2>7. QED  BY <1>2, <2>2, <2>3, <2>4, <2>5, <2>6 DEF ReturnOK, n
<1>10. QED  BY <1>6, <1>7, <1>8, <1>9 DEF ThreadInv

\* The start of a probed return: no program of it has run.
LEMMA StartThread ==
  ASSUME NEW st \in Seq(Call), st # <<>>, NEW pend, ThreadInv(st, Nothing, pend),
         st[Len(st)].paired, NEW r \in Returning, r.left = Copies, r.events = <<>>
  PROVE  ThreadInv(st, r, pend)
<1>1. ~Reporting(r) /\ ~Reporting(Nothing)
  BY DEF Reporting
<1>2. ReturnOK(st, r, pend)
  BY <1>1 DEF ReturnOK
<1>3. Intact(st, r, pend)
  BY <1>1 DEF ThreadInv, Intact
<1>4. QED  BY <1>2, <1>3 DEF ThreadInv

\* A length that is reported is no more than was transferred, and no more than
\* the reader accepts.
LEMMA LengthBound ==
  ASSUME NEW rc \in Nat, NEW len \in Nat
  PROVE  PayloadLength(rc, len) <= rc /\ PayloadLength(rc, len) <= MaxPayload
BY DEF PayloadLength

\* A sequence that something was appended to is not empty.
LEMMA AppendLonger ==
  ASSUME NEW S, NEW s \in Seq(S), NEW x \in S
  PROVE  Append(s, x) # <<>>
<1> DEFINE a == Append(s, x)
<1>1. Len(a) = Len(s) + 1 /\ Len(s) \in Nat  OBVIOUS
<1> HIDE DEF a
<1>2. Len(a) # 0  BY <1>1
<1>3. a # <<>>  BY <1>2
<1>4. QED  BY <1>3 DEF a

\* What a return program makes of the return r, field by field.
Made(r2, r, reports, entry, room) ==
  /\ r2.rc = r.rc /\ r2.left = r.left - 1
  /\ ~reports => r2.events = r.events /\ r2.dropped = r.dropped
  /\ reports /\ ~room => r2.events = r.events /\ r2.dropped = TRUE
  /\ reports /\ room =>
       /\ r2.dropped = r.dropped
       /\ r2.events = Append(r.events,
            [fn |-> entry.fn, conn |-> entry.conn,
             length |-> PayloadLength(r.rc, entry.len)])

\* A return program makes r2 of the return r, with the entry it finds.
ReportsAs(st, pend, r, entry, room, r2, pend2) ==
  /\ st \in Seq(Call) /\ st # <<>> /\ pend \in [Maps -> Entry \cup {Nothing}]
  /\ r \in Returning /\ r # Nothing /\ r.left > 0 /\ room \in BOOLEAN
  /\ entry = pend[On(st[Len(st)])]
  /\ r2 \in Returning /\ r2 # Nothing
  /\ Made(r2, r, entry # Nothing /\ Reports(st[Len(st)].fn, r.rc), entry, room)
  /\ \A m \in Maps : pend2[m] = IF m = On(st[Len(st)]) THEN Nothing ELSE pend[m]

\* A return program empties the slot and, if it found an entry and there is
\* something to report and room, has reported it.
LEMMA ProgramThread ==
  ASSUME NEW st, NEW pend, NEW r, NEW entry, NEW room, NEW r2, NEW pend2,
         ReportsAs(st, pend, r, entry, room, r2, pend2), ThreadInv(st, r, pend)
  PROVE  ThreadInv(st, r2, pend2)
<1> USE DEF ReportsAs, Made
<1> DEFINE n == Len(st)
           top == st[n]
           Has(c) == Reports(c.fn, r.rc)
           e == [fn |-> entry.fn, conn |-> entry.conn,
                 length |-> PayloadLength(r.rc, entry.len)]
<1>1. n \in Nat \ {0} /\ n \in 1..n /\ top \in Call /\ r.left \in Nat /\ r.rc \in Nat
  <2>1. Len(st) \in Nat \ {0}  OBVIOUS
  <2>2. n \in 1..Len(st) /\ st[n] \in Call  BY <2>1
  <2>3. r.left \in Nat /\ r.rc \in Nat  BY DEF Returning
  <2>4. QED  BY <2>1, <2>2, <2>3
<1>2. \A i \in 1..n : st[i] \in Call /\ On(st[i]) \in Maps
  BY OnType
<1>3. top.paired /\ r.left <= Copies
  BY DEF ThreadInv, ReturnOK
<1>4. Reporting(r2) /\ r2.left <= Copies
  BY <1>1, <1>3 DEF Reporting
<1>5. ~Above(st, n)
  BY <1>1 DEF Above
<1>6. pend2[On(top)] = Nothing
  BY <1>1, <1>2
<1>7. Witnessed(st, pend2)
  <2> SUFFICES ASSUME NEW m \in Maps, pend2[m] # Nothing, pend2[m].paired
               PROVE  \E i \in 1..n : st[i].paired /\ On(st[i]) = m
    BY DEF Witnessed
  <2>1. pend2[m] = pend[m]  OBVIOUS
  <2>2. QED  BY <2>1 DEF ThreadInv, Witnessed
<1>8. Matching(st, pend2)
  BY <1>2 DEF ThreadInv, Matching
<1>9. Intact(st, r2, pend2)
  <2> SUFFICES ASSUME NEW i \in 1..n, Untouched(st[i])
               PROVE  ~Above(st, i) /\ (pend2[On(st[i])] # Nothing \/ i = n)
    BY <1>4 DEF Intact
  <2>1. ~Above(st, i) /\ (pend[On(st[i])] # Nothing \/ i = n)
    BY DEF ThreadInv, Intact
  <2>2. i # n => On(st[i]) # On(top)
    <3> SUFFICES ASSUME i # n, On(top) = On(st[i]) PROVE FALSE
      OBVIOUS
    <3>1. n \in (i + 1)..Len(st)  BY <1>1
    <3>2. QED  BY <1>3, <2>1, <3>1 DEF Above
  <2>3. QED  BY <1>2, <2>1, <2>2
<1>10. /\ Reporting(r2) /\ Untouched(top) /\ ~r2.dropped /\ Has(top)
       => r2.events # <<>>
  <2> SUFFICES ASSUME Untouched(top), ~r2.dropped, Has(top) PROVE r2.events # <<>>
    OBVIOUS
  <2>1. r.events \in Seq(Event)  BY DEF Returning
  <2>2. CASE Reporting(r)
    <3>1. pend[On(top)] = Nothing
      BY <2>2 DEF ThreadInv, ReturnOK
    <3>2. r2.events = r.events /\ ~r.dropped
      BY <3>1
    <3>3. QED  BY <2>2, <3>2 DEF ThreadInv, ReturnOK
  <2>3. CASE ~Reporting(r)
    <3>1. pend[On(top)] # Nothing
      BY <1>1, <2>3 DEF ThreadInv, Intact
    <3>2. r2.events = Append(r.events, e)
      BY <3>1
    <3>3. entry \in Entry  BY <1>1, <1>2, <3>1
    <3>4. entry.len \in Nat /\ entry.fn \in Fns /\ entry.conn \in Conns
      BY <3>3 DEF Entry
    <3>5. e \in Event  BY <1>1, <3>4, LengthType, Zenon DEF Event
    <3> HIDE DEF e
    <3>6. Append(r.events, e) # <<>>  BY <2>1, <3>5, AppendLonger
    <3>7. QED  BY <3>2, <3>6
  <2>4. QED  BY <2>2, <2>3
<1>11. \A k \in 1..Len(r2.events) : TrueEvent(r2.events[k], r2, top)
  <2>1. \A k \in 1..Len(r.events) : TrueEvent(r.events[k], r2, top)
    BY DEF ThreadInv, ReturnOK, TrueEvent
  <2>2. r.events \in Seq(Event)  BY DEF Returning
  <2>3. CASE r2.events = r.events
    BY <2>1, <2>3
  <2>4. CASE entry # Nothing /\ r2.events = Append(r.events, e)
    <3>1. entry \in Entry
      BY <1>1, <1>2, <2>4
    <3>2. entry.len \in Nat  BY <3>1 DEF Entry
    <3>3. e.length = PayloadLength(r.rc, entry.len) /\ e.fn = entry.fn /\ e.conn = entry.conn
      OBVIOUS
    <3> HIDE DEF e
    <3>4. e.length <= r2.rc /\ e.length <= MaxPayload
      BY <1>1, <3>2, <3>3, LengthBound
    <3>5. ~top.skipped /\ FALSE \notin top.shadowedBy => e.fn = top.fn /\ e.conn = top.conn
      BY <1>1, <1>3, <1>5, <2>4, <3>3 DEF ThreadInv, Matching
    <3>6. TrueEvent(e, r2, top)
      BY <3>4, <3>5 DEF TrueEvent
    <3> HIDE DEF top
    <3>7. \A k \in 1..Len(r2.events) :
            (k \in 1..Len(r.events) /\ r2.events[k] = r.events[k]) \/ r2.events[k] = e
      BY <2>2, <2>4
    <3>8. QED  BY <2>1, <3>6, <3>7
  <2>5. QED  BY <2>3, <2>4
<1>12. ReturnOK(st, r2, pend2)
  BY <1>3, <1>4, <1>6, <1>10, <1>11 DEF ReturnOK, Reporting
<1>13. QED  BY <1>7, <1>8, <1>9, <1>12 DEF ThreadInv

\* Reported makes it so, and so does a program that finds no entry.
LEMMA ReportedFields ==
  ASSUME NEW r \in Returning, NEW fn \in Fns, NEW entry, NEW room \in BOOLEAN
  PROVE  /\ Made([r EXCEPT !.left = @ - 1], r, FALSE, entry, room)
         /\ Made(Reported(r, fn, entry, room), r, Reports(fn, r.rc), entry, room)
<1> DEFINE x == r.left - 1
           e == [fn |-> entry.fn, conn |-> entry.conn,
                 length |-> PayloadLength(r.rc, entry.len)]
           more == Append(r.events, e)
           new == Reported(r, fn, entry, room)
<1>1. \/ new = [r EXCEPT !.left = x] /\ ~Reports(fn, r.rc)
      \/ new = [r EXCEPT !.left = x, !.dropped = TRUE] /\ Reports(fn, r.rc) /\ ~room
      \/ new = [r EXCEPT !.left = x, !.events = more] /\ Reports(fn, r.rc) /\ room
  BY Zenon DEF Reported
<1> HIDE DEF x, e, more, new
<1>2. /\ [r EXCEPT !.left = x].rc = r.rc /\ [r EXCEPT !.left = x].left = x
      /\ [r EXCEPT !.left = x].events = r.events
      /\ [r EXCEPT !.left = x].dropped = r.dropped
  BY DEF Returning
<1>3. LET d == [r EXCEPT !.left = x, !.dropped = TRUE]
      IN d.rc = r.rc /\ d.left = x /\ d.events = r.events /\ d.dropped = TRUE
  BY DEF Returning
<1>4. LET d == [r EXCEPT !.left = x, !.events = more]
      IN d.rc = r.rc /\ d.left = x /\ d.events = more /\ d.dropped = r.dropped
  BY DEF Returning
<1>5. /\ new.rc = r.rc /\ new.left = x
      /\ ~Reports(fn, r.rc) => new.events = r.events /\ new.dropped = r.dropped
      /\ Reports(fn, r.rc) /\ ~room => new.events = r.events /\ new.dropped = TRUE
      /\ Reports(fn, r.rc) /\ room => new.dropped = r.dropped /\ new.events = more
  BY <1>1, <1>2, <1>3, <1>4, Zenon
<1>6. QED  BY <1>2, <1>5, Zenon DEF x, e, more, new, Made

\* A thread is not concerned by what happens to the calls and slots of others.
LEMMA OtherThread ==
  ASSUME TInv, NEW u \in Threads, calls'[u] = calls[u], returning'[u] = returning[u],
         \A m \in Maps : pending'[<<m, u>>] = pending[<<m, u>>]
  PROVE  ThreadInv(calls'[u], returning'[u], PendingOf(u)')
<1>1. PendingOf(u)' = PendingOf(u)  BY DEF PendingOf
<1>2. ThreadInv(calls[u], returning[u], PendingOf(u))  BY DEF TInv
<1>3. QED  BY <1>1, <1>2, Zenon

\* A thread's pending entries.
LEMMA PendingType ==
  ASSUME ProbesType, NEW t \in Threads
  PROVE  /\ PendingOf(t) \in [Maps -> Entry \cup {Nothing}]
         /\ \A m \in Maps : PendingOf(t)[m] = pending[<<m, t>>]
         /\ \A m \in Maps : PendingOf(t)'[m] = pending'[<<m, t>>]
BY DEF ProbesType, PendingOf

\* Entering a call preserves the invariant.
LEMMA EnterTInv ==
  ASSUME TInv, NEW t \in Threads, NEW fn \in Fns, NEW conn \in Conns, NEW len \in Lengths,
         NEW asks \in BOOLEAN, Enter(t, fn, conn, len, asks)
  PROVE  TInv'
<1> DEFINE paired == hook[fn] = "both"
           kept == hook[fn] # "none" /\ asks
           shadow(c) == IF (kept \/ paired) /\ MapOf[c.fn] = MapOf[fn]
                        THEN [c EXCEPT !.shadowedBy = @ \cup {paired}]
                        ELSE c
           e == [fn |-> fn, conn |-> conn, len |-> len, paired |-> paired]
           new == [fn |-> fn, conn |-> conn, paired |-> paired, skipped |-> paired /\ ~kept,
                   evicted |-> FALSE, shadowedBy |-> {}]
           st == calls[t]
           marked == [i \in 1..Len(st) |-> shadow(st[i])]
<1>1. /\ returning[t] = Nothing
      /\ calls' = [calls EXCEPT ![t] = Append(marked, new)]
      /\ pending' = IF kept THEN [pending EXCEPT ![<<MapOf[fn], t>>] = e] ELSE pending
      /\ UNCHANGED <<hook, returning>>
  BY DEF Enter, Left, Slot
<1>2. PInv /\ PInv'
  BY EnterPInv DEF TInv
<1>3. st \in Seq(Call) /\ calls'[t] \in Seq(Call) /\ calls'[t] = Append(marked, new)
  <2>1. st \in Seq(Call) /\ calls'[t] \in Seq(Call)
    BY <1>2 DEF PInv, ProbesType
  <2> HIDE DEF marked, new
  <2>2. calls'[t] = Append(marked, new)
    BY <1>1, <1>2 DEF PInv, ProbesType
  <2>3. QED  BY <2>1, <2>2
<1>4. paired \in BOOLEAN /\ kept \in BOOLEAN
  OBVIOUS
<1>5. /\ e \in Entry /\ new \in Call /\ new.fn = e.fn /\ new.conn = e.conn
      /\ new.paired = e.paired /\ new.skipped = (e.paired /\ ~kept)
      /\ ~new.evicted /\ new.shadowedBy = {}
      /\ e.fn = fn /\ e.paired = paired /\ On(new) = MapOf[fn]
  <2> HIDE DEF paired, kept
  <2>1. e \in Entry /\ new \in Call
    BY <1>4, Zenon DEF Entry, Call
  <2>2. QED  BY <2>1, Zenon DEF On
<1>6. \A i \in 1..Len(st) :
        LET c == shadow(st[i])
        IN /\ c \in Call
           /\ c.fn = st[i].fn /\ c.conn = st[i].conn
           /\ c.paired = st[i].paired /\ c.skipped = st[i].skipped
           /\ c.evicted = st[i].evicted
           /\ c.shadowedBy = IF (kept \/ paired) /\ On(st[i]) = MapOf[fn]
                             THEN st[i].shadowedBy \cup {paired} ELSE st[i].shadowedBy
  <2> HIDE DEF kept, paired
  <2>1. \A c \in Call :
          LET d == [c EXCEPT !.shadowedBy = @ \cup {paired}]
          IN /\ d \in Call /\ d.fn = c.fn /\ d.conn = c.conn /\ d.paired = c.paired
             /\ d.skipped = c.skipped /\ d.evicted = c.evicted
             /\ d.shadowedBy = c.shadowedBy \cup {paired}
    BY <1>4 DEF Call
  <2>2. \A i \in 1..Len(st) : st[i] \in Call
    BY <1>3
  <2>3. QED  BY <2>1, <2>2 DEF On
<1>7. /\ Len(calls'[t]) = Len(st) + 1 /\ calls'[t][Len(st) + 1] = new
      /\ \A i \in 1..Len(st) : calls'[t][i] = shadow(st[i])
  <2> HIDE DEF shadow, new
  <2>1. marked \in Seq(Call) /\ Len(marked) = Len(st)
    BY <1>3, <1>6
  <2>2. \A i \in 1..Len(st) : marked[i] = shadow(st[i])
    OBVIOUS
  <2> HIDE DEF marked
  <2>3. QED  BY <1>3, <1>5, <2>1, <2>2
<1>8. \A m \in Maps : PendingOf(t)'[m] = IF kept /\ m = On(new) THEN e ELSE PendingOf(t)[m]
  <2> HIDE DEF kept, e, new
  <2>1. MapOf[fn] \in Maps  BY DEF Maps
  <2>2. \A m \in Maps : pending'[<<m, t>>] = IF kept /\ m = MapOf[fn] THEN e
                                            ELSE pending[<<m, t>>]
    BY <1>1, <1>2, <2>1 DEF PInv, ProbesType
  <2>3. QED  BY <1>2, <1>5, <2>2, PendingType DEF PInv
<1>9. ThreadInv(calls'[t], returning'[t], PendingOf(t)')
  <2>1. ThreadInv(st, Nothing, PendingOf(t))
    BY <1>1 DEF TInv
  <2>2. PendingOf(t) \in [Maps -> Entry \cup {Nothing}]
    BY <1>2, PendingType DEF PInv
  <2>3. returning'[t] = Nothing  BY <1>1
  <2>4. \A i \in 1..Len(st) :
          /\ calls'[t][i].fn = st[i].fn /\ calls'[t][i].conn = st[i].conn
          /\ calls'[t][i].paired = st[i].paired /\ calls'[t][i].skipped = st[i].skipped
          /\ calls'[t][i].evicted = st[i].evicted
          /\ calls'[t][i].shadowedBy = IF (kept \/ e.paired) /\ On(st[i]) = On(new)
                                       THEN st[i].shadowedBy \cup {e.paired}
                                       ELSE st[i].shadowedBy
    <3> HIDE DEF kept, shadow, new, e
    <3>1. QED  BY <1>5, <1>6, <1>7
  <2> HIDE DEF kept, new, e, st
  <2>5. EntersAs(st, PendingOf(t), e, kept, new, calls'[t], PendingOf(t)')
    BY <1>3, <1>4, <1>5, <1>7, <1>8, <2>2, <2>4, Zenon DEF EntersAs
  <2>6. ThreadInv(calls'[t], Nothing, PendingOf(t)')
    BY <2>1, <2>5, EnterThread, Zenon
  <2>7. QED  BY <2>3, <2>6
<1>10. ASSUME NEW u \in Threads, u # t
       PROVE  ThreadInv(calls'[u], returning'[u], PendingOf(u)')
  <2> HIDE DEF kept, new, e, marked
  <2>1. calls'[u] = calls[u] /\ returning'[u] = returning[u]
    BY <1>1, <1>2, <1>10 DEF PInv, ProbesType
  <2>2. \A m \in Maps : pending'[<<m, u>>] = pending[<<m, u>>]
    BY <1>1, <1>2, <1>10 DEF PInv, ProbesType
  <2>3. QED  BY <2>1, <2>2, OtherThread
<1>11. QED  BY <1>2, <1>9, <1>10 DEF TInv

\* The start of a return, and the end of a call, preserve the invariant.
LEMMA ReturnsTInv ==
  ASSUME TInv, NEW t \in Threads,
         ReturnUnseen(t) \/ Returned(t) \/ \E rc \in Results : Return(t, rc)
  PROVE  TInv'
<1>1. PInv /\ PInv'
  BY ReturnsPInv DEF TInv
<1>2. PendingOf(t) \in [Maps -> Entry \cup {Nothing}] /\ pending' = pending
  BY <1>1, PendingType DEF PInv, ReturnUnseen, Returned, Return
<1>3. PendingOf(t)' = PendingOf(t) /\ calls[t] \in Seq(Call)
  BY <1>1, <1>2 DEF PendingOf, PInv, ProbesType
<1>4. ThreadInv(calls[t], returning[t], PendingOf(t))
  BY DEF TInv
<1>5. CASE ReturnUnseen(t) \/ Returned(t)
  <2>1. /\ calls[t] # <<>>
        /\ calls' = [calls EXCEPT ![t] = SubSeq(calls[t], 1, Len(calls[t]) - 1)]
        /\ returning' = [returning EXCEPT ![t] = Nothing]
    BY <1>1, <1>5 DEF ReturnUnseen, Returned, Popped, PInv, ProbesType, InACall
  <2>2. calls[t][Len(calls[t])].paired =>
          PendingOf(t)[On(calls[t][Len(calls[t])])] = Nothing
    <3>1. CASE ReturnUnseen(t)
      BY <3>1 DEF ReturnUnseen, Top
    <3>2. CASE Returned(t)
      <4>1. Reporting(returning[t]) /\ returning[t] # Nothing
        BY <3>2 DEF Returned, Reporting
      <4>2. QED  BY <1>4, <4>1 DEF ThreadInv, ReturnOK
    <3>3. QED  BY <1>5, <3>1, <3>2
  <2>3. calls'[t] = SubSeq(calls[t], 1, Len(calls[t]) - 1) /\ returning'[t] = Nothing
    BY <1>1, <2>1 DEF PInv, ProbesType
  <2>4. ThreadInv(calls'[t], returning'[t], PendingOf(t)')
    BY <1>2, <1>3, <1>4, <2>1, <2>2, <2>3, PopThread
  <2>5. \A u \in Threads : u # t => calls'[u] = calls[u] /\ returning'[u] = returning[u]
    BY <1>1, <2>1 DEF PInv, ProbesType
  <2>6. QED  BY <1>1, <1>2, <2>4, <2>5, OtherThread DEF TInv
<1>6. ASSUME NEW rc \in Results, Return(t, rc) PROVE TInv'
  <2> DEFINE r == [rc |-> rc, left |-> Copies, events |-> <<>>, dropped |-> FALSE]
  <2>1. /\ calls[t] # <<>> /\ returning[t] = Nothing /\ calls[t][Len(calls[t])].paired
        /\ returning' = [returning EXCEPT ![t] = r] /\ calls' = calls
    BY <1>6 DEF Return, Top
  <2>2. r \in Returning /\ r.left = Copies /\ r.events = <<>>
    BY DEF Returning
  <2> HIDE DEF r
  <2>3. returning'[t] = r
    BY <1>1, <2>1 DEF PInv, ProbesType
  <2>4. ThreadInv(calls[t], r, PendingOf(t))
    BY <1>3, <1>4, <2>1, <2>2, StartThread
  <2>5. ThreadInv(calls'[t], returning'[t], PendingOf(t)')
    BY <1>3, <2>1, <2>3, <2>4
  <2>6. \A u \in Threads : u # t => calls'[u] = calls[u] /\ returning'[u] = returning[u]
    BY <1>1, <2>1 DEF PInv, ProbesType
  <2>7. QED  BY <1>1, <1>2, <2>5, <2>6, OtherThread DEF TInv
<1>7. QED  BY <1>5, <1>6

\* An eviction preserves the invariant.
LEMMA EvictTInv ==
  ASSUME TInv, NEW m \in Maps, NEW t \in Threads, Evict(m, t)
  PROVE  TInv'
<1>1. PInv /\ PInv'
  BY EvictPInv DEF TInv
<1>2. /\ \A u \in Threads : u # t => calls'[u] = calls[u]
      /\ calls'[t] = [i \in 1..Len(calls[t]) |->
           IF On(calls[t][i]) = m THEN [calls[t][i] EXCEPT !.evicted = TRUE]
                                  ELSE calls[t][i]]
      /\ returning' = returning
  BY EvictPInv DEF TInv, Evict
<1>3. \A k \in Maps, u \in Threads :
        pending'[<<k, u>>] = IF k = m /\ u = t THEN Nothing ELSE pending[<<k, u>>]
  BY <1>1 DEF Evict, PInv, ProbesType
<1>4. ThreadInv(calls'[t], returning'[t], PendingOf(t)')
  <2>1. /\ calls[t] \in Seq(Call) /\ (returning[t] # Nothing => calls[t] # <<>>)
        /\ ThreadInv(calls[t], returning[t], PendingOf(t))
    BY DEF TInv, PInv, ProbesType, InACall
  <2>2. /\ PendingOf(t) \in [Maps -> Entry \cup {Nothing}]
        /\ \A k \in Maps : PendingOf(t)'[k] = IF k = m THEN Nothing ELSE PendingOf(t)[k]
    BY <1>1, <1>3, PendingType DEF PInv
  <2> DEFINE st == calls[t]
             st2 == [i \in 1..Len(st) |->
                       IF On(st[i]) = m THEN [st[i] EXCEPT !.evicted = TRUE] ELSE st[i]]
             pend == PendingOf(t)
             pend2 == PendingOf(t)'
             r == returning[t]
  <2>3. st2 = [i \in 1..Len(st) |->
                 IF On(st[i]) = m THEN [st[i] EXCEPT !.evicted = TRUE] ELSE st[i]]
    OBVIOUS
  <2>4. /\ st \in Seq(Call) /\ (r # Nothing => st # <<>>) /\ ThreadInv(st, r, pend)
        /\ pend \in [Maps -> Entry \cup {Nothing}]
        /\ \A k \in Maps : pend2[k] = IF k = m THEN Nothing ELSE pend[k]
    BY <2>1, <2>2
  <2>5. calls'[t] = st2 /\ returning'[t] = r
    BY <1>2
  <2> HIDE DEF st, st2, pend, pend2, r
  <2>6. ThreadInv(st2, r, pend2)
    BY <2>3, <2>4, EvictThread
  <2>7. QED  BY <2>5, <2>6 DEF pend2
<1>5. \A u \in Threads : u # t => ThreadInv(calls'[u], returning'[u], PendingOf(u)')
  BY <1>2, <1>3, OtherThread
<1>6. QED  BY <1>1, <1>4, <1>5 DEF TInv

\* A return program preserves the invariant.
LEMMA ProgramTInv ==
  ASSUME TInv, NEW t \in Threads, NEW room \in BOOLEAN, ReturnProgram(t, room)
  PROVE  TInv'
<1> DEFINE r == returning[t]
           top == calls[t][Len(calls[t])]
           entry == PendingOf(t)[On(top)]
           none == [r EXCEPT !.left = @ - 1]
           new == Reported(r, top.fn, entry, room)
           r2 == returning'[t]
<1>1. PInv /\ PInv'
  BY ReturnProgramPInv DEF TInv
<1>2. r \in Returning /\ r # Nothing /\ r.left > 0 /\ calls[t] # <<>> /\ calls[t] \in Seq(Call)
  BY <1>1 DEF ReturnProgram, PInv, ProbesType, InACall
<1>3. top \in Call /\ On(top) \in Maps /\ top.fn \in Fns /\ Top(t) = top
  BY <1>1, <1>2, TopType, OnType DEF PInv, Top
<1>4. /\ PendingOf(t) \in [Maps -> Entry \cup {Nothing}]
      /\ entry = pending[<<On(top), t>>] /\ Slot(top.fn, t) = <<On(top), t>>
  BY <1>1, <1>3, PendingType DEF PInv, On, Slot
<1>5. /\ returning' = [returning EXCEPT ![t] = IF entry = Nothing THEN none ELSE new]
      /\ pending' = [pending EXCEPT ![<<On(top), t>>] = Nothing]
      /\ calls' = calls
  BY <1>3, <1>4, Zenon DEF ReturnProgram, Taken
<1>6. r2 = IF entry = Nothing THEN none ELSE new
  <2> HIDE DEF none, new
  <2>1. QED  BY <1>1, <1>5 DEF PInv, ProbesType
<1>7. r2 \in Returning /\ r2 # Nothing
  <2>1. none \in Returning  BY <1>2, ReturnType, Zenon
  <2>2. entry # Nothing => new \in Returning
    BY <1>2, <1>3, <1>4, ReportedType, Zenon
  <2>3. Nothing \notin Returning
    BY NothingAssumption DEF Returning, Event
  <2> HIDE DEF none, new, r2
  <2>4. r2 \in Returning  BY <1>6, <2>1, <2>2
  <2>5. QED  BY <2>3, <2>4
<1>8. /\ Made(none, r, FALSE, entry, room)
      /\ Made(new, r, Reports(top.fn, r.rc), entry, room)
  <2>1. r \in Returning /\ top.fn \in Fns  BY <1>2, <1>3
  <2> HIDE DEF r, top, entry
  <2>2. QED  BY <2>1, ReportedFields, Zenon
<1>9. \A m \in Maps : PendingOf(t)'[m] = IF m = On(top) THEN Nothing ELSE PendingOf(t)[m]
  <2> HIDE DEF top
  <2>1. \A m \in Maps : pending'[<<m, t>>] = IF m = On(top) THEN Nothing
                                            ELSE pending[<<m, t>>]
    BY <1>1, <1>3, <1>5 DEF PInv, ProbesType
  <2>2. QED  BY <1>1, <2>1, PendingType DEF PInv
<1>10. ReportsAs(calls[t], PendingOf(t), r, entry, room, r2, PendingOf(t)')
  <2> HIDE DEF none, new, r2, entry
  <2>1. entry = PendingOf(t)[On(calls[t][Len(calls[t])])]  BY DEF entry
  <2>2. Made(r2, r, entry # Nothing /\ Reports(top.fn, r.rc), entry, room)
    BY <1>6, <1>8, Zenon DEF Made
  <2>3. QED
    BY <1>2, <1>4, <1>7, <1>9, <2>1, <2>2, Zenon DEF ReportsAs
<1>11. ThreadInv(calls'[t], returning'[t], PendingOf(t)')
  <2>1. ThreadInv(calls[t], r, PendingOf(t))  BY DEF TInv
  <2>2. ThreadInv(calls[t], r2, PendingOf(t)')
    BY <1>10, <2>1, ProgramThread, Zenon
  <2>3. QED  BY <1>5, <2>2
<1>12. \A u \in Threads : u # t => calls'[u] = calls[u] /\ returning'[u] = returning[u]
  <2> HIDE DEF none, new
  <2>1. QED  BY <1>1, <1>5 DEF PInv, ProbesType
<1>13. \A u \in Threads : u # t => \A m \in Maps : pending'[<<m, u>>] = pending[<<m, u>>]
  <2> HIDE DEF top
  <2>1. QED  BY <1>1, <1>3, <1>5 DEF PInv, ProbesType
<1>14. QED  BY <1>1, <1>11, <1>12, <1>13, OtherThread DEF TInv

\* The entries in the pending maps fit the calls under way.
THEOREM Entries == Spec => []TInv
<1>1. ASSUME Init PROVE TInv
  <2>1. PInv
    <3>1. ProbesType  BY <1>1 DEF Init, ProbesType
    <3>2. QED  BY <1>1, <3>1 DEF Init, PInv, InACall, ReportedOnce
  <2>2. ASSUME NEW t \in Threads PROVE ThreadInv(calls[t], returning[t], PendingOf(t))
    <3>1. calls[t] = <<>> /\ returning[t] = Nothing /\ \A m \in Maps : PendingOf(t)[m] = Nothing
      BY <1>1 DEF Init, PendingOf
    <3>2. QED
      BY <3>1 DEF ThreadInv, Witnessed, Matching, Intact, ReturnOK
  <2>3. QED  BY <2>1, <2>2 DEF TInv
<1>2. TInv /\ [Next]_vars => TInv'
  <2> SUFFICES ASSUME TInv, [Next]_vars PROVE TInv'
    OBVIOUS
  <2>1. ASSUME NEW fn \in Fns, AttachEnter(fn) \/ AttachReturn(fn) PROVE TInv'
    <3>1. PInv' /\ UNCHANGED <<calls, returning, pending>>
      BY <2>1 DEF AttachEnter, AttachReturn, TInv, PInv, ProbesType, InACall,
                  ReportedOnce, Slot, Top
    <3>2. QED  BY <3>1, OtherThread DEF TInv
  <2>2. ASSUME NEW t \in Threads, ThreadStep(t) PROVE TInv'
    BY <2>2, EnterTInv, ReturnsTInv, ProgramTInv DEF ThreadStep
  <2>5. ASSUME NEW t \in Threads, NEW m \in Maps, Evict(m, t) PROVE TInv'
    BY <2>5, EvictTInv
  <2>3. CASE UNCHANGED vars
    <3>1. PInv' /\ UNCHANGED <<calls, returning, pending>>
      BY <2>3 DEF vars, TInv, PInv, ProbesType, InACall, ReportedOnce, Slot, Top
    <3>2. QED  BY <3>1, OtherThread DEF TInv
  <2>4. QED  BY <2>1, <2>2, <2>3, <2>5 DEF Next
<1>3. QED  BY <1>1, <1>2, PTL DEF Spec

\* An event tells the truth about the call that returns.
THEOREM EventsTrue == Spec => []EventsAreTrue
<1>1. TInv => EventsAreTrue
  <2> SUFFICES ASSUME TInv, NEW t \in Threads, NEW i \in 1..Len(Events(t))
               PROVE  TrueEvent(Events(t)[i], returning[t], Top(t))
    BY DEF EventsAreTrue, TrueEvent
  <2>1. CASE returning[t] = Nothing
    BY <2>1 DEF Events
  <2>2. CASE returning[t] # Nothing
    <3>1. Events(t) = returning[t].events
      BY <2>2 DEF Events
    <3>2. QED
      BY <2>2, <3>1 DEF TInv, ThreadInv, ReturnOK, Top
  <2>3. QED  BY <2>1, <2>2
<1>2. QED  BY <1>1, Entries, PTL

\* A call whose entry was recorded, and neither replaced nor evicted, is reported.
THEOREM CallsReported == Spec => []CallIsReported
<1>1. TInv => CallIsReported
  <2> SUFFICES ASSUME TInv, NEW t \in Threads, returning[t] # Nothing,
                      returning[t].left = 0, Reports(Top(t).fn, returning[t].rc),
                      ~returning[t].dropped, ~Top(t).skipped, ~Top(t).evicted,
                      Top(t).shadowedBy = {}
               PROVE  Events(t) # <<>>
    BY DEF CallIsReported
  <2>1. Reporting(returning[t])
    BY DEF Reporting
  <2>2. ReturnOK(calls[t], returning[t], PendingOf(t))
    BY DEF TInv, ThreadInv
  <2>3. Untouched(Top(t))
    BY <2>2 DEF ReturnOK, Untouched, Top
  <2>4. QED  BY <2>1, <2>2, <2>3 DEF ReturnOK, Events, Top
<1>2. QED  BY <1>1, Entries, PTL

\* A thread outside of every probed call has left no entry that a later return
\* would report.
THEOREM NoneStale == Spec => []NoStalePending
<1>1. TInv => NoStalePending
  <2> SUFFICES ASSUME TInv, NEW t \in Threads, NEW m \in Maps, calls[t] = <<>>,
                      pending[<<m, t>>] # Nothing, pending[<<m, t>>].paired
               PROVE  FALSE
    BY DEF NoStalePending
  <2>1. PendingOf(t)[m] # Nothing /\ PendingOf(t)[m].paired
    BY DEF PendingOf
  <2>2. \E i \in 1..Len(calls[t]) : calls[t][i].paired
    BY <2>1 DEF TInv, ThreadInv, Witnessed
  <2>3. QED  BY <2>2
<1>2. QED  BY <1>1, Entries, PTL
===============================================================================
