------------------------- MODULE RemoteInspectorProofs -------------------------
(***************************************************************************)
(* The safety properties of RemoteInspector, proved for any libraries'     *)
(* locking functions, any process listing in which a library's file begins *)
(* at its lowest mapping, and any number of foreign signals.               *)
(***************************************************************************)
EXTENDS RemoteInspector, TLAPS

\* The function the inspector called has run, and perhaps returned.
Ran == leader = "inside" \/ (leader = "stopped" /\ signal = "trap")

\* Where the leader is while the inspector is where it is.
LeaderInv ==
  /\ pc \in {"idle", "attach"} => leader = "running" /\ pending = {} /\ ~traced
  /\ pc \in {"idle", "attach", "attaching"} =>
       /\ leader \in {"running", "stopped"} /\ signal # "trap"
       /\ refs = {} /\ held = {} /\ read = {} /\ at = "SSL_get_version"
  /\ pc \in {"ready", "waiting"} => leader \in {"stopped", "calling", "inside"}
  /\ alive /\ pc = "ready" => leader = "stopped"
  /\ alive /\ pc # "waiting" => leader \notin {"calling", "inside"} /\ ~patched /\ regs = "own"
  /\ alive /\ pc = "done" =>
       ~traced /\ (leader = "running" \/ (leader = "halted" /\ sent > 0 /\ read = {}))

\* A SIGSTOP that is still pending was overtaken by another signal, and no call
\* has been made since.
SignalInv ==
  /\ "other" \in pending => sent > 0
  /\ "stop" \in pending =>
       /\ read = {} /\ signal # "trap" /\ leader # "inside"
       /\ leader # "running" => sent > 0

\* The resolver's addresses.
BaseInv ==
  /\ maps \in Listings
  /\ pc \in {"attach", "attaching", "ready", "waiting"} =>
       \A library \in Libraries : base[library] = FirstPage(maps, library)

\* The references held are those of the scopes Inspect is in or is leaving.
PlanInv ==
  /\ pc \in {"ready", "waiting"} => \A r \in References : at \in Scope[r] => r \in held
  /\ pc = "waiting" => inFlight \in Calls \cup Frees
  /\ pc = "waiting" /\ inFlight \in Calls => at = inFlight /\ \A r \in held : at \in Scope[r]
  /\ pc = "done" => held = {}

\* What a call has done to the references the process holds.
RefsInv ==
  /\ held \subseteq refs
  /\ pc = "waiting" /\ inFlight \in Calls /\ Ran =>
       result \in Leads[inFlight] /\ Taken(inFlight, result) \subseteq refs
  /\ \A r \in References : pc = "waiting" /\ inFlight = Free[r] =>
       /\ r \notin held
       /\ leader = "calling" => r \in refs
       /\ Ran => r \notin refs

\* A reference that is not held any more, or not yet, is accounted for.
LeakInv ==
  alive => \A r \in refs :
    \/ r \in held \/ r \in unfreed \/ Taker[r] \in cut \/ Free[r] \in cut
    \/ pc = "waiting" /\ inFlight = Taker[r] /\ leader # "calling" /\ result \in Scope[r]
    \/ pc = "waiting" /\ inFlight = Free[r]

\* A lock the leader has for a call is that of the call under way, or was left by
\* one that was cut short.
LockInv ==
  alive /\ lock = "call" =>
    \/ cut # {}
    \/ /\ pc = "waiting" /\ inFlight \in Locking
       /\ leader = "inside" \/ (leader = "stopped" /\ signal # "trap")

IInv == TypeOK /\ LeaderInv /\ SignalInv /\ BaseInv /\ PlanInv /\ RefsInv /\ LeakInv /\ LockInv

-------------------------------------------------------------------------------
\* The functions of Inspect: which free, which take, which use a reference.
LEMMA Roles ==
  /\ \A r \in References : Scope[r] \subseteq Calls /\ Taker[r] \in Calls /\ Free[r] \in Frees
  /\ \A c \in Frees : c \notin Calls
  /\ \A c \in Ends : c \notin Calls
  /\ \A r, q \in References : Taker[r] = Taker[q] \/ Free[r] = Free[q] => r = q
  /\ \A c \in Frees : \E r \in References : c = Free[r]
BY DEF References, Scope, Taker, Free, Frees, Calls, Ends, Metadata, OfCert, OfBio, OfSession

\* Scopes are nested: a BIO is taken and used while a session is held, and a
\* certificate is held alone.
LEMMA Nesting ==
  /\ References = {"cert", "session", "bio"}
  /\ Scope["bio"] \subseteq Scope["session"]
  /\ Taker["bio"] \in Scope["session"] /\ Taker["bio"] \notin Scope["bio"]
  /\ \A r \in References : Taker["cert"] \notin Scope[r] /\ Taker["session"] \notin Scope[r]
  /\ \A p \in Scope["cert"] : p \notin Scope["session"]
  /\ Taker["bio"] \notin Scope["cert"]
  /\ \A r \in References : "SSL_get_version" \notin Scope[r]
  /\ "SSL_get_version" \in Calls
BY DEF References, Scope, Taker, Calls, Metadata, OfCert, OfBio, OfSession

\* Where a call may lead: into the scopes it is in, or that of what it takes.
LEMMA LeadsTo ==
  ASSUME NEW c \in Calls, NEW p \in Leads[c]
  PROVE  /\ p \in Calls \cup Ends
         /\ \A r \in References : p \in Scope[r] => c \in Scope[r] \/ Taker[r] = c
BY DEF Leads, References, Scope, Taker, Calls, Ends, Metadata, OfCert, OfBio, OfSession

\* A missing function leads out of all scopes or on in the session's.
LEMMA UnresolvedTo ==
  ASSUME NEW c \in Resolves
  PROVE  /\ Unresolved(c) \in Calls \cup Ends
         /\ \A r \in References : Unresolved(c) \in Scope[r] => c \in Scope[r]
         /\ Known[Unresolved(c)] = {}
BY DEF Unresolved, Resolves, References, Scope, Calls, Ends, Known,
       Metadata, OfCert, OfBio, OfSession

\* Where Inspect goes from a place.
LEMMA RouteTo ==
  ASSUME NEW p \in Calls \cup Ends
  PROVE  Route(p) \in {p, "end"} /\ Route(p) \in Calls \cup Ends
BY DEF Route, Ends

\* The loader's base is where the library's file begins.
LEMMA BaseIsFirst ==
  ASSUME NEW listing \in Listings, NEW library \in Libraries \cap Mapped(listing)
  PROVE  LoadBase(listing, library) = FirstPage(listing, library)
<1> DEFINE N == 1..Len(listing)
           C == Candidates(listing, library)
           S == {listing[n].start : n \in N}
           P(a) == \E m \in N : listing[m] = [library |-> library, start |-> a, offset |-> 0]
<1>1. \A m \in N : listing[m].start \in Nat /\ listing[m].offset \in Nat
  BY ListingsAssumption
<1>2. PICK n \in N :
        /\ listing[n] = [library |-> library, start |-> listing[n].start, offset |-> 0]
        /\ \A m \in N :
             listing[m].library = library =>
               /\ listing[m].start - listing[m].offset >= listing[n].start
               /\ listing[m].offset = 0 => listing[m].start = listing[n].start
  BY ListingsAssumption
<1> DEFINE s == listing[n].start
<1>3. listing[n].library = library /\ listing[n].offset = 0 /\ s \in Nat
  BY <1>1, <1>2
<1>4. /\ \A x \in C : x \in Int /\ x >= s
      /\ s \in C
  BY <1>1, <1>2, <1>3 DEF Candidates
<1>5. Min(C) = s
  <2> HIDE DEF C, s
  <2>1. Min(C) \in C /\ \A y \in C : Min(C) <= y
    <3>1. \E x \in C : \A y \in C : x <= y
      BY <1>3, <1>4
    <3> DEFINE Q(x) == \A y \in C : x =< y
    <3>2. Min(C) = CHOOSE x \in C : Q(x)
      BY Zenon DEF Min
    <3>3. \E x \in C : Q(x)
      BY <3>1
    <3> HIDE DEF Q
    <3>4. Min(C) \in C /\ Q(Min(C))
      BY <3>2, <3>3, Zenon
    <3>5. QED  BY <3>4 DEF Q
  <2> DEFINE m == Min(C)
  <2> HIDE DEF m
  <2>2. m \in Int /\ m >= s /\ m <= s /\ s \in Int
    BY <1>3, <1>4, <2>1 DEF m
  <2>3. m = s  BY <2>2
  <2>4. QED  BY <2>3 DEF m
<1>6. s \in S /\ P(s) /\ \A a \in S : P(a) => a = s
  BY <1>2, <1>3
<1>7. FirstPage(listing, library) = s
  <2>1. FirstPage(listing, library) = CHOOSE a \in S : P(a)
    BY DEF FirstPage
  <2> HIDE DEF S, P, s
  <2>2. QED  BY <1>6, <2>1
<1>8. QED  BY <1>5, <1>7 DEF LoadBase

\* The variables one by one.
LEMMA Unchanged ==
  ASSUME UNCHANGED vars
  PROVE  UNCHANGED <<alive, leader, signal, pending, sent, lock, patched, regs, traced,
                     refs, maps, tls13, pc, at, base, inFlight, result, held, unfreed,
                     cut, read, answer>>
BY DEF vars, processVars, planVars, dataVars

\* The process's own threads, other signals and its death leave the inspector's
\* plan alone.
LEMMA OutsideIInv ==
  ASSUME IInv,
         \/ \E holder \in {"leader", "thread"} : Lock(holder) \/ Unlock(holder)
         \/ Signal \/ Dies \/ UNCHANGED vars
  PROVE  IInv'
<1> USE DEF IInv
<1>1. /\ UNCHANGED <<leader, signal, patched, regs, traced, refs, maps, pc, at, base,
                     inFlight, result, held, unfreed, cut, read, answer>>
      /\ alive' => alive
      /\ \/ alive' = alive /\ lock' = lock /\ traced /\ sent' = sent + 1 /\ sent < MaxSignals
            /\ pending' = pending \cup {"other"}
         \/ UNCHANGED <<sent, pending>> /\ alive' \in BOOLEAN
            /\ (lock' = lock \/ lock' \in {"free", "leader", "thread"})
  <2>1. CASE \E holder \in {"leader", "thread"} : Lock(holder) \/ Unlock(holder)
    <3>1. PICK holder \in {"leader", "thread"} : Lock(holder) \/ Unlock(holder)
      BY <2>1
    <3>2. UNCHANGED <<alive, leader, signal, pending, sent, patched, regs, traced, refs,
                      inFlight, result, maps, pc, at, base, held, unfreed, cut, read, answer>>
      BY <3>1 DEF Lock, Unlock, Environment, planVars, dataVars
    <3>3. lock' \in {"free", "leader", "thread"}
      BY <3>1 DEF Lock, Unlock
    <3>4. QED  BY <3>2, <3>3 DEF TypeOK
  <2>2. CASE Signal
    BY <2>2 DEF Signal, Environment, planVars, dataVars
  <2>3. CASE Dies
    BY <2>3 DEF Dies, Environment, planVars, dataVars, processVars
  <2>4. CASE UNCHANGED vars
    BY <2>4, Unchanged DEF TypeOK
  <2>5. QED  BY <2>1, <2>2, <2>3, <2>4
<1>2. TypeOK'
  <2>1. sent' \in 0..MaxSignals /\ pending' \subseteq {"stop", "other"}
    <3>1. sent \in 0..MaxSignals /\ pending \subseteq {"stop", "other"}
      BY DEF TypeOK
    <3>2. sent' = sent \/ (sent' = sent + 1 /\ sent < MaxSignals)
      BY <1>1
    <3>3. pending' = pending \/ pending' = pending \cup {"other"}
      BY <1>1
    <3>4. sent' \in 0..MaxSignals
      BY <3>1, <3>2, SignalsAssumption
    <3>5. QED  BY <3>1, <3>3, <3>4
  <2>2. alive' \in BOOLEAN /\ lock' \in {"free", "leader", "thread", "call"}
    BY <1>1 DEF TypeOK
  <2>3. QED  BY <1>1, <2>1, <2>2 DEF TypeOK
<1>3. LeaderInv'
  BY <1>1, SignalsAssumption DEF LeaderInv, TypeOK
<1>4. SignalInv'
  BY <1>1, SignalsAssumption DEF SignalInv, TypeOK
<1>5. BaseInv' /\ PlanInv' /\ RefsInv'
  BY <1>1 DEF BaseInv, PlanInv, RefsInv, Ran
<1>6. LeakInv' /\ LockInv'
  BY <1>1 DEF LeakInv, LockInv
<1>7. QED  BY <1>2, <1>3, <1>4, <1>5, <1>6

\* A stop of the leader: a signal overtakes what it was doing.
LEMMA StopsIInv ==
  ASSUME IInv, NEW s \in {"stop", "other"}, Stops(s)
  PROVE  IInv'
<1> USE DEF IInv
<1>1. /\ alive /\ traced /\ leader \in {"running", "calling", "inside"} /\ s \in pending
      /\ leader' = "stopped" /\ signal' = s /\ pending' = pending \ {s}
      /\ UNCHANGED <<alive, sent, lock, patched, regs, traced, refs, maps, tls13, pc, at,
                     base, inFlight, result, held, unfreed, cut, read, answer>>
  BY DEF Stops, Environment, planVars, dataVars
<1>2. pc \in {"attaching", "waiting"}
  BY <1>1 DEF TypeOK, LeaderInv
<1>3. TypeOK'  BY <1>1 DEF TypeOK
<1>4. LeaderInv'  BY <1>1, <1>2 DEF LeaderInv
<1>5. SignalInv'  BY <1>1 DEF SignalInv
<1>6. BaseInv' /\ PlanInv'  BY <1>1 DEF BaseInv, PlanInv
<1>7. RefsInv'  BY <1>1 DEF RefsInv, Ran
<1>8. LeakInv' /\ LockInv'  BY <1>1 DEF LeakInv, LockInv
<1>9. QED  BY <1>3, <1>4, <1>5, <1>6, <1>7, <1>8

\* The called function runs: it takes or frees its reference.
LEMMA EntersIInv ==
  ASSUME IInv, Enters
  PROVE  IInv'
<1> USE DEF IInv
<1>1. /\ alive /\ leader = "calling" /\ pending = {} /\ leader' = "inside"
      /\ inFlight \in Locking => lock = "free"
      /\ lock' = IF inFlight \in Locking THEN "call" ELSE lock
      /\ UNCHANGED <<alive, signal, pending, sent, patched, regs, traced, maps, tls13, pc,
                     at, base, inFlight, held, unfreed, cut, read, answer>>
  BY DEF Enters, Environment, planVars, dataVars
<1>2. \/ /\ inFlight \in Calls /\ result' \in Leads[inFlight]
         /\ refs' = refs \cup {r \in References : Taker[r] = inFlight /\ result' \in Scope[r]}
      \/ /\ inFlight \notin Calls /\ result' = result
         /\ refs' = refs \ {r \in References : Free[r] = inFlight}
  BY DEF Enters
<1>3. pc = "waiting" /\ inFlight \in Calls \cup Frees
  BY <1>1 DEF LeaderInv, PlanInv
<1>4. result' \in Calls \cup Ends \cup {"none"}
  BY <1>2, LeadsTo DEF TypeOK
<1>5. TypeOK'  BY <1>1, <1>2, <1>4 DEF TypeOK
<1>6. LeaderInv'  BY <1>1, <1>3 DEF LeaderInv
<1>7. SignalInv'  BY <1>1 DEF SignalInv
<1>8. BaseInv' /\ PlanInv'  BY <1>1 DEF BaseInv, PlanInv
<1>9. RefsInv'
  <2>1. CASE inFlight \in Calls
    <3>1. /\ result' \in Leads[inFlight]
          /\ refs' = refs \cup {r \in References : Taker[r] = inFlight /\ result' \in Scope[r]}
      BY <1>2, <2>1
    <3>2. \A r \in References : inFlight # Free[r]
      BY <2>1, Roles
    <3>3. Taken(inFlight', result') \subseteq refs'
      BY <1>1, <3>1 DEF Taken
    <3>4. held' \subseteq refs'
      BY <1>1, <3>1 DEF RefsInv
    <3>5. QED  BY <1>1, <3>1, <3>2, <3>3, <3>4 DEF RefsInv
  <2>2. CASE inFlight \notin Calls
    <3>1. refs' = refs \ {r \in References : Free[r] = inFlight}
      BY <1>2, <2>2
    <3>2. held' \subseteq refs'
      BY <1>1, <1>3, <3>1 DEF RefsInv, TypeOK
    <3>3. QED  BY <1>1, <2>2, <3>1, <3>2 DEF RefsInv
  <2>3. QED  BY <2>1, <2>2
<1>10. LeakInv'
  <2> SUFFICES ASSUME NEW r \in refs'
               PROVE  \/ r \in held \/ r \in unfreed \/ Taker[r] \in cut \/ Free[r] \in cut
                      \/ inFlight = Taker[r] /\ result' \in Scope[r]
                      \/ inFlight = Free[r]
    BY <1>1, <1>3 DEF LeakInv
  <2>1. CASE r \in refs
    BY <1>1, <2>1 DEF LeakInv
  <2>2. CASE r \notin refs
    BY <1>2, <2>2
  <2>3. QED  BY <2>1, <2>2
<1>11. LockInv'  BY <1>1, <1>3 DEF LockInv
<1>12. QED  BY <1>5, <1>6, <1>7, <1>8, <1>9, <1>10, <1>11

\* It returns, and has given the lock back.
LEMMA ReturnsIInv ==
  ASSUME IInv, Returns
  PROVE  IInv'
<1> USE DEF IInv
<1>1. /\ alive /\ leader = "inside" /\ leader' = "stopped" /\ signal' = "trap"
      /\ lock' = IF inFlight \in Locking THEN "free" ELSE lock
      /\ UNCHANGED <<alive, pending, sent, patched, regs, traced, refs, maps, tls13, pc, at,
                     base, inFlight, result, held, unfreed, cut, read, answer>>
  BY DEF Returns, Environment, planVars, dataVars
<1>2. pc = "waiting"
  BY <1>1 DEF LeaderInv
<1>3. TypeOK'  BY <1>1 DEF TypeOK
<1>4. LeaderInv'  BY <1>1, <1>2 DEF LeaderInv
<1>5. SignalInv'  BY <1>1 DEF SignalInv
<1>6. BaseInv' /\ PlanInv'  BY <1>1 DEF BaseInv, PlanInv
<1>7. RefsInv'  BY <1>1 DEF RefsInv, Ran
<1>8. LeakInv' /\ LockInv'  BY <1>1 DEF LeakInv, LockInv
<1>9. QED  BY <1>3, <1>4, <1>5, <1>6, <1>7, <1>8

\* Before the first call: resolving, attaching, waiting for the stop.
LEMMA BeginIInv ==
  ASSUME IInv, Refuse \/ Resolve \/ Attach \/ WaitForStop
  PROVE  IInv'
<1> USE DEF IInv
<1>1. /\ pc \in {"idle", "attach", "attaching"}
      /\ pc' \in {"attach", "attaching", "ready", "done"}
      /\ pc' = "attach" => pc = "idle"
      /\ pc' = "attaching" => pc = "attach" /\ pending' = pending \cup {"stop"}
      /\ pc' = "ready" => pc = "attaching" /\ leader = "stopped"
      /\ UNCHANGED <<alive, leader, signal, sent, lock, patched, regs, refs, maps, tls13, at,
                     inFlight, result, held, unfreed, cut, read, answer>>
      /\ pc' # "attaching" => UNCHANGED <<traced, pending>>
      /\ alive /\ pc' = "done" => pc # "attaching"
      /\ traced' \in BOOLEAN
  BY DEF Refuse, Resolve, Attach, WaitForStop, Inspector, processVars, planVars, dataVars,
         AfterAttach, TypeOK
<1>2. pending' \subseteq {"stop", "other"}
  BY <1>1 DEF TypeOK
<1>3. TypeOK'  BY <1>1, <1>2 DEF TypeOK
<1>4. LeaderInv'  BY <1>1 DEF LeaderInv
<1>5. SignalInv'
  <2>1. CASE pc' = "attaching"
    BY <1>1, <2>1 DEF SignalInv, LeaderInv
  <2>2. CASE pc' # "attaching"
    BY <1>1, <2>2 DEF SignalInv
  <2>3. QED  BY <2>1, <2>2
<1>6. BaseInv'
  <2>1. CASE Resolve
    <3>1. /\ maps' = maps /\ maps \in Listings
          /\ pc' = "done" \/ (Libraries \subseteq Mapped(maps) /\
               base' = [library \in Libraries |-> LoadBase(maps, library)])
      BY <2>1 DEF Resolve, Inspector, dataVars, BaseInv
    <3>2. CASE pc' = "done"
      BY <3>1, <3>2 DEF BaseInv
    <3>3. CASE pc' # "done"
      <4>1. \A library \in Libraries : base'[library] = FirstPage(maps, library)
        BY <3>1, <3>3, BaseIsFirst
      <4>2. QED  BY <3>1, <4>1 DEF BaseInv
    <3>4. QED  BY <3>2, <3>3
  <2>2. CASE Refuse \/ Attach \/ WaitForStop
    <3>1. UNCHANGED <<maps, base>>
      BY <2>2 DEF Refuse, Attach, WaitForStop, Inspector, dataVars
    <3>2. pc' = "done" \/ pc # "idle"
      BY <2>2 DEF Refuse, Attach, WaitForStop
    <3>3. QED  BY <1>1, <3>1, <3>2 DEF BaseInv
  <2>3. QED  BY <2>1, <2>2
<1>7. PlanInv'
  BY <1>1, Nesting DEF PlanInv, LeaderInv
<1>8. RefsInv'  BY <1>1 DEF RefsInv, Ran
<1>9. LeakInv' /\ LockInv'
  BY <1>1 DEF LeakInv, LockInv
<1>10. QED  BY <1>3, <1>4, <1>5, <1>6, <1>7, <1>8, <1>9

\* A call is started, or fails because the process is gone.
LEMMA StartCallIInv ==
  ASSUME IInv, StartCall
  PROVE  IInv'
<1> USE DEF IInv
<1>1. /\ pc = "ready" /\ at \in Calls /\ \A r \in held : at \in Scope[r]
      /\ UNCHANGED <<alive, sent, maps, tls13, signal, pending, lock, traced, refs, held,
                     unfreed, cut, read, base, result, answer>>
  BY DEF StartCall, Inspector, dataVars, Dropped
<1>2. CASE alive
  <2>1. /\ patched' = TRUE /\ regs' = "call" /\ leader' = "calling"
        /\ inFlight' = at /\ pc' = "waiting" /\ at' = at
    BY <1>2 DEF StartCall, Call
  <2>2. leader = "stopped"
    BY <1>1, <1>2 DEF LeaderInv
  <2>3. \A r \in References : at # Free[r]
    BY <1>1, Roles
  <2>4. TypeOK'  BY <1>1, <2>1 DEF TypeOK
  <2>5. LeaderInv'  BY <1>1, <2>1 DEF LeaderInv
  <2>6. SignalInv'  BY <1>1, <2>1, <2>2 DEF SignalInv
  <2>7. BaseInv'  BY <1>1, <2>1 DEF BaseInv
  <2>8. PlanInv'  BY <1>1, <2>1 DEF PlanInv
  <2>9. RefsInv'  BY <1>1, <2>1, <2>3 DEF RefsInv, Ran
  <2>10. LeakInv'  BY <1>1, <1>2, <2>1 DEF LeakInv
  <2>11. LockInv'  BY <1>1, <1>2, <2>1 DEF LockInv
  <2>12. QED  BY <2>4, <2>5, <2>6, <2>7, <2>8, <2>9, <2>10, <2>11
<1>3. CASE ~alive
  <2>1. at' = "error" /\ UNCHANGED <<patched, regs, leader, inFlight, pc>>
    BY <1>1, <1>3 DEF StartCall, Call, AfterFailure
  <2>2. \A r \in References : "error" \notin Scope[r]
    BY Roles DEF Ends
  <2>3. TypeOK'  BY <1>1, <2>1 DEF TypeOK, Ends
  <2>4. LeaderInv' /\ SignalInv' /\ BaseInv'
    BY <1>1, <1>3, <2>1 DEF LeaderInv, SignalInv, BaseInv
  <2>5. PlanInv' /\ RefsInv'  BY <1>1, <2>1, <2>2 DEF PlanInv, RefsInv, Ran
  <2>6. LeakInv' /\ LockInv'  BY <1>1, <1>3 DEF LeakInv, LockInv
  <2>7. QED  BY <2>3, <2>4, <2>5, <2>6
<1>4. QED  BY <1>2, <1>3

\* A function that is not found leads on without a call.
LEMMA SymbolMissingIInv ==
  ASSUME IInv, SymbolMissing
  PROVE  IInv'
<1> USE DEF IInv
<1>1. /\ pc = "ready" /\ at \in Resolves /\ at' = Route(Unresolved(at))
      /\ read' = read \cup Known[Unresolved(at)]
      /\ UNCHANGED <<alive, sent, maps, tls13, leader, signal, pending, lock, patched, regs,
                     traced, refs, pc, held, unfreed, cut, base, inFlight, result, answer>>
  BY DEF SymbolMissing, Goto, Inspector, dataVars, processVars
<1>2. at' \in Calls \cup Ends /\ at' \in {Unresolved(at), "end"} /\ read' = read
  BY <1>1, UnresolvedTo, RouteTo
<1>3. \A r \in References : at' \in Scope[r] => at \in Scope[r]
  BY <1>1, <1>2, UnresolvedTo, Roles DEF Ends
<1>4. TypeOK'  BY <1>1, <1>2 DEF TypeOK
<1>5. LeaderInv' /\ SignalInv' /\ BaseInv'
  BY <1>1, <1>2 DEF LeaderInv, SignalInv, BaseInv
<1>6. PlanInv'  BY <1>1, <1>3 DEF PlanInv
<1>7. RefsInv' /\ LeakInv' /\ LockInv'
  BY <1>1 DEF RefsInv, Ran, LeakInv, LockInv
<1>8. QED  BY <1>4, <1>5, <1>6, <1>7

\* The innermost reference whose scope is left: a session only after its BIO.
LEMMA InnermostDropped ==
  ASSUME TypeOK, Dropped # {}
  PROVE  /\ Innermost \in held /\ at \notin Scope[Innermost] /\ Innermost \in References
         /\ "bio" \in held \ {Innermost} => "session" \in held \ {Innermost}
<1>1. Innermost \in Dropped
  BY DEF Innermost
<1>2. "bio" \in held /\ Innermost = "session" => FALSE
  <2> SUFFICES ASSUME "bio" \in held, Innermost = "session" PROVE FALSE
    OBVIOUS
  <2>1. at \notin Scope["session"]
    BY <1>1 DEF Dropped
  <2>2. "bio" \in Dropped
    BY <2>1, Nesting DEF Dropped
  <2>3. QED  BY <2>2 DEF Innermost
<1>3. QED  BY <1>1, <1>2 DEF Dropped, TypeOK

\* A deferred free is started, or fails because the process is gone.
LEMMA StartFreeIInv ==
  ASSUME IInv, StartFree
  PROVE  IInv'
<1> USE DEF IInv
<1> DEFINE x == Innermost
<1>1. /\ pc = "ready" /\ Dropped # {} /\ held' = held \ {x}
      /\ UNCHANGED <<alive, sent, maps, tls13, signal, pending, lock, traced, refs,
                     unfreed, cut, read, base, result, answer>>
  BY DEF StartFree, AfterFree, Inspector, dataVars
<1>2. /\ x \in held /\ at \notin Scope[x] /\ x \in References /\ Free[x] \in Frees
      /\ Free[x] \notin Calls
      /\ "bio" \in held' => "session" \in held'
      /\ \A r \in References : Free[x] = Free[r] => r = x
      /\ \A r \in References : Free[x] # Taker[r]
  BY <1>1, InnermostDropped, Roles
<1>3. at' = at /\ (IF alive THEN /\ patched' = TRUE /\ regs' = "call" /\ leader' = "calling"
                                /\ inFlight' = Free[x] /\ pc' = "waiting"
                           ELSE UNCHANGED <<patched, regs, leader, inFlight, pc>>)
  BY <1>2 DEF StartFree, Call, AfterFailure
<1> HIDE DEF x
<1>4. TypeOK'
  <2>1. "cert" \in held' => held' = {"cert"}
    BY <1>1 DEF TypeOK
  <2>2. /\ patched' \in BOOLEAN /\ regs' \in {"own", "call"} /\ at' = at
        /\ leader' \in {"running", "stopped", "calling", "inside", "halted"}
        /\ inFlight' \in Calls \cup Frees \cup {"none"}
        /\ pc' \in {"idle", "attach", "attaching", "ready", "waiting", "done"}
    <3>1. CASE alive  BY <1>2, <1>3, <3>1
    <3>2. CASE ~alive  BY <1>3, <3>2 DEF TypeOK
    <3>3. QED  BY <3>1, <3>2
  <2>3. held' \subseteq References  BY <1>1 DEF TypeOK
  <2>4. QED  BY <1>1, <1>2, <2>1, <2>2, <2>3 DEF TypeOK
<1>5. BaseInv'  BY <1>1, <1>3 DEF BaseInv
<1>6. \A r \in References : at \in Scope[r] => r \in held'
  BY <1>1, <1>2 DEF PlanInv
<1>7. CASE alive
  <2>1. leader = "stopped"  BY <1>1, <1>7 DEF LeaderInv
  <2>2. LeaderInv' /\ SignalInv'
    BY <1>1, <1>3, <1>7, <2>1 DEF LeaderInv, SignalInv
  <2>3. PlanInv'  BY <1>2, <1>3, <1>6, <1>7 DEF PlanInv
  <2>4. RefsInv'
    BY <1>1, <1>2, <1>3, <1>7 DEF RefsInv, Ran
  <2>5. LeakInv'
    <3> SUFFICES ASSUME NEW r \in refs
                 PROVE  \/ r \in held' \/ r \in unfreed \/ Taker[r] \in cut \/ Free[r] \in cut
                        \/ Free[x] = Free[r]
      BY <1>1, <1>3, <1>7 DEF LeakInv
    <3>1. QED  BY <1>1, <1>7 DEF LeakInv
  <2>6. LockInv'  BY <1>1, <1>3, <1>7 DEF LockInv
  <2>7. QED  BY <1>4, <1>5, <2>2, <2>3, <2>4, <2>5, <2>6
<1>8. CASE ~alive
  <2>1. LeaderInv' /\ SignalInv'
    BY <1>1, <1>3, <1>8 DEF LeaderInv, SignalInv
  <2>2. PlanInv'  BY <1>1, <1>3, <1>6, <1>8 DEF PlanInv
  <2>3. RefsInv'  BY <1>1, <1>3, <1>8 DEF RefsInv, Ran
  <2>4. LeakInv' /\ LockInv'  BY <1>1, <1>8 DEF LeakInv, LockInv
  <2>5. QED  BY <1>4, <1>5, <2>1, <2>2, <2>3, <2>4
<1>9. QED  BY <1>7, <1>8

\* A free function that is not found leaves the reference behind, on record.
LEMMA FreeMissingIInv ==
  ASSUME IInv, FreeMissing
  PROVE  IInv'
<1> USE DEF IInv
<1> DEFINE x == Innermost
<1>1. /\ pc = "ready" /\ Dropped # {} /\ held' = held \ {x} /\ unfreed' = unfreed \cup {x}
      /\ UNCHANGED <<alive, sent, maps, tls13, leader, signal, pending, lock, patched, regs,
                     traced, refs, pc, at, cut, read, base, inFlight, result, answer>>
  BY DEF FreeMissing, Inspector, dataVars, processVars
<1>2. /\ x \in held /\ at \notin Scope[x] /\ x \in References
      /\ "bio" \in held' => "session" \in held'
  BY <1>1, InnermostDropped
<1> HIDE DEF x
<1>3. TypeOK'
  <2>1. "cert" \in held' => held' = {"cert"}
    BY <1>1 DEF TypeOK
  <2>2. QED  BY <1>1, <1>2, <2>1 DEF TypeOK
<1>4. LeaderInv' /\ SignalInv' /\ BaseInv'
  BY <1>1 DEF LeaderInv, SignalInv, BaseInv
<1>5. PlanInv'  BY <1>1, <1>2 DEF PlanInv
<1>6. RefsInv'  BY <1>1 DEF RefsInv, Ran
<1>7. LeakInv' /\ LockInv'  BY <1>1 DEF LeakInv, LockInv
<1>8. QED  BY <1>3, <1>4, <1>5, <1>6, <1>7

\* The inspector notices the end of a call: the trap tells where to go and what
\* is held, any other stop cuts the call short.
LEMMA FinishCallIInv ==
  ASSUME IInv, FinishCall
  PROVE  IInv'
<1> USE DEF IInv
<1>1. /\ pc = "waiting" /\ alive /\ leader = "stopped" /\ pc' = "ready"
      /\ patched' = FALSE /\ regs' = "own"
      /\ UNCHANGED <<alive, sent, maps, tls13, leader, signal, pending, lock, traced, refs,
                     unfreed, base, inFlight, result, answer>>
  BY DEF FinishCall, CallOver, Restore, Inspector, dataVars
<1>2. inFlight \in Calls \cup Frees
  BY <1>1 DEF PlanInv
<1>3. CASE signal # "trap"
  <2>1. /\ cut' = cut \cup {inFlight} /\ held' = held /\ read' = read
        /\ at' = IF inFlight \in Calls THEN "error" ELSE at
    BY <1>3 DEF FinishCall, AfterFailure
  <2>2. \A r \in References : "error" \notin Scope[r]
    BY Roles DEF Ends
  <2>3. TypeOK'  BY <1>1, <1>2, <2>1 DEF TypeOK, Ends
  <2>4. LeaderInv' /\ SignalInv' /\ BaseInv'
    BY <1>1, <2>1 DEF LeaderInv, SignalInv, BaseInv
  <2>5. PlanInv'  BY <1>1, <2>1, <2>2 DEF PlanInv
  <2>6. RefsInv'  BY <1>1, <2>1 DEF RefsInv
  <2>7. LeakInv'
    BY <1>1, <2>1 DEF LeakInv
  <2>8. LockInv'  BY <2>1 DEF LockInv
  <2>9. QED  BY <2>3, <2>4, <2>5, <2>6, <2>7, <2>8
<1>4. CASE signal = "trap" /\ inFlight \in Calls
  <2> DEFINE new == Taken(inFlight, result)
  <2>1. /\ at' = Route(result) /\ read' = read \cup Known[result]
        /\ held' = held \cup new /\ cut' = cut
    BY <1>4 DEF FinishCall, Goto
  <2>2. result \in Leads[inFlight] /\ new \subseteq refs
        /\ at = inFlight /\ \A r \in held : at \in Scope[r]
    BY <1>1, <1>4 DEF RefsInv, PlanInv, Ran
  <2>3. /\ result \in Calls \cup Ends /\ at' \in Calls \cup Ends /\ at' \in {result, "end"}
        /\ \A r \in References :
             at' \in Scope[r] => result \in Scope[r] /\ (inFlight \in Scope[r] \/ Taker[r] = inFlight)
    BY <1>4, <2>1, <2>2, LeadsTo, RouteTo, Roles DEF Ends
  <2>4. \A r \in References : r \in new <=> Taker[r] = inFlight /\ result \in Scope[r]
    BY DEF Taken
  <2>5. new \subseteq References  BY DEF Taken
  <2> HIDE DEF new
  <2>6. \A r \in References : at' \in Scope[r] => r \in held'
    BY <1>1, <2>1, <2>2, <2>3, <2>4 DEF PlanInv
  <2>7. /\ "cert" \in held' => held' = {"cert"}
        /\ "bio" \in held' => "session" \in held'
    <3>1. CASE "cert" \in new \/ "session" \in new
      <4>1. held = {}
        <5>1. \A r \in References : inFlight \notin Scope[r]
          BY <2>4, <3>1, Nesting
        <5>2. QED  BY <2>2, <5>1 DEF TypeOK
      <4>2. \A r, q \in new : r = q
        BY <2>4, <2>5, Roles
      <4>3. QED  BY <2>1, <3>1, <4>1, <4>2
    <3>2. CASE "bio" \in new
      <4>1. /\ inFlight \in Scope["session"] /\ inFlight \notin Scope["cert"]
            /\ "session" \in References /\ "cert" \in References
        BY <2>4, <3>2, Nesting
      <4>2. "session" \in held /\ "cert" \notin held
        BY <1>1, <2>2, <4>1 DEF PlanInv
      <4>3. \A r \in new : r = "bio"
        BY <2>4, <2>5, <3>2, Roles
      <4>4. QED  BY <2>1, <4>2, <4>3
    <3>3. CASE new = {}
      BY <2>1, <3>3 DEF TypeOK
    <3>4. QED  BY <2>5, <3>1, <3>2, <3>3, Nesting
  <2>8. read' \subseteq UNION {Known[p] : p \in DOMAIN Known} /\ answer \subseteq read'
    <3>1. result \in DOMAIN Known  BY <2>3 DEF Known
    <3>2. QED  BY <2>1, <3>1 DEF TypeOK
  <2>9. TypeOK'
    BY <1>1, <2>1, <2>3, <2>5, <2>7, <2>8 DEF TypeOK
  <2>10. "stop" \notin pending
    BY <1>4 DEF SignalInv
  <2>11. LeaderInv' /\ SignalInv' /\ BaseInv'
    BY <1>1, <2>10 DEF LeaderInv, SignalInv, BaseInv
  <2>12. PlanInv'  BY <1>1, <2>6 DEF PlanInv
  <2>13. RefsInv'  BY <1>1, <2>1, <2>2 DEF RefsInv
  <2>14. LeakInv'
    <3> SUFFICES ASSUME NEW r \in refs
                 PROVE  r \in held' \/ r \in unfreed \/ Taker[r] \in cut \/ Free[r] \in cut
      BY <1>1, <2>1 DEF LeakInv
    <3>1. r \in References  BY DEF TypeOK
    <3>2. inFlight # Free[r]  BY <1>4, <3>1, Roles
    <3>3. QED  BY <1>1, <2>1, <2>4, <3>1, <3>2 DEF LeakInv
  <2>15. LockInv'  BY <1>1, <1>4, <2>1 DEF LockInv
  <2>16. QED  BY <2>9, <2>11, <2>12, <2>13, <2>14, <2>15
<1>5. CASE signal = "trap" /\ inFlight \notin Calls
  <2>1. PICK x \in References : inFlight = Free[x]
    BY <1>2, <1>5, Roles
  <2>2. Taken(inFlight, result) = {}
    BY <1>5, Roles DEF Taken
  <2>3. at' = at /\ read' = read /\ held' = held /\ cut' = cut
    BY <1>5, <2>2 DEF FinishCall
  <2>4. x \notin refs
    BY <1>1, <1>5, <2>1 DEF RefsInv, Ran
  <2>5. TypeOK'  BY <1>1, <2>3 DEF TypeOK
  <2>6. LeaderInv' /\ SignalInv' /\ BaseInv'
    BY <1>1, <2>3 DEF LeaderInv, SignalInv, BaseInv
  <2>7. PlanInv'  BY <1>1, <2>3 DEF PlanInv
  <2>8. RefsInv'  BY <1>1, <2>3 DEF RefsInv
  <2>9. LeakInv'
    <3> SUFFICES ASSUME NEW r \in refs
                 PROVE  r \in held' \/ r \in unfreed \/ Taker[r] \in cut \/ Free[r] \in cut
      BY <1>1, <2>3 DEF LeakInv
    <3>1. r \in References  BY DEF TypeOK
    <3>2. inFlight # Free[r] /\ inFlight # Taker[r]
      BY <1>5, <2>1, <2>4, <3>1, Roles
    <3>3. QED  BY <1>1, <2>3, <3>1, <3>2 DEF LeakInv
  <2>10. LockInv'  BY <1>1, <1>5, <2>3 DEF LockInv
  <2>11. QED  BY <2>5, <2>6, <2>7, <2>8, <2>9, <2>10
<1>6. QED  BY <1>3, <1>4, <1>5

\* The inspector notices that the process died during a call.
LEMMA LoseCallIInv ==
  ASSUME IInv, LoseCall
  PROVE  IInv'
<1> USE DEF IInv
<1>1. /\ pc = "waiting" /\ ~alive /\ pc' = "ready"
      /\ at' = IF inFlight \in Calls THEN "error" ELSE at
      /\ UNCHANGED <<alive, sent, maps, tls13, leader, signal, pending, lock, patched, regs,
                     traced, refs, held, unfreed, cut, read, base, inFlight, result, answer>>
  BY DEF LoseCall, AfterFailure, Inspector, dataVars, processVars
<1>2. \A r \in References : "error" \notin Scope[r]
  BY Roles DEF Ends
<1>3. TypeOK'  BY <1>1 DEF TypeOK, Ends
<1>4. LeaderInv' /\ SignalInv' /\ BaseInv'
  BY <1>1 DEF LeaderInv, SignalInv, BaseInv
<1>5. PlanInv' /\ RefsInv'  BY <1>1, <1>2 DEF PlanInv, RefsInv
<1>6. LeakInv' /\ LockInv'  BY <1>1 DEF LeakInv, LockInv
<1>7. QED  BY <1>3, <1>4, <1>5, <1>6

\* The end of Inspect: nothing is held, and the process goes on.
LEMMA CloseIInv ==
  ASSUME IInv, Close
  PROVE  IInv'
<1> USE DEF IInv
<1>1. /\ pc = "ready" /\ at \in Ends /\ \A r \in held : at \in Scope[r]
      /\ pc' = "done" /\ patched' = FALSE /\ regs' = "own" /\ traced' = FALSE
      /\ leader' = IF "stop" \in pending THEN "halted" ELSE "running"
      /\ answer' \subseteq read
      /\ UNCHANGED <<alive, sent, maps, tls13, signal, pending, lock, refs, at, held, unfreed,
                     cut, read, base, inFlight, result>>
  BY DEF Close, Detach, Inspector, dataVars, planVars, Dropped
<1>2. held = {}
  BY <1>1, Roles DEF TypeOK
<1>3. leader # "running"
  BY <1>1 DEF LeaderInv
<1>4. TypeOK'  BY <1>1 DEF TypeOK
<1>5. LeaderInv'  BY <1>1, <1>3 DEF LeaderInv, SignalInv
<1>6. SignalInv'  BY <1>1, <1>3 DEF SignalInv
<1>7. BaseInv' /\ PlanInv' /\ RefsInv'
  BY <1>1, <1>2 DEF BaseInv, PlanInv, RefsInv
<1>8. LeakInv' /\ LockInv'
  BY <1>1 DEF LeakInv, LockInv
<1>9. QED  BY <1>4, <1>5, <1>6, <1>7, <1>8

\* The end of Inspect before its first call.
LEMMA FailAttachIInv ==
  ASSUME IInv, FailAttach
  PROVE  IInv'
<1> USE DEF IInv
<1>1. /\ pc = "attaching" /\ alive /\ leader = "stopped"
      /\ pc' = "done" /\ traced' = FALSE
      /\ leader' = IF "stop" \in pending THEN "halted" ELSE "running"
      /\ UNCHANGED <<alive, sent, maps, tls13, signal, pending, lock, patched, regs, refs, at,
                     held, unfreed, cut, read, base, inFlight, result, answer>>
  BY DEF FailAttach, Detach, Inspector, dataVars, planVars
<1>2. refs = {} /\ held = {} /\ read = {} /\ ~patched /\ regs = "own"
  BY <1>1 DEF LeaderInv
<1>3. TypeOK'  BY <1>1 DEF TypeOK
<1>4. LeaderInv'  BY <1>1, <1>2 DEF LeaderInv, SignalInv
<1>5. SignalInv'  BY <1>1 DEF SignalInv
<1>6. BaseInv' /\ PlanInv' /\ RefsInv'
  BY <1>1, <1>2 DEF BaseInv, PlanInv, RefsInv
<1>7. LeakInv' /\ LockInv'
  BY <1>1, <1>2 DEF LeakInv, LockInv
<1>8. QED  BY <1>3, <1>4, <1>5, <1>6, <1>7

\* IInv holds in every reachable state.
THEOREM Invariance == Spec => []IInv
<1>1. ASSUME Init PROVE IInv
  <2>1. TypeOK
    <3>1. sent \in 0..MaxSignals
      BY <1>1, SignalsAssumption DEF Init
    <3>2. at \in Calls \cup Ends
      BY <1>1, Nesting DEF Init
    <3>3. /\ refs = {} /\ held = {} /\ unfreed = {} /\ cut = {} /\ read = {} /\ answer = {}
          /\ pending = {} /\ inFlight = "none" /\ result = "none"
      BY <1>1 DEF Init
    <3>4. /\ alive \in BOOLEAN /\ patched \in BOOLEAN /\ traced \in BOOLEAN
          /\ leader = "running" /\ signal = "none" /\ regs = "own" /\ pc = "idle"
          /\ lock \in {"free", "leader", "thread", "call"}
      BY <1>1 DEF Init
    <3>5. QED  BY <3>1, <3>2, <3>3, <3>4 DEF TypeOK
  <2>2. LeaderInv /\ SignalInv /\ BaseInv /\ RefsInv /\ LeakInv /\ LockInv
    BY <1>1 DEF Init, LeaderInv, SignalInv, BaseInv, RefsInv, LeakInv, LockInv
  <2>3. PlanInv
    BY <1>1 DEF Init, PlanInv
  <2>4. QED  BY <2>1, <2>2, <2>3 DEF IInv
<1>2. IInv /\ [Next]_vars => IInv'
  <2> SUFFICES ASSUME IInv, [Next]_vars PROVE IInv'  OBVIOUS
  <2>1. CASE Refuse \/ Resolve \/ Attach \/ WaitForStop  BY <2>1, BeginIInv
  <2>2. CASE StartCall  BY <2>2, StartCallIInv
  <2>3. CASE SymbolMissing  BY <2>3, SymbolMissingIInv
  <2>4. CASE StartFree  BY <2>4, StartFreeIInv
  <2>5. CASE FreeMissing  BY <2>5, FreeMissingIInv
  <2>6. CASE FinishCall  BY <2>6, FinishCallIInv
  <2>7. CASE LoseCall  BY <2>7, LoseCallIInv
  <2>8. CASE Close \/ FailAttach  BY <2>8, CloseIInv, FailAttachIInv
  <2>9. CASE \/ \E holder \in {"leader", "thread"} : Lock(holder) \/ Unlock(holder)
             \/ Signal \/ Dies \/ UNCHANGED vars
    BY <2>9, OutsideIInv
  <2>10. CASE \E s \in {"stop", "other"} : Stops(s)  BY <2>10, StopsIInv
  <2>11. CASE Enters  BY <2>11, EntersIInv
  <2>12. CASE Returns  BY <2>12, ReturnsIInv
  <2>13. QED
    BY <2>1, <2>2, <2>3, <2>4, <2>5, <2>6, <2>7, <2>8, <2>9, <2>10, <2>11, <2>12
    DEF Next, Inspects, Process, Finished
<1>3. QED  BY <1>1, <1>2, PTL DEF Spec

-------------------------------------------------------------------------------
\* The variables of one Inspect keep their types, and what it holds is nested.
THEOREM TypeCorrect == Spec => []TypeOK
<1>1. IInv => TypeOK  BY DEF IInv
<1>2. QED  BY <1>1, Invariance, PTL

\* The process is left with its own code and registers, untraced, and running
\* unless a late SIGSTOP halted it.
THEOREM FoundAgain == Spec => []LeftAsFound
<1>1. IInv => LeftAsFound
  BY DEF IInv, LeaderInv, LeftAsFound
<1>2. QED  BY <1>1, Invariance, PTL

\* The leader is sent to the library's own address of a function, with
\* references the process holds.
THEOREM SoundCalls == Spec => []CallsAreSound
<1>1. IInv => CallsAreSound
  <2> SUFFICES ASSUME IInv, alive, leader = "calling"
               PROVE  /\ base[LibraryOf(inFlight)] = FirstPage(maps, LibraryOf(inFlight))
                      /\ \A r \in References :
                           inFlight \in Scope[r] \cup {Free[r]} => r \in refs
    BY DEF CallsAreSound
  <2>1. pc = "waiting" /\ inFlight \in Calls \cup Frees
    BY DEF IInv, LeaderInv, PlanInv
  <2>2. LibraryOf(inFlight) \in Libraries
    BY DEF LibraryOf, Libraries
  <2>3. ASSUME NEW r \in References, inFlight \in Scope[r] PROVE r \in refs
    <3>1. inFlight \in Calls  BY <2>3, Roles
    <3>2. QED  BY <2>1, <2>3, <3>1 DEF IInv, PlanInv, RefsInv
  <2>4. ASSUME NEW r \in References, inFlight = Free[r] PROVE r \in refs
    BY <2>1, <2>4 DEF IInv, RefsInv
  <2>5. QED  BY <2>1, <2>2, <2>3, <2>4 DEF IInv, BaseInv
<1>2. QED  BY <1>1, Invariance, PTL

\* What was taken in the process is given back, but for what a cut or missing
\* function explains.
THEOREM NoLeaks == Spec => []NothingLeaks
<1>1. IInv => NothingLeaks
  <2> SUFFICES ASSUME IInv, alive, pc = "done", NEW r \in refs
               PROVE  r \in unfreed \/ Taker[r] \in cut \/ Free[r] \in cut
    BY DEF NothingLeaks
  <2>1. held = {}  BY DEF IInv, PlanInv
  <2>2. QED  BY <2>1 DEF IInv, LeakInv
<1>2. QED  BY <1>1, Invariance, PTL

\* Only a call that was cut short leaves the libraries' lock taken.
THEOREM LockReturned == Spec => []LockIsReturned
<1>1. IInv => LockIsReturned
  BY DEF IInv, LockInv, LockIsReturned
<1>2. QED  BY <1>1, Invariance, PTL

-------------------------------------------------------------------------------
(* Inspect comes forward with every step, and only the lock can keep it.     *)

\* How many calls can still follow a place.
Rank ==
  [place \in Calls \cup Ends |->
     CASE place = "SSL_get_version"            -> 17
       [] place = "SSL_get_current_cipher"     -> 16
       [] place = "SSL_CIPHER_get_name"        -> 15
       [] place = "SSL_get0_alpn_selected"     -> 14
       [] place = "SSL_get1_peer_certificate"  -> 13
       [] place = "X509_get_subject_name"      -> 12
       [] place = "X509_get_issuer_name"       -> 11
       [] place = "X509_NAME_oneline(subject)" -> 10
       [] place = "X509_NAME_oneline(issuer)"  -> 9
       [] place = "SSL_get1_session"           -> 8
       [] place = "BIO_s_mem"                  -> 7
       [] place = "BIO_new"                    -> 6
       [] place = "SSL_SESSION_print_keylog"   -> 5
       [] place = "BIO_ctrl_pending"           -> 4
       [] place = "BIO_read"                   -> 3
       [] place = "SSL_get_client_random"      -> 2
       [] place = "SSL_SESSION_get_master_key" -> 1
       [] OTHER                                -> 0]

One(r) == IF r \in held THEN 1 ELSE 0
HeldCount == One("cert") + One("session") + One("bio")
Left == 4 * Rank[at] + 2 * HeldCount

\* A bound on the steps the inspector has still to take: a call costs two and
\* may leave a reference whose free costs two.
StepsLeft ==
  CASE pc = "idle"      -> Left + 4
    [] pc = "attach"    -> Left + 3
    [] pc = "attaching" -> Left + 2
    [] pc = "ready"     -> Left + 1
    [] pc = "waiting"   -> IF inFlight \in Calls THEN Left ELSE Left + 2
    [] OTHER            -> 0

\* Each step of Inspect brings it nearer to its end, whatever the calls return
\* or lack, and nothing the process does takes it back: the sequence of remote
\* calls of Inspect and its deferred frees has no loop.
ComesForward ==
  [][/\ Inspects => StepsLeft' < StepsLeft
     /\ ~Inspects => StepsLeft' = StepsLeft]_vars

\* The inspector has something to do: it waits only for the leader to stop.
InspectorMoves ==
  \/ pc \in {"idle", "attach", "ready"}
  \/ pc \in {"attaching", "waiting"} /\ (leader = "stopped" \/ ~alive)

\* The leader has: a signal to take, a function to enter or to return from.
LeaderMoves ==
  \/ traced /\ leader \in {"running", "calling", "inside"} /\ pending # {}
  \/ leader = "inside"
  \/ leader = "calling" /\ pending = {} /\ (inFlight \in Locking => lock = "free")

\* The leader waits in a called function for the lock of the libraries, which it
\* held itself when it was stopped, another thread holds, or a call left that a
\* signal cut short.
WaitsForLock ==
  /\ pc = "waiting" /\ leader = "calling" /\ inFlight \in Locking
  /\ lock \in {"leader", "thread"} \/ (lock = "call" /\ cut # {})

\* Nothing but the libraries' lock holds Inspect up: until it has returned, it or
\* the process's leader can go on, or the leader is at that lock (waitForStop and
\* waitForTrap wait without limit).
OnlyTheLockBlocks ==
  pc = "done" \/ InspectorMoves \/ LeaderMoves \/ WaitsForLock

\* The rank of a place is a number, and that of an end is zero.
LEMMA RankType ==
  /\ \A p \in Calls \cup Ends : Rank[p] \in 0..17
  /\ \A p \in Calls : Rank[p] > 0
  /\ \A p \in Ends : Rank[p] = 0
  /\ Rank["SSL_get_version"] = 17
BY DEF Rank, Calls, Ends, Metadata, OfCert, OfBio, OfSession

\* A call leads only to places of a lower rank.
LEMMA RankLeads ==
  ASSUME NEW c \in Calls, NEW p \in Leads[c]
  PROVE  Rank[p] < Rank[c]
BY DEF Rank, Leads, Calls, Ends, Metadata, OfCert, OfBio, OfSession

\* So does a missing function.
LEMMA RankUnresolved ==
  ASSUME NEW c \in Resolves
  PROVE  c \in Calls /\ Rank[Unresolved(c)] < Rank[c]
BY DEF Rank, Unresolved, Resolves, Calls, Ends, Metadata, OfCert, OfBio, OfSession

\* A place Inspect is routed to instead has no higher rank.
LEMMA RankRoute ==
  ASSUME NEW p \in Calls \cup Ends
  PROVE  Rank[Route(p)] <= Rank[p] /\ Rank[Route(p)] \in 0..17
<1>1. Rank["end"] = 0
  BY RankType DEF Ends
<1>2. Rank[p] \in 0..17
  BY RankType
<1>3. QED  BY <1>1, <1>2, RouteTo

\* The references held are counted by a number.
LEMMA CountType == HeldCount \in 0..3 /\ HeldCount' \in 0..3
BY DEF HeldCount, One

\* Giving up one of them lowers the count.
LEMMA CountDrops ==
  ASSUME NEW r \in held, r \in References, held' = held \ {r}
  PROVE  HeldCount' = HeldCount - 1
<1>1. CASE r = "cert"  BY <1>1 DEF HeldCount, One
<1>2. CASE r = "session"  BY <1>2 DEF HeldCount, One
<1>3. CASE r = "bio"  BY <1>3 DEF HeldCount, One
<1>4. QED  BY <1>1, <1>2, <1>3 DEF References

\* A call leaves at most one more.
LEMMA CountGrows ==
  ASSUME NEW c, NEW p, held' = held \cup Taken(c, p)
  PROVE  HeldCount' <= HeldCount + 1
<1>1. \A r, q \in Taken(c, p) : r = q
  BY Roles DEF Taken
<1>2. Taken(c, p) \subseteq {"cert", "session", "bio"}
  BY DEF Taken, References
<1> DEFINE T == Taken(c, p)
<1> HIDE DEF T
<1>3. T = {} \/ T = {"cert"} \/ T = {"session"} \/ T = {"bio"}
  BY <1>1, <1>2 DEF T
<1>4. held' = held \cup T
  BY DEF T
<1>5. CASE T = {}  BY <1>4, <1>5, CountType DEF HeldCount, One
<1>6. CASE T = {"cert"}  BY <1>4, <1>6 DEF HeldCount, One
<1>7. CASE T = {"session"}  BY <1>4, <1>7 DEF HeldCount, One
<1>8. CASE T = {"bio"}  BY <1>4, <1>8 DEF HeldCount, One
<1>9. QED  BY <1>3, <1>5, <1>6, <1>7, <1>8

\* The bound is a number.
LEMMA StepsLeftType ==
  ASSUME TypeOK
  PROVE  StepsLeft \in Nat /\ Rank[at] \in 0..17 /\ Left \in Nat
<1>1. Rank[at] \in 0..17
  BY RankType DEF TypeOK
<1>2. Left \in Nat
  BY <1>1, CountType DEF Left
<1>3. QED  BY <1>1, <1>2 DEF StepsLeft

\* Resolving, attaching and waiting for the first stop come forward.
LEMMA BeginForward ==
  ASSUME IInv, Refuse \/ Resolve \/ Attach \/ WaitForStop
  PROVE  StepsLeft' < StepsLeft
<1>1. /\ pc = "idle" => pc' \in {"attach", "done"}
      /\ pc = "attach" => pc' \in {"attaching", "done"}
      /\ pc = "attaching" => pc' \in {"ready", "done"}
      /\ pc \in {"idle", "attach", "attaching"}
      /\ UNCHANGED <<at, held, inFlight>>
  BY DEF Refuse, Resolve, Attach, WaitForStop, AfterAttach, processVars, planVars
<1>2. Left \in Nat
  BY StepsLeftType DEF IInv
<1>3. Left' = Left
  BY <1>1 DEF Left, HeldCount, One
<1>4. QED  BY <1>1, <1>2, <1>3 DEF StepsLeft

\* Starting a call, or going on without it, comes forward.
LEMMA StartCallForward ==
  ASSUME IInv, StartCall \/ SymbolMissing
  PROVE  StepsLeft' < StepsLeft
<1>1. pc = "ready" /\ held' = held /\ HeldCount' = HeldCount /\ at \in Calls
  BY RankUnresolved DEF StartCall, SymbolMissing, HeldCount, One
<1>2. Rank[at] \in 1..17 /\ HeldCount \in 0..3
  BY <1>1, RankType, CountType
<1>3. CASE StartCall /\ alive
  <2>1. pc' = "waiting" /\ at' = at /\ inFlight' \in Calls
    BY <1>1, <1>3 DEF StartCall, Call
  <2>2. QED  BY <1>1, <1>2, <2>1 DEF StepsLeft, Left
<1>4. CASE StartCall /\ ~alive
  <2>1. pc' = "ready" /\ at' = "error"
    BY <1>1, <1>4 DEF StartCall, Call, AfterFailure
  <2>2. Rank[at'] = 0
    BY <2>1, RankType DEF Ends
  <2>3. QED  BY <1>1, <1>2, <2>1, <2>2 DEF StepsLeft, Left
<1>5. CASE SymbolMissing
  <2>1. pc' = "ready" /\ at \in Resolves /\ at' = Route(Unresolved(at))
    BY <1>1, <1>5 DEF SymbolMissing, Goto
  <2>2. Unresolved(at) \in Calls \cup Ends
    BY <2>1, UnresolvedTo
  <2>3. Rank[at'] \in 0..17 /\ Rank[at'] < Rank[at]
    BY <1>2, <2>1, <2>2, RankUnresolved, RankRoute, RankType
  <2>4. QED  BY <1>1, <1>2, <2>1, <2>3 DEF StepsLeft, Left
<1>6. QED  BY <1>3, <1>4, <1>5

\* So does a deferred free.
LEMMA FreeForward ==
  ASSUME IInv, StartFree \/ FreeMissing
  PROVE  StepsLeft' < StepsLeft
<1>1. pc = "ready" /\ Dropped # {} /\ held' = held \ {Innermost}
  BY DEF StartFree, FreeMissing, AfterFree
<1>2. Innermost \in held /\ Innermost \in References
  BY <1>1, InnermostDropped DEF IInv
<1>3. HeldCount' = HeldCount - 1 /\ HeldCount \in 0..3 /\ HeldCount' \in 0..3
  BY <1>1, <1>2, CountDrops, CountType
<1>4. Rank[at] \in 0..17
  BY StepsLeftType DEF IInv
<1>5. Free[Innermost] \notin Calls
  BY <1>2, Roles
<1>6. at' = at /\ (pc' = "ready" \/ (pc' = "waiting" /\ inFlight' \notin Calls))
  BY <1>1, <1>5 DEF StartFree, FreeMissing, Call, AfterFailure, planVars, processVars
<1>7. QED  BY <1>1, <1>3, <1>4, <1>6 DEF StepsLeft, Left

\* The end of a call comes forward: the next place has a lower rank, and the one
\* reference it may have taken costs less than that.
LEMMA FinishForward ==
  ASSUME IInv, FinishCall \/ LoseCall
  PROVE  StepsLeft' < StepsLeft
<1> USE DEF IInv
<1>1. pc = "waiting" /\ pc' = "ready" /\ inFlight \in Calls \cup Frees
      /\ (inFlight \in Calls => at = inFlight)
  BY DEF FinishCall, LoseCall, PlanInv
<1>2. Rank[at] \in 0..17 /\ HeldCount \in 0..3 /\ HeldCount' \in 0..3
  BY StepsLeftType, CountType
<1>3. Rank["error"] = 0
  BY RankType DEF Ends
<1>4. inFlight \in Calls => Rank[at] > 0
  BY <1>1, RankType
<1>5. CASE LoseCall \/ signal # "trap"
  <2>1. held' = held /\ HeldCount' = HeldCount
    BY <1>5 DEF FinishCall, LoseCall, HeldCount, One
  <2>2. at' = AfterFailure(inFlight)
    BY <1>5 DEF FinishCall, LoseCall
  <2>3. CASE inFlight \in Calls
    <3>1. Rank[at'] = 0  BY <1>3, <2>2, <2>3 DEF AfterFailure
    <3>2. QED  BY <1>1, <1>2, <1>4, <2>1, <2>3, <3>1 DEF StepsLeft, Left
  <2>4. CASE inFlight \notin Calls
    <3>1. at' = at  BY <2>2, <2>4 DEF AfterFailure
    <3>2. QED  BY <1>1, <1>2, <2>1, <2>4, <3>1 DEF StepsLeft, Left
  <2>5. QED  BY <2>3, <2>4
<1>6. CASE FinishCall /\ signal = "trap"
  <2>1. alive /\ leader = "stopped" /\ held' = held \cup Taken(inFlight, result)
    BY <1>6 DEF FinishCall, CallOver
  <2>2. CASE inFlight \in Calls
    <3>1. at' = Route(result)
      BY <1>6, <2>2 DEF FinishCall, Goto
    <3>2. result \in Leads[inFlight]
      BY <1>1, <1>6, <2>1, <2>2 DEF RefsInv, Ran
    <3>3. result \in Calls \cup Ends
      BY <2>2, <3>2, LeadsTo
    <3>4. Rank[at'] \in 0..17 /\ Rank[at'] < Rank[at]
      BY <1>1, <1>2, <2>2, <3>1, <3>2, <3>3, RankLeads, RankRoute, RankType
    <3>5. HeldCount' <= HeldCount + 1
      BY <2>1, CountGrows
    <3>6. QED  BY <1>1, <1>2, <2>2, <3>4, <3>5 DEF StepsLeft, Left
  <2>3. CASE inFlight \notin Calls
    <3>1. at' = at
      BY <1>6, <2>3 DEF FinishCall
    <3>2. Taken(inFlight, result) = {}
      BY <2>3, Roles DEF Taken
    <3>3. HeldCount' = HeldCount
      BY <2>1, <3>2 DEF HeldCount, One
    <3>4. QED  BY <1>1, <1>2, <2>3, <3>1, <3>3 DEF StepsLeft, Left
  <2>4. QED  BY <2>2, <2>3
<1>7. QED  BY <1>5, <1>6

\* Inspect makes a bounded number of remote calls: every step of it lowers a
\* bound that nothing raises.
THEOREM Advances == Spec => ComesForward
<1>1. IInv /\ [Next]_vars
        => [/\ Inspects => StepsLeft' < StepsLeft
            /\ ~Inspects => StepsLeft' = StepsLeft]_vars
  <2> SUFFICES ASSUME IInv, Next
               PROVE  \/ /\ Inspects => StepsLeft' < StepsLeft
                         /\ ~Inspects => StepsLeft' = StepsLeft
                      \/ UNCHANGED vars
    OBVIOUS
  <2>1. ASSUME Inspects PROVE StepsLeft' < StepsLeft
    <3>1. CASE Refuse \/ Resolve \/ Attach \/ WaitForStop  BY <3>1, BeginForward
    <3>2. CASE StartCall \/ SymbolMissing  BY <3>2, StartCallForward
    <3>3. CASE StartFree \/ FreeMissing  BY <3>3, FreeForward
    <3>4. CASE FinishCall \/ LoseCall  BY <3>4, FinishForward
    <3>5. CASE Close \/ FailAttach
      <4>1. pc \in {"attaching", "ready"} /\ pc' = "done"  BY <3>5 DEF Close, FailAttach
      <4>2. Left \in Nat  BY StepsLeftType DEF IInv
      <4>3. QED  BY <4>1, <4>2 DEF StepsLeft
    <3>6. QED  BY <2>1, <3>1, <3>2, <3>3, <3>4, <3>5 DEF Inspects
  <2>2. ASSUME Process PROVE StepsLeft' = StepsLeft
    <3>1. UNCHANGED <<pc, at, held, inFlight>>
      <4>1. ASSUME NEW holder \in {"leader", "thread"}, Lock(holder) \/ Unlock(holder)
            PROVE  UNCHANGED <<pc, at, held, inFlight>>
        BY <4>1 DEF Lock, Unlock, Environment, planVars
      <4>2. ASSUME NEW s \in {"stop", "other"}, Stops(s)
            PROVE  UNCHANGED <<pc, at, held, inFlight>>
        BY <4>2 DEF Stops, Environment, planVars
      <4>3. CASE Signal \/ Enters \/ Returns \/ Dies
        BY <4>3 DEF Signal, Enters, Returns, Dies, Environment, planVars
      <4>4. QED  BY <2>2, <4>1, <4>2, <4>3 DEF Process
    <3>2. QED  BY <3>1 DEF StepsLeft, Left, HeldCount, One
  <2>3. QED  BY <2>1, <2>2 DEF Next, Finished
<1>2. QED  BY <1>1, Invariance, PTL DEF Spec, ComesForward

\* While the inspector waits for the stop of the attach, the leader has the
\* SIGSTOP still to take; while it is attached it traces the leader.
Waiting ==
  /\ pc \in {"attaching", "ready", "waiting"} => traced
  /\ pc = "attaching" /\ leader = "running" => "stop" \in pending

\* Those two hold as well.
LEMMA WaitingHolds == Spec => []Waiting
<1>1. Init => Waiting
  BY DEF Init, Waiting
<1>2. IInv /\ Waiting /\ [Next]_vars => Waiting'
  <2> SUFFICES ASSUME IInv, Waiting, [Next]_vars PROVE Waiting'  OBVIOUS
  <2> USE DEF Waiting
  <2>1. CASE Refuse \/ Resolve \/ Attach \/ WaitForStop
    BY <2>1 DEF Refuse, Resolve, Attach, WaitForStop, AfterAttach, processVars
  <2>2. CASE StartCall \/ SymbolMissing \/ StartFree \/ FreeMissing
    BY <2>2 DEF StartCall, SymbolMissing, StartFree, FreeMissing, Call, processVars
  <2>3. CASE FinishCall \/ LoseCall \/ Close \/ FailAttach
    BY <2>3 DEF FinishCall, LoseCall, Close, FailAttach, processVars
  <2>4. ASSUME NEW holder \in {"leader", "thread"}, Lock(holder) \/ Unlock(holder)
        PROVE  Waiting'
    BY <2>4 DEF Lock, Unlock, Environment
  <2>5. ASSUME NEW s \in {"stop", "other"}, Stops(s) PROVE Waiting'
    BY <2>5 DEF Stops, Environment
  <2>6. CASE Signal \/ Enters \/ Returns \/ Dies
    BY <2>6 DEF Signal, Enters, Returns, Dies, Environment, processVars
  <2>7. CASE UNCHANGED vars
    BY <2>7, Unchanged
  <2>8. QED
    BY <2>1, <2>2, <2>3, <2>4, <2>5, <2>6, <2>7
    DEF Next, Inspects, Process, Finished
<1>3. QED  BY <1>1, <1>2, Invariance, PTL DEF Spec

\* At no time do the inspector and the leader wait for each other: what keeps
\* Inspect from its end is the libraries' lock, never a stop that has been missed.
THEOREM BlockedByLock == Spec => []OnlyTheLockBlocks
<1>1. IInv /\ Waiting => OnlyTheLockBlocks
  <2> SUFFICES ASSUME IInv, Waiting, pc # "done", ~InspectorMoves, ~LeaderMoves
               PROVE  WaitsForLock
    BY DEF OnlyTheLockBlocks
  <2> USE DEF IInv
  <2>1. pc \in {"attaching", "waiting"} /\ leader # "stopped" /\ alive /\ traced
    BY DEF InspectorMoves, TypeOK, Waiting
  <2>2. pc = "waiting" /\ leader \in {"calling", "inside"}
    BY <2>1 DEF LeaderInv, LeaderMoves, Waiting
  <2>3. leader = "calling" /\ pending = {} /\ inFlight \in Locking /\ lock # "free"
    BY <2>1, <2>2 DEF LeaderMoves
  <2>4. lock = "call" => cut # {}
    BY <2>1, <2>3 DEF LockInv
  <2>5. QED  BY <2>2, <2>3, <2>4 DEF WaitsForLock, TypeOK
<1>2. QED  BY <1>1, Invariance, WaitingHolds, PTL

===============================================================================
