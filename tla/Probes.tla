--------------------------------- MODULE Probes ---------------------------------
(***************************************************************************)
(* How the uprobes pair a call's entry with its return:                    *)
(* pkg/ebpf/bpf/openssl_uprobe.c, gnutls_uprobe.c and go_tls_uprobe.c.     *)
(* The entry program leaves the call's arguments in a pending map under    *)
(* the thread's id; the return program takes them out and reports the call *)
(* on a ring buffer, if there is room.  The pending maps are LRU hashes: a *)
(* new entry is always kept, and a full map evicts one used long ago.      *)
(*                                                                         *)
(* A thread may call a probed function from within another one (TLS over   *)
(* TLS, a handshake inside a read).  A library file known under two paths  *)
(* has its programs attached twice (Copies): each of them runs.  A call    *)
(* returns on the thread that made it: goroutines that the Go scheduler    *)
(* moves between the entry and the return of crypto/tls are not modelled.  *)
(*                                                                         *)
(* An operator X_Y is a faulty variant of the operator X below it.         *)
(***************************************************************************)
EXTENDS Naturals, Sequences

CONSTANTS Threads,       \* of all the traced processes: pid_tgid
          Fns,           \* the probed functions
          MapOf,         \* [function -> pending map]
          Unconditional, \* functions reported whatever they return
          Conditional,   \* functions whose entry program records some calls only
          Conns,         \* SSL*, gnutls_session_t, *tls.Conn
          Copies,        \* times the programs are attached
          MaxPayload,    \* 512 bytes in the code
          Lengths,       \* bound: lengths of buffers
          Results,       \* bound: what the functions return, bytes if positive
          MaxDepth,      \* bound: [thread -> [function -> depth of its calls]]
          Crowded,       \* bound: slots whose map may be full
          Nothing        \* no pending entry, no return under way

Maps == {MapOf[fn] : fn \in Fns}

ASSUME SizesAssumption ==
  Copies \in Nat \ {0} /\ MaxPayload \in Nat /\ Lengths \subseteq Nat /\ Results \subseteq Nat
ASSUME NothingAssumption ==
  /\ Nothing \notin [fn : Fns, conn : Conns, len : Lengths, paired : BOOLEAN]
  /\ Nothing \notin [rc : Results, left : Nat, dropped : BOOLEAN,
                     events : Seq([fn : Fns, conn : Conns, length : Nat])]

VARIABLES hook,        \* [function -> which of its probes are attached]
          calls,       \* [thread -> its calls of probed functions, innermost last]
          returning,   \* [thread -> the return programs running for that one]
          pending      \* [map and thread -> what the entry program left]

vars == <<hook, calls, returning, pending>>

Init ==
  /\ hook = [fn \in Fns |-> "none"]
  /\ calls = [t \in Threads |-> <<>>]
  /\ returning = [t \in Threads |-> Nothing]
  /\ pending = [slot \in Maps \X Threads |-> Nothing]

Top(t) == calls[t][Len(calls[t])]

Slot_OneMap(fn, t) == <<CHOOSE m \in Maps : TRUE, t>>

\* The key of a pending entry: pid_tgid, in the map of the function's kind (the
\* handshakes share a map and have the function in the key).
Slot(fn, t) == <<MapOf[fn], t>>

Left_KeepsFirst(slot, entry) ==
  IF pending[slot] = Nothing THEN [pending EXCEPT ![slot] = entry] ELSE pending

\* bpf_map_update_elem with BPF_ANY: the entry of an earlier call is replaced.
Left(slot, entry) == [pending EXCEPT ![slot] = entry]

Taken_Kept(slot) == pending

\* bpf_map_delete_elem
Taken(slot) == [pending EXCEPT ![slot] = Nothing]

\* What of a returned length goes into an event.
PayloadLength(rc, len) ==
  LET n == IF rc > len THEN len ELSE rc
  IN IF n > MaxPayload THEN MaxPayload ELSE n

\* rc = 0 stands for every return that says the call failed or moved no byte.
Reports(fn, rc) == fn \in Unconditional \/ rc > 0

-------------------------------------------------------------------------------
\* The attach specs put the entry probe in place before the return probe, while
\* processes are calling.
AttachEnter(fn) ==
  /\ hook[fn] = "none"
  /\ hook' = [hook EXCEPT ![fn] = "enter"]
  /\ UNCHANGED <<calls, returning, pending>>

AttachReturn(fn) ==
  /\ hook[fn] = "enter"
  /\ hook' = [hook EXCEPT ![fn] = "both"]
  /\ UNCHANGED <<calls, returning, pending>>

\* A thread calls a function.  The kernel arranges for the return programs at the
\* entry, if they are attached by then (paired).  asks says whether the arguments
\* are ones the entry program records: SSL_ctrl's does so for one command only,
\* while its return programs run for all.  A call knows whether nothing was
\* recorded of it although its return is probed (skipped), and the pairedness of
\* the inner calls that replaced its entry or, being skipped, take it at their
\* return (shadowedBy).
Enter(t, fn, conn, len, asks) ==
  LET paired == hook[fn] = "both"
      kept == hook[fn] # "none" /\ asks
      shadow(c) == IF (kept \/ paired) /\ MapOf[c.fn] = MapOf[fn]
                   THEN [c EXCEPT !.shadowedBy = @ \cup {paired}]
                   ELSE c
  IN /\ returning[t] = Nothing
     /\ Len(calls[t]) < MaxDepth[t][fn]
     /\ asks \/ fn \in Conditional
     /\ calls' = [calls EXCEPT ![t] =
          Append([i \in 1..Len(@) |-> shadow(@[i])],
                 [fn |-> fn, conn |-> conn, paired |-> paired,
                  skipped |-> paired /\ ~kept, evicted |-> FALSE, shadowedBy |-> {}])]
     /\ pending' = IF kept THEN Left(Slot(fn, t), [fn |-> fn, conn |-> conn,
                                                  len |-> len, paired |-> paired])
                           ELSE pending
     /\ UNCHANGED <<hook, returning>>

\* The map is full, of entries of threads that are not modelled, and makes room
\* for a new one: the thread's entry goes, whatever its calls are doing.
Evict(m, t) ==
  LET lose(c) == IF MapOf[c.fn] = m THEN [c EXCEPT !.evicted = TRUE] ELSE c
  IN /\ <<m, t>> \in Crowded
     /\ pending[<<m, t>>] # Nothing
     /\ pending' = [pending EXCEPT ![<<m, t>>] = Nothing]
     /\ calls' = [calls EXCEPT ![t] = [i \in 1..Len(@) |-> lose(@[i])]]
     /\ UNCHANGED <<hook, returning>>

Popped(t) == [calls EXCEPT ![t] = SubSeq(@, 1, Len(@) - 1)]

\* A call that was under way before its return probe was attached.
ReturnUnseen(t) ==
  /\ returning[t] = Nothing
  /\ calls[t] # <<>>
  /\ ~Top(t).paired
  /\ calls' = Popped(t)
  /\ UNCHANGED <<hook, returning, pending>>

Return(t, rc) ==
  /\ returning[t] = Nothing
  /\ calls[t] # <<>>
  /\ Top(t).paired
  /\ returning' = [returning EXCEPT ![t] =
       [rc |-> rc, left |-> Copies, events |-> <<>>, dropped |-> FALSE]]
  /\ UNCHANGED <<hook, calls, pending>>

\* What one return program makes of the return: room says whether the ring
\* buffer takes the event.
Reported(r, fn, entry, room) ==
  IF ~Reports(fn, r.rc) THEN [r EXCEPT !.left = @ - 1]
  ELSE IF ~room THEN [r EXCEPT !.left = @ - 1, !.dropped = TRUE]
  ELSE [r EXCEPT !.left = @ - 1,
                 !.events = Append(@, [fn |-> entry.fn, conn |-> entry.conn,
                                       length |-> PayloadLength(r.rc, entry.len)])]

ReturnProgram_KeepsFailed(t, room) ==
  LET r     == returning[t]
      fn    == Top(t).fn
      entry == pending[Slot(fn, t)]
  IN /\ r # Nothing
     /\ r.left > 0
     /\ returning' = [returning EXCEPT ![t] =
          IF entry = Nothing THEN [r EXCEPT !.left = @ - 1]
                             ELSE Reported(r, fn, entry, room)]
     /\ pending' = IF Reports(fn, r.rc) THEN Taken(Slot(fn, t)) ELSE pending
     /\ UNCHANGED <<hook, calls>>

\* One return program: without a pending entry it does nothing, else it reports
\* the call or not and deletes the entry in any case.
ReturnProgram(t, room) ==
  LET r     == returning[t]
      fn    == Top(t).fn
      entry == pending[Slot(fn, t)]
  IN /\ r # Nothing
     /\ r.left > 0
     /\ returning' = [returning EXCEPT ![t] =
          IF entry = Nothing THEN [r EXCEPT !.left = @ - 1]
                             ELSE Reported(r, fn, entry, room)]
     /\ pending' = Taken(Slot(fn, t))
     /\ UNCHANGED <<hook, calls>>

Returned(t) ==
  /\ returning[t] # Nothing
  /\ returning[t].left = 0
  /\ calls' = Popped(t)
  /\ returning' = [returning EXCEPT ![t] = Nothing]
  /\ UNCHANGED <<hook, pending>>

-------------------------------------------------------------------------------
ThreadStep(t) ==
  \/ \E fn \in Fns, conn \in Conns, len \in Lengths, asks \in BOOLEAN :
       Enter(t, fn, conn, len, asks)
  \/ ReturnUnseen(t)
  \/ \E rc \in Results : Return(t, rc)
  \/ \E room \in BOOLEAN : ReturnProgram(t, room)
  \/ Returned(t)

Next ==
  \/ \E fn \in Fns : AttachEnter(fn) \/ AttachReturn(fn)
  \/ \E t \in Threads : ThreadStep(t) \/ \E m \in Maps : Evict(m, t)

Spec == Init /\ [][Next]_vars

-------------------------------------------------------------------------------
(* What the probes promise *)

\* What was reported of the call that returns.
Events(t) == IF returning[t] = Nothing THEN <<>> ELSE returning[t].events

\* An event is about the call that returns, its connection and its direction, and
\* about no more bytes than the call transferred and the reader accepts: when
\* calls of several threads overlap, when read and write share a map, when calls
\* nest, when entries are evicted and when probes are attached during a call.  Two
\* calls are excepted, whose returns may find an entry that is not theirs: one
\* inside which a function of the same map ran with only its entry probe in place,
\* and one the entry program recorded nothing of.
EventsAreTrue ==
  \A t \in Threads : \A i \in 1..Len(Events(t)) :
    LET e == Events(t)[i]
    IN /\ e.length <= returning[t].rc
       /\ e.length <= MaxPayload
       /\ ~Top(t).skipped /\ FALSE \notin Top(t).shadowedBy
          => e.fn = Top(t).fn /\ e.conn = Top(t).conn

\* A call is reported once, however often its library is attached: the first
\* return program takes the pending entry away from the other ones, so plaintext
\* is not captured twice.
OneEventPerCall == \A t \in Threads : Len(Events(t)) <= 1

\* A call whose two probes were in place and whose entry was recorded is reported,
\* unless the ring was full, there is nothing to report, an inner call of the same
\* map took its entry's place, or its own entry was evicted while the call was
\* under way: a handshake inside a read costs the read nothing, and neither does
\* an eviction that hit an earlier call of the thread.
CallIsReported ==
  \A t \in Threads :
    LET r == returning[t]
    IN /\ r # Nothing
       /\ r.left = 0
       /\ Reports(Top(t).fn, r.rc)
       /\ ~r.dropped
       /\ ~Top(t).skipped
       /\ ~Top(t).evicted
       /\ Top(t).shadowedBy = {}
       => Events(t) # <<>>

\* A thread outside of every probed call has no pending entry of a call whose
\* return was probed: calls that fail, or find the ring full, leave nothing
\* behind that the return of a later call could report.
NoStalePending ==
  \A t \in Threads, m \in Maps :
    LET entry == pending[<<m, t>>]
    IN calls[t] = <<>> /\ entry # Nothing => ~entry.paired
===============================================================================
