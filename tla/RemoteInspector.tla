---------------------------- MODULE RemoteInspector ----------------------------
(***************************************************************************)
(* One Inspect of pkg/fcktls/openssl_inspector_linux.go beside the process *)
(* it inspects.  The inspector stops the process's leader thread with      *)
(* ptrace and makes it call functions of libssl and libcrypto: it patches  *)
(* "call rax; int3" over the leader's next instruction, gives the leader   *)
(* the registers of the call, lets it run and waits for the trap.          *)
(*                                                                         *)
(* The functions are named by the C functions Inspect calls.  What a call  *)
(* returns is the place Inspect goes to because of it; the contents of the *)
(* strings are left out.  The process's other threads keep running: they   *)
(* take and release the lock of the libraries and may run into the patched *)
(* instruction.  Not modelled: a library file that was replaced since the  *)
(* process mapped it, a wait4 that fails while there is a tracee to wait   *)
(* for, and a ptrace request of a remote call that fails while the process *)
(* lives: wait4 and the requests on a stopped tracee fail when it is gone. *)
(*                                                                         *)
(* An operator X_Y is a faulty variant of the operator X below it.         *)
(***************************************************************************)
EXTENDS Integers, Sequences, FiniteSetsExt

CONSTANTS Locking,      \* the functions that take a lock of the process
          Listings,     \* the readings of /proc/<pid>/maps
          MaxSignals    \* bound: signals others send while the process is traced

Metadata == {"SSL_get_version", "SSL_get_current_cipher", "SSL_CIPHER_get_name",
             "SSL_get0_alpn_selected"}
OfCert == {"X509_get_subject_name", "X509_get_issuer_name",
           "X509_NAME_oneline(subject)", "X509_NAME_oneline(issuer)"}
OfBio == {"SSL_SESSION_print_keylog", "BIO_ctrl_pending", "BIO_read"}
OfSession == {"BIO_s_mem", "BIO_new", "SSL_get_client_random",
              "SSL_SESSION_get_master_key"} \cup OfBio

\* The calls Inspect makes for their answer, and where it goes without one.
Calls == Metadata \cup OfCert \cup OfSession
           \cup {"SSL_get1_peer_certificate", "SSL_get1_session"}
Ends  == {"end", "lines", "error"}

\* What a call may take hold of, the calls made while it is held, and the
\* deferred call that gives it back.
References == {"cert", "session", "bio"}
Scope == [cert |-> OfCert, session |-> OfSession, bio |-> OfBio]
Free  == [cert |-> "X509_free", session |-> "SSL_SESSION_free", bio |-> "BIO_free"]
Taker == [cert |-> "SSL_get1_peer_certificate", session |-> "SSL_get1_session",
          bio |-> "BIO_new"]
Frees == {Free[r] : r \in References}

ASSUME LockingAssumption == Locking \subseteq Calls \cup Frees
ASSUME SignalsAssumption == MaxSignals \in Nat

VARIABLES
  alive,     \* the process has not died
  leader,    \* its leader thread: running, stopped, calling, inside a function, halted
  signal,    \* why the leader stopped last
  pending,   \* signals the leader has still to take: SIGSTOP and others
  sent,      \* signals others have sent while the process is traced
  lock,      \* who holds the libraries' lock: a call of the inspector is "call"
  patched,   \* the leader's next instruction is overwritten
  regs,      \* whose registers the leader has: its own or those of a call
  traced,    \* the process has a tracer
  refs,      \* references the process holds for the inspector
  maps,      \* /proc/<pid>/maps
  tls13,     \* the version string the session has names TLS 1.3
  pc,        \* the inspector: idle, attach, attaching, ready, waiting, done
  at,        \* the call it is to make next, or its end
  base,      \* resolver.loadBases of the two libraries
  inFlight,  \* the function of the latest remote call
  result,    \* the place that call leads to
  held,      \* references whose free is deferred
  unfreed,   \* references given up because the free function is not found
  cut,       \* functions that were stopped before they returned
  read,      \* what Inspect has read so far
  answer     \* what it returned

processVars == <<leader, signal, pending, lock, patched, regs, traced, refs>>
planVars    == <<at, held, unfreed, cut, read>>
dataVars    == <<maps, tls13>>
vars == <<alive, processVars, sent, dataVars, pc, planVars, base, inFlight,
          result, answer>>

-------------------------------------------------------------------------------
(* The resolver *)

Libraries == {"libssl", "libcrypto"}

LibraryOf(function) ==
  IF \/ function \in OfCert \cup {"BIO_s_mem", "BIO_new", "BIO_ctrl_pending", "BIO_read"}
     \/ function \in {"X509_free", "BIO_free"}
  THEN "libcrypto"
  ELSE "libssl"

Mapped(listing) == {listing[n].library : n \in 1..Len(listing)}

Candidates(listing, library) ==
  {listing[n].start - listing[n].offset :
     n \in {m \in 1..Len(listing) : listing[m].library = library}}

LoadBase_Last(listing, library) == Max(Candidates(listing, library))

\* newRemoteSymbolResolver: the lowest start minus offset.
LoadBase(listing, library) == Min(Candidates(listing, library))

\* Where the library's file really begins in the process.
FirstPage(listing, library) ==
  CHOOSE a \in {listing[n].start : n \in 1..Len(listing)} :
    \E n \in 1..Len(listing) :
      listing[n] = [library |-> library, start |-> a, offset |-> 0]

\* The first page of a library's file is mapped, once, and no segment lies below
\* it by more than its offset.
ASSUME ListingsAssumption ==
  \A listing \in Listings :
    /\ \A n \in 1..Len(listing) : listing[n].start \in Nat /\ listing[n].offset \in Nat
    /\ \A library \in Libraries \cap Mapped(listing) :
         \E n \in 1..Len(listing) :
           /\ listing[n] = [library |-> library, start |-> listing[n].start, offset |-> 0]
           /\ \A m \in 1..Len(listing) :
                listing[m].library = library =>
                  /\ listing[m].start - listing[m].offset >= listing[n].start
                  /\ listing[m].offset = 0 => listing[m].start = listing[n].start

-------------------------------------------------------------------------------
(* The order of the calls *)

\* Where a call leads, by what it returns: the calls that read memory may fail
\* on it, a null pointer skips what would use it.
Leads ==
  [c \in Calls |->
     CASE c = "SSL_get_version"        -> {"SSL_get_current_cipher", "error"}
       [] c = "SSL_get_current_cipher" -> {"SSL_CIPHER_get_name",
                                           "SSL_get0_alpn_selected"}
       [] c = "SSL_CIPHER_get_name"    -> {"SSL_get0_alpn_selected", "error"}
       [] c = "SSL_get0_alpn_selected" -> {"SSL_get1_peer_certificate", "error"}
       [] c = "SSL_get1_peer_certificate" -> {"X509_get_subject_name",
                                              "SSL_get1_session"}
       [] c = "X509_get_subject_name"  -> {"X509_get_issuer_name"}
       [] c = "X509_get_issuer_name"   -> {"X509_NAME_oneline(subject)",
                                           "X509_NAME_oneline(issuer)",
                                           "SSL_get1_session"}
       [] c = "X509_NAME_oneline(subject)" -> {"X509_NAME_oneline(issuer)",
                                               "SSL_get1_session", "error"}
       [] c = "X509_NAME_oneline(issuer)"  -> {"SSL_get1_session", "error"}
       [] c = "SSL_get1_session"       -> {"BIO_s_mem", "end"}
       [] c = "BIO_s_mem"              -> {"BIO_new", "SSL_get_client_random"}
       [] c = "BIO_new"                -> {"SSL_SESSION_print_keylog",
                                           "SSL_get_client_random"}
       [] c = "SSL_SESSION_print_keylog" -> {"BIO_ctrl_pending",
                                             "SSL_get_client_random"}
       [] c = "BIO_ctrl_pending"       -> {"BIO_read", "SSL_get_client_random"}
       [] c = "BIO_read"               -> {"lines", "SSL_get_client_random", "error"}
       [] c = "SSL_get_client_random"  -> {"SSL_SESSION_get_master_key", "end", "error"}
       [] OTHER                        -> {"lines", "end", "error"}]

\* readOpenSSLKeyLogLines does without the master key in TLS 1.3.
Route(place) ==
  IF place = "SSL_get_client_random" /\ tls13 THEN "end" ELSE place

\* The calls before which mustResolve looks for the functions of a step, and
\* where a missing one leads: readSessionPrintKeyLog is the one that forgives.
Resolves == {"SSL_get1_peer_certificate", "X509_get_subject_name",
             "SSL_get1_session", "BIO_s_mem", "SSL_get_client_random"} \cup Metadata
Unresolved(c) == IF c = "BIO_s_mem" THEN "SSL_get_client_random" ELSE "error"

\* What Inspect knows once it gets to a place.
Known ==
  [place \in Calls \cup Ends |->
     CASE place = "SSL_get_current_cipher"    -> {"version"}
       [] place = "SSL_get0_alpn_selected"    -> {"cipher"}
       [] place = "SSL_get1_peer_certificate" -> {"alpn"}
       [] place = "SSL_get1_session"          -> {"certificate"}
       [] place = "lines"                     -> {"lines"}
       [] OTHER                               -> {}]

Goto(place) ==
  /\ at' = Route(place)
  /\ read' = read \cup Known[place]

-------------------------------------------------------------------------------
Init ==
  /\ alive = TRUE
  /\ leader = "running"
  /\ signal = "none"
  /\ pending = {}
  /\ sent = 0
  /\ lock \in {"free", "leader", "thread"}
  /\ patched = FALSE
  /\ regs = "own"
  /\ traced = FALSE
  /\ refs = {}
  /\ maps \in Listings
  /\ tls13 \in BOOLEAN
  /\ pc = "idle"
  /\ at = "SSL_get_version"
  /\ base = [library \in Libraries |-> 0]
  /\ inFlight = "none"
  /\ result = "none"
  /\ held = {}
  /\ unfreed = {}
  /\ cut = {}
  /\ read = {}
  /\ answer = {}

-------------------------------------------------------------------------------
(* The process and the kernel *)

Environment == UNCHANGED <<dataVars, pc, planVars, base, answer>>

\* The threads take and release the lock; the leader while it runs its own code.
Lock(holder) ==
  /\ alive
  /\ lock = "free"
  /\ holder = "leader" => leader = "running"
  /\ lock' = holder
  /\ Environment
  /\ UNCHANGED <<alive, leader, signal, pending, sent, patched, regs, traced, refs,
                 inFlight, result>>

Unlock(holder) ==
  /\ alive
  /\ lock = holder
  /\ holder = "leader" => leader = "running"
  /\ lock' = "free"
  /\ Environment
  /\ UNCHANGED <<alive, leader, signal, pending, sent, patched, regs, traced, refs,
                 inFlight, result>>

\* Somebody else signals the process while it is traced.
Signal ==
  /\ alive
  /\ traced
  /\ sent < MaxSignals
  /\ sent' = sent + 1
  /\ pending' = pending \cup {"other"}
  /\ Environment
  /\ UNCHANGED <<alive, leader, signal, lock, patched, regs, traced, refs,
                 inFlight, result>>

\* A traced thread stops for a signal wherever it is, in any order of signals.
Stops(s) ==
  /\ alive
  /\ traced
  /\ leader \in {"running", "calling", "inside"}
  /\ s \in pending
  /\ leader' = "stopped"
  /\ signal' = s
  /\ pending' = pending \ {s}
  /\ Environment
  /\ UNCHANGED <<alive, sent, lock, patched, regs, traced, refs, inFlight, result>>

\* The function runs, once no signal is left to take first: its effect on the
\* references, and what it will return.
Enters ==
  /\ alive
  /\ leader = "calling"
  /\ pending = {}
  /\ inFlight \in Locking => lock = "free"
  /\ leader' = "inside"
  /\ lock' = IF inFlight \in Locking THEN "call" ELSE lock
  /\ IF inFlight \in Calls
     THEN /\ result' \in Leads[inFlight]
          /\ refs' = refs \cup {r \in References :
                                  Taker[r] = inFlight /\ result' \in Scope[r]}
     ELSE /\ result' = result
          /\ refs' = refs \ {r \in References : Free[r] = inFlight}
  /\ Environment
  /\ UNCHANGED <<alive, signal, pending, sent, patched, regs, traced, inFlight>>

\* It returns into the int3.
Returns ==
  /\ alive
  /\ leader = "inside"
  /\ leader' = "stopped"
  /\ signal' = "trap"
  /\ lock' = IF inFlight \in Locking THEN "free" ELSE lock
  /\ Environment
  /\ UNCHANGED <<alive, pending, sent, patched, regs, traced, refs, inFlight, result>>

\* The process is killed, by others or because one of its threads ran into the
\* patched instruction.
Dies ==
  /\ alive
  /\ pc # "done"
  /\ alive' = FALSE
  /\ UNCHANGED <<processVars, sent, inFlight, result>>
  /\ Environment

-------------------------------------------------------------------------------
(* The inspector *)

Inspector == UNCHANGED <<alive, sent, dataVars>>

\* Without a pid or a pointer, or when the maps cannot be read, Inspect returns
\* with nothing.
Refuse ==
  /\ pc = "idle"
  /\ pc' = "done"
  /\ Inspector
  /\ UNCHANGED <<processVars, planVars, base, inFlight, result, answer>>

\* newRemoteSymbolResolver
Resolve ==
  /\ pc = "idle"
  /\ IF Libraries \subseteq Mapped(maps)
     THEN /\ base' = [library \in Libraries |-> LoadBase(maps, library)]
          /\ pc' = "attach"
     ELSE /\ UNCHANGED base
          /\ pc' = "done"
  /\ Inspector
  /\ UNCHANGED <<processVars, planVars, inFlight, result, answer>>

AfterAttach_NoWait == "ready"

\* attachRemoteProcess goes on to waitForStop.
AfterAttach == "attaching"

Attach ==
  /\ pc = "attach"
  /\ \/ /\ alive
        /\ traced' = TRUE
        /\ pending' = pending \cup {"stop"}
        /\ pc' = AfterAttach
     \/ /\ pc' = "done"
        /\ UNCHANGED <<traced, pending>>
  /\ Inspector
  /\ UNCHANGED <<leader, signal, lock, patched, regs, refs, planVars, base,
                 inFlight, result, answer>>

\* The leader goes its own way.  A SIGSTOP that is still pending halts it then.
Detach ==
  /\ traced' = FALSE
  /\ leader' = IF "stop" \in pending THEN "halted" ELSE "running"

\* waitForStop takes any stop for the one of its SIGSTOP.
WaitForStop ==
  /\ pc = "attaching"
  /\ \/ alive /\ leader = "stopped" /\ pc' = "ready"
     \/ ~alive /\ pc' = "done"
  /\ Inspector
  /\ UNCHANGED <<processVars, planVars, base, inFlight, result, answer>>

\* attachRemoteProcess cannot read the registers or the code of the stopped
\* leader: it detaches and returns the error.
FailAttach ==
  /\ pc = "attaching"
  /\ alive
  /\ leader = "stopped"
  /\ pc' = "done"
  /\ Detach
  /\ Inspector
  /\ UNCHANGED <<signal, pending, lock, patched, regs, refs, planVars, base,
                 inFlight, result, answer>>

Dropped_AtEnd == {r \in held : at \in Ends}

\* The references whose scope Inspect has left: its deferred calls come first.
Dropped == {r \in held : at \notin Scope[r]}

\* Deferred calls run last in, first out.
Innermost == IF "bio" \in Dropped THEN "bio" ELSE CHOOSE r \in Dropped : TRUE

\* A failed call ends the inspection, a failed free changes nothing.
AfterFailure(function) == IF function \in Calls THEN "error" ELSE at

\* Call, as far as the leader's start: the patch fails if the process is gone.
Call(function) ==
  IF alive
  THEN /\ patched' = TRUE
       /\ regs' = "call"
       /\ leader' = "calling"
       /\ inFlight' = function
       /\ pc' = "waiting"
       /\ UNCHANGED at
  ELSE /\ at' = AfterFailure(function)
       /\ UNCHANGED <<patched, regs, leader, inFlight, pc>>

StartCall ==
  /\ pc = "ready"
  /\ Dropped = {}
  /\ at \in Calls
  /\ Call(at)
  /\ Inspector
  /\ UNCHANGED <<signal, pending, lock, traced, refs, held, unfreed, cut, read,
                 base, result, answer>>

\* mustResolve fails.
SymbolMissing ==
  /\ pc = "ready"
  /\ Dropped = {}
  /\ at \in Resolves
  /\ Goto(Unresolved(at))
  /\ Inspector
  /\ UNCHANGED <<processVars, pc, held, unfreed, cut, base, inFlight, result, answer>>

AfterFree_StillHeld(r) == held

\* A deferred free is made once.
AfterFree(r) == held \ {r}

StartFree ==
  /\ pc = "ready"
  /\ Dropped # {}
  /\ Call(Free[Innermost])
  /\ held' = AfterFree(Innermost)
  /\ Inspector
  /\ UNCHANGED <<signal, pending, lock, traced, refs, unfreed, cut, read, base,
                 result, answer>>

\* The address of BIO_free is looked up before the BIO is made, the other two
\* when they are needed.
FreeMissing ==
  /\ pc = "ready"
  /\ Dropped # {}
  /\ Innermost # "bio"
  /\ held' = held \ {Innermost}
  /\ unfreed' = unfreed \cup {Innermost}
  /\ Inspector
  /\ UNCHANGED <<processVars, pc, at, cut, read, base, inFlight, result, answer>>

\* What Call puts back, whatever came of it.
Restore_OnSuccess(returned) ==
  IF returned THEN patched' = FALSE /\ regs' = "own" ELSE UNCHANGED <<patched, regs>>

Restore(returned) == patched' = FALSE /\ regs' = "own"

Taken_None(function, place) == {}

\* The references a call that returned leaves to a deferred free.
Taken(function, place) ==
  {r \in References : Taker[r] = function /\ place \in Scope[r]}

CallOver_NoHang == TRUE

\* waitForTrap waits for any stop of the leader.
CallOver == leader = "stopped"

\* waitForTrap and the rest of Call: only a trap means that the function
\* returned.
FinishCall ==
  /\ pc = "waiting"
  /\ alive
  /\ CallOver
  /\ pc' = "ready"
  /\ Restore(signal = "trap")
  /\ IF signal # "trap"
     THEN /\ cut' = cut \cup {inFlight}
          /\ at' = AfterFailure(inFlight)
          /\ UNCHANGED <<held, read>>
     ELSE /\ IF inFlight \in Calls THEN Goto(result) ELSE UNCHANGED <<at, read>>
          /\ held' = held \cup Taken(inFlight, result)
          /\ UNCHANGED cut
  /\ Inspector
  /\ UNCHANGED <<leader, signal, pending, lock, traced, refs, unfreed, base,
                 inFlight, result, answer>>

\* The process has died during the call.
LoseCall ==
  /\ pc = "waiting"
  /\ ~alive
  /\ pc' = "ready"
  /\ at' = AfterFailure(inFlight)
  /\ Inspector
  /\ UNCHANGED <<processVars, held, unfreed, cut, read, base, inFlight, result, answer>>

\* Close, when all deferred calls have been made.
Close ==
  /\ pc = "ready"
  /\ Dropped = {}
  /\ at \in Ends
  /\ pc' = "done"
  /\ patched' = FALSE
  /\ regs' = "own"
  /\ Detach
  /\ answer' = IF at = "error" THEN {} ELSE read
  /\ Inspector
  /\ UNCHANGED <<signal, pending, lock, refs, planVars, base, inFlight, result>>

Finished == pc = "done" /\ UNCHANGED vars

-------------------------------------------------------------------------------
Inspects ==
  \/ Refuse \/ Resolve \/ Attach \/ WaitForStop \/ FailAttach
  \/ StartCall \/ SymbolMissing \/ StartFree \/ FreeMissing
  \/ FinishCall \/ LoseCall \/ Close

Process ==
  \/ \E holder \in {"leader", "thread"} : Lock(holder) \/ Unlock(holder)
  \/ Signal
  \/ \E s \in {"stop", "other"} : Stops(s)
  \/ Enters \/ Returns \/ Dies

Next == Inspects \/ Process \/ Finished

Spec == Init /\ [][Next]_vars

\* The inspector runs, a traced thread takes its signals, the library's
\* functions return, the other threads release the lock, and who waits for the
\* lock gets it in the end.
FairSpec ==
  /\ Spec
  /\ WF_vars(Inspects)
  /\ WF_vars(Stops("stop") \/ Stops("other"))
  /\ SF_vars(Enters)
  /\ WF_vars(Returns)
  /\ WF_vars(Unlock("thread"))

-------------------------------------------------------------------------------
TypeOK ==
  /\ alive \in BOOLEAN /\ patched \in BOOLEAN /\ traced \in BOOLEAN
  /\ leader \in {"running", "stopped", "calling", "inside", "halted"}
  /\ signal \in {"none", "stop", "other", "trap"}
  /\ pending \subseteq {"stop", "other"}
  /\ sent \in 0..MaxSignals
  /\ lock \in {"free", "leader", "thread", "call"}
  /\ regs \in {"own", "call"}
  /\ refs \subseteq References /\ held \subseteq References
  /\ unfreed \subseteq References
  /\ "cert" \in held => held = {"cert"}
  /\ "bio" \in held => "session" \in held
  /\ pc \in {"idle", "attach", "attaching", "ready", "waiting", "done"}
  /\ at \in Calls \cup Ends
  /\ inFlight \in Calls \cup Frees \cup {"none"}
  /\ result \in Calls \cup Ends \cup {"none"}
  /\ cut \subseteq Calls \cup Frees
  /\ read \subseteq UNION {Known[p] : p \in DOMAIN Known} /\ answer \subseteq read

\* Outside a remote call the process has its own code and registers, and when
\* Inspect has returned it runs untraced - however the calls ended (the deferred
\* clean-up of Call, Close).  The one exception is a process left halted by the
\* SIGSTOP of the attach: foreign signals came first and no call returned.
LeftAsFound ==
  /\ alive /\ pc # "waiting" => ~patched /\ regs = "own"
  /\ alive /\ pc = "done" =>
       /\ ~traced
       /\ leader = "running" \/ (leader = "halted" /\ sent > 0 /\ read = {})

\* The leader is sent into the library as it is mapped, and every function that
\* is given a reference is called while the process holds it: nothing is used or
\* freed after it was freed (newRemoteSymbolResolver, the deferred frees).
CallsAreSound ==
  alive /\ leader = "calling" =>
    /\ base[LibraryOf(inFlight)] = FirstPage(maps, LibraryOf(inFlight))
    /\ \A r \in References : inFlight \in Scope[r] \cup {Free[r]} => r \in refs

\* What the calls took hold of in the process has been given back when Inspect
\* returns, on every path, unless the taking or the freeing call was itself cut
\* short or the free function does not exist.
NothingLeaks ==
  alive /\ pc = "done" =>
    \A r \in refs : r \in unfreed \/ Taker[r] \in cut \/ Free[r] \in cut

\* The lock is never left to the leader by a call, except by one that a signal
\* cut short: that lock nobody releases (waitForTrap gives up on any other stop,
\* Call puts the registers back).
LockIsReturned ==
  alive /\ pc \in {"ready", "done"} /\ lock = "call" => cut # {}

\* Inspect comes to an end if it did not stop the leader while that held the
\* lock and no signal cut a call short: the daemon's event loop waits for it, and
\* waitForTrap has no limit.
EndsUnlessLocked ==
  (pc = "ready" /\ lock # "leader") ~> (pc = "done" \/ cut # {} \/ ~alive)

\* A key export that fails leaves the metadata already read to the session.
\* (2026-05-09-fcktls-openssl-curl-poc-design.md: "If key export fails, continue
\* emitting metadata and optional plaintext capture."  Inspect returns an empty
\* inspection with the error.)
MetadataSurvives ==
  pc = "done" /\ "certificate" \in read => read \subseteq answer
===============================================================================
