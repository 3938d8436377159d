----------------------------- MODULE SessionStore -----------------------------
(***************************************************************************)
(* The session table of pkg/fcktls/session_store.go as a data structure:   *)
(* what a record holds, and what MergeMetadata, AppendChunk, Finalize and  *)
(* FinalizeByPID make of it.  The run loop is the only goroutine that      *)
(* calls the store, so each call is one operator and the table itself is a *)
(* variable of Daemon.                                                     *)
(*                                                                         *)
(* Of a record's metadata the fields kept are those some decision or some  *)
(* promise depends on: executable, role, capture mode, key status, key-log *)
(* lines and the two timestamps.  The other ones (SNI, cipher, endpoints,  *)
(* ...) are last-writer-wins exactly like exe.  The order of the key-log   *)
(* lines is left out; byte streams are sequences.                          *)
(*                                                                         *)
(* An operator X_Y is a faulty variant of the operator X below it.         *)
(***************************************************************************)
EXTENDS Naturals, Sequences

CONSTANTS Pids,        \* process ids
          Ptrs,        \* SSL*, gnutls_session_t and *tls.Conn addresses
          Exes,        \* executable paths that match the target
          KeyLines,    \* key-log lines
          Bytes,       \* plaintext bytes
          NoSession    \* what the table maps an unknown key to

NullPtr == 0           \* the key of the "unsupported runtime" placeholder

ASSUME ExesAssumption == "" \notin Exes
ASSUME PtrsAssumption == Ptrs \subseteq Nat \ {NullPtr}

Keys == Pids \X (Ptrs \cup {NullPtr})

PidOf(key) == key[1]
PtrOf(key) == key[2]

Roles        == {"", "client", "server", "unknown"}
KeyStatuses  == {"unknown", "available", "unavailable", "partial"}
CaptureModes == {"metadata-only", "capture"}
Directions   == {"client-to-server", "server-to-client"}

\* 0 stands for the zero time.Time.
Records == [exe: Exes \cup {""}, role: Roles, capture: CaptureModes,
            status: KeyStatuses, lines: SUBSET KeyLines,
            c2s: Seq(Bytes), s2c: Seq(Bytes), first: Nat, last: Nat]

ASSUME NoSessionAssumption == NoSession \notin Records

\* SessionMetadataUpdate: "" and {} are the zero values, which change nothing.
Updates == [exe: Exes \cup {""}, role: Roles, capture: CaptureModes \cup {""},
            status: KeyStatuses \cup {""}, lines: SUBSET KeyLines, at: Nat]

\* The key status says whether there are key-log lines.
HonestRecord(r) == (r.status = "available") <=> (r.lines # {})

Snapshots == [key: Keys, rec: Records]

NewRecord == [exe |-> "", role |-> "", capture |-> "metadata-only",
              status |-> "unknown", lines |-> {}, c2s |-> <<>>, s2c |-> <<>>,
              first |-> 0, last |-> 0]

Touched(r, at) ==
  [r EXCEPT !.first = IF at # 0 /\ (@ = 0 \/ at < @) THEN at ELSE @,
            !.last  = IF at > @ THEN at ELSE @]

PreservesAvailable_Never(r, u) == FALSE

\* shouldPreserveAvailableKeyStatus
PreservesAvailable(r, u) ==
  /\ r.status = "available"
  /\ r.lines # {}
  /\ u.status \notin {"", "available"}
  /\ u.lines = {}

Given(new, old) == IF new = "" THEN old ELSE new

Merged(r, u) ==
  [Touched(r, u.at) EXCEPT
     !.exe     = Given(u.exe, @),
     !.role    = Given(u.role, @),
     !.capture = Given(u.capture, @),
     !.status  = IF PreservesAvailable(r, u) THEN @ ELSE Given(u.status, @),
     !.lines   = @ \cup u.lines]

Appended_Overwrites(r, direction, data, at) ==
  IF direction = "client-to-server"
  THEN [Touched(r, at) EXCEPT !.c2s = data]
  ELSE [Touched(r, at) EXCEPT !.s2c = data]

Appended(r, direction, data, at) ==
  IF direction = "client-to-server"
  THEN [Touched(r, at) EXCEPT !.c2s = @ \o data]
  ELSE [Touched(r, at) EXCEPT !.s2c = @ \o data]

-------------------------------------------------------------------------------
(* The table: a function from Keys to a record or NoSession. *)

EmptyStore == [key \in Keys |-> NoSession]

Live(store) == {key \in Keys : store[key] # NoSession}

LiveOf(store, pids) == {key \in Live(store) : PidOf(key) \in pids}

\* ensureRecord
Ensured(store, key) ==
  IF store[key] = NoSession THEN NewRecord ELSE store[key]

MergeMetadata(store, key, u) ==
  [store EXCEPT ![key] = Merged(Ensured(store, key), u)]

AppendChunk(store, key, direction, data, at) ==
  [store EXCEPT ![key] = Appended(Ensured(store, key), direction, data, at)]

\* The snapshots FinalizeByPID returns for every pid of pids; at[pid] is its
\* exit time.
FinalizedByPID(store, pids, at) ==
  {[key |-> key, rec |-> Touched(store[key], at[PidOf(key)])] :
     key \in LiveOf(store, pids)}

WithoutPIDs_Kept(store, pids) == store

WithoutPIDs(store, pids) ==
  [key \in Keys |-> IF PidOf(key) \in pids THEN NoSession ELSE store[key]]
===============================================================================
