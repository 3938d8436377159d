----------------------------- MODULE DaemonProofs -----------------------------
(***************************************************************************)
(* The invariants of Daemon, proved for every set of processes, sessions,  *)
(* executables, key lines and bytes, both capture modes, with and without  *)
(* an inspector.                                                           *)
(***************************************************************************)
EXTENDS Daemon, SessionStoreProofs, SequenceTheorems

\* A record is in the mode of the daemon from its first metadata event on, which
\* gives it its executable, and holds plaintext in capture mode only.
Fitting(r) ==
  /\ r.capture = IF r.exe = "" THEN "metadata-only" ELSE CaptureMode
  /\ r.c2s # <<>> \/ r.s2c # <<>> => CaptureMode = "capture"

FittingUpdate(u) == u.capture = IF u.exe = "" THEN "" ELSE CaptureMode

SoundRecord(r) == HonestRecord(r) /\ Fitting(r)

SoundUpdate(u) == HonestUpdate(u) /\ FittingUpdate(u)

SoundStore(store) == \A key \in Live(store) : SoundRecord(store[key])

\* Nothing captured for a session of old is missing from new.
Keeps(new, old) ==
  \A key \in Live(old) : /\ new[key].c2s = old[key].c2s
                         /\ new[key].s2c = old[key].s2c
                         /\ old[key].lines \subseteq new[key].lines

Others(new, old, key) == \A k \in Keys \ {key} : new[k] = old[k]

-------------------------------------------------------------------------------
(* What the operators the handlers are built from do to the table *)

\* A pid and a pointer make a key of the table.
LEMMA KeyType == \A pid \in Pids, ptr \in Ptrs : <<pid, ptr>> \in Keys
  BY DEF Keys

\* A fresh record is sound, and a sound update of a sound record leaves one.
LEMMA NewRecordSound == SoundRecord(NewRecord)
  BY NewRecordType DEF NewRecord, SoundRecord, Fitting

LEMMA MergedSound ==
  ASSUME NEW r \in Records, NEW u \in Updates, SoundRecord(r), SoundUpdate(u)
  PROVE  SoundRecord(Merged(r, u))
<1>1. HonestRecord(Merged(r, u))
  BY MergedHonest DEF SoundRecord, SoundUpdate
<1>2. Fitting(Merged(r, u))
  BY MergedType, ModesAssumption
  DEF SoundRecord, SoundUpdate, Fitting, FittingUpdate, Given, CaptureModes
<1>3. QED  BY <1>1, <1>2 DEF SoundRecord

\* touch leaves a sound record sound.
LEMMA TouchedSound ==
  ASSUME NEW r \in Records, NEW at \in Nat, SoundRecord(r)
  PROVE  SoundRecord(Touched(r, at))
  BY TouchedType DEF SoundRecord, HonestRecord, Fitting, SameCapture

\* MergeMetadata changes one entry: it keeps the record sound if the update is,
\* and its streams and lines do not shrink.
LEMMA MergeStep ==
  ASSUME NEW store \in Stores, NEW key \in Keys, NEW u \in Updates
  PROVE  /\ MergeMetadata(store, key, u) \in Stores
         /\ Live(MergeMetadata(store, key, u)) = Live(store) \cup {key}
         /\ Keeps(MergeMetadata(store, key, u), store)
         /\ Others(MergeMetadata(store, key, u), store, key)
         /\ SoundUpdate(u) /\ SoundStore(store)
              => SoundStore(MergeMetadata(store, key, u))
<1> DEFINE r == Merged(Ensured(store, key), u)
           s == MergeMetadata(store, key, u)
<1>1. Ensured(store, key) \in Records  BY EnsuredType
<1>2. /\ r \in Records
      /\ r.c2s = Ensured(store, key).c2s
      /\ r.s2c = Ensured(store, key).s2c
      /\ Ensured(store, key).lines \subseteq r.lines
  BY <1>1, MergedType
<1>3. SoundStore(store) => SoundRecord(Ensured(store, key))
  BY NewRecordSound DEF SoundStore, Live, Ensured
<1>4. SoundUpdate(u) /\ SoundStore(store) => SoundRecord(r)
  BY <1>1, <1>3, MergedSound
<1>5. s = [store EXCEPT ![key] = r]  BY DEF MergeMetadata
<1> HIDE DEF r, s
<1>6. s \in Stores /\ Live(s) = Live(store) \cup {key}
  BY <1>2, <1>5, StoreType
<1>7. /\ s[key] = r
      /\ \A k \in Keys \ {key} : s[k] = store[k]
  BY <1>5 DEF Stores
<1>8. Keeps(s, store)
  BY <1>2, <1>7 DEF Keeps, Live, Ensured
<1>9. SoundUpdate(u) /\ SoundStore(store) => SoundStore(s)
  BY <1>4, <1>6, <1>7 DEF SoundStore, Live
<1>10. QED  BY <1>6, <1>7, <1>8, <1>9 DEF s, Others

\* What the inspector's answer is merged as is a sound update.
LEMMA InspectionUpdateType ==
  ASSUME NEW i \in Inspections, NEW at \in Nat
  PROVE  InspectionUpdate(i, at) \in Updates /\ SoundUpdate(InspectionUpdate(i, at))
  BY DEF Inspections, InspectionUpdate, Updates, SoundUpdate, HonestUpdate, FittingUpdate,
         KeyStatuses, Roles

\* inspectOpenSSLSession changes no entry but its own, and that one as a merge.
LEMMA InspectedStep ==
  ASSUME NEW store \in Stores, NEW key \in Keys, NEW i \in Inspections, NEW at \in Nat
  PROVE  /\ InspectedStore(store, key, i, at) \in Stores
         /\ Live(store) \subseteq Live(InspectedStore(store, key, i, at))
         /\ Live(InspectedStore(store, key, i, at)) \subseteq Live(store) \cup {key}
         /\ Keeps(InspectedStore(store, key, i, at), store)
         /\ Others(InspectedStore(store, key, i, at), store, key)
         /\ SoundStore(store) => SoundStore(InspectedStore(store, key, i, at))
<1>1. CASE MayInspect(key)
  BY <1>1, MergeStep, InspectionUpdateType DEF InspectedStore
<1>2. CASE ~MayInspect(key)
  BY <1>2 DEF InspectedStore, Keeps, Others
<1>3. QED  BY <1>1, <1>2

\* new is old with at most one byte appended to the streams of a session.
AppendsTo(new, old, byte) ==
  \A k \in Live(old) : /\ new[k].lines = old[k].lines
                       /\ new[k].c2s \in {old[k].c2s, old[k].c2s \o <<byte>>}
                       /\ new[k].s2c \in {old[k].s2c, old[k].s2c \o <<byte>>}

\* AppendChunk puts one byte at the end of a stream of one entry and changes the
\* capture of no other one.
LEMMA AppendStep ==
  ASSUME NEW store \in Stores, NEW key \in Keys, NEW d \in Directions,
         NEW byte \in Bytes, NEW at \in Nat, CaptureMode = "capture"
  PROVE  /\ AppendChunk(store, key, d, <<byte>>, at) \in Stores
         /\ Live(AppendChunk(store, key, d, <<byte>>, at)) = Live(store) \cup {key}
         /\ SoundStore(store) => SoundStore(AppendChunk(store, key, d, <<byte>>, at))
         /\ AppendsTo(AppendChunk(store, key, d, <<byte>>, at), store, byte)
         /\ Others(AppendChunk(store, key, d, <<byte>>, at), store, key)
<1> DEFINE e == Ensured(store, key)
           r == Appended(e, d, <<byte>>, at)
           s == AppendChunk(store, key, d, <<byte>>, at)
<1>1. e \in Records  BY EnsuredType
<1>2. <<byte>> \in Seq(Bytes)  OBVIOUS
<1>3. /\ r \in Records
      /\ r.lines = e.lines
      /\ r.status = e.status /\ r.exe = e.exe /\ r.capture = e.capture
      /\ r.c2s \in {e.c2s, e.c2s \o <<byte>>}
      /\ r.s2c \in {e.s2c, e.s2c \o <<byte>>}
  BY <1>1, <1>2, AppendedType
<1>4. s = [store EXCEPT ![key] = r]  BY DEF AppendChunk
<1>5. SoundStore(store) => SoundRecord(e)
  BY NewRecordSound DEF SoundStore, Live, Ensured
<1>6. key \in Live(store) => e = store[key]
  BY DEF Live, Ensured
<1> HIDE DEF e, r, s
<1>7. s \in Stores /\ Live(s) = Live(store) \cup {key}
  BY <1>3, <1>4, StoreType
<1>8. s[key] = r /\ \A k \in Keys \ {key} : s[k] = store[k]
  BY <1>4 DEF Stores
<1>9. SoundStore(store) => SoundStore(s)
  <2>1. SoundRecord(e) => SoundRecord(r)
    BY <1>3 DEF SoundRecord, HonestRecord, Fitting
  <2>2. QED  BY <1>5, <1>7, <1>8, <2>1 DEF SoundStore, Live
<1>10. AppendsTo(s, store, byte)
  BY <1>3, <1>6, <1>8 DEF Live, AppendsTo
<1>11. QED  BY <1>7, <1>8, <1>9, <1>10 DEF s, Others
-------------------------------------------------------------------------------
(* What every handler of a TLS or plaintext event does *)

GrownBy(new, old) ==
  new = old \/ \E byte \in Bytes : new = old \o <<byte>>

\* The handler touches the session of one tracked process and nothing of others.
TouchStep(key) ==
  /\ Tracked(PidOf(key))
  /\ PtrOf(key) # NullPtr
  /\ phase' = phase /\ tracked' = tracked /\ exited' = exited
  /\ seenTLS' \in {seenTLS, [seenTLS EXCEPT ![PidOf(key)] = TRUE]}
  /\ fdBySession' \subseteq fdBySession \cup {key}
  /\ inspected' \subseteq inspected \cup {key}
  /\ attempts' \in [Keys -> 0..InspectLimit]
  /\ \A k \in Keys \ {key} : attempts'[k] = attempts[k]
  /\ NothingFlushed
  /\ sessions' \in Stores
  /\ Live(sessions') = Live(sessions) \cup {key}
  /\ Others(sessions', sessions, key)
  /\ SoundStore(sessions) => SoundStore(sessions')
  /\ \A k \in Live(sessions) : /\ sessions[k].lines \subseteq sessions'[k].lines
                               /\ GrownBy(sessions'[k].c2s, sessions[k].c2s)
                               /\ GrownBy(sessions'[k].s2c, sessions[k].s2c)

\* The bookkeeping of inspections stays within the limit of attempts and changes
\* for the key at hand only.
LEMMA CountStep ==
  ASSUME TypeOK, NEW key \in Keys, NEW i \in Inspections,
         CountInspection(key, i) \/ UNCHANGED inspectVars
  PROVE  /\ inspected' \subseteq inspected \cup {key}
         /\ attempts' \in [Keys -> 0..InspectLimit]
         /\ \A k \in Keys \ {key} : attempts'[k] = attempts[k]
  BY LimitsAssumption DEF TypeOK, CountInspection, MayInspect, inspectVars

\* What a handler merges for a tracked pid is an update.
LEMMA UpdateType ==
  ASSUME TypeOK, NEW pid \in Pids, Tracked(pid), NEW role \in Roles,
         NEW status \in KeyStatuses \cup {""}, NEW lines \in SUBSET KeyLines,
         status = "available" <=> lines # {}, NEW at \in Nat
  PROVE  /\ Update(tracked[pid], role, status, lines, at) \in Updates
         /\ SoundUpdate(Update(tracked[pid], role, status, lines, at))
<1>1. tracked[pid] \in Exes /\ tracked[pid] # "" /\ CaptureMode \in CaptureModes
  BY ModesAssumption, ExesAssumption DEF TypeOK, Tracked
<1>2. QED  BY <1>1 DEF Update, Updates, SoundUpdate, HonestUpdate, FittingUpdate

\* A store that a merge or an append leaves is one grown from the old one.
LEMMA KeepsGrows ==
  ASSUME NEW old \in Stores, NEW new \in Stores, Keeps(new, old)
  PROVE  \A k \in Live(old) : /\ old[k].lines \subseteq new[k].lines
                             /\ GrownBy(new[k].c2s, old[k].c2s)
                             /\ GrownBy(new[k].s2c, old[k].s2c)
  BY DEF Keeps, GrownBy

\* handleOpenSSLEvent is a step that touches one session of a tracked pid.
LEMMA OpenSSLStep ==
  ASSUME TypeOK, NEW pid \in Pids, NEW ptr \in Ptrs, NEW e \in OpenSSLPayloads,
         NEW i \in Inspections, NEW at \in EventTimes,
         HandleOpenSSLEvent(pid, ptr, e, i, at)
  PROVE  TouchStep(<<pid, ptr>>)
<1> DEFINE key == <<pid, ptr>>
           u == Update(tracked[pid], e.role, OpenSSLStatus(e), e.lines, at)
           merged == MergeMetadata(sessions, key, u)
<1>1. at \in Nat /\ key \in Keys /\ PidOf(key) = pid /\ PtrOf(key) # NullPtr
  BY KeyType, TimesAssumption, PtrsAssumption DEF PidOf, PtrOf
<1>2. SeeTLS(pid, key, e.type = "set_fd")  BY DEF HandleOpenSSLEvent
<1>3. /\ e.role \in Roles
      /\ e.lines \in SUBSET KeyLines
      /\ OpenSSLStatus(e) \in KeyStatuses \cup {""}
      /\ OpenSSLStatus(e) = "available" <=> e.lines # {}
  BY DEF OpenSSLPayloads, OpenSSLStatus, Roles, KeyStatuses
<1>4. u \in Updates /\ SoundUpdate(u)
  <2>1. Tracked(pid)  BY <1>2 DEF SeeTLS
  <2>2. QED  BY <1>1, <1>3, <2>1, UpdateType
<1>5. sessions \in Stores  BY DEF TypeOK, Stores
<1>6. /\ merged \in Stores
      /\ Live(merged) = Live(sessions) \cup {key}
      /\ Keeps(merged, sessions)
      /\ Others(merged, sessions, key)
      /\ SoundStore(sessions) => SoundStore(merged)
  BY <1>1, <1>4, <1>5, MergeStep
<1>7. /\ sessions' = merged \/ sessions' = InspectedStore(merged, key, i, at)
      /\ CountInspection(key, i) \/ UNCHANGED inspectVars
  BY DEF HandleOpenSSLEvent
<1> HIDE DEF merged, u
<1>8. /\ InspectedStore(merged, key, i, at) \in Stores
      /\ Live(InspectedStore(merged, key, i, at)) = Live(merged)
      /\ Keeps(InspectedStore(merged, key, i, at), merged)
      /\ Others(InspectedStore(merged, key, i, at), merged, key)
      /\ SoundStore(merged) => SoundStore(InspectedStore(merged, key, i, at))
  BY <1>1, <1>6, InspectedStep
<1>9. /\ sessions' \in Stores
      /\ Live(sessions') = Live(sessions) \cup {key}
      /\ SoundStore(sessions) => SoundStore(sessions')
      /\ Keeps(sessions', sessions)
      /\ Others(sessions', sessions, key)
  BY <1>6, <1>7, <1>8 DEF Keeps, Others
<1>10. QED
  BY <1>1, <1>2, <1>5, <1>7, <1>9, CountStep, KeepsGrows
  DEF TouchStep, SeeTLS, Running

\* So is handleGnuTLSEvent.
LEMMA GnuTLSStep ==
  ASSUME TypeOK, NEW pid \in Pids, NEW ptr \in Ptrs, NEW e \in GnuTLSPayloads,
         NEW at \in EventTimes, HandleGnuTLSEvent(pid, ptr, e, at)
  PROVE  TouchStep(<<pid, ptr>>)
<1> DEFINE key == <<pid, ptr>>
           u == Update(tracked[pid], "", GnuTLSStatus(e), {}, at)
<1>1. at \in Nat /\ key \in Keys /\ PidOf(key) = pid /\ PtrOf(key) # NullPtr
  BY KeyType, TimesAssumption, PtrsAssumption DEF PidOf, PtrOf
<1>2. SeeTLS(pid, key, e.type = "set_fd")  BY DEF HandleGnuTLSEvent
<1>3. GnuTLSStatus(e) \in KeyStatuses \cup {""} /\ GnuTLSStatus(e) # "available"
  BY DEF GnuTLSPayloads, GnuTLSStatus, KeyStatuses
<1>4. u \in Updates /\ SoundUpdate(u)
  <2>1. "" \in Roles /\ {} \in SUBSET KeyLines /\ Tracked(pid)
    BY <1>2 DEF Roles, SeeTLS
  <2>2. QED  BY <1>1, <1>3, <2>1, UpdateType
<1>5. sessions \in Stores  BY DEF TypeOK, Stores
<1>6. sessions' = MergeMetadata(sessions, key, u) /\ UNCHANGED inspectVars
  BY DEF HandleGnuTLSEvent
<1> HIDE DEF u
<1>7. /\ sessions' \in Stores
      /\ Live(sessions') = Live(sessions) \cup {key}
      /\ SoundStore(sessions) => SoundStore(sessions')
      /\ Keeps(sessions', sessions)
      /\ Others(sessions', sessions, key)
  BY <1>1, <1>4, <1>5, <1>6, MergeStep
<1>8. QED
  BY <1>1, <1>2, <1>5, <1>6, <1>7, KeepsGrows
  DEF TouchStep, SeeTLS, Running, inspectVars, TypeOK

\* So is handleGoTLSEvent.
LEMMA GoTLSStep ==
  ASSUME TypeOK, NEW pid \in Pids, NEW ptr \in Ptrs, NEW probe \in GoProbes,
         NEW g \in GoInspections, NEW at \in EventTimes,
         HandleGoTLSEvent(pid, ptr, probe, g, at)
  PROVE  TouchStep(<<pid, ptr>>)
<1> DEFINE key == <<pid, ptr>>
           status == IF g = "error" THEN "partial" ELSE "unavailable"
           u == Update(tracked[pid], GoRole(probe, g), status, {}, at)
<1>1. at \in Nat /\ key \in Keys /\ PidOf(key) = pid /\ PtrOf(key) # NullPtr
  BY KeyType, TimesAssumption, PtrsAssumption DEF PidOf, PtrOf
<1>2. SeeTLS(pid, key, FALSE)  BY DEF HandleGoTLSEvent
<1>3. /\ GoRole(probe, g) \in Roles
      /\ status \in KeyStatuses \cup {""} /\ status # "available"
  BY DEF GoRole, Roles, KeyStatuses
<1>4. sessions' = MergeMetadata(sessions, key, u) /\ UNCHANGED inspectVars
  BY DEF HandleGoTLSEvent
<1> HIDE DEF status
<1>5. u \in Updates /\ SoundUpdate(u)
  <2>1. {} \in SUBSET KeyLines /\ Tracked(pid)
    BY <1>2 DEF SeeTLS
  <2>2. QED  BY <1>1, <1>3, <2>1, UpdateType
<1>6. sessions \in Stores  BY DEF TypeOK, Stores
<1> HIDE DEF u
<1>7. /\ sessions' \in Stores
      /\ Live(sessions') = Live(sessions) \cup {key}
      /\ SoundStore(sessions) => SoundStore(sessions')
      /\ Keeps(sessions', sessions)
      /\ Others(sessions', sessions, key)
  BY <1>1, <1>4, <1>5, <1>6, MergeStep
<1>8. QED
  BY <1>1, <1>2, <1>4, <1>6, <1>7, KeepsGrows
  DEF TouchStep, SeeTLS, Running, inspectVars, TypeOK

\* So is handleAppDataEvent, in capture mode.
LEMMA OpenSSLAppDataStep ==
  ASSUME TypeOK, NEW pid \in Pids, NEW ptr \in Ptrs, NEW d \in Directions,
         NEW byte \in Bytes, NEW i \in Inspections, NEW at \in EventTimes,
         HandleOpenSSLAppData(pid, ptr, d, byte, i, at)
  PROVE  TouchStep(<<pid, ptr>>)
<1> DEFINE key == <<pid, ptr>>
           seen == InspectedStore(sessions, key, i, at)
<1>1. at \in Nat /\ key \in Keys /\ PidOf(key) = pid /\ PtrOf(key) # NullPtr
  BY KeyType, TimesAssumption, PtrsAssumption DEF PidOf, PtrOf
<1>2. /\ SeeAppData(pid, key)
      /\ CountInspection(key, i)
      /\ sessions' = AppendChunk(seen, key, d, <<byte>>, at)
  BY DEF HandleOpenSSLAppData
<1>3. sessions \in Stores  BY DEF TypeOK, Stores
<1>4. CaptureMode = "capture"  BY <1>2 DEF SeeAppData
<1>5. /\ seen \in Stores
      /\ Live(sessions) \subseteq Live(seen)
      /\ Live(seen) \subseteq Live(sessions) \cup {key}
      /\ Keeps(seen, sessions)
      /\ Others(seen, sessions, key)
      /\ SoundStore(sessions) => SoundStore(seen)
  BY <1>1, <1>3, InspectedStep
<1> HIDE DEF seen
<1>6. /\ sessions' \in Stores
      /\ Live(sessions') = Live(seen) \cup {key}
      /\ SoundStore(seen) => SoundStore(sessions')
      /\ AppendsTo(sessions', seen, byte)
      /\ Others(sessions', seen, key)
  BY <1>1, <1>2, <1>4, <1>5, AppendStep
<1>7. \A k \in Live(sessions) : /\ sessions[k].lines \subseteq sessions'[k].lines
                               /\ GrownBy(sessions'[k].c2s, sessions[k].c2s)
                               /\ GrownBy(sessions'[k].s2c, sessions[k].s2c)
  BY <1>5, <1>6 DEF Keeps, GrownBy, AppendsTo
<1>8. QED
  BY <1>1, <1>2, <1>5, <1>6, <1>7, CountStep
  DEF TouchStep, SeeAppData, Running, procVars, Others

\* So are handleGnuTLSAppDataEvent and handleGoTLSAppDataEvent.
LEMMA PlainAppDataStep ==
  ASSUME TypeOK, NEW pid \in Pids, NEW ptr \in Ptrs, NEW d \in Directions,
         NEW byte \in Bytes, NEW at \in EventTimes,
         HandlePlainAppData(pid, ptr, d, byte, at)
  PROVE  TouchStep(<<pid, ptr>>)
<1> DEFINE key == <<pid, ptr>>
<1>1. at \in Nat /\ key \in Keys /\ PidOf(key) = pid /\ PtrOf(key) # NullPtr
  BY KeyType, TimesAssumption, PtrsAssumption DEF PidOf, PtrOf
<1>2. /\ SeeAppData(pid, key)
      /\ UNCHANGED inspectVars
      /\ sessions' = AppendChunk(sessions, key, d, <<byte>>, at)
  BY DEF HandlePlainAppData
<1>3. sessions \in Stores  BY DEF TypeOK, Stores
<1>4. CaptureMode = "capture"  BY <1>2 DEF SeeAppData
<1>5. /\ sessions' \in Stores
      /\ Live(sessions') = Live(sessions) \cup {key}
      /\ SoundStore(sessions) => SoundStore(sessions')
      /\ AppendsTo(sessions', sessions, byte)
      /\ Others(sessions', sessions, key)
  BY <1>1, <1>2, <1>3, <1>4, AppendStep
<1>6. \A k \in Live(sessions) : /\ sessions[k].lines \subseteq sessions'[k].lines
                               /\ GrownBy(sessions'[k].c2s, sessions[k].c2s)
                               /\ GrownBy(sessions'[k].s2c, sessions[k].s2c)
  BY <1>5 DEF GrownBy, AppendsTo
<1>7. QED
  BY <1>1, <1>2, <1>5, <1>6
  DEF TouchStep, SeeAppData, Running, procVars, inspectVars, TypeOK

-------------------------------------------------------------------------------
(* Flushing *)

\* The placeholder of emitUnsupportedRuntime is a sound snapshot.
LEMMA PlaceholderType ==
  ASSUME TypeOK, NEW pid \in Pids, Tracked(pid), NEW now \in WallTimes
  PROVE  /\ Placeholder(pid, now) \in Snapshots
         /\ Placeholder(pid, now).key = <<pid, NullPtr>>
         /\ SoundStore(sessions) => SoundRecord(Placeholder(pid, now).rec)
<1> DEFINE key == <<pid, NullPtr>>
           e == Ensured(sessions, key)
           u == Update(tracked[pid], "", "unknown", {}, now)
           m == Merged(e, u)
<1>1. now \in Nat /\ key \in Keys  BY TimesAssumption DEF Keys
<1>2. sessions \in Stores  BY DEF TypeOK, Stores
<1>3. e \in Records  BY <1>1, <1>2, EnsuredType
<1>4. SoundStore(sessions) => SoundRecord(e)
  BY <1>1, NewRecordSound DEF SoundStore, Live, Ensured
<1>5. u \in Updates /\ SoundUpdate(u)
  <2>1. "" \in Roles /\ {} \in SUBSET KeyLines /\ "unknown" \in KeyStatuses
    BY DEF Roles, KeyStatuses
  <2>2. QED  BY <1>1, <2>1, UpdateType
<1> HIDE DEF e, u
<1>6. m \in Records /\ (SoundStore(sessions) => SoundRecord(m))
  BY <1>3, <1>4, <1>5, MergedType, MergedSound
<1>7. Placeholder(pid, now) = [key |-> key, rec |-> Touched(m, now)]
  BY DEF Placeholder, m, e, u
<1> HIDE DEF m
<1>8. Touched(m, now) \in Records /\ (SoundRecord(m) => SoundRecord(Touched(m, now)))
  BY <1>1, <1>6, TouchedType, TouchedSound
<1>9. QED  BY <1>1, <1>6, <1>7, <1>8 DEF Snapshots

\* What a flush of due leaves and what it writes.
FlushStep(due, now) ==
  /\ \/ phase' = "drained" /\ due = Exited
     \/ phase' = "running" /\ phase = "running" /\ due = Due(now)
  /\ FlushExited(due, now)

\* What exited maps a pid to is a number, exit event or none.
LEMMA ExitTimeType ==
  ASSUME TypeOK, NEW pid \in Pids
  PROVE  exited[pid] \in Nat
<1>1. \A at \in EventTimes : at \in Nat  BY TimesAssumption
<1>2. exited[pid] \in EventTimes \/ exited[pid] = Alive  BY DEF TypeOK
<1>3. QED  BY <1>1, <1>2 DEF Alive

\* A flush writes snapshots and leaves the maps with their types.
LEMMA FlushTypes ==
  ASSUME TypeOK, NEW due \in SUBSET Pids, NEW now \in WallTimes, FlushStep(due, now)
  PROVE  TypeOK'
<1>1. written' \subseteq Snapshots
  <2>1. \A key \in LiveOf(sessions, due) :
          [key |-> key, rec |-> Touched(sessions[key], exited[PidOf(key)])] \in Snapshots
    <3> SUFFICES ASSUME NEW key \in LiveOf(sessions, due)
                 PROVE [key |-> key, rec |-> Touched(sessions[key], exited[PidOf(key)])]
                         \in Snapshots
      OBVIOUS
    <3>1. key \in Keys /\ sessions[key] \in Records
      BY DEF LiveOf, Live, TypeOK
    <3>2. PidOf(key) \in Pids  BY <3>1 DEF Keys, PidOf
    <3>3. exited[PidOf(key)] \in Nat  BY <3>2, ExitTimeType
    <3>4. QED  BY <3>1, <3>3, TouchedType DEF Snapshots
  <2>2. QED  BY <2>1, PlaceholderType DEF FlushStep, FlushExited, FinalizedByPID, Unsupported
<1>2. sessions' \in [Keys -> Records \cup {NoSession}]
  BY DEF FlushStep, FlushExited, WithoutPIDs, TypeOK
<1>3. /\ tracked' \in [Pids -> Exes \cup {NoMatch}]
      /\ seenTLS' \in [Pids -> BOOLEAN]
      /\ exited' \in [Pids -> EventTimes \cup {Alive}]
  BY DEF FlushStep, FlushExited, TypeOK
<1>4. /\ fdBySession' \subseteq Keys
      /\ inspected' \subseteq Keys
      /\ attempts' \in [Keys -> 0..InspectLimit]
  BY LimitsAssumption DEF FlushStep, FlushExited, WithoutDue, TypeOK
<1>5. flushedAt' \in WallTimes \cup {0}  BY DEF FlushStep, FlushExited
<1>6. QED  BY <1>1, <1>2, <1>3, <1>4, <1>5 DEF TypeOK, FlushStep

\* The step disjuncts of Next, in the terms of the lemmas.
LEMMA StepCases ==
  ASSUME TypeOK, [Next]_vars
  PROVE  \/ \E key \in Keys : TouchStep(key)
         \/ \E pid \in Pids, exe \in Exes, gated \in BOOLEAN : HandleExec(pid, exe, gated)
         \/ \E pid \in Pids, at \in EventTimes : HandleExit(pid, at)
         \/ \E due \in SUBSET Exited, now \in WallTimes : FlushStep(due, now)
         \/ \E now \in WallTimes : Cancel(now)
         \/ /\ NothingFlushed
            /\ phase' \in {phase, "failed"}
            /\ UNCHANGED <<procVars, fdBySession, inspectVars, sessions>>
         \/ UNCHANGED vars
<1>1. CASE ProcessEvent  BY <1>1 DEF ProcessEvent
<1>2. CASE TLSEvent
  BY <1>2, OpenSSLStep, GnuTLSStep, GoTLSStep, KeyType DEF TLSEvent
<1>3. CASE AppDataEvent
  BY <1>3, OpenSSLAppDataStep, PlainAppDataStep, KeyType DEF AppDataEvent
<1>4. CASE IgnoreEvent  BY <1>4 DEF IgnoreEvent, Running
<1>5. CASE \E now \in WallTimes : Tick(now)
  <2>1. \A now \in WallTimes : Due(now) \in SUBSET Exited  BY DEF Due
  <2>2. QED  BY <1>5, <2>1 DEF Tick, Running, FlushStep
<1>6. CASE Stop  BY <1>6 DEF Stop, Drain, ReadError, FlushStep
<1>7. CASE Finished \/ UNCHANGED vars  BY <1>7 DEF Finished
<1>8. QED  BY <1>1, <1>2, <1>3, <1>4, <1>5, <1>6, <1>7 DEF Next

-------------------------------------------------------------------------------
(* The theorems *)

\* The inductive invariant.  KeyStatusHonest needs nothing but the types, and
\* neither does ModeFits, what is known of the mode of the records;
\* PlaceholderAlone needs that no placeholder is left in the store between two
\* steps, because the next flush of its pid would write it as a session; and
\* InspectionOfLive rests on a flush forgetting a pid's bookkeeping together
\* with its sessions.
ModeFits ==
  /\ \A key \in Live(sessions) : Fitting(sessions[key])
  /\ \A s \in written : Fitting(s.rec)

DrainedIsFlushed == phase = "drained" => Exited = {}

IInv ==
  /\ TypeOK
  /\ KeyStatusHonest
  /\ ModeFits
  /\ DrainedIsFlushed
  /\ NothingOrphaned
  /\ InspectionOfLive
  /\ PlaceholderAlone

\* The invariant holds when Run enters its loop.
LEMMA InitIInv == Init => IInv
<1> SUFFICES ASSUME Init PROVE IInv  OBVIOUS
<1>1. Live(sessions) = {}  BY DEF Init, EmptyStore, Live
<1>2. TypeOK  BY LimitsAssumption DEF Init, TypeOK, EmptyStore
<1>3. KeyStatusHonest /\ ModeFits /\ DrainedIsFlushed /\ PlaceholderAlone
  BY <1>1 DEF Init, KeyStatusHonest, ModeFits, DrainedIsFlushed, PlaceholderAlone
<1>4. NothingOrphaned
  BY <1>1 DEF Init, NothingOrphaned
<1>5. InspectionOfLive  BY DEF Init, InspectionOfLive
<1>6. QED  BY <1>2, <1>3, <1>4, <1>5 DEF IInv

\* A handler of a TLS or plaintext event preserves the invariant.
LEMMA TouchIInv ==
  ASSUME IInv, NEW key \in Keys, TouchStep(key)
  PROVE  IInv'
<1> USE DEF IInv
<1>1. TypeOK'
  BY DEF TypeOK, TouchStep, NothingFlushed, Stores
<1>2. KeyStatusHonest' /\ ModeFits' /\ DrainedIsFlushed'
  <2>1. SoundStore(sessions)
    BY DEF KeyStatusHonest, ModeFits, SoundStore, SoundRecord
  <2>2. SoundStore(sessions') /\ written' = {}
    BY <2>1 DEF TouchStep, NothingFlushed
  <2>3. DrainedIsFlushed'
    BY DEF DrainedIsFlushed, Exited, TouchStep
  <2>4. QED
    BY <2>2, <2>3 DEF KeyStatusHonest, ModeFits, SoundStore, SoundRecord
<1>3. NothingOrphaned'
  <2>1. /\ \A k \in Live(sessions') : k \in Live(sessions) \/ k = key
        /\ \A pid \in Pids : Tracked(pid)' = Tracked(pid)
    BY DEF TouchStep, Tracked
  <2>2. \A k \in Keys : PidOf(k) \in Pids  BY DEF Keys, PidOf
  <2>3. \A k \in Live(sessions') : Tracked(PidOf(k))'
    BY <2>1, <2>2 DEF NothingOrphaned, TouchStep, Live, Tracked
  <2>4. \A k \in (fdBySession \cup inspected)' : Tracked(PidOf(k))'
    BY <2>2 DEF NothingOrphaned, TouchStep, Tracked
  <2>5. \A k \in Keys : attempts'[k] > 0 => Tracked(PidOf(k))'
    BY <2>2 DEF NothingOrphaned, TouchStep, Tracked
  <2>6. \A pid \in Pids : seenTLS'[pid] => Tracked(pid)'
    BY <2>1 DEF NothingOrphaned, TouchStep, TypeOK
  <2>7. QED  BY <2>3, <2>4, <2>5, <2>6 DEF NothingOrphaned
<1>4. InspectionOfLive'
  BY DEF InspectionOfLive, TouchStep
<1>5. PlaceholderAlone'
  BY DEF PlaceholderAlone, TouchStep, NothingFlushed, PtrOf
<1>6. QED  BY <1>1, <1>2, <1>3, <1>4, <1>5

\* A flush preserves the invariant.
LEMMA FlushIInv ==
  ASSUME IInv, NEW due \in SUBSET Exited, NEW now \in WallTimes, FlushStep(due, now)
  PROVE  IInv'
<1> USE DEF IInv
<1>1. due \in SUBSET Pids  BY DEF Exited
<1>2. TypeOK'  BY <1>1, FlushTypes
<1>3. Live(sessions') = {k \in Live(sessions) : PidOf(k) \notin due}
      /\ \A k \in Live(sessions') : sessions'[k] = sessions[k]
  BY DEF FlushStep, FlushExited, WithoutPIDs, Live
<1>4. SoundStore(sessions)
  BY DEF KeyStatusHonest, ModeFits, SoundStore, SoundRecord
<1>5. \A s \in written' :
        \/ /\ s.key \in LiveOf(sessions, due)
           /\ s.rec = Touched(sessions[s.key], exited[PidOf(s.key)])
        \/ \E pid \in due : /\ Tracked(pid) /\ LiveOf(sessions, {pid}) = {}
                           /\ s = Placeholder(pid, now)
  <2>1. \A s \in FinalizedByPID(sessions, due, exited) :
          /\ s.key \in LiveOf(sessions, due)
          /\ s.rec = Touched(sessions[s.key], exited[PidOf(s.key)])
    <3> SUFFICES ASSUME NEW k \in LiveOf(sessions, due),
                        NEW s, s = [key |-> k, rec |-> Touched(sessions[k], exited[PidOf(k)])]
                 PROVE  /\ s.key \in LiveOf(sessions, due)
                        /\ s.rec = Touched(sessions[s.key], exited[PidOf(s.key)])
      BY DEF FinalizedByPID
    <3>1. s.key = k /\ s.rec = Touched(sessions[k], exited[PidOf(k)])  OBVIOUS
    <3>2. QED  BY <3>1
  <2>2. QED  BY <2>1 DEF FlushStep, FlushExited, Unsupported
<1>6. \A k \in LiveOf(sessions, due) :
        SoundRecord(Touched(sessions[k], exited[PidOf(k)]))
  <2> SUFFICES ASSUME NEW k \in LiveOf(sessions, due)
               PROVE SoundRecord(Touched(sessions[k], exited[PidOf(k)]))
    OBVIOUS
  <2>1. k \in Live(sessions) /\ PidOf(k) \in Pids /\ sessions[k] \in Records
    BY DEF LiveOf, Live, TypeOK, Keys, PidOf
  <2>2. exited[PidOf(k)] \in Nat  BY <2>1, ExitTimeType
  <2>3. QED
    BY <1>4, <2>1, <2>2, TouchedSound DEF SoundStore
<1>7. KeyStatusHonest' /\ ModeFits' /\ DrainedIsFlushed'
  <2>1. \A k \in Live(sessions') : SoundRecord(sessions'[k])
    BY <1>3, <1>4 DEF SoundStore
  <2>2. \A s \in written' : SoundRecord(s.rec)
    BY <1>1, <1>4, <1>5, <1>6, PlaceholderType
  <2>3. DrainedIsFlushed'
    BY DEF DrainedIsFlushed, Exited, FlushStep, FlushExited
  <2>4. QED  BY <2>1, <2>2, <2>3 DEF KeyStatusHonest, ModeFits, SoundRecord
<1>8. NothingOrphaned'
  <2>1. \A pid \in Pids \ due : Tracked(pid)' = Tracked(pid)
    BY DEF FlushStep, FlushExited, Tracked
  <2>2. \A k \in Keys : PidOf(k) \in Pids  BY DEF Keys, PidOf
  <2>3. \A k \in Live(sessions') : Tracked(PidOf(k))'
    BY <1>3, <2>1, <2>2 DEF NothingOrphaned, Live
  <2>4. \A k \in (fdBySession \cup inspected)' : Tracked(PidOf(k))'
    BY <2>1, <2>2 DEF NothingOrphaned, FlushStep, FlushExited, WithoutDue, TypeOK
  <2>5. \A k \in Keys : attempts'[k] > 0 => Tracked(PidOf(k))'
    BY <2>1, <2>2 DEF NothingOrphaned, FlushStep, FlushExited
  <2>6. \A pid \in Pids : seenTLS'[pid] => Tracked(pid)'
    BY <2>1 DEF NothingOrphaned, FlushStep, FlushExited
  <2>7. QED  BY <2>3, <2>4, <2>5, <2>6 DEF NothingOrphaned
<1>9. InspectionOfLive'
  BY <1>3 DEF InspectionOfLive, FlushStep, FlushExited, WithoutDue
<1>10. PlaceholderAlone'
  <2>1. \A pid \in Pids : <<pid, NullPtr>> \notin Live(sessions')
    BY <1>3 DEF PlaceholderAlone
  <2>2. ASSUME NEW s \in written', NEW t \in written',
               PidOf(s.key) = PidOf(t.key), PtrOf(s.key) = NullPtr
        PROVE  t = s
    <3>1. \A k \in LiveOf(sessions, due) : PtrOf(k) # NullPtr
      BY DEF LiveOf, Live, Keys, PtrOf, PlaceholderAlone
    <3>2. PICK pid \in due : /\ Tracked(pid) /\ LiveOf(sessions, {pid}) = {}
                             /\ s = Placeholder(pid, now)
      BY <1>5, <2>2, <3>1
    <3>3. PidOf(s.key) = pid
      BY <1>1, <3>2, PlaceholderType DEF PidOf
    <3>4. \A k \in LiveOf(sessions, due) : PidOf(k) # pid
      BY <3>2 DEF LiveOf
    <3>5. PICK pid2 \in due : Tracked(pid2) /\ t = Placeholder(pid2, now)
      BY <1>5, <2>2, <3>3, <3>4
    <3>6. PidOf(t.key) = pid2
      BY <1>1, <3>5, PlaceholderType DEF PidOf
    <3>7. QED  BY <2>2, <3>2, <3>3, <3>5, <3>6
  <2>3. QED  BY <2>1, <2>2 DEF PlaceholderAlone
<1>11. QED  BY <1>2, <1>7, <1>8, <1>9, <1>10

\* The end on a cancelled context preserves the invariant.
LEMMA CancelIInv ==
  ASSUME IInv, NEW now \in WallTimes, Cancel(now)
  PROVE  IInv'
<1> USE DEF IInv
<1>1. \A s \in written' : \E pid \in Pids : Tracked(pid) /\ s = Placeholder(pid, now)
  BY DEF Cancel
<1>2. SoundStore(sessions)
  BY DEF KeyStatusHonest, ModeFits, SoundStore, SoundRecord
<1>3. /\ UNCHANGED <<tracked, seenTLS, exited, fdBySession, inspected, attempts, sessions>>
      /\ phase' = "cancelled" /\ flushedAt' = 0
  BY DEF Cancel, procVars, inspectVars
<1>4. TypeOK'  BY <1>1, <1>3, PlaceholderType DEF TypeOK
<1>5. KeyStatusHonest' /\ ModeFits' /\ DrainedIsFlushed'
  BY <1>1, <1>2, <1>3, PlaceholderType
  DEF KeyStatusHonest, ModeFits, DrainedIsFlushed, SoundStore, SoundRecord
<1>6. NothingOrphaned' /\ InspectionOfLive'
  BY <1>3 DEF NothingOrphaned, InspectionOfLive, Tracked
<1>7. PlaceholderAlone'
  BY <1>1, <1>3, PlaceholderType DEF PlaceholderAlone, PidOf
<1>8. QED  BY <1>4, <1>5, <1>6, <1>7

\* A matched exec preserves the invariant.
LEMMA ExecIInv ==
  ASSUME IInv, NEW pid \in Pids, NEW exe \in Exes, NEW gated \in BOOLEAN,
         HandleExec(pid, exe, gated)
  PROVE  IInv'
<1> USE DEF IInv
<1>1. /\ tracked' = [tracked EXCEPT ![pid] = exe]
      /\ seenTLS' = [seenTLS EXCEPT ![pid] = gated]
      /\ exited' = [exited EXCEPT ![pid] = Alive]
      /\ written' = {} /\ flushedAt' = 0 /\ phase = "running"
      /\ UNCHANGED <<phase, fdBySession, inspected, attempts, sessions>>
  BY DEF HandleExec, NothingFlushed, Running, inspectVars
<1>2. TypeOK'  BY <1>1 DEF TypeOK
<1>3. \A p \in Pids : Tracked(p) \/ p = pid => Tracked(p)'
  BY <1>1, NoMatchAssumption DEF TypeOK, Tracked
<1>4. NothingOrphaned'
  <2>1. \A k \in Keys : PidOf(k) \in Pids  BY DEF Keys, PidOf
  <2>2. Live(sessions) \subseteq Keys /\ fdBySession \cup inspected \subseteq Keys
    BY DEF Live, TypeOK
  <2>3. \A p \in Pids : seenTLS'[p] => Tracked(p)'
    BY <1>1, <1>3 DEF NothingOrphaned, TypeOK
  <2>4. QED  BY <1>1, <1>3, <2>1, <2>2, <2>3 DEF NothingOrphaned
<1>5. /\ KeyStatusHonest' /\ ModeFits' /\ DrainedIsFlushed'
      /\ InspectionOfLive' /\ PlaceholderAlone'
  BY <1>1
  DEF KeyStatusHonest, ModeFits, DrainedIsFlushed, InspectionOfLive, PlaceholderAlone
<1>6. QED  BY <1>2, <1>4, <1>5

\* Every step preserves the invariant.
LEMMA StepIInv == IInv /\ [Next]_vars => IInv'
<1> SUFFICES ASSUME IInv, [Next]_vars PROVE IInv'  OBVIOUS
<1> USE DEF IInv
<1>1. CASE \E key \in Keys : TouchStep(key)  BY <1>1, TouchIInv
<1>2. CASE \E pid \in Pids, exe \in Exes, gated \in BOOLEAN : HandleExec(pid, exe, gated)
  BY <1>2, ExecIInv
<1>3. CASE \E pid \in Pids, at \in EventTimes : HandleExit(pid, at)
  <2>1. PICK pid \in Pids, at \in EventTimes : HandleExit(pid, at)  BY <1>3
  <2>2. /\ exited' = [exited EXCEPT ![pid] = at]
        /\ written' = {} /\ flushedAt' = 0 /\ phase = "running"
        /\ UNCHANGED <<phase, tracked, seenTLS, fdBySession, inspected, attempts, sessions>>
    BY <2>1 DEF HandleExit, NothingFlushed, Running, inspectVars
  <2>3. TypeOK'  BY <2>2 DEF TypeOK
  <2>4. QED
    BY <2>2, <2>3
    DEF KeyStatusHonest, ModeFits, DrainedIsFlushed, Exited, NothingOrphaned, Tracked,
        InspectionOfLive, PlaceholderAlone
<1>4. CASE \E due \in SUBSET Exited, now \in WallTimes : FlushStep(due, now)
  BY <1>4, FlushIInv
<1>5. CASE \E now \in WallTimes : Cancel(now)  BY <1>5, CancelIInv
<1>6. CASE /\ written' \in {{}, written} /\ flushedAt' \in {0, flushedAt}
           /\ phase' \in {phase, "failed"}
           /\ UNCHANGED <<procVars, fdBySession, inspectVars, sessions>>
  <2>1. UNCHANGED <<tracked, seenTLS, exited, fdBySession, inspected, attempts, sessions>>
    BY <1>6 DEF procVars, inspectVars
  <2>2. TypeOK'  BY <1>6, <2>1 DEF TypeOK
  <2>3. QED
    BY <1>6, <2>1, <2>2
    DEF KeyStatusHonest, ModeFits, DrainedIsFlushed, Exited, NothingOrphaned, Tracked,
        InspectionOfLive, PlaceholderAlone
<1>7. QED
  BY <1>1, <1>2, <1>3, <1>4, <1>5, <1>6, StepCases DEF NothingFlushed, vars

\* So it always holds.
LEMMA Inductive == Spec => []IInv
<1>1. QED  BY InitIInv, StepIInv, PTL DEF Spec

\* Type correctness of the run loop's state.
THEOREM TypeCorrect == Spec => []TypeOK
<1>1. IInv => TypeOK  BY DEF IInv
<1>2. QED  BY <1>1, Inductive, PTL

\* A session or a summary says "available" exactly if it has key-log lines.
THEOREM KeyStatusCorrect == Spec => []KeyStatusHonest
<1>1. IInv => KeyStatusHonest  BY DEF IInv
<1>2. QED  BY <1>1, Inductive, PTL

\* No map of the run loop keeps anything for a pid that is not tracked.
THEOREM NoOrphans == Spec => []NothingOrphaned
<1>1. IInv => NothingOrphaned  BY DEF IInv
<1>2. QED  BY <1>1, Inductive, PTL

\* The bookkeeping of inspections never outlives the session it is about.
THEOREM InspectionFresh == Spec => []InspectionOfLive
<1>1. IInv => InspectionOfLive  BY DEF IInv
<1>2. QED  BY <1>1, Inductive, PTL

\* A placeholder summary is the only one written for its process.
THEOREM PlaceholderCorrect == Spec => []PlaceholderAlone
<1>1. IInv => PlaceholderAlone  BY DEF IInv
<1>2. QED  BY <1>1, Inductive, PTL

\* A stream that has grown by a byte or not at all has the old one as a prefix.
LEMMA GrownIsPrefix ==
  ASSUME NEW old \in Seq(Bytes), NEW new, GrownBy(new, old)
  PROVE  IsPrefixOf(old, new)
<1>1. CASE new = old  BY <1>1 DEF IsPrefixOf
<1>2. CASE \E byte \in Bytes : new = old \o <<byte>>
  <2>1. PICK byte \in Bytes : new = old \o <<byte>>  BY <1>2
  <2>2. <<byte>> \in Seq(Bytes)  OBVIOUS
  <2>3. /\ new \in Seq(Bytes)
        /\ Len(new) = Len(old) + 1
        /\ \A i \in 1..Len(old) : new[i] = old[i]
    BY <2>1, <2>2
  <2>4. /\ SubSeq(new, 1, Len(old)) \in Seq(Bytes)
        /\ Len(SubSeq(new, 1, Len(old))) = Len(old)
        /\ \A i \in 1..Len(old) : SubSeq(new, 1, Len(old))[i] = new[i]
    BY <2>3
  <2>5. SubSeq(new, 1, Len(old)) = old  BY <2>3, <2>4, SeqEqual
  <2>6. QED  BY <2>3, <2>5 DEF IsPrefixOf
<1>3. QED  BY <1>1, <1>2 DEF GrownBy

\* What one step does to a live session: it stays and grows, or its process is
\* flushed and the step writes it.
LEMMA SessionStep ==
  ASSUME IInv, [Next]_vars, NEW key \in Live(sessions)
  PROVE  \/ /\ key \in Live(sessions')
            /\ Extends(sessions'[key], sessions[key])
         \/ /\ exited[PidOf(key)] # Alive
            /\ phase' = "drained" \/ exited[PidOf(key)] + Grace <= flushedAt'
            /\ \E s \in written' : /\ s.key = key
                                   /\ s.rec.c2s = sessions[key].c2s
                                   /\ s.rec.s2c = sessions[key].s2c
                                   /\ s.rec.lines = sessions[key].lines
<1> USE DEF IInv
<1>1. /\ key \in Keys /\ PidOf(key) \in Pids
      /\ sessions[key] \in Records
      /\ sessions[key].c2s \in Seq(Bytes)
      /\ sessions[key].s2c \in Seq(Bytes)
  <2>1. key \in Keys /\ sessions[key] \in Records  BY DEF Live, TypeOK
  <2>2. QED  BY <2>1 DEF Keys, PidOf, Records
<1>2. Extends(sessions[key], sessions[key])
  BY <1>1, GrownIsPrefix DEF Extends, GrownBy
<1>3. CASE \E k \in Keys : TouchStep(k)
  BY <1>1, <1>3, GrownIsPrefix DEF TouchStep, Extends
<1>4. CASE UNCHANGED sessions  BY <1>2, <1>4
<1>5. CASE \E due \in SUBSET Exited, now \in WallTimes : FlushStep(due, now)
  <2>1. PICK due \in SUBSET Exited, now \in WallTimes : FlushStep(due, now)  BY <1>5
  <2>2. CASE PidOf(key) \notin due
    <3>1. sessions'[key] = sessions[key]
      BY <1>1, <2>1, <2>2 DEF FlushStep, FlushExited, WithoutPIDs
    <3>2. key \in Live(sessions')  BY <3>1 DEF Live
    <3>3. QED  BY <1>2, <3>1, <3>2
  <2>3. CASE PidOf(key) \in due
    <3> DEFINE s == [key |-> key, rec |-> Touched(sessions[key], exited[PidOf(key)])]
    <3>1. s \in written'
      BY <2>1, <2>3 DEF FlushStep, FlushExited, FinalizedByPID, LiveOf
    <3>2. SameCapture(s.rec, sessions[key])
      BY <1>1, ExitTimeType, TouchedType
    <3>3. s.key = key  OBVIOUS
    <3> HIDE DEF s
    <3>4. exited[PidOf(key)] # Alive  BY <2>3 DEF Exited
    <3>5. phase' = "drained" \/ exited[PidOf(key)] + Grace <= flushedAt'
      BY <2>1, <2>3 DEF FlushStep, FlushExited, Due
    <3>6. QED  BY <3>1, <3>2, <3>3, <3>4, <3>5 DEF SameCapture
  <2>4. QED  BY <2>2, <2>3
<1>6. QED
  BY <1>3, <1>4, <1>5, StepCases DEF HandleExec, HandleExit, Cancel, vars

\* Captured bytes and key-log lines only grow, and leave the store into a summary.
THEOREM CaptureKept == Spec => CaptureIsKept
<1>1. IInv /\ [Next]_vars =>
        [\A key \in Live(sessions) :
           \/ key \in Live(sessions') /\ Extends(sessions'[key], sessions[key])
           \/ \E s \in written' :
                /\ s.key = key
                /\ s.rec.c2s = sessions[key].c2s
                /\ s.rec.s2c = sessions[key].s2c
                /\ s.rec.lines = sessions[key].lines]_vars
  BY SessionStep
<1>2. QED  BY <1>1, Inductive, PTL DEF Spec, CaptureIsKept

\* A session is closed only after its process's exit, and by a tick only when the
\* grace has passed by that tick's own clock.
THEOREM ClosedCorrect == Spec => OnlyExitedAreClosed
<1>1. IInv /\ [Next]_vars =>
        [\A key \in Live(sessions) \ Live(sessions') :
           LET pid == PidOf(key)
           IN /\ exited[pid] # Alive
              /\ phase' = "drained" \/ exited[pid] + Grace <= flushedAt']_vars
  BY SessionStep
<1>2. QED  BY <1>1, Inductive, PTL DEF Spec, OnlyExitedAreClosed

\* An exit event is forgotten only when it has been answered: a matched exec has
\* taken the pid back and its sessions live on, or a flush has written a summary
\* of each of them, has cleared the table of the pid and, for a tracked process
\* whose TLS was never seen, has written something of it nevertheless (flushExited
\* and emitUnsupportedRuntime, the exec case of handleProcessEvent).
ExitIsAnswered ==
  [][\A pid \in Pids : exited[pid] # Alive /\ exited'[pid] = Alive =>
       \/ Tracked(pid)' /\ sessions' = sessions
       \/ /\ LiveOf(sessions', {pid}) = {} /\ ~Tracked(pid)'
          /\ \A key \in LiveOf(sessions, {pid}) : \E s \in written' : s.key = key
          /\ Tracked(pid) /\ ~seenTLS[pid] => \E s \in written' : PidOf(s.key) = pid]_vars

\* What a flush does about a pid that is due.
LEMMA FlushAnswers ==
  ASSUME TypeOK, NEW due \in SUBSET Exited, NEW now \in WallTimes, FlushStep(due, now),
         NEW pid \in due
  PROVE  /\ LiveOf(sessions', {pid}) = {} /\ ~Tracked(pid)'
         /\ \A key \in LiveOf(sessions, {pid}) : \E s \in written' : s.key = key
         /\ Tracked(pid) /\ ~seenTLS[pid] => \E s \in written' : PidOf(s.key) = pid
<1>1. pid \in Pids  BY DEF Exited
<1>2. /\ written' = FinalizedByPID(sessions, due, exited)
                \cup {Placeholder(p, now) : p \in Unsupported(due)}
      /\ sessions' = WithoutPIDs(sessions, due)
      /\ tracked' = [p \in Pids |-> IF p \in due THEN NoMatch ELSE tracked[p]]
  BY DEF FlushStep, FlushExited
<1>3. LiveOf(sessions', {pid}) = {}
  BY <1>2 DEF LiveOf, Live, WithoutPIDs
<1>4. ~Tracked(pid)'
  BY <1>1, <1>2 DEF Tracked
<1>5. ASSUME NEW key \in LiveOf(sessions, {pid})
      PROVE  \E s \in written' : s.key = key /\ PidOf(s.key) = pid
  <2> DEFINE s == [key |-> key, rec |-> Touched(sessions[key], exited[PidOf(key)])]
  <2>1. key \in LiveOf(sessions, due) /\ PidOf(key) = pid
    BY <1>5 DEF LiveOf
  <2>2. s \in FinalizedByPID(sessions, due, exited)
    BY <2>1 DEF FinalizedByPID
  <2>3. s.key = key  OBVIOUS
  <2> HIDE DEF s
  <2>4. QED  BY <1>2, <2>1, <2>2, <2>3
<1>6. ASSUME Tracked(pid), ~seenTLS[pid] PROVE \E s \in written' : PidOf(s.key) = pid
  <2>1. CASE LiveOf(sessions, {pid}) # {}
    BY <1>5, <2>1
  <2>2. CASE LiveOf(sessions, {pid}) = {}
    <3>1. pid \in Unsupported(due)
      BY <1>6, <2>2 DEF Unsupported
    <3>2. Placeholder(pid, now) \in written'
      BY <1>2, <3>1
    <3>3. Placeholder(pid, now).key = <<pid, NullPtr>>
      BY <1>1, <1>6, PlaceholderType
    <3>4. PidOf(Placeholder(pid, now).key) = pid
      BY <3>3 DEF PidOf
    <3>5. QED  BY <3>2, <3>4
  <2>3. QED  BY <2>1, <2>2
<1>7. QED  BY <1>3, <1>4, <1>5, <1>6

\* No exit event is lost between the exit and its flush: the safety half of
\* ExitsAreFlushed, and what the flush owes the process.
THEOREM ExitsAnswered == Spec => ExitIsAnswered
<1> DEFINE Answered(pid) ==
             \/ Tracked(pid)' /\ sessions' = sessions
             \/ /\ LiveOf(sessions', {pid}) = {} /\ ~Tracked(pid)'
                /\ \A key \in LiveOf(sessions, {pid}) : \E s \in written' : s.key = key
                /\ Tracked(pid) /\ ~seenTLS[pid] => \E s \in written' : PidOf(s.key) = pid
<1>1. ASSUME TypeOK, [Next]_vars, NEW pid \in Pids, exited[pid] # Alive, exited'[pid] = Alive
      PROVE  Answered(pid)
  <2>1. CASE exited' = exited
    BY <1>1, <2>1
  <2>2. CASE \E p \in Pids, exe \in Exes, gated \in BOOLEAN : HandleExec(p, exe, gated)
    <3>1. PICK p \in Pids, exe \in Exes : /\ exited' = [exited EXCEPT ![p] = Alive]
                                           /\ tracked' = [tracked EXCEPT ![p] = exe]
                                           /\ sessions' = sessions
      BY <2>2 DEF HandleExec
    <3>2. p = pid
      BY <1>1, <3>1 DEF TypeOK
    <3>3. DOMAIN tracked = Pids
      BY <1>1 DEF TypeOK
    <3>4. tracked'[pid] = exe
      BY <3>1, <3>2, <3>3
    <3>5. Tracked(pid)'
      BY <3>4, NoMatchAssumption DEF Tracked
    <3>6. QED  BY <3>1, <3>5
  <2>3. CASE \E p \in Pids, at \in EventTimes : HandleExit(p, at)
    <3>1. PICK p \in Pids, at \in EventTimes : exited' = [exited EXCEPT ![p] = at]
      BY <2>3 DEF HandleExit
    <3>2. QED  BY <1>1, <3>1, TimesAssumption DEF TypeOK
  <2>4. CASE \E due \in SUBSET Exited, now \in WallTimes : FlushStep(due, now)
    <3>1. PICK due \in SUBSET Exited, now \in WallTimes : FlushStep(due, now)
      BY <2>4
    <3>2. exited' = [p \in Pids |-> IF p \in due THEN Alive ELSE exited[p]]
      BY <3>1 DEF FlushStep, FlushExited
    <3>3. pid \in due
      BY <1>1, <3>2
    <3> HIDE DEF FlushStep
    <3>4. QED  BY <1>1, <3>1, <3>3, FlushAnswers
  <2>5. QED
    BY <1>1, <2>1, <2>2, <2>3, <2>4, StepCases
    DEF TouchStep, NothingFlushed, Cancel, procVars, vars
<1>2. TypeOK /\ [Next]_vars
        => [\A pid \in Pids : exited[pid] # Alive /\ exited'[pid] = Alive => Answered(pid)]_vars
  BY <1>1
<1>3. QED  BY <1>2, TypeCorrect, PTL DEF Spec, ExitIsAnswered

-------------------------------------------------------------------------------
(* The refinement *)

\* What SessionCapture's variables stand for.
Open   == [key \in Live(sessions) |-> Content(sessions[key])]
Closed == {<<s.key, Content(s.rec)>> : s \in {t \in written : PtrOf(t.key) # NullPtr}}
Ended  == phase # "running"

\* A run that is over takes no step.
LEMMA OverIsOver == [Next]_vars => phase = "running" \/ UNCHANGED vars
<1> SUFFICES ASSUME [Next]_vars PROVE phase = "running" \/ UNCHANGED vars  OBVIOUS
<1>1. ProcessEvent => phase = "running"
  BY DEF ProcessEvent, HandleExec, HandleExit, Running
<1>2. ASSUME TLSEvent PROVE phase = "running"
  <2>1. \E pid, key, isSetFD : SeeTLS(pid, key, isSetFD)
    <3>1. PICK pid \in Pids, ptr \in Ptrs, at \in EventTimes :
            \/ \E e \in OpenSSLPayloads, i \in Inspections :
                 HandleOpenSSLEvent(pid, ptr, e, i, at)
            \/ \E e \in GnuTLSPayloads : HandleGnuTLSEvent(pid, ptr, e, at)
            \/ \E probe \in GoProbes, g \in GoInspections :
                 HandleGoTLSEvent(pid, ptr, probe, g, at)
      BY <1>2 DEF TLSEvent
    <3> HIDE DEF SeeTLS
    <3>2. \A e, i : HandleOpenSSLEvent(pid, ptr, e, i, at) =>
                      SeeTLS(pid, <<pid, ptr>>, e.type = "set_fd")
      BY DEF HandleOpenSSLEvent
    <3>3. \A e : HandleGnuTLSEvent(pid, ptr, e, at) =>
                   SeeTLS(pid, <<pid, ptr>>, e.type = "set_fd")
      BY DEF HandleGnuTLSEvent
    <3>4. \A probe, g : HandleGoTLSEvent(pid, ptr, probe, g, at) =>
                          SeeTLS(pid, <<pid, ptr>>, FALSE)
      BY DEF HandleGoTLSEvent
    <3>5. QED  BY <3>1, <3>2, <3>3, <3>4
  <2>2. QED  BY <2>1 DEF SeeTLS, Running
<1>3. AppDataEvent => phase = "running"
  BY DEF AppDataEvent, HandleOpenSSLAppData, HandlePlainAppData, SeeAppData, Running
<1>4. IgnoreEvent \/ (\E now \in WallTimes : Tick(now)) => phase = "running"
  BY DEF IgnoreEvent, Tick, Running
<1>5. Stop => phase = "running"  BY DEF Stop, Drain, Cancel, ReadError
<1>6. Finished => UNCHANGED vars  BY DEF Finished
<1>7. QED  BY <1>1, <1>2, <1>3, <1>4, <1>5, <1>6 DEF Next

\* The two ways of saying that a sequence starts with another are the same.
LEMMA SamePrefix ==
  ASSUME NEW new, NEW old, Extends(new, old)
  PROVE  Recording!Grows(Content(old), Content(new))
  BY DEF Extends, IsPrefixOf, Recording!Grows, Recording!StartsWith, Content

\* A handler of a TLS or plaintext event observes one session.
LEMMA TouchObserves ==
  ASSUME IInv, phase = "running", NEW key \in Keys, TouchStep(key)
  PROVE  /\ ~Ended /\ Ended' = Ended
         /\ Closed' = {}
         /\ DOMAIN Open' = DOMAIN Open \cup {key}
         /\ \A k \in DOMAIN Open \ {key} : Open'[k] = Open[k]
         /\ key \in DOMAIN Open => Recording!Grows(Open[key], Open'[key])
<1>1. /\ Live(sessions') = Live(sessions) \cup {key}
      /\ written' = {} /\ phase' = phase
      /\ Others(sessions', sessions, key)
  BY DEF TouchStep, NothingFlushed
<1>2. ~Ended /\ Ended' = Ended /\ Closed' = {}
  BY <1>1 DEF Ended, Closed
<1>3. /\ DOMAIN Open = Live(sessions)
      /\ DOMAIN Open' = Live(sessions')
      /\ \A k \in Live(sessions) : Open[k] = Content(sessions[k])
      /\ \A k \in Live(sessions') : Open'[k] = Content(sessions'[k])
  BY DEF Open, Content
<1>4. \A k \in Live(sessions) \ {key} : Open'[k] = Open[k]
  BY <1>1, <1>3 DEF Others, Live
<1>5. ASSUME key \in Live(sessions)
      PROVE  Recording!Grows(Open[key], Open'[key])
  <2>1. sessions[key].c2s \in Seq(Bytes) /\ sessions[key].s2c \in Seq(Bytes)
    BY <1>5 DEF IInv, TypeOK, Live, Records
  <2>2. Extends(sessions'[key], sessions[key])
    BY <1>5, <2>1, GrownIsPrefix DEF TouchStep, Extends
  <2>3. QED  BY <1>1, <1>3, <1>5, <2>2, SamePrefix
<1>6. QED  BY <1>1, <1>2, <1>3, <1>4, <1>5

\* What flushExited takes out of the store is what it writes of it.
LEMMA FlushCloses ==
  ASSUME IInv, NEW due \in SUBSET Exited, NEW now \in WallTimes, FlushStep(due, now)
  PROVE  /\ Ended' \in BOOLEAN
         /\ Closed' = {<<k, Open[k]>> : k \in LiveOf(sessions, due)}
         /\ Open' = [k \in DOMAIN Open \ LiveOf(sessions, due) |-> Open[k]]
<1> DEFINE Snapshot(k) == [key |-> k, rec |-> Touched(sessions[k], exited[PidOf(k)])]
<1>1. \A k \in LiveOf(sessions, due) :
        /\ PtrOf(k) # NullPtr
        /\ Content(Touched(sessions[k], exited[PidOf(k)])) = Content(sessions[k])
        /\ k \in DOMAIN Open /\ Open[k] = Content(sessions[k])
  <2> SUFFICES ASSUME NEW k \in LiveOf(sessions, due)
               PROVE  /\ PtrOf(k) # NullPtr
                      /\ Content(Touched(sessions[k], exited[PidOf(k)])) = Content(sessions[k])
                      /\ k \in DOMAIN Open /\ Open[k] = Content(sessions[k])
    OBVIOUS
  <2>1. /\ k \in Live(sessions) /\ k \in Keys
        /\ PidOf(k) \in Pids /\ sessions[k] \in Records
    BY DEF LiveOf, Live, IInv, TypeOK, Keys, PidOf
  <2>2. exited[PidOf(k)] \in Nat  BY <2>1, ExitTimeType DEF IInv
  <2>3. PtrOf(k) # NullPtr
    BY <2>1 DEF IInv, PlaceholderAlone, Keys, PtrOf
  <2>4. QED  BY <2>1, <2>2, <2>3, TouchedType DEF SameCapture, Content, Open
<1>2. /\ written' = {Snapshot(k) : k \in LiveOf(sessions, due)}
               \cup {Placeholder(pid, now) : pid \in Unsupported(due)}
      /\ sessions' = WithoutPIDs(sessions, due)
  BY DEF FlushStep, FlushExited, FinalizedByPID
<1>3. \A pid \in Unsupported(due) : PtrOf(Placeholder(pid, now).key) = NullPtr
  BY DEF Placeholder, PtrOf
<1>4. {t \in written' : PtrOf(t.key) # NullPtr} = {Snapshot(k) : k \in LiveOf(sessions, due)}
  <2> DEFINE flushed == {Snapshot(k) : k \in LiveOf(sessions, due)}
             others  == {Placeholder(pid, now) : pid \in Unsupported(due)}
  <2>1. \A t \in flushed : PtrOf(t.key) # NullPtr  BY <1>1
  <2>2. \A t \in others : PtrOf(t.key) = NullPtr  BY <1>3
  <2>3. written' = flushed \cup others  BY <1>2
  <2> HIDE DEF flushed, others
  <2>4. {t \in written' : PtrOf(t.key) # NullPtr} = flushed  BY <2>1, <2>2, <2>3
  <2>5. QED  BY <2>4 DEF flushed
<1>5. Closed' = {<<k, Open[k]>> : k \in LiveOf(sessions, due)}
  <2>1. Closed' = {<<s.key, Content(s.rec)>> : s \in {Snapshot(k) : k \in LiveOf(sessions, due)}}
    BY <1>4 DEF Closed
  <2>2. \A k \in LiveOf(sessions, due) :
          Snapshot(k).key = k /\ Content(Snapshot(k).rec) = Open[k]
    BY <1>1
  <2> HIDE DEF Snapshot
  <2>3. {<<s.key, Content(s.rec)>> : s \in {Snapshot(k) : k \in LiveOf(sessions, due)}}
          = {<<k, Open[k]>> : k \in LiveOf(sessions, due)}
    BY <2>2
  <2>4. QED  BY <2>1, <2>3
<1>6. Live(sessions') = Live(sessions) \ LiveOf(sessions, due)
      /\ \A k \in Live(sessions') : sessions'[k] = sessions[k]
  BY <1>2 DEF WithoutPIDs, Live, LiveOf
<1>7. Open' = [k \in DOMAIN Open \ LiveOf(sessions, due) |-> Open[k]]
  BY <1>6 DEF Open
<1>8. QED  BY <1>5, <1>7 DEF Ended

\* A step that writes no session and leaves the store alone closes nothing.
LEMMA NothingClosed ==
  ASSUME sessions' = sessions, \A s \in written' : PtrOf(s.key) = NullPtr
  PROVE  /\ Closed' = {}
         /\ Open' = Open
  BY DEF Open, Closed

\* Every step of the daemon is one of the recording or changes nothing of it.
LEMMA StepRefines ==
  ASSUME IInv, [Next]_vars
  PROVE  [Recording!Next]_<<Open, Closed, Ended>>
<1>1. CASE UNCHANGED vars
  BY <1>1 DEF vars, Open, Closed, Ended
<1>2. CASE phase = "running"
  <2>1. CASE \E key \in Keys : TouchStep(key)
    <3>1. PICK key \in Keys : TouchStep(key)  BY <2>1
    <3>2. QED
      BY <1>2, <3>1, TouchObserves
      DEF Recording!Next, Recording!Observe, Open, Closed, Ended
  <2>2. CASE \E due \in SUBSET Exited, now \in WallTimes : FlushStep(due, now)
    <3>1. PICK due \in SUBSET Exited, now \in WallTimes : FlushStep(due, now)  BY <2>2
    <3> DEFINE flushed == LiveOf(sessions, due)
    <3>2. flushed \in SUBSET DOMAIN Open  BY DEF LiveOf, Open
    <3>3. /\ Ended' \in BOOLEAN
          /\ Closed' = {<<k, Open[k]>> : k \in flushed}
          /\ Open' = [k \in DOMAIN Open \ flushed |-> Open[k]]
      BY <3>1, FlushCloses
    <3> HIDE DEF flushed
    <3>4. Recording!Close(flushed)
      BY <1>2, <3>3 DEF Recording!Close, Open, Closed, Ended
    <3>5. QED
      BY <3>2, <3>4 DEF Recording!Next, Recording!Close, Open, Closed, Ended
  <2>3. ASSUME sessions' = sessions, \A s \in written' : PtrOf(s.key) = NullPtr
        PROVE  Recording!Next
    <3>1. Closed' = {} /\ Open' = Open /\ Ended' \in BOOLEAN
      BY <2>3, NothingClosed DEF Ended
    <3>2. Open = [k \in DOMAIN Open |-> Open[k]]  BY DEF Open
    <3>3. Recording!Close({})
      BY <1>2, <3>1, <3>2 DEF Recording!Close, Open, Closed, Ended
    <3>4. {} \in SUBSET DOMAIN Open  OBVIOUS
    <3>5. QED  BY <3>3, <3>4 DEF Recording!Next, Open
  <2>4. CASE \E pid \in Pids, exe \in Exes, gated \in BOOLEAN : HandleExec(pid, exe, gated)
    BY <2>3, <2>4 DEF HandleExec, NothingFlushed
  <2>5. CASE \E pid \in Pids, at \in EventTimes : HandleExit(pid, at)
    BY <2>3, <2>5 DEF HandleExit, NothingFlushed
  <2>6. CASE \E now \in WallTimes : Cancel(now)
    <3>1. \A pid, now : PtrOf(Placeholder(pid, now).key) = NullPtr
      BY DEF Placeholder, PtrOf
    <3>2. QED  BY <2>3, <2>6, <3>1 DEF Cancel
  <2>7. CASE /\ NothingFlushed
             /\ phase' \in {phase, "failed"}
             /\ UNCHANGED <<procVars, fdBySession, inspectVars, sessions>>
    BY <2>3, <2>7 DEF NothingFlushed
  <2>8. QED
    BY <1>1, <2>1, <2>2, <2>4, <2>5, <2>6, <2>7, StepCases DEF IInv
<1>3. QED  BY <1>1, <1>2, OverIsOver

\* The daemon implements the recording of sessions.
THEOREM Refines == Spec => Implements
<1>1. Init => Recording!Init
  <2> SUFFICES ASSUME Init PROVE Recording!Init  OBVIOUS
  <2>1. Live(sessions) = {} /\ written = {} /\ phase = "running"
    BY DEF Init, EmptyStore, Live
  <2>2. QED  BY <2>1 DEF Recording!Init
<1>2. IInv /\ [Next]_vars => [Recording!Next]_<<Open, Closed, Ended>>
  BY StepRefines
<1>3. QED
  BY <1>1, <1>2, Inductive, PTL DEF Spec, Implements, Recording!Spec, Open, Closed, Ended
===============================================================================
