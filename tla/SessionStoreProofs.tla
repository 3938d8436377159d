-------------------------- MODULE SessionStoreProofs --------------------------
(***************************************************************************)
(* What the operators of SessionStore return and preserve, for every value *)
(* of the constants.                                                       *)
(***************************************************************************)
EXTENDS SessionStore, TLAPS

\* An update that carries key-log lines says so, and no other one claims them.
HonestUpdate(u) == (u.status = "available") <=> (u.lines # {})

SameCapture(new, old) ==
  new.lines = old.lines /\ new.c2s = old.c2s /\ new.s2c = old.s2c

\* ensureRecord's fresh record is a record, and it claims no keys.
LEMMA NewRecordType == NewRecord \in Records /\ HonestRecord(NewRecord)
  BY DEF NewRecord, Records, Roles, CaptureModes, KeyStatuses, HonestRecord

\* touch changes the timestamps only.
LEMMA TouchedType ==
  ASSUME NEW r \in Records, NEW at \in Nat
  PROVE  /\ Touched(r, at) \in Records
         /\ SameCapture(Touched(r, at), r)
         /\ Touched(r, at).status = r.status
         /\ Touched(r, at).exe = r.exe
         /\ Touched(r, at).capture = r.capture
  BY DEF Touched, Records, SameCapture

\* mergeMetadata, field by field: it keeps the record's type, its streams and
\* its lines, and takes the executable and the mode that are given.
LEMMA MergedType ==
  ASSUME NEW r \in Records, NEW u \in Updates
  PROVE  /\ Merged(r, u) \in Records
         /\ Merged(r, u).c2s = r.c2s
         /\ Merged(r, u).s2c = r.s2c
         /\ Merged(r, u).lines = r.lines \cup u.lines
         /\ Merged(r, u).exe = Given(u.exe, r.exe)
         /\ Merged(r, u).capture = Given(u.capture, r.capture)
         /\ Merged(r, u).status =
              IF PreservesAvailable(r, u) THEN r.status ELSE Given(u.status, r.status)
<1> DEFINE t      == Touched(r, u.at)
           exe    == Given(u.exe, t.exe)
           role   == Given(u.role, t.role)
           mode   == Given(u.capture, t.capture)
           status == IF PreservesAvailable(r, u) THEN t.status
                                                 ELSE Given(u.status, t.status)
           lines  == t.lines \cup u.lines
<1>1. /\ t \in Records /\ SameCapture(t, r) /\ t.status = r.status
      /\ t.exe = r.exe /\ t.capture = r.capture
  BY TouchedType DEF Updates
<1>2. /\ exe \in Exes \cup {""}
      /\ role \in Roles
      /\ mode \in CaptureModes
      /\ status \in KeyStatuses
      /\ lines \in SUBSET KeyLines
  BY <1>1 DEF Updates, Records, Given
<1>3. Merged(r, u) = [t EXCEPT !.exe = exe, !.role = role, !.capture = mode,
                               !.status = status, !.lines = lines]
  BY DEF Merged
<1>4. lines = r.lines \cup u.lines /\ t.c2s = r.c2s /\ t.s2c = r.s2c
  BY <1>1 DEF SameCapture
<1>5. /\ status = IF PreservesAvailable(r, u) THEN r.status
                                              ELSE Given(u.status, r.status)
      /\ exe = Given(u.exe, r.exe) /\ mode = Given(u.capture, r.capture)
  BY <1>1
<1> HIDE DEF t, exe, role, mode, status, lines
<1>6. [t EXCEPT !.exe = exe, !.role = role, !.capture = mode,
                !.status = status, !.lines = lines] \in Records
  BY <1>1, <1>2 DEF Records
<1>7. /\ Merged(r, u).c2s = t.c2s
      /\ Merged(r, u).s2c = t.s2c
      /\ Merged(r, u).lines = lines
      /\ Merged(r, u).status = status
      /\ Merged(r, u).exe = exe /\ Merged(r, u).capture = mode
  BY <1>1, <1>3 DEF Records
<1>8. QED  BY <1>3, <1>4, <1>5, <1>6, <1>7

\* The rule of shouldPreserveAvailableKeyStatus is what keeps status and lines
\* in step: an honest update of an honest record leaves an honest record.
LEMMA MergedHonest ==
  ASSUME NEW r \in Records, NEW u \in Updates, HonestRecord(r), HonestUpdate(u)
  PROVE  HonestRecord(Merged(r, u))
  BY MergedType DEF HonestRecord, HonestUpdate, PreservesAvailable, Given

\* AppendChunk extends one of the two streams and changes no other capture.
LEMMA AppendedType ==
  ASSUME NEW r \in Records, NEW d \in Directions, NEW data \in Seq(Bytes),
         NEW at \in Nat
  PROVE  /\ Appended(r, d, data, at) \in Records
         /\ Appended(r, d, data, at).lines = r.lines
         /\ Appended(r, d, data, at).status = r.status
         /\ Appended(r, d, data, at).exe = r.exe
         /\ Appended(r, d, data, at).capture = r.capture
         /\ Appended(r, d, data, at).c2s \in {r.c2s, r.c2s \o data}
         /\ Appended(r, d, data, at).s2c \in {r.s2c, r.s2c \o data}
<1>1. DEFINE t == Touched(r, at)
<1>2. /\ t \in Records /\ SameCapture(t, r) /\ t.status = r.status
      /\ t.exe = r.exe /\ t.capture = r.capture
  BY TouchedType
<1>3. Appended(r, d, data, at) = IF d = "client-to-server"
                                 THEN [t EXCEPT !.c2s = @ \o data]
                                 ELSE [t EXCEPT !.s2c = @ \o data]
  BY DEF Appended
<1> HIDE DEF t
<1>4. t.c2s \o data \in Seq(Bytes) /\ t.s2c \o data \in Seq(Bytes)
  <2>1. t.c2s \in Seq(Bytes) /\ t.s2c \in Seq(Bytes)
    BY <1>2 DEF Records
  <2>2. QED  BY <2>1
<1>5. CASE d = "client-to-server"
  BY <1>2, <1>3, <1>4, <1>5 DEF Records, SameCapture
<1>6. CASE d # "client-to-server"
  BY <1>2, <1>3, <1>4, <1>6 DEF Records, SameCapture
<1>7. QED  BY <1>5, <1>6

Stores == [Keys -> Records \cup {NoSession}]

\* What MergeMetadata and AppendChunk update is a record.
LEMMA EnsuredType ==
  ASSUME NEW store \in Stores, NEW key \in Keys
  PROVE  Ensured(store, key) \in Records
  BY NewRecordType DEF Stores, Ensured

\* MergeMetadata and AppendChunk put one record in the table.
LEMMA StoreType ==
  ASSUME NEW store \in Stores, NEW key \in Keys, NEW r \in Records
  PROVE  /\ [store EXCEPT ![key] = r] \in Stores
         /\ Live([store EXCEPT ![key] = r]) = Live(store) \cup {key}
  BY NoSessionAssumption DEF Stores, Live

-------------------------------------------------------------------------------
(* The order in which Run's select hands events to the store *)

\* Two records with the same fields are the same.
LEMMA SameRecord ==
  ASSUME NEW r \in Records, NEW q \in Records,
         r.exe = q.exe, r.role = q.role, r.capture = q.capture, r.status = q.status,
         r.lines = q.lines, r.c2s = q.c2s, r.s2c = q.s2c, r.first = q.first, r.last = q.last
  PROVE  r = q
<1> DEFINE All(z) == [exe |-> z.exe, role |-> z.role, capture |-> z.capture,
                      status |-> z.status, lines |-> z.lines, c2s |-> z.c2s,
                      s2c |-> z.s2c, first |-> z.first, last |-> z.last]
<1>1. ASSUME NEW z \in Records PROVE z = All(z)
  BY DEF Records
<1>2. All(r) = All(q)
  OBVIOUS
<1>3. r = All(r) /\ q = All(q)
  BY <1>1
<1> HIDE DEF All
<1>4. QED  BY <1>2, <1>3

\* Every field of a record that touch leaves.
LEMMA TouchedFields ==
  ASSUME NEW r \in Records, NEW at \in Nat
  PROVE  LET t == Touched(r, at)
         IN /\ t \in Records
            /\ t.exe = r.exe /\ t.role = r.role /\ t.capture = r.capture
            /\ t.status = r.status /\ t.lines = r.lines /\ t.c2s = r.c2s /\ t.s2c = r.s2c
            /\ t.first = IF at # 0 /\ (r.first = 0 \/ at < r.first) THEN at ELSE r.first
            /\ t.last = IF at > r.last THEN at ELSE r.last
  BY DEF Touched, Records

\* Every field of a record that mergeMetadata leaves.
LEMMA MergedFields ==
  ASSUME NEW r \in Records, NEW u \in Updates
  PROVE  LET m == Merged(r, u)
             t == Touched(r, u.at)
         IN /\ m \in Records
            /\ m.exe = Given(u.exe, r.exe) /\ m.role = Given(u.role, r.role)
            /\ m.capture = Given(u.capture, r.capture)
            /\ m.status = IF PreservesAvailable(r, u) THEN r.status
                                                     ELSE Given(u.status, r.status)
            /\ m.lines = r.lines \cup u.lines /\ m.c2s = r.c2s /\ m.s2c = r.s2c
            /\ m.first = t.first /\ m.last = t.last
<1> DEFINE t == Touched(r, u.at)
<1>1. /\ t \in Records /\ t.exe = r.exe /\ t.role = r.role /\ t.capture = r.capture
      /\ t.status = r.status /\ t.lines = r.lines /\ t.c2s = r.c2s /\ t.s2c = r.s2c
  BY TouchedFields DEF Updates
<1>2. Merged(r, u) = [t EXCEPT !.exe = Given(u.exe, r.exe), !.role = Given(u.role, r.role),
                               !.capture = Given(u.capture, r.capture),
                               !.status = IF PreservesAvailable(r, u) THEN r.status
                                                                      ELSE Given(u.status, r.status),
                               !.lines = r.lines \cup u.lines]
  BY <1>1 DEF Merged
<1> HIDE DEF t
<1>3. Merged(r, u) \in Records
  BY MergedType
<1>4. QED  BY <1>1, <1>2, <1>3 DEF Records, t

\* Every field of a record that AppendChunk leaves.
LEMMA AppendedFields ==
  ASSUME NEW r \in Records, NEW d \in Directions, NEW data \in Seq(Bytes), NEW at \in Nat
  PROVE  LET a == Appended(r, d, data, at)
             t == Touched(r, at)
         IN /\ a \in Records
            /\ a.exe = r.exe /\ a.role = r.role /\ a.capture = r.capture
            /\ a.status = r.status /\ a.lines = r.lines
            /\ a.c2s = IF d = "client-to-server" THEN r.c2s \o data ELSE r.c2s
            /\ a.s2c = IF d = "client-to-server" THEN r.s2c ELSE r.s2c \o data
            /\ a.first = t.first /\ a.last = t.last
<1> DEFINE t == Touched(r, at)
<1>1. /\ t \in Records /\ t.exe = r.exe /\ t.role = r.role /\ t.capture = r.capture
      /\ t.status = r.status /\ t.lines = r.lines /\ t.c2s = r.c2s /\ t.s2c = r.s2c
  BY TouchedFields
<1>2. Appended(r, d, data, at) = IF d = "client-to-server"
                                 THEN [t EXCEPT !.c2s = r.c2s \o data]
                                 ELSE [t EXCEPT !.s2c = r.s2c \o data]
  BY <1>1 DEF Appended
<1>3. Appended(r, d, data, at) \in Records
  BY AppendedType
<1> HIDE DEF t
<1>4. CASE d = "client-to-server"
  BY <1>1, <1>2, <1>3, <1>4 DEF Records, t
<1>5. CASE d # "client-to-server"
  BY <1>1, <1>2, <1>3, <1>5 DEF Records, t
<1>6. QED  BY <1>4, <1>5

\* Two times touched, in either order: the first and the last activity are the
\* same.
LEMMA TouchOrder ==
  ASSUME NEW r \in Records, NEW q \in Records, NEW s \in Records, NEW a \in Nat, NEW b \in Nat,
         q.first = Touched(r, a).first, q.last = Touched(r, a).last,
         s.first = Touched(r, b).first, s.last = Touched(r, b).last
  PROVE  /\ Touched(q, b).first = Touched(s, a).first
         /\ Touched(q, b).last = Touched(s, a).last
<1>1. /\ r.first \in Nat /\ r.last \in Nat
      /\ q.first \in Nat /\ q.last \in Nat /\ s.first \in Nat /\ s.last \in Nat
  BY DEF Records
<1>2. /\ q.first = IF a # 0 /\ (r.first = 0 \/ a < r.first) THEN a ELSE r.first
      /\ q.last = IF a > r.last THEN a ELSE r.last
      /\ s.first = IF b # 0 /\ (r.first = 0 \/ b < r.first) THEN b ELSE r.first
      /\ s.last = IF b > r.last THEN b ELSE r.last
  BY TouchedFields
<1>3. /\ Touched(q, b).first = IF b # 0 /\ (q.first = 0 \/ b < q.first) THEN b ELSE q.first
      /\ Touched(q, b).last = IF b > q.last THEN b ELSE q.last
      /\ Touched(s, a).first = IF a # 0 /\ (s.first = 0 \/ a < s.first) THEN a ELSE s.first
      /\ Touched(s, a).last = IF a > s.last THEN a ELSE s.last
  BY TouchedFields
<1>4. QED  BY <1>1, <1>2, <1>3

\* An event that is delivered twice changes nothing the second time
\* (mergeMetadata, appendUniqueStrings).
THEOREM MergedTwice ==
  ASSUME NEW r \in Records, NEW u \in Updates
  PROVE  Merged(Merged(r, u), u) = Merged(r, u)
<1> DEFINE m == Merged(r, u)
           n == Merged(m, u)
<1>1. /\ m \in Records
      /\ m.exe = Given(u.exe, r.exe) /\ m.role = Given(u.role, r.role)
      /\ m.capture = Given(u.capture, r.capture)
      /\ m.status = IF PreservesAvailable(r, u) THEN r.status ELSE Given(u.status, r.status)
      /\ m.lines = r.lines \cup u.lines
      /\ m.first = Touched(r, u.at).first /\ m.last = Touched(r, u.at).last
  BY MergedFields
<1> HIDE DEF m
<1>2. /\ n \in Records
      /\ n.exe = Given(u.exe, m.exe) /\ n.role = Given(u.role, m.role)
      /\ n.capture = Given(u.capture, m.capture)
      /\ n.status = IF PreservesAvailable(m, u) THEN m.status ELSE Given(u.status, m.status)
      /\ n.lines = m.lines \cup u.lines /\ n.c2s = m.c2s /\ n.s2c = m.s2c
      /\ n.first = Touched(m, u.at).first /\ n.last = Touched(m, u.at).last
  BY <1>1, MergedFields
<1> HIDE DEF n
<1>3. n.exe = m.exe /\ n.role = m.role /\ n.capture = m.capture /\ n.lines = m.lines
  BY <1>1, <1>2 DEF Given
<1>4. n.status = m.status
  BY <1>1, <1>2 DEF Given, PreservesAvailable
<1>5. n.first = m.first /\ n.last = m.last
  <2>1. u.at \in Nat /\ r.first \in Nat /\ r.last \in Nat
    BY DEF Records, Updates
  <2>2. /\ m.first = IF u.at # 0 /\ (r.first = 0 \/ u.at < r.first) THEN u.at ELSE r.first
        /\ m.last = IF u.at > r.last THEN u.at ELSE r.last
    BY <1>1, <2>1, TouchedFields
  <2>3. /\ n.first = IF u.at # 0 /\ (m.first = 0 \/ u.at < m.first) THEN u.at ELSE m.first
        /\ n.last = IF u.at > m.last THEN u.at ELSE m.last
    BY <1>1, <1>2, <2>1, TouchedFields
  <2>4. QED  BY <2>1, <2>2, <2>3
<1>6. n = m
  BY <1>1, <1>2, <1>3, <1>4, <1>5, SameRecord
<1>7. QED  BY <1>6 DEF m, n

\* A metadata event and a chunk of plaintext of one session, which come from two
\* kernel rings, leave the same record in whichever order select takes them.
THEOREM MetadataAndData ==
  ASSUME NEW r \in Records, NEW u \in Updates, NEW d \in Directions,
         NEW data \in Seq(Bytes), NEW at \in Nat
  PROVE  Merged(Appended(r, d, data, at), u) = Appended(Merged(r, u), d, data, at)
<1> DEFINE a == Appended(r, d, data, at)
           m == Merged(r, u)
           x == Merged(a, u)
           y == Appended(m, d, data, at)
<1>1. /\ a \in Records
      /\ a.exe = r.exe /\ a.role = r.role /\ a.capture = r.capture
      /\ a.status = r.status /\ a.lines = r.lines
      /\ a.c2s = IF d = "client-to-server" THEN r.c2s \o data ELSE r.c2s
      /\ a.s2c = IF d = "client-to-server" THEN r.s2c ELSE r.s2c \o data
      /\ a.first = Touched(r, at).first /\ a.last = Touched(r, at).last
  BY AppendedFields
<1>2. /\ m \in Records
      /\ m.exe = Given(u.exe, r.exe) /\ m.role = Given(u.role, r.role)
      /\ m.capture = Given(u.capture, r.capture)
      /\ m.status = IF PreservesAvailable(r, u) THEN r.status ELSE Given(u.status, r.status)
      /\ m.lines = r.lines \cup u.lines /\ m.c2s = r.c2s /\ m.s2c = r.s2c
      /\ m.first = Touched(r, u.at).first /\ m.last = Touched(r, u.at).last
  BY MergedFields
<1> HIDE DEF a, m
<1>3. /\ x \in Records
      /\ x.exe = Given(u.exe, a.exe) /\ x.role = Given(u.role, a.role)
      /\ x.capture = Given(u.capture, a.capture)
      /\ x.status = IF PreservesAvailable(a, u) THEN a.status ELSE Given(u.status, a.status)
      /\ x.lines = a.lines \cup u.lines /\ x.c2s = a.c2s /\ x.s2c = a.s2c
      /\ x.first = Touched(a, u.at).first /\ x.last = Touched(a, u.at).last
  BY <1>1, MergedFields
<1>4. /\ y \in Records
      /\ y.exe = m.exe /\ y.role = m.role /\ y.capture = m.capture
      /\ y.status = m.status /\ y.lines = m.lines
      /\ y.c2s = IF d = "client-to-server" THEN m.c2s \o data ELSE m.c2s
      /\ y.s2c = IF d = "client-to-server" THEN m.s2c ELSE m.s2c \o data
      /\ y.first = Touched(m, at).first /\ y.last = Touched(m, at).last
  BY <1>2, AppendedFields
<1> HIDE DEF x, y
<1>5. x.status = y.status
  BY <1>1, <1>2, <1>3, <1>4 DEF PreservesAvailable
<1>6. x.first = y.first /\ x.last = y.last
  <2>1. u.at \in Nat  BY DEF Updates
  <2>2. QED  BY <1>1, <1>2, <1>3, <1>4, <2>1, TouchOrder
<1>7. /\ x.exe = y.exe /\ x.role = y.role /\ x.capture = y.capture
      /\ x.lines = y.lines /\ x.c2s = y.c2s /\ x.s2c = y.s2c
  BY <1>1, <1>2, <1>3, <1>4
<1>8. x = y
  BY <1>3, <1>4, <1>5, <1>6, <1>7, SameRecord
<1>9. QED  BY <1>8 DEF x, y, a, m

\* Two metadata events of one session in either order: the same key-log lines,
\* the same activity, and keys that are available in both orders or in neither.
\* (The fields the last writer decides may differ: the role, see the hazards.)
THEOREM MetadataInAnyOrder ==
  ASSUME NEW r \in Records, NEW u \in Updates, NEW v \in Updates,
         HonestRecord(r), HonestUpdate(u), HonestUpdate(v)
  PROVE  LET uv == Merged(Merged(r, u), v)
             vu == Merged(Merged(r, v), u)
         IN /\ uv.lines = vu.lines /\ uv.first = vu.first /\ uv.last = vu.last
            /\ uv.c2s = vu.c2s /\ uv.s2c = vu.s2c
            /\ uv.status = "available" <=> vu.status = "available"
<1> DEFINE p == Merged(r, u)
           q == Merged(r, v)
           uv == Merged(p, v)
           vu == Merged(q, u)
<1>1. /\ p \in Records /\ p.lines = r.lines \cup u.lines /\ p.c2s = r.c2s /\ p.s2c = r.s2c
      /\ p.first = Touched(r, u.at).first /\ p.last = Touched(r, u.at).last
      /\ HonestRecord(p)
  BY MergedFields, MergedHonest
<1>2. /\ q \in Records /\ q.lines = r.lines \cup v.lines /\ q.c2s = r.c2s /\ q.s2c = r.s2c
      /\ q.first = Touched(r, v.at).first /\ q.last = Touched(r, v.at).last
      /\ HonestRecord(q)
  BY MergedFields, MergedHonest
<1> HIDE DEF p, q
<1>3. /\ uv.lines = p.lines \cup v.lines /\ uv.c2s = p.c2s /\ uv.s2c = p.s2c
      /\ uv.first = Touched(p, v.at).first /\ uv.last = Touched(p, v.at).last
      /\ HonestRecord(uv)
  BY <1>1, MergedFields, MergedHonest
<1>4. /\ vu.lines = q.lines \cup u.lines /\ vu.c2s = q.c2s /\ vu.s2c = q.s2c
      /\ vu.first = Touched(q, u.at).first /\ vu.last = Touched(q, u.at).last
      /\ HonestRecord(vu)
  BY <1>2, MergedFields, MergedHonest
<1> HIDE DEF uv, vu
<1>5. uv.first = vu.first /\ uv.last = vu.last
  <2>1. u.at \in Nat /\ v.at \in Nat  BY DEF Updates
  <2>2. QED  BY <1>1, <1>2, <1>3, <1>4, <2>1, TouchOrder
<1>6. uv.lines = vu.lines
  BY <1>1, <1>2, <1>3, <1>4
<1>7. uv.status = "available" <=> vu.status = "available"
  BY <1>3, <1>4, <1>6 DEF HonestRecord
<1>8. QED  BY <1>1, <1>2, <1>3, <1>4, <1>5, <1>6, <1>7 DEF uv, vu, p, q

\* Events of two sessions leave the same table in either order: what one session
\* is recorded as does not depend on how select interleaves it with others.
THEOREM SessionsIndependent ==
  ASSUME NEW store \in Stores, NEW k1 \in Keys, NEW k2 \in Keys, k1 # k2,
         NEW u \in Updates, NEW v \in Updates, NEW d \in Directions, NEW e \in Directions,
         NEW x \in Seq(Bytes), NEW y \in Seq(Bytes), NEW a \in Nat, NEW b \in Nat
  PROVE  /\ MergeMetadata(MergeMetadata(store, k1, u), k2, v)
              = MergeMetadata(MergeMetadata(store, k2, v), k1, u)
         /\ AppendChunk(MergeMetadata(store, k1, u), k2, e, y, b)
              = MergeMetadata(AppendChunk(store, k2, e, y, b), k1, u)
         /\ AppendChunk(AppendChunk(store, k1, d, x, a), k2, e, y, b)
              = AppendChunk(AppendChunk(store, k2, e, y, b), k1, d, x, a)
<1>1. ASSUME NEW f, NEW g
      PROVE  [[store EXCEPT ![k1] = f] EXCEPT ![k2] = g]
               = [[store EXCEPT ![k2] = g] EXCEPT ![k1] = f]
  BY DEF Stores
<1>2. ASSUME NEW f
      PROVE  /\ Ensured([store EXCEPT ![k1] = f], k2) = Ensured(store, k2)
             /\ Ensured([store EXCEPT ![k2] = f], k1) = Ensured(store, k1)
  BY DEF Ensured, Stores
<1>3. QED  BY <1>1, <1>2 DEF MergeMetadata, AppendChunk
===============================================================================
