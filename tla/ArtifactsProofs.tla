---------------------------- MODULE ArtifactsProofs ----------------------------
(***************************************************************************)
(* The invariants of Artifacts, proved for every set of processes,         *)
(* sessions and bytes, whatever writes fail and however often the daemon   *)
(* is killed and started again.                                            *)
(***************************************************************************)
EXTENDS Artifacts, DaemonProofs

\* What the latest handler gave to flushSnapshot: sessions that have left the
\* store, each of them once.
HandedOver ==
  /\ \A s \in written : s.key \notin Live(sessions)
  /\ \A s, t \in written : s.key = t.key => s = t

\* The files of a plan, and what FilesComeInOrder says of one directory.
FilesOf(plan) == First(plan, Len(plan))

InOrder(dir) ==
  LET own == {f \in Files : dir[f] = "own"}
  IN /\ own # {} => "summary.json" \in own
     /\ "request.txt" \in own => "stream-client-to-server.bin" \in own
     /\ "response.txt" \in own => "stream-server-to-client.bin" \in own

\* A directory that was written without a reported error has its session's files
\* as its own, and no others.
DirectoriesWhole ==
  \A s \in written \ queue :
    s.key \notin reported =>
      \A f \in Files : files[s.key][f] = "own" <=> f \in FilesOf(Plan(s.rec))

\* The inductive invariant.  DirectoriesWhole needs HandedOver: two snapshots of
\* one key in a step would write over each other's directory.
AInv ==
  /\ IInv
  /\ HandedOver
  /\ queue \subseteq written
  /\ files \in [Keys -> [Files -> Origins]]
  /\ reported \subseteq Keys
  /\ \A key \in Keys : InOrder(files[key])
  /\ DirectoriesWhole

-------------------------------------------------------------------------------
(* The order of WriteSession *)

\* A plan that begins with the summary and has every rendered message after its
\* stream.
Orderly(plan) ==
  /\ plan \in Seq(Files)
  /\ Len(plan) >= 1 /\ plan[1] = "summary.json"
  /\ \A m \in 1..Len(plan) :
       /\ plan[m] = "request.txt" =>
            \E k \in 1..m : plan[k] = "stream-client-to-server.bin"
       /\ plan[m] = "response.txt" =>
            \E k \in 1..m : plan[k] = "stream-server-to-client.bin"

Plain == {"stream-client-to-server.bin", "stream-server-to-client.bin", "keys.log"}

\* A file is added at the end of a plan, if at all.
LEMMA AddFile ==
  ASSUME NEW plan, Orderly(plan), NEW c \in BOOLEAN, NEW f \in Files,
         c /\ f = "request.txt" => "stream-client-to-server.bin" \in FilesOf(plan),
         c /\ f = "response.txt" => "stream-server-to-client.bin" \in FilesOf(plan)
  PROVE  /\ Orderly(plan \o When(c, f))
         /\ FilesOf(plan \o When(c, f)) = FilesOf(plan) \cup (IF c THEN {f} ELSE {})
<1> DEFINE more == plan \o When(c, f)
<1>1. plan \in Seq(Files) /\ Len(plan) \in Nat  BY DEF Orderly
<1>2. CASE ~c
  <2>1. When(c, f) = <<>>  BY <1>2 DEF When
  <2>2. more = plan  BY <1>1, <2>1
  <2>3. QED  BY <1>2, <2>2
<1>3. CASE c
  <2>1. When(c, f) = <<f>>  BY <1>3 DEF When
  <2>2. /\ more \in Seq(Files) /\ Len(more) = Len(plan) + 1
        /\ \A m \in 1..Len(plan) : more[m] = plan[m]
        /\ more[Len(plan) + 1] = f
    BY <1>1, <2>1
  <2> HIDE DEF more
  <2>3. \A x : x \in FilesOf(plan) <=> \E m \in 1..Len(plan) : plan[m] = x
    BY DEF FilesOf, First
  <2>4. \A x : x \in FilesOf(more) <=> \E m \in 1..Len(more) : more[m] = x
    BY DEF FilesOf, First
  <2>5. FilesOf(more) = FilesOf(plan) \cup {f}
    BY <1>1, <2>2, <2>3, <2>4
  <2>6. Len(more) >= 1 /\ more[1] = "summary.json"
    BY <1>1, <2>2 DEF Orderly
  <2>7. ASSUME NEW m \in 1..Len(more)
        PROVE  /\ more[m] = "request.txt" =>
                    \E k \in 1..m : more[k] = "stream-client-to-server.bin"
               /\ more[m] = "response.txt" =>
                    \E k \in 1..m : more[k] = "stream-server-to-client.bin"
    <3>1. CASE m \in 1..Len(plan)
      <4>1. \A k \in 1..m : k \in 1..Len(plan)  BY <1>1, <3>1
      <4>2. QED  BY <2>2, <3>1, <4>1 DEF Orderly
    <3>2. CASE m = Len(plan) + 1
      <4>1. \A k \in 1..Len(plan) : k \in 1..m  BY <1>1, <3>2
      <4>2. QED  BY <1>3, <2>2, <2>3, <3>2, <4>1
    <3>3. QED  BY <1>1, <2>2, <3>1, <3>2
  <2>8. Orderly(more)  BY <2>2, <2>6, <2>7 DEF Orderly
  <2>9. QED  BY <1>3, <2>5, <2>8 DEF more
<1>4. QED  BY <1>2, <1>3

\* What is not rendered needs nothing before it.
LEMMA AddPlainFile ==
  ASSUME NEW plan, Orderly(plan), NEW c \in BOOLEAN, NEW f \in Plain
  PROVE  /\ Orderly(plan \o When(c, f))
         /\ FilesOf(plan \o When(c, f)) = FilesOf(plan) \cup (IF c THEN {f} ELSE {})
<1>1. f \in Files /\ f # "request.txt" /\ f # "response.txt"
  BY DEF Plain, Files
<1>2. QED  BY <1>1, AddFile

\* The plan of every record is orderly, and it has the files the record calls
\* for.
LEMMA PlanOrderly ==
  ASSUME NEW rec \in Records
  PROVE  /\ Orderly(Plan(rec))
         /\ "summary.json" \in FilesOf(Plan(rec))
         /\ "keys.log" \in FilesOf(Plan(rec)) <=> rec.lines # {}
         /\ "stream-client-to-server.bin" \in FilesOf(Plan(rec)) <=>
              (rec.capture = "capture" /\ rec.c2s # <<>>)
         /\ "stream-server-to-client.bin" \in FilesOf(Plan(rec)) <=>
              (rec.capture = "capture" /\ rec.s2c # <<>>)
<1> DEFINE captured == rec.capture = "capture"
           b1 == captured /\ rec.c2s # <<>>
           b2 == captured /\ rec.s2c # <<>>
           b3 == rec.lines # {}
           b4 == captured /\ FormatHTTP("client-to-server", rec.c2s) = "http_request"
           b5 == captured /\ FormatHTTP("server-to-client", rec.s2c) = "http_response"
           q0 == <<"summary.json">>
           q1 == q0 \o When(b1, "stream-client-to-server.bin")
           q2 == q1 \o When(b2, "stream-server-to-client.bin")
           q3 == q2 \o When(b3, "keys.log")
           q4 == q3 \o When(b4, "request.txt")
           q5 == q4 \o When(b5, "response.txt")
<1>1. /\ b1 \in BOOLEAN /\ b2 \in BOOLEAN /\ b3 \in BOOLEAN
      /\ b4 \in BOOLEAN /\ b5 \in BOOLEAN
  OBVIOUS
<1>2. (b4 => b1) /\ (b5 => b2)
  BY DEF FormatHTTP
<1>3. Plan(rec) = q5  BY DEF Plan
<1>4. /\ b1 <=> (rec.capture = "capture" /\ rec.c2s # <<>>)
      /\ b2 <=> (rec.capture = "capture" /\ rec.s2c # <<>>)
      /\ b3 <=> rec.lines # {}
  OBVIOUS
<1>5. Orderly(q0) /\ FilesOf(q0) = {"summary.json"}
  BY DEF Orderly, FilesOf, First, Files
<1>6. /\ "stream-client-to-server.bin" \in Plain /\ "stream-server-to-client.bin" \in Plain
      /\ "keys.log" \in Plain /\ "request.txt" \in Files /\ "response.txt" \in Files
  BY DEF Plain, Files
<1> HIDE DEF b1, b2, b3, b4, b5, q0
<1>7. /\ Orderly(q1)
      /\ FilesOf(q1) = FilesOf(q0) \cup (IF b1 THEN {"stream-client-to-server.bin"} ELSE {})
  BY <1>1, <1>5, <1>6, AddPlainFile
<1> HIDE DEF q1
<1>8. /\ Orderly(q2)
      /\ FilesOf(q2) = FilesOf(q1) \cup (IF b2 THEN {"stream-server-to-client.bin"} ELSE {})
  BY <1>1, <1>6, <1>7, AddPlainFile
<1> HIDE DEF q2
<1>9. Orderly(q3) /\ FilesOf(q3) = FilesOf(q2) \cup (IF b3 THEN {"keys.log"} ELSE {})
  BY <1>1, <1>6, <1>8, AddPlainFile
<1> HIDE DEF q3
<1>10. Orderly(q4) /\ FilesOf(q4) = FilesOf(q3) \cup (IF b4 THEN {"request.txt"} ELSE {})
  <2>1. b4 => "stream-client-to-server.bin" \in FilesOf(q3)
    BY <1>2, <1>7, <1>8, <1>9
  <2>2. QED  BY <1>1, <1>6, <1>9, <2>1, AddFile
<1> HIDE DEF q4
<1>11. Orderly(q5) /\ FilesOf(q5) = FilesOf(q4) \cup (IF b5 THEN {"response.txt"} ELSE {})
  <2>1. b5 => "stream-server-to-client.bin" \in FilesOf(q4)
    BY <1>2, <1>7, <1>8, <1>9, <1>10
  <2>2. QED  BY <1>1, <1>6, <1>10, <2>1, AddFile
<1> HIDE DEF q5
<1>12. QED
  BY <1>3, <1>4, <1>5, <1>7, <1>8, <1>9, <1>10, <1>11

-------------------------------------------------------------------------------
(* What a write makes of a directory *)

\* After n files of an orderly plan, what is its own in a directory is in order.
LEMMA WriteInOrder ==
  ASSUME NEW dir \in [Files -> Origins], NEW plan, Orderly(plan), InOrder(dir),
         NEW n \in 0..Len(plan), NEW torn
  PROVE  /\ WrittenDir(dir, plan, n, torn) \in [Files -> Origins]
         /\ InOrder(WrittenDir(dir, plan, n, torn))
<1> DEFINE new == WrittenDir(dir, plan, n, torn)
<1>1. Len(plan) \in Nat /\ n \in Nat /\ n <= Len(plan)  BY DEF Orderly
<1>2. \A x : x \in First(plan, n) <=> \E m \in 1..n : plan[m] = x
  BY DEF First
<1>3. \A f \in Files : new[f] = "own" =>
        f \in First(plan, n) \/ (dir[f] = "own" /\ First(plan, n) = {})
  BY DEF WrittenDir
<1>4. \A f \in Files : f \in First(plan, n) => new[f] = "own"
  BY DEF WrittenDir
<1>5. new \in [Files -> Origins]
  BY DEF WrittenDir, Origins
<1>6. /\ \A f \in Files : new[f] # "own" \/ dir[f] = "own" \/ First(plan, n) # {}
      /\ First(plan, n) = {} => torn = {} \/ \A f \in Files : new[f] # "own"
      /\ First(plan, n) = {} /\ torn = {} => \A f \in Files : new[f] = dir[f]
  BY DEF WrittenDir
<1> HIDE DEF new
<1>7. CASE First(plan, n) = {}
  <2>1. ASSUME torn = {} PROVE InOrder(new)
    <3>1. {f \in Files : new[f] = "own"} = {f \in Files : dir[f] = "own"}
      BY <1>6, <1>7, <2>1
    <3>2. QED  BY <3>1, Zenon DEF InOrder
  <2>2. ASSUME torn # {} PROVE InOrder(new)
    <3>1. {f \in Files : new[f] = "own"} = {}
      BY <1>6, <1>7, <2>2
    <3>2. QED  BY <3>1 DEF InOrder
  <2>3. QED  BY <1>5, <2>1, <2>2 DEF new
<1>8. CASE First(plan, n) # {}
  <2>1. \A f \in Files : new[f] = "own" <=> f \in First(plan, n)
    BY <1>3, <1>4, <1>8
  <2>2. n >= 1
    BY <1>1, <1>2, <1>8
  <2>3. "summary.json" \in First(plan, n)
    BY <1>1, <1>2, <2>2 DEF Orderly
  <2>4. \A m \in 1..n : m \in 1..Len(plan) /\ \A k \in 1..m : k \in 1..n
    BY <1>1
  <2>5. "request.txt" \in First(plan, n) => "stream-client-to-server.bin" \in First(plan, n)
    BY <1>2, <2>4 DEF Orderly
  <2>6. "response.txt" \in First(plan, n) => "stream-server-to-client.bin" \in First(plan, n)
    BY <1>2, <2>4 DEF Orderly
  <2>7. /\ "summary.json" \in Files /\ "stream-client-to-server.bin" \in Files
        /\ "stream-server-to-client.bin" \in Files
    BY DEF Files
  <2>8. InOrder(new)
    BY <2>1, <2>3, <2>5, <2>6, <2>7 DEF InOrder
  <2>9. QED  BY <1>5, <2>8 DEF new
<1>9. QED  BY <1>7, <1>8

\* A whole write leaves exactly the plan's files as the session's own.
LEMMA WholeWrite ==
  ASSUME NEW dir \in [Files -> Origins], NEW plan, Orderly(plan)
  PROVE  \A f \in Files :
           WrittenDir(dir, plan, Len(plan), {})[f] = "own" <=> f \in FilesOf(plan)
<1>1. "summary.json" \in FilesOf(plan)
  BY DEF Orderly, FilesOf, First
<1>2. QED  BY <1>1 DEF WrittenDir, FilesOf

-------------------------------------------------------------------------------
(* The steps *)

\* A handler gives away only sessions that are in the store no more, and each
\* of them once.
LEMMA HandsOver ==
  ASSUME IInv, HandedOver, [Next]_vars
  PROVE  HandedOver'
<1>1. IInv'  BY StepIInv
<1>2. CASE written' = {}
  BY <1>2 DEF HandedOver
<1>3. CASE UNCHANGED vars
  BY <1>3 DEF vars, HandedOver, Live
<1>4. CASE \E due \in SUBSET Exited, now \in WallTimes : FlushStep(due, now)
  <2>1. PICK due \in SUBSET Exited, now \in WallTimes : FlushStep(due, now)  BY <1>4
  <2> DEFINE Snapshot(k) == [key |-> k, rec |-> Touched(sessions[k], exited[PidOf(k)])]
  <2>2. /\ written' = {Snapshot(k) : k \in LiveOf(sessions, due)}
                   \cup {Placeholder(pid, now) : pid \in Unsupported(due)}
        /\ sessions' = WithoutPIDs(sessions, due)
    BY <2>1 DEF FlushStep, FlushExited, FinalizedByPID
  <2>3. \A k : Snapshot(k).key = k  OBVIOUS
  <2>4. \A pid : Placeholder(pid, now).key = <<pid, NullPtr>>
    BY DEF Placeholder
  <2> HIDE DEF Snapshot
  <2>5. \A k \in LiveOf(sessions, due) :
          k \notin Live(sessions') /\ PtrOf(k) # NullPtr
    BY <2>2 DEF LiveOf, Live, WithoutPIDs, IInv, PlaceholderAlone, Keys, PtrOf, PidOf
  <2>6. \A pid \in Unsupported(due) : <<pid, NullPtr>> \notin Live(sessions')
    BY <1>1 DEF Unsupported, Exited, IInv, PlaceholderAlone
  <2>7. \A s \in written' : s.key \notin Live(sessions')
    BY <2>2, <2>3, <2>4, <2>5, <2>6
  <2>8. \A pid : PtrOf(<<pid, NullPtr>>) = NullPtr  BY DEF PtrOf
  <2>9. ASSUME NEW s \in written', NEW t \in written', s.key = t.key PROVE s = t
    <3>1. CASE PtrOf(s.key) = NullPtr
      BY <1>1, <2>9, <3>1 DEF IInv, PlaceholderAlone
    <3>2. CASE PtrOf(s.key) # NullPtr
      <4>1. \A x \in written' :
              \/ \E k \in LiveOf(sessions, due) : x = Snapshot(k)
              \/ PtrOf(x.key) = NullPtr
        BY <2>2, <2>4, <2>8
      <4>2. PICK k : s = Snapshot(k)
        BY <3>2, <4>1
      <4>3. PICK l : t = Snapshot(l)
        BY <2>9, <3>2, <4>1
      <4>4. k = l  BY <2>3, <2>9, <4>2, <4>3
      <4>5. QED  BY <4>2, <4>3, <4>4
    <3>3. QED  BY <3>1, <3>2
  <2>10. QED  BY <2>7, <2>9 DEF HandedOver
<1>5. CASE \E now \in WallTimes : Cancel(now)
  <2>1. PICK now \in WallTimes : Cancel(now)  BY <1>5
  <2>2. \A s \in written' : \E pid \in Pids : s = Placeholder(pid, now)
    BY <2>1 DEF Cancel
  <2>3. \A pid : Placeholder(pid, now).key = <<pid, NullPtr>>
    BY DEF Placeholder
  <2>4. \A s \in written' : s.key \notin Live(sessions')
    BY <1>1, <2>2, <2>3 DEF IInv, PlaceholderAlone
  <2>5. \A s, t \in written' : s.key = t.key => s = t
    BY <2>2, <2>3
  <2>6. QED  BY <2>4, <2>5 DEF HandedOver
<1>6. \A key \in Keys : TouchStep(key) => written' = {}
  BY DEF TouchStep, NothingFlushed
<1>7. \A pid, exe, gated : HandleExec(pid, exe, gated) => written' = {}
  BY DEF HandleExec, NothingFlushed
<1>8. \A pid, at : HandleExit(pid, at) => written' = {}
  BY DEF HandleExit, NothingFlushed
<1>9. QED
  BY <1>2, <1>3, <1>4, <1>5, <1>6, <1>7, <1>8, StepCases DEF IInv, NothingFlushed

\* A handler of the daemon touches no directory.
LEMMA HandleAInv ==
  ASSUME AInv, Handle
  PROVE  AInv'
<1>1. /\ queue' = written' /\ files' = files /\ reported' = reported
      /\ [Next]_vars
  BY DEF Handle
<1>2. IInv'  BY <1>1, StepIInv DEF AInv
<1>3. HandedOver'  BY <1>1, HandsOver DEF AInv
<1>4. DirectoriesWhole'  BY <1>1 DEF DirectoriesWhole
<1>5. QED  BY <1>1, <1>2, <1>3, <1>4 DEF AInv

\* A write of a snapshot, whole or broken off after n files, changes that
\* directory and no other.
Writes(s, n, torn) ==
  /\ UNCHANGED vars
  /\ queue' = queue \ {s}
  /\ files' = [files EXCEPT ![s.key] = WrittenDir(@, Plan(s.rec), n, torn)]
  /\ \/ reported' = reported \cup {s.key}
     \/ reported' = reported \ {s.key} /\ n = Len(Plan(s.rec)) /\ torn = {}

\* Daemon's part of the state, unchanged.
LEMMA SameDaemon ==
  ASSUME UNCHANGED vars, IInv, HandedOver
  PROVE  IInv' /\ HandedOver' /\ written' = written
<1>1. IInv'  BY StepIInv
<1>2. written' = written /\ sessions' = sessions  BY DEF vars
<1>3. QED  BY <1>1, <1>2 DEF HandedOver, Live

\* flushSnapshot preserves the invariant, whatever comes of the write.
LEMMA WriteAInv ==
  ASSUME AInv, NEW s \in queue, NEW n \in 0..Len(Plan(s.rec)), NEW torn,
         Writes(s, n, torn)
  PROVE  AInv'
<1> USE DEF AInv
<1>1. IInv' /\ HandedOver' /\ written' = written
  BY SameDaemon DEF Writes
<1>2. s \in written /\ s.key \in Keys /\ s.rec \in Records
  BY DEF IInv, TypeOK, Snapshots
<1>3. Orderly(Plan(s.rec))
  BY <1>2, PlanOrderly
<1> DEFINE dir == files[s.key]
           new == WrittenDir(dir, Plan(s.rec), n, torn)
<1>4. dir \in [Files -> Origins] /\ InOrder(dir)
  BY <1>2
<1>5. new \in [Files -> Origins] /\ InOrder(new)
  BY <1>3, <1>4, WriteInOrder
<1>6. files' = [files EXCEPT ![s.key] = new]
  BY DEF Writes
<1>7. torn = {} /\ n = Len(Plan(s.rec)) =>
        \A f \in Files : new[f] = "own" <=> f \in FilesOf(Plan(s.rec))
  BY <1>3, <1>4, WholeWrite
<1> HIDE DEF new, dir
<1>8. /\ files' \in [Keys -> [Files -> Origins]]
      /\ files'[s.key] = new
      /\ \A key \in Keys \ {s.key} : files'[key] = files[key]
  BY <1>2, <1>5, <1>6
<1>9. \A key \in Keys : InOrder(files'[key])
  BY <1>5, <1>8
<1>10. reported' \subseteq Keys /\ queue' \subseteq written'
  BY <1>1, <1>2 DEF Writes
<1>11. DirectoriesWhole'
  <2> SUFFICES ASSUME NEW t \in written \ queue', t.key \notin reported', NEW f \in Files
               PROVE  files'[t.key][f] = "own" <=> f \in FilesOf(Plan(t.rec))
    BY <1>1 DEF DirectoriesWhole
  <2>1. CASE t = s
    BY <1>7, <1>8, <2>1 DEF Writes
  <2>2. CASE t # s
    <3>1. t.key # s.key /\ t.key \in Keys
      BY <1>2, <2>2 DEF HandedOver, IInv, TypeOK, Snapshots
    <3>2. t \notin queue /\ t.key \notin reported
      BY <2>2, <3>1 DEF Writes
    <3>3. QED  BY <1>8, <3>1, <3>2 DEF DirectoriesWhole
  <2>3. QED  BY <2>1, <2>2
<1>12. QED  BY <1>1, <1>8, <1>9, <1>10, <1>11

\* A new daemon starts from Daemon's initial state, beside the old files.
LEMMA RestartAInv ==
  ASSUME AInv, Restart
  PROVE  AInv'
<1>1. Init'  BY DEF Restart, Init
<1>2. IInv'  BY <1>1, InitIInv, PTL
<1>3. written' = {} /\ queue' = {} /\ UNCHANGED <<files, reported>>
  BY DEF Restart
<1>4. HandedOver' /\ DirectoriesWhole'
  BY <1>3 DEF HandedOver, DirectoriesWhole
<1>5. QED  BY <1>2, <1>3, <1>4 DEF AInv

\* AInv holds in every reachable state.
THEOREM ArtifactsInvariance == ArtifactsSpec => []AInv
<1>1. ArtifactsInit => AInv
  <2> SUFFICES ASSUME ArtifactsInit PROVE AInv  OBVIOUS
  <2>1. IInv  BY InitIInv DEF ArtifactsInit
  <2>2. written = {} /\ queue = {} /\ reported = {}
        /\ files = [key \in Keys |-> [f \in Files |-> "none"]]
    BY DEF ArtifactsInit, Init
  <2>3. files \in [Keys -> [Files -> Origins]] /\ \A key \in Keys : InOrder(files[key])
    BY <2>2 DEF Origins, InOrder, Files
  <2>4. HandedOver /\ DirectoriesWhole
    BY <2>2 DEF HandedOver, DirectoriesWhole
  <2>5. QED  BY <2>1, <2>2, <2>3, <2>4 DEF AInv
<1>2. AInv /\ [ArtifactsNext]_<<vars, diskVars>> => AInv'
  <2> SUFFICES ASSUME AInv, [ArtifactsNext]_<<vars, diskVars>> PROVE AInv'  OBVIOUS
  <2>1. CASE Handle  BY <2>1, HandleAInv
  <2>2. ASSUME NEW s \in queue, WriteSession(s) PROVE AInv'
    <3>1. Len(Plan(s.rec)) \in 0..Len(Plan(s.rec))
      <4>1. s.rec \in Records  BY DEF AInv, IInv, TypeOK, Snapshots
      <4>2. Plan(s.rec) \in Seq(Files)  BY <4>1, PlanOrderly DEF Orderly
      <4>3. QED  BY <4>2
    <3>2. Writes(s, Len(Plan(s.rec)), {})  BY <2>2 DEF WriteSession, Writes
    <3>3. QED  BY <3>1, <3>2, WriteAInv
  <2>3. ASSUME NEW s \in queue, WriteFails(s) PROVE AInv'
    <3>1. PICK n \in 0..(Len(Plan(s.rec)) - 1) : \E torn :
            files' = [files EXCEPT ![s.key] = WrittenDir(@, Plan(s.rec), n, torn)]
      BY <2>3 DEF WriteFails
    <3>2. n \in 0..Len(Plan(s.rec))
      <4>1. s.rec \in Records  BY DEF AInv, IInv, TypeOK, Snapshots
      <4>2. Plan(s.rec) \in Seq(Files)  BY <4>1, PlanOrderly DEF Orderly
      <4>3. QED  BY <4>2
    <3>3. PICK torn :
            files' = [files EXCEPT ![s.key] = WrittenDir(@, Plan(s.rec), n, torn)]
      BY <3>1
    <3>4. Writes(s, n, torn)  BY <2>3, <3>3 DEF WriteFails, Writes
    <3>5. QED  BY <3>2, <3>4, WriteAInv
  <2>4. CASE Restart  BY <2>4, RestartAInv
  <2>5. CASE UNCHANGED <<vars, diskVars>>
    <3>1. IInv' /\ HandedOver' /\ written' = written
      BY <2>5, SameDaemon DEF AInv
    <3>2. UNCHANGED <<queue, files, reported>>  BY <2>5 DEF diskVars
    <3>3. QED  BY <3>1, <3>2 DEF AInv, DirectoriesWhole
  <2>6. QED  BY <2>1, <2>2, <2>3, <2>4, <2>5 DEF ArtifactsNext
<1>3. QED  BY <1>1, <1>2, PTL DEF ArtifactsSpec

-------------------------------------------------------------------------------
\* The state keeps its types, and no later flush writes again what is to be
\* written now.
THEOREM ArtifactsTypeCorrect == ArtifactsSpec => []ArtifactsTypeOK
<1>1. AInv => ArtifactsTypeOK
  BY DEF AInv, IInv, HandedOver, ArtifactsTypeOK
<1>2. QED  BY <1>1, ArtifactsInvariance, PTL

\* In every directory a session's files lie beside its summary, and its rendered
\* messages beside their streams.
THEOREM OrderCorrect == ArtifactsSpec => []FilesComeInOrder
<1>1. AInv => FilesComeInOrder
  BY DEF AInv, FilesComeInOrder, InOrder
<1>2. QED  BY <1>1, ArtifactsInvariance, PTL

\* A session that has been written without a reported error is told by its
\* directory.
WrittenTell ==
  \A s \in written \ queue : s.key \notin reported => Tells(s)

LEMMA WholeTells == AInv => WrittenTell
<1> SUFFICES ASSUME AInv, NEW s \in written \ queue, s.key \notin reported
             PROVE  Tells(s)
  BY DEF WrittenTell
<1>1. s.rec \in Records /\ HonestRecord(s.rec) /\ Fitting(s.rec)
  BY DEF AInv, IInv, TypeOK, Snapshots, KeyStatusHonest, ModeFits
<1>2. \A f \in Files : files[s.key][f] = "own" <=> f \in FilesOf(Plan(s.rec))
  BY DEF AInv, DirectoriesWhole
<1>3. /\ "summary.json" \in Files /\ "keys.log" \in Files
      /\ "stream-client-to-server.bin" \in Files /\ "stream-server-to-client.bin" \in Files
  BY DEF Files
<1>4. s.rec.c2s # <<>> \/ s.rec.s2c # <<>>
        => (s.rec.capture = "capture" <=> ~Unidentified(s.rec))
  BY <1>1 DEF Fitting, Unidentified
<1>5. QED  BY <1>1, <1>2, <1>3, <1>4, PlanOrderly DEF HonestRecord, Tells

\* Once a handler is over, the directories of the sessions it closed tell them.
THEOREM DirectoryCorrect == ArtifactsSpec => []DirectoryTellsSession
<1>1. WrittenTell => DirectoryTellsSession
  BY DEF WrittenTell, DirectoryTellsSession
<1>2. QED  BY <1>1, WholeTells, ArtifactsInvariance, PTL

\* A handler's step leaves a live session in the store or gives all of it to the
\* writer.
LEMMA HandleKeeps ==
  ASSUME AInv, Handle, NEW key \in Live(sessions)
  PROVE  \/ key \in Live(sessions') /\ Extends(sessions'[key], sessions[key])
         \/ \E s \in queue' : s.key = key /\ Content(s.rec) = Content(sessions[key])
<1>1. IInv /\ [Next]_vars /\ queue' = written'
  BY DEF AInv, Handle
<1>2. CASE key \in Live(sessions') /\ Extends(sessions'[key], sessions[key])
  BY <1>2
<1>3. CASE \E s \in written' : /\ s.key = key
                               /\ s.rec.c2s = sessions[key].c2s
                               /\ s.rec.s2c = sessions[key].s2c
                               /\ s.rec.lines = sessions[key].lines
  BY <1>1, <1>3 DEF Content
<1>4. QED  BY <1>1, <1>2, <1>3, SessionStep

\* A record that does not change extends itself.
LEMMA ExtendsItself ==
  ASSUME AInv, sessions' = sessions, NEW key \in Live(sessions)
  PROVE  key \in Live(sessions') /\ Extends(sessions'[key], sessions[key])
<1>1. sessions[key].c2s \in Seq(Bytes) /\ sessions[key].s2c \in Seq(Bytes)
  BY DEF AInv, IInv, TypeOK, Live, Records
<1>2. QED  BY <1>1, GrownIsPrefix DEF Extends, GrownBy, Live

\* A daemon that ends because its readers have ended, its writes over, holds no
\* session of a process that has exited.
LEMMA DrainedHoldsTheLiving ==
  ASSUME AInv, phase = "drained", NEW key \in Live(sessions)
  PROVE  exited[PidOf(key)] = Alive
<1>1. PidOf(key) \in Pids
  BY DEF Live, Keys, PidOf
<1>2. QED  BY <1>1 DEF AInv, IInv, DrainedIsFlushed, Exited

\* From the first byte to the end of the daemon: what it has recorded of a session
\* stays in the store, or is all handed to the writer when it leaves the store, and
\* the writer is done with it only when the directory tells it or the failure is on
\* record; where Tells calls for no stream of a session that no metadata event ever
\* reached.  A daemon that ends drained, its writes over, takes with it only
\* sessions of processes that have not exited.
THEOREM CaptureDurable == ArtifactsSpec => CaptureReachesDisk
<1> DEFINE Kept ==
      \A key \in Live(sessions) :
        \/ key \in Live(sessions') /\ Extends(sessions'[key], sessions[key])
        \/ \E s \in queue' : s.key = key /\ Content(s.rec) = Content(sessions[key])
           Told == \A s \in queue \ queue' : s.key \in reported' \/ Tells(s)'
           Dropped == Restart /\ phase = "drained" /\ queue = {} =>
                        \A key \in Live(sessions) : exited[PidOf(key)] = Alive
<1>1. ASSUME AInv, WrittenTell', ArtifactsNext
      PROVE  Restart \/ (Kept /\ Told)
  <2>1. CASE Handle
    <3>1. queue = {}  BY <2>1 DEF Handle
    <3>2. Told  BY <3>1
    <3>3. Kept  BY <1>1, <2>1, HandleKeeps
    <3>4. QED  BY <3>2, <3>3
  <2>2. CASE \E s \in queue : WriteSession(s) \/ WriteFails(s)
    <3>1. UNCHANGED vars
      BY <2>2 DEF WriteSession, WriteFails
    <3>2. sessions' = sessions /\ written' = written
      BY <3>1 DEF vars
    <3>3. Kept  BY <1>1, <3>2, ExtendsItself
    <3>4. queue \subseteq written'  BY <1>1, <3>2 DEF AInv
    <3>5. Told
      <4> SUFFICES ASSUME NEW s \in queue \ queue', s.key \notin reported'
                   PROVE  Tells(s)'
        OBVIOUS
      <4>1. s \in written' \ queue'  BY <3>4
      <4>2. QED  BY <1>1, <4>1 DEF WrittenTell
    <3>6. QED  BY <3>3, <3>5
  <2>3. CASE Restart
    BY <2>3
  <2>4. QED  BY <1>1, <2>1, <2>2, <2>3 DEF ArtifactsNext
<1>2. AInv => Dropped  BY DrainedHoldsTheLiving
<1>3. AInv /\ WrittenTell' /\ [ArtifactsNext]_<<vars, diskVars>>
        => [Dropped /\ (Restart \/ (Kept /\ Told))]_<<vars, diskVars>>
  <2> HIDE DEF Kept, Told, Dropped
  <2>1. QED  BY <1>1, <1>2
<1>4. QED
  BY <1>3, WholeTells, ArtifactsInvariance, PTL DEF ArtifactsSpec, CaptureReachesDisk
===============================================================================
