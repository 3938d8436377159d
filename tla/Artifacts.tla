------------------------------- MODULE Artifacts -------------------------------
(***************************************************************************)
(* What the daemon leaves on disk: the handlers of Daemon, each followed   *)
(* by flushSnapshot for the snapshots it closed, and WriteSession of       *)
(* pkg/fcktls/artifacts.go under a cache root that outlives the daemon.    *)
(* A handler is over when its snapshots are written or given up; writes    *)
(* may fail at any file, and the daemon may be killed and started again at *)
(* any moment, with the same processes still running.                      *)
(*                                                                         *)
(* Of a file only its origin is kept: it is the whole file of the session  *)
(* written last under the directory's name, or something else, an older    *)
(* session's or a write that broke off.  The parser of HTTP is external: a *)
(* stream is taken for a message by its first byte.                        *)
(* What is printed is left out, except for the error of a failed write.    *)
(*                                                                         *)
(* An operator X_Y is a faulty variant of the operator X below it.         *)
(***************************************************************************)
EXTENDS Daemon

CONSTANT HTTPBytes     \* the bytes an HTTP message begins with

ASSUME HTTPBytesAssumption == HTTPBytes \subseteq Bytes

VARIABLES queue,       \* the snapshots the handler has still to flush
          files,       \* per directory, that is per session key, its files
          reported     \* keys whose last write ended in a printed error

diskVars == <<queue, files, reported>>

Files == {"summary.json", "stream-client-to-server.bin",
          "stream-server-to-client.bin", "keys.log", "request.txt", "response.txt"}

Origins == {"none", "own", "stale"}

-------------------------------------------------------------------------------
\* FormatHTTP: the kind and, with it, whether the data was parsed.
FormatHTTP(direction, data) ==
  IF data = <<>> \/ Head(data) \notin HTTPBytes
  THEN "unparsed"
  ELSE IF direction = "client-to-server" THEN "http_request" ELSE "http_response"

When(condition, file) == IF condition THEN <<file>> ELSE <<>>

Plan_RenderedFirst(rec) ==
  LET captured == rec.capture = "capture"
  IN <<"summary.json">>
     \o When(captured /\ FormatHTTP("client-to-server", rec.c2s) = "http_request",
             "request.txt")
     \o When(captured /\ rec.c2s # <<>>, "stream-client-to-server.bin")
     \o When(captured /\ rec.s2c # <<>>, "stream-server-to-client.bin")
     \o When(rec.lines # {}, "keys.log")
     \o When(captured /\ FormatHTTP("server-to-client", rec.s2c) = "http_response",
             "response.txt")

Plan_KeysOfRequests(rec) ==
  LET captured == rec.capture = "capture"
  IN <<"summary.json">>
     \o When(captured /\ rec.c2s # <<>>, "stream-client-to-server.bin")
     \o When(captured /\ rec.s2c # <<>>, "stream-server-to-client.bin")
     \o When(captured /\ rec.c2s # <<>> /\ rec.lines # {}, "keys.log")
     \o When(captured /\ FormatHTTP("client-to-server", rec.c2s) = "http_request",
             "request.txt")
     \o When(captured /\ FormatHTTP("server-to-client", rec.s2c) = "http_response",
             "response.txt")

\* The files WriteSession writes of a record, in its order.
Plan(rec) ==
  LET captured == rec.capture = "capture"
  IN <<"summary.json">>
     \o When(captured /\ rec.c2s # <<>>, "stream-client-to-server.bin")
     \o When(captured /\ rec.s2c # <<>>, "stream-server-to-client.bin")
     \o When(rec.lines # {}, "keys.log")
     \o When(captured /\ FormatHTTP("client-to-server", rec.c2s) = "http_request",
             "request.txt")
     \o When(captured /\ FormatHTTP("server-to-client", rec.s2c) = "http_response",
             "response.txt")

First(plan, n) == {plan[m] : m \in 1..n}

\* A directory after the first n files of a plan; torn is the file whose write
\* broke off, if any.  Nothing that was there before is removed.
WrittenDir(dir, plan, n, torn) ==
  [f \in Files |->
     IF f \in First(plan, n) THEN "own"
     ELSE IF f \in torn \/ (First(plan, n) \cup torn # {} /\ dir[f] = "own") THEN "stale"
     ELSE dir[f]]

-------------------------------------------------------------------------------
ArtifactsInit ==
  /\ Init
  /\ queue = {}
  /\ files = [key \in Keys |-> [f \in Files |-> "none"]]
  /\ reported = {}

\* A case of Run's select: the next one is not taken before this one's
\* snapshots are flushed.
Handle ==
  /\ queue = {}
  /\ phase = "running"
  /\ Next
  /\ queue' = written'
  /\ UNCHANGED <<files, reported>>

\* flushSnapshot of a session: WriteSession succeeds ...
WriteSession(s) ==
  /\ s \in queue
  /\ queue' = queue \ {s}
  /\ files' = [files EXCEPT ![s.key] =
                 WrittenDir(@, Plan(s.rec), Len(Plan(s.rec)), {})]
  /\ reported' = reported \ {s.key}
  /\ UNCHANGED vars

WriteFails_Silently(s) ==
  /\ s \in queue
  /\ queue' = queue \ {s}
  /\ \E n \in 0..(Len(Plan(s.rec)) - 1) :
       files' = [files EXCEPT ![s.key] = WrittenDir(@, Plan(s.rec), n, {})]
  /\ UNCHANGED <<vars, reported>>

\* ... or it returns at the first error, and the record is gone.
WriteFails(s) ==
  /\ s \in queue
  /\ queue' = queue \ {s}
  /\ \E n \in 0..(Len(Plan(s.rec)) - 1) :
       \E torn \in {{}, {Plan(s.rec)[n + 1]}} :
         files' = [files EXCEPT ![s.key] = WrittenDir(@, Plan(s.rec), n, torn)]
  /\ reported' = reported \cup {s.key}
  /\ UNCHANGED vars

\* The daemon is killed, or has returned, and is started again.
Restart ==
  /\ phase' = "running"
  /\ tracked' = [pid \in Pids |-> NoMatch]
  /\ seenTLS' = [pid \in Pids |-> FALSE]
  /\ exited' = [pid \in Pids |-> Alive]
  /\ fdBySession' = {}
  /\ inspected' = {}
  /\ attempts' = [key \in Keys |-> 0]
  /\ sessions' = EmptyStore
  /\ written' = {}
  /\ flushedAt' = 0
  /\ queue' = {}
  /\ UNCHANGED <<files, reported>>

ArtifactsNext ==
  \/ Handle
  \/ \E s \in queue : WriteSession(s) \/ WriteFails(s)
  \/ Restart

ArtifactsSpec == ArtifactsInit /\ [][ArtifactsNext]_<<vars, diskVars>>

-------------------------------------------------------------------------------
\* The types; and what is to be flushed has left the store, so that no later
\* flush writes it again over the directory.
ArtifactsTypeOK ==
  /\ TypeOK
  /\ queue \subseteq written
  /\ \A s \in queue : s.key \notin Live(sessions)
  /\ files \in [Keys -> [Files -> Origins]]
  /\ reported \subseteq Keys

\* Whatever write failed and whenever the daemon was killed, a file of the
\* session written last lies beside that session's summary, and a rendered
\* message beside the stream it was rendered from (the order of WriteSession).
FilesComeInOrder ==
  \A key \in Keys :
    LET own == {f \in Files : files[key][f] = "own"}
    IN /\ own # {} => "summary.json" \in own
       /\ "request.txt" \in own => "stream-client-to-server.bin" \in own
       /\ "response.txt" \in own => "stream-server-to-client.bin" \in own

\* A record that only AppendChunk and failed or key-less inspections have written:
\* no metadata event of the session itself, which names the executable, came.
Unidentified(rec) == rec.exe = ""

\* What a directory without a reported error says of its session: the summary is
\* the session's own; key-log lines lie there exactly if the summary calls the
\* keys available; and each direction's stream exactly if bytes of it were
\* recorded, unless no metadata event of the session was ever handled.  The
\* plaintext of such a session is lost, and no error is reported: its summary gives
\* the number of bytes and no more (PlaintextIsWritten of Daemon is about that).
\* A file left by an older session of the name is not the session's own.
Tells(s) ==
  LET IsOwn(f) == files[s.key][f] = "own"
  IN /\ IsOwn("summary.json")
     /\ IsOwn("keys.log") <=> s.rec.status = "available"
     /\ IsOwn("stream-client-to-server.bin") <=>
          (s.rec.c2s # <<>> /\ ~Unidentified(s.rec))
     /\ IsOwn("stream-server-to-client.bin") <=>
          (s.rec.s2c # <<>> /\ ~Unidentified(s.rec))

\* Once a handler is over, the directories of the sessions it closed tell them,
\* but for those whose write was reported as failed (flushSnapshot, WriteSession,
\* and what Daemon made of the records).
DirectoryTellsSession ==
  queue = {} => \A s \in written : s.key \notin reported => Tells(s)

\* What becomes of what is recorded, step by step.  As long as the daemon goes on,
\* it stays in the store, or all of it goes to the writer in the step that takes
\* it from the store; and the writer is done with it only when the directory
\* tells it, in the sense and with the exception of Tells, or the failure has been
\* reported (the handlers, FinalizeByPID, flushSnapshot, WriteSession).  What a
\* daemon holds when it ends is gone.  If it was killed, or Run returned on
\* ctx.Done or on an error, that can be any session it recorded; if Run returned
\* because its readers had all ended, and its writes were over, only sessions of
\* processes that have not exited (StopWritesSessions of Daemon is about that).
CaptureReachesDisk ==
  [][/\ Restart /\ phase = "drained" /\ queue = {} =>
          \A key \in Live(sessions) : exited[PidOf(key)] = Alive
     /\ \/ Restart
        \/ /\ \A key \in Live(sessions) :
                \/ key \in Live(sessions') /\ Extends(sessions'[key], sessions[key])
                \/ \E s \in queue' : s.key = key /\ Content(s.rec) = Content(sessions[key])
           /\ \A s \in queue \ queue' : s.key \in reported' \/ Tells(s)']_<<vars, diskVars>>
===============================================================================
