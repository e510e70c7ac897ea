--------------------------- MODULE TelemetryUpload ---------------------------
(* The uploader (edge/telemetry_uploader.py) sends the CSV files of recorded *)
(* sessions to the cloud (cloud_backend/telemetry/api.py, storage.py).  The  *)
(* Pi may still be writing the files.  A post can be refused, lost before or *)
(* after the server stored it, or arrive long after the client gave up; the  *)
(* server can die while it stores a batch, the uploader at any moment.       *)
EXTENDS TelemetryStorage, SequencesExt

CONSTANTS Session,        \* the sessions, as --session or --replay found them
          Feeds,          \* the CSV files in the order of _iter_batches
          Diagnostic,     \* the feed the summary is computed from
          BatchSize,      \* --batch-size
          MaxRetries,     \* DEFAULT_TELEMETRY_MAX_RETRIES
          Mode,           \* flags: records of ingest (no --no-ingest), finalize (no --no-finalize)
          Unreadable,     \* rows a power cut may have damaged, one at most in a session
          MaxRows,        \* bound: MaxRows[f], rows of one file
          MaxRuns,        \* bound: invocations of the uploader
          MaxFaults       \* bound: answers lost, posts given up, deaths of the server, kills

Feed == ToSet(Feeds)
Event == UNION {[feed : {f}, row : 1..MaxRows[f]] : f \in Feed}
None == [kind |-> "none"]

ASSUME UploadAssumption ==
  /\ IsFiniteSet(Session)
  /\ Feeds \in Seq(Feed) /\ IsInjective(Feeds) /\ Diagnostic \in Feed
  /\ {BatchSize, MaxRetries} \subseteq Nat \ {0}
  /\ Mode \subseteq [ingest : BOOLEAN, finalize : BOOLEAN]
  /\ MaxRows \in [Feed -> Nat \ {0}] /\ {MaxRuns, MaxFaults} \subseteq Nat
  /\ Unreadable \subseteq Event /\ Garbage \notin Event
  /\ Absent \notin 0..MaxRows[Diagnostic] /\ Absent # "metadata"

VARIABLES
  rows,     \* rows[s][f]: how many rows the file has
  bad,      \* bad[s]: rows the csv reader cannot read
  cli,      \* the uploader process
  post,     \* the request it waits for
  late,     \* requests under way whose client gave up
  dir,      \* dir[s]: the session's directory in the cloud
  runs, faults, tears,
  due,      \* history: what the files held when the upload of a session began
  acked     \* history: events of acknowledged batches

vars == <<rows, bad, cli, post, late, dir, runs, faults, tears, due, acked>>

(* `code`: the exit code of the last invocation that was not killed. *)
NotStarted == [pc |-> "idle", todo |-> <<>>, mode |-> [ingest |-> TRUE, finalize |-> TRUE],
               failures |-> 0, feed |-> 1, from |-> 0, code |-> 1]

Init ==
  /\ rows \in [Session -> {[f \in Feed |-> IF f = Diagnostic THEN 1 ELSE MaxRows[f]]}]
  /\ bad \in [Session -> {{}} \cup {{e} : e \in Unreadable}]
  /\ cli = NotStarted
  /\ post = None
  /\ late = {}
  /\ dir = [s \in Session |-> NoSession]
  /\ runs = 0
  /\ faults = 0
  /\ tears = [s \in Session |-> 0]
  /\ due = [s \in Session |-> {}]
  /\ acked = [s \in Session |-> {}]

-----------------------------------------------------------------------------
(* What the uploader reads from the files. *)

Present(s) == {e \in Event : e.row <= rows[s][e.feed]}

Position(e) == CHOOSE k \in DOMAIN Feeds : Feeds[k] = e.feed

(* The rows from a position on: the rest of that file, then the files after it. *)
Rest(s, f, from) ==
  {e \in Present(s) : Position(e) > f \/ (Position(e) = f /\ e.row > from)}

Precedes(d, e) == Position(d) < Position(e) \/ (d.feed = e.feed /\ d.row < e.row)

(* An event's number among the rest, and the first `size` of them in order.     *)
Number(rest, e) == Cardinality({d \in rest : d = e \/ Precedes(d, e)})

FirstOf(rest, size) == [i \in 1..size |-> CHOOSE e \in rest : Number(rest, e) = i]

Smaller(m, n) == IF m < n THEN m ELSE n

(* Mutant: a last batch that is not full is never yielded. *)
iter_batchesFullOnly(s, f, from) ==
  LET rest  == Rest(s, f, from)
      batch == FirstOf(rest, IF Cardinality(rest) < BatchSize THEN 0 ELSE BatchSize)
  IN  [events |-> batch,
       more   |-> Len(batch) = BatchSize,
       raises |-> \E e \in ToSet(batch) : e \in bad[s]]

(* One step of _iter_batches: the next batch, whether the generator goes on     *)
(* after it, and whether reading a row raised before the batch was full.        *)
iter_batches(s, f, from) ==
  LET rest  == Rest(s, f, from)
      batch == FirstOf(rest, Smaller(Cardinality(rest), BatchSize))
  IN  [events |-> batch,
       more   |-> Len(batch) = BatchSize,
       raises |-> \E e \in ToSet(batch) : e \in bad[s]]

(* build_session_summary counts the rows of the diagnostics file. *)
build_session_summary(s) == rows[s][Diagnostic]

SummaryRaises(s) == \E e \in bad[s] \cap Present(s) : e.feed = Diagnostic

-----------------------------------------------------------------------------
(* The server: one handler at a time, storing without an await. *)

Store(d, req) ==
  CASE req.kind = "start"  -> [d EXCEPT ![req.s] = record_session_start(@, "metadata")]
    [] req.kind = "ingest" -> [d EXCEPT ![req.s] = append_events(@, req.events)]
    [] req.kind = "end"    -> [d EXCEPT ![req.s] = record_session_end(@, req.frames)]

(* A request whose client gave up reaches the handler all the same. *)
Late ==
  \E req \in late :
    /\ dir' = Store(dir, req)
    /\ late' = late \ {req}
    /\ UNCHANGED <<rows, bad, cli, post, runs, faults, tears, due, acked>>

-----------------------------------------------------------------------------
(* The uploader.  `failures` adds up what run() and main()      *)
(* count; main() only asks whether it is zero.                                  *)

Posting == post # None

Post(kind, events, frames) ==
  post' = [kind |-> kind, s |-> Head(cli.todo), events |-> events, frames |-> frames,
           attempt |-> 1]

(* main(): the next session, or the exit code. *)
Invoke ==
  /\ cli.pc = "idle" /\ runs < MaxRuns
  /\ \E mode \in Mode :
       cli' = [NotStarted EXCEPT !.pc = "session", !.todo = SetToSeq(Session), !.mode = mode]
  /\ runs' = runs + 1
  /\ due' = [s \in Session |-> {}]
  /\ UNCHANGED <<rows, bad, post, late, dir, faults, tears, acked>>

S == Head(cli.todo)

session_start ==
  /\ cli.pc = "session" /\ cli.todo # <<>>
  /\ cli' = [cli EXCEPT !.pc = "started", !.feed = 1, !.from = 0]
  /\ Post("start", <<>>, 0)
  /\ due' = [due EXCEPT ![S] = Present(S)]
  /\ UNCHANGED <<rows, bad, late, dir, runs, faults, tears, acked>>

Exit ==
  /\ cli.pc = "session" /\ cli.todo = <<>>
  /\ cli' = [cli EXCEPT !.pc = "idle", !.code = IF cli.failures = 0 THEN 0 ELSE 1]
  /\ UNCHANGED <<rows, bad, post, late, dir, runs, faults, tears, due, acked>>

(* The exception is caught in main(), which goes on with the next session. *)
NextSession(failures) ==
  cli' = [cli EXCEPT !.pc = "session", !.todo = Tail(@), !.failures = @ + failures]

ingest_batch ==
  /\ cli.pc = "ingest" /\ ~Posting
  /\ LET b == iter_batches(S, cli.feed, cli.from)
     IN  \/ /\ b.raises
            /\ NextSession(1)
            /\ UNCHANGED post
         \/ /\ ~b.raises /\ b.events # <<>>
            /\ Post("ingest", b.events, 0)
            /\ cli' = IF b.more
                      THEN [cli EXCEPT !.feed = Position(Last(b.events)), !.from = Last(b.events).row]
                      ELSE [cli EXCEPT !.pc = "finalize"]
         \/ /\ ~b.raises /\ b.events = <<>>
            /\ cli' = [cli EXCEPT !.pc = "finalize"]
            /\ UNCHANGED post
  /\ UNCHANGED <<rows, bad, late, dir, runs, faults, tears, due, acked>>

session_end ==
  /\ cli.pc = "finalize" /\ ~Posting
  /\ \/ /\ ~cli.mode.finalize
        /\ NextSession(0)
        /\ UNCHANGED post
     \/ /\ cli.mode.finalize /\ SummaryRaises(S)
        /\ NextSession(1)
        /\ UNCHANGED post
     \/ /\ cli.mode.finalize /\ ~SummaryRaises(S)
        /\ Post("end", <<>>, build_session_summary(S))
        /\ cli' = [cli EXCEPT !.pc = "ended"]
  /\ UNCHANGED <<rows, bad, late, dir, runs, faults, tears, due, acked>>

(* What run() does once _post returned. *)
Returned(ok) ==
  LET failed == IF ok THEN 0 ELSE 1
  IN  /\ post' = None
      /\ CASE cli.pc = "started" ->
                cli' = [cli EXCEPT !.pc = IF cli.mode.ingest THEN "ingest" ELSE "finalize",
                                   !.failures = @ + failed]
           [] cli.pc \in {"ingest", "finalize"} -> cli' = [cli EXCEPT !.failures = @ + failed]
           [] cli.pc = "ended" -> NextSession(failed)
      /\ acked' = IF ok /\ post.kind = "ingest"
                  THEN [acked EXCEPT ![post.s] = @ \cup ToSet(post.events)] ELSE acked

(* The exception handler of _post: sleep, then again, at most MaxRetries times. *)
Retry ==
  IF post.attempt < MaxRetries
  THEN post' = [post EXCEPT !.attempt = @ + 1] /\ UNCHANGED <<cli, acked>>
  ELSE Returned(FALSE)

Accepted ==
  /\ Posting
  /\ dir' = Store(dir, post)
  /\ Returned(TRUE)
  /\ UNCHANGED <<rows, bad, late, runs, faults, tears, due>>

(* 4xx: the server knows no such route. *)
Rejected ==
  /\ Posting
  /\ Returned(FALSE)
  /\ UNCHANGED <<rows, bad, late, dir, runs, faults, tears, due>>

Fault == faults < MaxFaults /\ faults' = faults + 1

(* No connection, or 5xx before anything was stored. *)
Unreachable ==
  /\ Posting
  /\ Retry
  /\ UNCHANGED <<rows, bad, late, dir, runs, faults, tears, due>>

(* Stored, but the client's timeout was shorter. *)
AnswerLost ==
  /\ Posting /\ Fault
  /\ dir' = Store(dir, post)
  /\ Retry
  /\ UNCHANGED <<rows, bad, late, runs, tears, due>>

GivenUp ==
  /\ Posting /\ Fault
  /\ late' = late \cup {[post EXCEPT !.attempt = 1]}
  /\ Retry
  /\ UNCHANGED <<rows, bad, dir, runs, tears, due>>

(* The server dies in the handler and comes back. *)
ServerDies ==
  /\ Posting /\ post.kind = "ingest" /\ Fault
  /\ \E n \in 0..(Len(post.events) - 1), remnant \in Remnants :
       /\ dir' = [dir EXCEPT ![post.s] = TornAppend(@, post.events, n, remnant)]
       /\ tears' = [tears EXCEPT ![post.s] = @ + IF remnant = "nothing" THEN 0 ELSE 1]
  /\ Retry
  /\ UNCHANGED <<rows, bad, late, runs, due>>

(* The operator stops the uploader; what it waited for may still be stored. *)
Kill ==
  /\ cli.pc # "idle" /\ Fault
  /\ cli' = NotStarted
  /\ post' = None
  /\ \/ UNCHANGED late
     \/ Posting /\ late' = late \cup {[post EXCEPT !.attempt = 1]}
  /\ UNCHANGED <<rows, bad, dir, runs, tears, due, acked>>

(* The frame loop appends a row to one of the session's files. *)
Record ==
  \E s \in Session, f \in Feed :
    /\ rows[s][f] < MaxRows[f]
    /\ rows' = [rows EXCEPT ![s][f] = @ + 1]
    /\ UNCHANGED <<bad, cli, post, late, dir, runs, faults, tears, due, acked>>

Uploader == session_start \/ Exit \/ ingest_batch \/ session_end
Outcome == Accepted \/ Rejected \/ Unreachable

Next ==
  \/ Invoke \/ Uploader \/ Outcome \/ AnswerLost \/ GivenUp \/ ServerDies \/ Late \/ Kill \/ Record

Spec == Init /\ [][Next]_vars

(* The process runs, and requests.post returns or raises within its timeout.    *)
(* Nothing is assumed of the server.                                            *)
FairSpec == Spec /\ WF_vars(Uploader) /\ WF_vars(Outcome)

-----------------------------------------------------------------------------
Request ==
  [kind : {"start", "ingest", "end"}, s : Session, events : Seq(Event),
   frames : 0..MaxRows[Diagnostic], attempt : 1..MaxRetries]

TypeOK ==
  /\ rows \in [Session -> [Feed -> Nat]] /\ \A s \in Session : Present(s) \subseteq Event
  /\ bad \in [Session -> SUBSET Event]
  /\ cli.pc \in {"idle", "session", "started", "ingest", "finalize", "ended"} /\ cli.code \in {0, 1}
  /\ Posting => post \in Request /\ Len(post.events) <= BatchSize
  /\ late \subseteq Request
  /\ \A s \in Session : /\ dir[s].lines \in Seq(Event \cup {Garbage})
                        /\ dir[s].summary \in {Absent} \cup 0..MaxRows[Diagnostic]
                        /\ dir[s].metadata \in {Absent, "metadata"}
  /\ runs \in 0..MaxRuns /\ faults \in 0..MaxFaults /\ tears \in [Session -> 0..MaxFaults]
  /\ due \in [Session -> SUBSET Event] /\ acked \in [Session -> SUBSET Event]

(* An acknowledged event can be read back, whatever was retried, given up or    *)
(* killed before and after; each death of the server in the middle of a batch   *)
(* costs one at most, the one that is written into its unfinished line.         *)
AckedReadable ==
  \A s \in Session : Cardinality(acked[s] \ Readable(dir[s])) <= tears[s]

(* Exit code 0 means the cloud has it all: the metadata, every row that was in  *)
(* the files when the upload of its session began, and a summary.               *)
Complete(s) ==
  /\ dir[s].metadata # Absent
  /\ cli.mode.ingest => due[s] \subseteq acked[s]
  /\ cli.mode.finalize => dir[s].summary # Absent

ExitZeroIsComplete ==
  cli.pc = "idle" /\ cli.code = 0 => \A s \in Session : Complete(s)

(* Duplicates come from sending again only: no event is stored more often than  *)
(* it was sent, MaxRetries times in each run.                                   *)
Copies(s, e) == Cardinality({i \in DOMAIN dir[s].lines : dir[s].lines[i] = e})

DuplicatesBounded ==
  \A s \in Session : \A e \in Readable(dir[s]) : Copies(s, e) <= MaxRetries * runs

(* The summary an uploader gets acknowledged counts every diagnostics row that  *)
(* is stored by then, although the session is still being recorded and batches  *)
(* of earlier runs come in late.                                                *)
SummaryCoversEvents ==
  [][cli.pc = "ended" /\ cli'.pc = "session" /\ cli'.failures = cli.failures
       => \A e \in Readable(dir[post.s]) : e.feed = Diagnostic => e.row <= dir'[post.s].summary]_vars

(* The upload of the sessions ends, with a server that is never there, too. *)
UploadEnds == []<>(cli.pc = "idle")

(* The upload of a session delivers: it ends, what it reports as delivered is   *)
(* there, and all the retries leave is a bounded number of duplicates.          *)
UploadDelivers ==
  /\ [](TypeOK /\ AckedReadable /\ ExitZeroIsComplete /\ DuplicatesBounded)
  /\ SummaryCoversEvents /\ UploadEnds
=============================================================================
