------------------------------ MODULE Reports ------------------------------
(***************************************************************************)
(* The reads of GET /attendance/finalized (and of the reports built from   *)
(* it) while recognitions, presence events and the lecture lifecycle go on *)
(* (finalization_service.py over state_service.py, decision_service.py,    *)
(* eligibility_service.py, evidence_service.py).                           *)
(*                                                                         *)
(* A query is one action per await: each database read sees what is        *)
(* committed at that time, each log row is correlated in a step of its own *)
(* with presence sessions listed before, and all of it is done twice.  The *)
(* listed sessions are the timeline's own objects: what events do to them  *)
(* between two rows, the query sees.  What it computes for a finalized     *)
(* lecture is frozen by the first query to get there, in memory, between   *)
(* two awaits.                                                             *)
(***************************************************************************)
EXTENDS DecisionPipeline, PresenceTimeline, Sequences, SequencesExt

CONSTANTS
  Lecture, Student,
  Scheduled,      \* [Lecture -> scheduled length]
  Query,          \* slots for queries in flight
  Request,        \* slots for lifecycle requests in flight
  Limit,          \* how many log rows a query fetches
  All,            \* the scope of a query that names no lecture
  NotFrozen, NoRequest,
  Skew,           \* BOUND on how far laptops' clocks are off
  Lag,            \* how far each surveillance laptop's clock is behind the
                  \* cloud's; less than 0 where it is ahead
  EdgeLag,        \* the same of the laptop that recognises
  MaxTime,        \* BOUND on the clock
  MaxRows,        \* BOUND on recognition log rows
  MaxAppearances, \* BOUND on appearances, counted by their times
  MaxRestarts     \* BOUND on restarts of the cloud

State == {"confirmed", "insufficient_presence", "manual_review", "candidate",
          "expired"}
Standing == [student : Student, state : State]

ASSUME ReportsAssumption ==
  /\ IsFiniteSet(Lecture)
  /\ RoomCameras \in [Lecture -> SUBSET Camera]
  /\ Scheduled \in [Lecture -> Nat]
  /\ NoLecture \notin Lecture /\ All \notin Lecture
  /\ \A standings \in SUBSET Standing : standings # NotFrozen
  /\ Limit \in Nat \ {0}
  /\ Skew \in Nat
  /\ Lag \in [Camera -> -Skew .. Skew] /\ EdgeLag \in -Skew .. Skew
  /\ MaxTime \in Nat /\ MaxRows \in Nat
  /\ MaxAppearances \in Nat /\ MaxRestarts \in Nat

VARIABLES
  now,
  sessions,   \* the presence timeline's session table
  logs,       \* recognition_event_logs, oldest first
  status,     \* lectures.status
  began,      \* lectures.actual_start
  ended,      \* lectures.actual_end, -1 for NULL
  op,         \* lifecycle requests that are checked and not yet committed
  over,       \* history: lectures that were ever finalized
  frozen,     \* AttendanceFinalizationStore._frozen
  query,      \* the queries in flight, and their last answers
  appeared,   \* history: who appeared on which camera when
  restarts

vars == <<now, sessions, logs, status, began, ended, op, over, frozen, query,
          appeared, restarts>>
lectureVars == <<status, began, ended, op, over>>

Row == [lecture : Lecture \cup {NoLecture}, student : Student, at : Int]

NoSpans == [k \in SessionKey |-> NoSession]

\* scope, places in the log of the fetched rows still to be correlated, the
\* listed sessions and those of them the timeline still has, the groups with
\* their eligibility, the derived states, the lectures still to be read and
\* those found finalized; answer is what the last query of the slot returned.
\* The last three fields are history: which run of the cloud the query began
\* in, what was logged then and which finalized lectures were frozen then.
IdleQuery ==
  [pc |-> "idle", scope |-> All, rows |-> {}, spans |-> NoSpans, live |-> {},
   evidence |-> {}, verdicts |-> {}, states |-> {}, todo |-> {}, final |-> {},
   answer |-> {}, epoch |-> 0, logged |-> {}, held |-> {}]

Init ==
  /\ now = 0
  /\ sessions = NoSpans
  /\ logs = <<>>
  /\ status = [l \in Lecture |-> "scheduled"]
  /\ began = [l \in Lecture |-> 0]
  /\ ended = [l \in Lecture |-> -1]
  /\ op = [r \in Request |-> NoRequest]
  /\ over = {}
  /\ frozen = [l \in Lecture |-> NotFrozen]
  /\ query = [q \in Query |-> IdleQuery]
  /\ appeared = {}
  /\ restarts = 0

-----------------------------------------------------------------------------
(* One query.                                                              *)

Step(q, next) ==
  /\ query' = [query EXCEPT ![q] = next]
  /\ UNCHANGED <<now, logs, lectureVars, appeared, restarts>>

Begin(q, scope) ==
  /\ query[q].pc = "idle"
  /\ Step(q, [IdleQuery EXCEPT !.pc = "rows", !.scope = scope, !.epoch = restarts,
                !.logged = {Group(row) : row \in Range(logs)},
                !.held = {l \in Lecture : /\ frozen[l] # NotFrozen
                                          /\ status[l] = "finalized"}])
  /\ UNCHANGED <<sessions, frozen>>

InScope(scope, row) == scope \in {All, row.lecture}

\* The last Limit of some places in the log.
Newest(places) == {i \in places : Cardinality({j \in places : j > i}) < Limit}

\* fetch_recognition_logs_for_evidence: the newest rows of the scope.
Fetched(scope) == Newest({i \in DOMAIN logs : InScope(scope, logs[i])})

FetchRows(q) ==
  /\ query[q].pc = "rows"
  /\ Step(q, [query[q] EXCEPT !.pc = "list1", !.rows = Fetched(query[q].scope)])
  /\ UNCHANGED <<sessions, frozen>>

\* A query while the sessions become those of a table: the objects it holds
\* change with them, except for those the timeline has dropped.
Watching(x, table, gone) ==
  LET live == x.live \ gone
  IN  [x EXCEPT !.live = live,
         !.spans = [k \in SessionKey |-> IF k \in live THEN table[k] ELSE @[k]]]

\* list_sessions, which drops the stale ones for good.  Without rows to
\* correlate them with, what it returned plays no part.
ListSessions(q) ==
  LET table == Expire(sessions, now)
      active == IF query[q].rows = {} THEN {}
                ELSE {k \in SessionKey : table[k].status = "active"}
      listed == [query[q] EXCEPT !.live = active,
                   !.spans = [k \in SessionKey |->
                                IF k \in active THEN table[k] ELSE NoSession],
                   !.pc = IF query[q].pc = "list1" THEN "evidence1" ELSE "evidence2"]
  IN  /\ query[q].pc \in {"list1", "list2"}
      /\ sessions' = table
      /\ query' = [p \in Query |-> IF p = q THEN listed
                     ELSE Watching(query[p], table, Stale(sessions, now))]
      /\ UNCHANGED <<now, logs, lectureVars, frozen, appeared, restarts>>

\* The sessions a query holds, as they are now.
Spans(q) ==
  {[camera |-> k[1], first |-> query[q].spans[k].first,
    last |-> query[q].spans[k].last, status |-> query[q].spans[k].status] :
     k \in {j \in SessionKey : query[q].spans[j].status # "none"}}

\* The next row, the newest left, is correlated with the sessions.
Correlate(q) ==
  /\ query[q].pc \in {"evidence1", "evidence2"}
  /\ query[q].rows # {}
  /\ LET next == Max(query[q].rows)
         rows == query[q].rows \ {next}
     IN  Step(q, [query[q] EXCEPT !.rows = rows,
                    !.evidence = @ \cup {Evidence(logs[next], Spans(q))},
                    !.spans = IF rows = {} THEN NoSpans ELSE @,
                    !.live = IF rows = {} THEN {} ELSE @])
  /\ UNCHANGED <<sessions, frozen>>

\* Mutant: only students with presence evidence are grouped.
GroupedObserved(evidence) == {Group(e) : e \in Observed(evidence)}

\* The students and lectures the evidence is about.
Grouped(evidence) == {Group(e) : e \in evidence}

\* Those of them that have no eligibility yet.
Undecided(x) == Grouped(x.evidence) \ {v.group : v \in x.verdicts}

\* lecture_duration_sec; no lecture counts as no time.
Length(l) ==
  IF l = NoLecture THEN 0
  ELSE IF ended[l] >= 0 THEN Max({0, ended[l] - began[l]}) ELSE Scheduled[l]

\* _decide_for_student, which reads the lecture's row.
ReadLength(q, g) ==
  /\ query[q].pc = "evidence1" /\ query[q].rows = {}
  /\ g \in Undecided(query[q])
  /\ LET own == {e \in query[q].evidence : Group(e) = g}
     IN  Step(q, [query[q] EXCEPT !.verdicts = @ \cup
                    {[group |-> g, eligibility |-> Eligibility(own, Length(g[2]))]}])
  /\ UNCHANGED <<sessions, frozen>>

\* The evidence is built again, from new rows.
FetchRowsAgain(q) ==
  /\ query[q].pc = "evidence1" /\ query[q].rows = {}
  /\ Undecided(query[q]) = {}
  /\ Step(q, [query[q] EXCEPT !.pc = "list2", !.evidence = {},
                !.rows = Fetched(query[q].scope)])
  /\ UNCHANGED <<sessions, frozen>>

\* The second evidence is for the confidence only; with it the decisions and
\* the derived states follow.
Decide(q) ==
  /\ query[q].pc = "evidence2" /\ query[q].rows = {}
  /\ LET states == {[lecture |-> v.group[2], student |-> v.group[1],
                     state |-> DerivedState(Decision(v.eligibility,
                                 BestConfidence(v.group, query[q].evidence)))] :
                       v \in query[q].verdicts}
     IN  Step(q, [query[q] EXCEPT !.pc = "flags", !.evidence = {}, !.verdicts = {},
                    !.states = states,
                    !.todo = IF query[q].scope # All THEN {query[q].scope}
                             ELSE {s.lecture : s \in states} \ {NoLecture}])
  /\ UNCHANGED <<sessions, frozen>>

\* Mutant: a closed window ends a lecture, too.
EndedStatusClosed == {"active_window_closed", "finalized"}

\* _FINALIZED_LECTURE_STATUSES.
EndedStatus == {"finalized"}

\* _lecture_finalized_flags, one lecture at a time.
ReadFlag(q, l) ==
  /\ query[q].pc = "flags"
  /\ l \in query[q].todo
  /\ Step(q, [query[q] EXCEPT !.todo = @ \ {l},
                !.final = IF status[l] \in EndedStatus THEN @ \cup {l} ELSE @])
  /\ UNCHANGED <<sessions, frozen>>

StandingsOf(q, l) ==
  {[student |-> s.student, state |-> s.state] :
     s \in {t \in query[q].states : t.lecture = l}}

\* Mutant: the query's own states, whatever was frozen before.
SnapshotOwn(q, l) ==
  {[s EXCEPT !.state = Closed(@)] : s \in StandingsOf(q, l)}

\* Mutant: late students are added to what is frozen.
SnapshotMerged(q, l) ==
  (IF frozen[l] # NotFrozen THEN frozen[l] ELSE {})
    \cup {[s EXCEPT !.state = Closed(@)] : s \in StandingsOf(q, l)}

\* What a query returns for a finalized lecture: the frozen states, or its
\* own, closed, if it is the first.
Snapshot(q, l) ==
  IF frozen[l] # NotFrozen THEN frozen[l]
  ELSE {[s EXCEPT !.state = Closed(@)] : s \in StandingsOf(q, l)}

\* The finalized lectures among the groups of the query's states.
GroupsFinal(q) == {l \in query[q].final : StandingsOf(q, l) # {}}

\* The rest of build_records, which awaits nothing: freeze what is final and
\* not frozen yet, answer.
Answer(q) ==
  /\ query[q].pc = "flags" /\ query[q].todo = {}
  /\ LET final == GroupsFinal(q)
         live == {s \in query[q].states : s.lecture \notin final}
     IN  /\ frozen' = [l \in Lecture |-> IF l \in final THEN Snapshot(q, l) ELSE frozen[l]]
         /\ Step(q, [query[q] EXCEPT !.pc = "idle", !.states = {}, !.final = {},
              !.answer = {[lecture |-> l, final |-> TRUE, standings |-> Snapshot(q, l)] :
                            l \in final}
                   \cup {[lecture |-> l, final |-> FALSE, standings |-> StandingsOf(q, l)] :
                            l \in {s.lecture : s \in live}}])
  /\ UNCHANGED sessions

\* Mutant: only finalized lectures are counted.
StudentReportFinal(answer, who) ==
  LET own == {a \in answer : \E s \in a.standings : s.student = who}
      confirmed == {a \in own : [student |-> who, state |-> "confirmed"] \in a.standings}
  IN  [lectures |-> Cardinality({a \in own : a.final}), confirmed |-> Cardinality(confirmed)]

\* _summarize_student, of a query for all lectures: records that belong to no
\* lecture count as one when there are no others.
StudentReport(answer, who) ==
  LET own == {a \in answer : \E s \in a.standings : s.student = who}
      confirmed == {a \in own : [student |-> who, state |-> "confirmed"] \in a.standings}
      lectures == {a.lecture : a \in own} \ {NoLecture}
  IN  [lectures |-> IF own # {} THEN Max({1, Cardinality(lectures)}) ELSE 0,
       confirmed |-> Cardinality(confirmed)]

-----------------------------------------------------------------------------
(* What goes on meanwhile.                                                 *)

\* The ingestor commits a log row, of an open lecture or of none.  A request
\* that found the window open may commit after it was closed.
Recognise(l, s) ==
  /\ Len(logs) < MaxRows
  /\ l \in Lecture => status[l] # "scheduled"
  /\ logs' = Append(logs, [lecture |-> l, student |-> s, at |-> now - EdgeLag])
  /\ UNCHANGED <<now, sessions, lectureVars, frozen, query, appeared, restarts>>

\* A presence event is ingested, with its laptop's time.  An appearance puts
\* a new session in the place of the old one.
PresenceEvent(c, t, kind) ==
  LET ts == now - Lag[c]
      table == OnEvent(sessions, [camera |-> c, track |-> t, kind |-> kind, ts |-> ts])
      gone == Stale(sessions, ts) \cup (IF kind = "appeared" THEN {<<c, t>>} ELSE {})
  IN  /\ kind = "appeared" => Cardinality(appeared) < MaxAppearances
      /\ sessions' = table
      /\ query' = [q \in Query |-> Watching(query[q], table, gone)]
      /\ appeared' = IF kind = "appeared" THEN appeared \cup {<<c, ts>>} ELSE appeared
      /\ UNCHANGED <<now, logs, lectureVars, frozen, restarts>>

\* start, close and finalize check the status they load and take the time;
\* overlapping requests may all find the same status.
BeginOp(r, l, action, required) ==
  /\ op[r] = NoRequest
  /\ status[l] = required
  /\ op' = [op EXCEPT ![r] = [action |-> action, lecture |-> l, at |-> now]]
  /\ UNCHANGED <<now, sessions, logs, status, began, ended, over, frozen, query,
                 appeared, restarts>>

BeginStart(r, l)    == BeginOp(r, l, "start", "scheduled")
BeginClose(r, l)    == BeginOp(r, l, "close", "active_window_open")
BeginFinalize(r, l) == BeginOp(r, l, "finalize", "active_window_closed")

\* The write of a request is unconditional: whatever the status has become.
CommitOp(r, action) ==
  /\ op[r] # NoRequest /\ op[r].action = action
  /\ op' = [op EXCEPT ![r] = NoRequest]
  /\ UNCHANGED <<now, sessions, logs, frozen, appeared, restarts>>

\* A lecture that leaves the finalized status: no query can count on it.
Reopened(l) == query' = [q \in Query |-> [query[q] EXCEPT !.held = @ \ {l}]]

\* The start is stamped after the attendance records were inserted.
CommitStart(r) ==
  /\ CommitOp(r, "start")
  /\ status' = [status EXCEPT ![op[r].lecture] = "active_window_open"]
  /\ \E t \in op[r].at .. now : began' = [began EXCEPT ![op[r].lecture] = t]
  /\ Reopened(op[r].lecture)
  /\ UNCHANGED <<ended, over>>

CommitClose(r) ==
  /\ CommitOp(r, "close")
  /\ status' = [status EXCEPT ![op[r].lecture] = "active_window_closed"]
  /\ ended' = [ended EXCEPT ![op[r].lecture] = op[r].at]
  /\ Reopened(op[r].lecture)
  /\ UNCHANGED <<began, over>>

CommitFinalize(r) ==
  /\ CommitOp(r, "finalize")
  /\ status' = [status EXCEPT ![op[r].lecture] = "finalized"]
  /\ over' = over \cup {op[r].lecture}
  /\ UNCHANGED <<began, ended, query>>

\* The database refuses, as it does to a second start that inserts the same
\* attendance records.
AbortOp(r) ==
  /\ op[r] # NoRequest
  /\ op' = [op EXCEPT ![r] = NoRequest]
  /\ UNCHANGED <<now, sessions, logs, status, began, ended, over, frozen, query,
                 appeared, restarts>>

\* The cloud restarts: what is in memory is gone, and so are the requests in
\* flight.  Those who have an answer keep it.
Restart ==
  /\ restarts < MaxRestarts
  /\ restarts' = restarts + 1
  /\ sessions' = NoSpans
  /\ frozen' = [l \in Lecture |-> NotFrozen]
  /\ op' = [r \in Request |-> NoRequest]
  /\ query' = [q \in Query |->
       IF query[q].pc # "idle" THEN IdleQuery
       ELSE [IdleQuery EXCEPT !.answer = query[q].answer, !.epoch = query[q].epoch]]
  /\ UNCHANGED <<now, logs, status, began, ended, over, appeared>>

Tick ==
  /\ now < MaxTime
  /\ now' = now + 1
  /\ UNCHANGED <<sessions, logs, lectureVars, frozen, query, appeared, restarts>>

Serve(q) ==
  \/ \E scope \in Lecture \cup {All} : Begin(q, scope)
  \/ FetchRows(q)
  \/ ListSessions(q)
  \/ Correlate(q)
  \/ \E g \in Student \X (Lecture \cup {NoLecture}) : ReadLength(q, g)
  \/ FetchRowsAgain(q)
  \/ Decide(q)
  \/ \E l \in Lecture : ReadFlag(q, l)
  \/ Answer(q)

Lifecycle(r) ==
  \/ \E l \in Lecture : BeginStart(r, l) \/ BeginClose(r, l) \/ BeginFinalize(r, l)
  \/ CommitStart(r)
  \/ CommitClose(r)
  \/ CommitFinalize(r)
  \/ AbortOp(r)

Next ==
  \/ \E q \in Query : Serve(q)
  \/ \E l \in Lecture \cup {NoLecture}, s \in Student : Recognise(l, s)
  \/ \E c \in Camera, t \in Track : \E kind \in {"appeared", "disappeared"} :
       PresenceEvent(c, t, kind)
  \/ \E c \in Camera : PresenceEvent(c, 0, "heartbeat")
  \/ \E r \in Request : Lifecycle(r)
  \/ Restart
  \/ Tick

Spec == Init /\ [][Next]_vars

-----------------------------------------------------------------------------
(* Properties.                                                             *)

Entry == [lecture : Lecture \cup {NoLecture}, final : BOOLEAN,
          standings : SUBSET Standing]

\* The tables, the store and the answers keep their types.
TypeOK ==
  /\ now \in Nat
  /\ sessions \in [SessionKey -> Session]
  /\ logs \in Seq(Row)
  /\ status \in [Lecture -> {"scheduled", "active_window_open",
                             "active_window_closed", "finalized"}]
  /\ began \in [Lecture -> Nat]
  /\ ended \in [Lecture -> Nat \cup {-1}]
  /\ \A l \in Lecture : frozen[l] = NotFrozen \/ frozen[l] \in SUBSET Standing
  /\ over \in SUBSET Lecture
  /\ \A q \in Query : \A a \in query[q].answer :
       /\ a.lecture \in Lecture \cup {NoLecture}
       /\ a.final \in BOOLEAN
       /\ a.standings \in (SUBSET Standing) \ {{}}
  /\ restarts \in Nat

\* What is frozen stays as it is until the cloud restarts, however many
\* queries compute the same lecture at once (finalization_service.py:50-56:
\* the store is read again after the last await).
FrozenOnce ==
  [][\A l \in Lecture : frozen[l] # NotFrozen =>
       frozen'[l] = frozen[l] \/ restarts' # restarts]_vars

\* Only lectures whose record keeping is over are frozen: a query never
\* freezes what a lecture looks like that was never finalized
\* (finalization_service.py:19-21), although it reads the statuses one by one
\* and freezes some steps later, and overlapping lifecycle requests overwrite
\* one another.
FrozenIsFinal == \A l \in Lecture : frozen[l] # NotFrozen => l \in over

Answered(q) == query[q].pc = "idle"

\* Since the cloud last started, nobody has been told anything else about a
\* finalized lecture than what is frozen, not even the slower one of two
\* queries that both found it not yet frozen.
AnswersFrozen ==
  \A q \in Query : query[q].epoch = restarts =>
    \A a \in query[q].answer : a.final => frozen[a.lecture] = a.standings

\* The final reports of lecture l that the slot still has.
FinalReports(q, l) == {a \in query[q].answer : a.final /\ a.lecture = l}
Students(a) == {s.student : s \in a.standings}

\* Two final reports of one lecture agree if they come from the same run of
\* the cloud.  One from a later run may judge the students differently, of
\* other sessions and more rows, but it leaves nobody out as long as the
\* fetch limit is not reached.
ReportsAgree ==
  \A p, q \in Query, l \in Lecture :
    \A a \in FinalReports(p, l), b \in FinalReports(q, l) :
      /\ query[p].epoch = query[q].epoch => a.standings = b.standings
      /\ query[p].epoch < query[q].epoch /\ Len(logs) <= Limit =>
           Students(a) \subseteq Students(b)

\* A query for one frozen lecture that stays finalized is always answered with
\* what is frozen, although it goes through all the log rows and presence
\* sessions first and those have changed.
FrozenIsServed ==
  \A q \in Query : Answered(q) =>
    \A l \in query[q].held : query[q].scope = l =>
      [lecture |-> l, final |-> TRUE, standings |-> frozen[l]] \in query[q].answer

\* A finalized lecture has one report while the cloud runs: whoever asks is
\* told what is frozen, by every query and from then on, and what is told
\* after a restart is about the same students at least.
OneFinalReport == TypeOK /\ AnswersFrozen /\ ReportsAgree /\ FrozenIsServed

\* As long as the fetch limit is not reached, every student recognised in a
\* lecture before the query began is in the answer, with or without presence
\* evidence, unless the lecture was frozen without the student.
LiveComplete ==
  \A q \in Query : Answered(q) /\ Len(logs) <= Limit =>
    \A g \in query[q].logged : query[q].scope \in {All, g[2]} =>
      \E a \in query[q].answer :
        /\ a.lecture = g[2]
        /\ a.final \/ \E s \in a.standings : s.student = g[1]

\* Nobody is reported as confirmed in a lecture without having been
\* recognised in that very lecture, at most Medium apart from somebody's
\* appearance on a camera of its classroom, although eligibility and
\* confidence come from two different reads (decision_service.py:31-46).
ConfirmedSupported ==
  \A q \in Query : \A a \in query[q].answer : \A s \in a.standings :
    s.state = "confirmed" =>
      \E row \in Range(logs), seen \in appeared :
        /\ Group(row) = <<s.student, a.lecture>>
        /\ seen[1] \in RoomCameras[a.lecture]
        /\ Delta(row.at, [first |-> seen[2]]) <= Medium

\* The attendance rate of a student's report is never more than one: nothing
\* is confirmed outside the lectures it is divided by, in however many reads
\* the answer was computed (report_service.py:98-114).
StudentRateIsRate ==
  \A q \in Query, who \in Student :
    LET report == StudentReport(query[q].answer, who)
    IN  report.confirmed <= report.lectures
=============================================================================
