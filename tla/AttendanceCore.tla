--------------------------- MODULE AttendanceCore ---------------------------
(***************************************************************************)
(* The attendance backend: the lecture lifecycle (sessions/controller.py,  *)
(* api/lectures.py) and the ingest of recognition events                   *)
(* (api/recognition.py, classroom/resolver.py, attendance/ingestor.py,     *)
(* attendance/engine.py), over one PostgreSQL database.                    *)
(*                                                                         *)
(* Every HTTP request runs in its own AsyncSession under READ COMMITTED;   *)
(* requests interleave at every await.  A request is therefore one action  *)
(* per SELECT that reads shared rows, and one for its writes: rows a       *)
(* transaction has written are invisible to the others until it commits,   *)
(* and a second UPDATE of a row waits for the first transaction and then   *)
(* overwrites, so the writes and the commit are one action.  What a        *)
(* request read stays in its session's identity map: the engine's          *)
(* session.get() returns the object the ingestor loaded, never a fresh     *)
(* row.                                                                    *)
(***************************************************************************)
EXTENDS AttendanceEngine, FiniteSets, Sequences

CONSTANTS
  Lecture, Student, Classroom, Subject,
  RoomOf,        \* a lecture's classroom_id: set at creation, never changed
  SubjectOf,     \* a lecture's subject_id: set at creation, never changed
  Request,       \* slots for recognition requests in flight
  Operator,      \* slots for lecture lifecycle requests in flight
  Payload,       \* the recognition events that can arrive
  Transferable,  \* enrolments that may be activated or withdrawn
  Overridable,   \* students whose records an administrator may override
  Stranger,      \* a gallery identity mapped to no student
  AnyRoom,       \* an event with neither camera_id nor classroom_id
  BadRoom,       \* an unknown or inactive camera, or an unknown classroom
  NoLecture,
  MaxEvents      \* BOUND: no event arrives once a record has this many hits

ASSUME ConstantsAssumption ==
  /\ RoomOf \in [Lecture -> Classroom]
  /\ SubjectOf \in [Lecture -> Subject]
  /\ Payload \subseteq
       [ctx : Classroom \cup {AnyRoom, BadRoom}, who : Student \cup {Stranger},
        confident : BOOLEAN]
  /\ Transferable \subseteq Student \X Subject
  /\ Overridable \subseteq Student
  /\ Stranger \notin Student
  /\ AnyRoom \notin Classroom
  /\ BadRoom \notin Classroom \cup {AnyRoom}
  /\ NoLecture \notin Lecture
  /\ MaxEvents \in Nat

VARIABLES
  status,     \* lectures.status ("uncreated": no such row yet)
  started,    \* lectures.actual_start, as an order; 0 for NULL
  starts,     \* the last actual_start handed out
  enrolled,   \* active enrollments rows: <<student, subject>>
  rows,       \* the <<lecture, student>> pairs that have an attendance record
  records,    \* their attendance_records columns
  events,     \* their attendance_events rows, oldest first
  rawLog,     \* recognition_event_logs rows, as a set: what was logged
  req,        \* the recognition requests in flight
  op          \* the lecture lifecycle requests in flight

vars == <<status, started, starts, enrolled, rows, records, events, rawLog, req, op>>
lectureVars == <<status, started, starts>>
recordVars  == <<rows, records, events>>

Key      == Lecture \X Student
Identity == Student \cup {Stranger}
Context  == Classroom \cup {AnyRoom, BadRoom}
Status   == {"uncreated", "scheduled", "active_window_open",
             "active_window_closed", "finalized"}
Note     == {"unknown_classroom", "no_active_lecture", "unknown_identity",
             "not_enrolled", "engine_skip", "routed"}

EventRow == [from : AttendanceState, to : AttendanceState]
NewRecord ==
  [state |-> "undetected", locked |-> FALSE, age |-> Cooldown, stamped |-> FALSE]

\* A recognition request: what it was posted with, the lecture it resolved,
\* its copy of the record (state, locked, age of last_event_at, number of
\* events) and, once the engine accepted it, the state it will write.  From
\* then on age is that of the timestamp it will write.
IdleReq ==
  [pc |-> "idle", ctx |-> AnyRoom, who |-> Stranger, confident |-> FALSE,
   lecture |-> NoLecture, state |-> "undetected", locked |-> FALSE,
   age |-> Cooldown, hits |-> 0, target |-> "undetected"]

\* A lifecycle request: the lecture it loaded, and for a start the students
\* it read.
IdleOp ==
  [pc |-> "idle", lecture |-> NoLecture, students |-> {}]

Init ==
  /\ status = [l \in Lecture |-> "uncreated"]
  /\ started = [l \in Lecture |-> 0]
  /\ starts = 0
  /\ enrolled = Student \X Subject
  /\ rows = {}
  /\ records = [k \in Key |-> NewRecord]
  /\ events = [k \in Key |-> <<>>]
  /\ rawLog = {}
  /\ req = [r \in Request |-> IdleReq]
  /\ op = [o \in Operator |-> IdleOp]

-----------------------------------------------------------------------------
(* Recognition requests: api/recognition.py over RecognitionIngestor.      *)

\* The answer's log row, committed with whatever else the request wrote.
Log(l, who, note) ==
  rawLog' = rawLog \cup {[lecture |-> l, who |-> who, note |-> note]}

\* The request answers without having touched lectures or records.
Reject(r, l, note) ==
  /\ Log(l, req[r].who, note)
  /\ req' = [req EXCEPT ![r] = IdleReq]
  /\ UNCHANGED <<lectureVars, recordVars, enrolled, op>>

\* The request goes on with what it has read so far.
Proceed(r, next) ==
  /\ req' = [req EXCEPT ![r] = next]
  /\ UNCHANGED <<lectureVars, recordVars, enrolled, rawLog, op>>

\* POST /recognition/events.  A new request never waits for the earlier ones:
\* the edge gives up on an answer after its timeout and sends the next event
\* while the server still works on the last one.
Post(r, p) ==
  /\ req[r].pc = "idle"
  /\ \A k \in Key : Len(events[k]) < MaxEvents
  /\ Proceed(r, [IdleReq EXCEPT !.pc = "room", !.ctx = p.ctx, !.who = p.who,
                                !.confident = p.confident])

\* resolve_classroom: cameras and classrooms do not change under src/.
ResolveRoom(r) ==
  /\ req[r].pc = "room"
  /\ IF req[r].ctx = BadRoom
     THEN Reject(r, NoLecture, "unknown_classroom")
     ELSE Proceed(r, [req[r] EXCEPT !.pc = "lecture"])

\* Mutant: the status filter is missing.
OpenLecturesAnyStatus(ctx) ==
  {l \in Lecture : started[l] > 0 /\ ctx \in {AnyRoom, RoomOf[l]}}

\* Mutant: the classroom filter is missing.
OpenLecturesAnyRoom(ctx) ==
  {l \in Lecture : status[l] = "active_window_open"}

\* _active_lecture_for_classroom and _active_lecture_global: the open
\* lectures of the classroom (of every classroom), latest actual_start first.
OpenLectures(ctx) ==
  {l \in Lecture : /\ status[l] = "active_window_open"
                   /\ ctx \in {AnyRoom, RoomOf[l]}}

Latest(S) == {l \in S : \A m \in S : started[m] <= started[l]}

\* Mutant: no answer when no lecture is open.
ResolveLectureHangs(r) ==
  /\ req[r].pc = "lecture"
  /\ \E l \in Latest(OpenLectures(req[r].ctx)) :
       Proceed(r, [req[r] EXCEPT !.pc = "student", !.lecture = l])

ResolveLecture(r) ==
  /\ req[r].pc = "lecture"
  /\ LET open == OpenLectures(req[r].ctx)
     IN  \/ /\ open = {}
            /\ Reject(r, NoLecture, "no_active_lecture")
         \/ \E l \in Latest(open) :
              Proceed(r, [req[r] EXCEPT !.pc = "student", !.lecture = l])

\* _resolve_student and _is_enrolled.
ResolveStudent(r) ==
  /\ req[r].pc = "student"
  /\ IF req[r].who = Stranger
     THEN Reject(r, req[r].lecture, "unknown_identity")
     ELSE IF <<req[r].who, SubjectOf[req[r].lecture]>> \notin enrolled
     THEN Reject(r, req[r].lecture, "not_enrolled")
     ELSE Proceed(r, [req[r] EXCEPT !.pc = "record"])

ReqKey(r) == <<req[r].lecture, req[r].who>>

\* _find_record, its first SELECT: the attendance_records row.
LoadRecord(r) ==
  /\ req[r].pc = "record"
  /\ LET k == ReqKey(r)
     IN  IF k \notin rows
         THEN Reject(r, req[r].lecture, "engine_skip")
         ELSE Proceed(r, [req[r] EXCEPT !.pc = "events",
                                        !.state = records[k].state,
                                        !.locked = records[k].locked,
                                        !.age = records[k].age])

\* Mutant: the events are not loaded with the record.
LoadEventsNone(r) ==
  /\ req[r].pc = "events"
  /\ Proceed(r, [req[r] EXCEPT !.pc = "engine", !.hits = 0])

\* _find_record, the second SELECT of selectinload: its attendance_events.
LoadEvents(r) ==
  /\ req[r].pc = "events"
  /\ Proceed(r, [req[r] EXCEPT !.pc = "engine",
                               !.hits = Len(events[ReqKey(r)])])

\* process_recognition_event on the loaded copies.  The lecture the request
\* holds was selected by its open status, and is never read again.
Engine(r) ==
  /\ req[r].pc = "engine"
  /\ IF Suppressed("active_window_open", req[r].confident, req[r].locked,
                   req[r].state, req[r].age)
     THEN Reject(r, req[r].lecture, "routed")
     ELSE Proceed(r, [req[r] EXCEPT !.pc = "commit", !.age = 0,
                        !.target = Target(req[r].state, req[r].hits)])

\* Mutant: events below the threshold are not kept.
LoggedMovesOnly(q, es) ==
  IF q.target = q.state THEN es
  ELSE Append(es, [from |-> q.state, to |-> q.target])

\* The INSERT of the event row.
Logged(q, es) == Append(es, [from |-> q.state, to |-> q.target])

\* Mutant: every event writes the state of the copy back.
WrittenStateAlways(q, rec) ==
  [rec EXCEPT !.age = q.age, !.state = q.target,
              !.stamped = IF q.target = q.state THEN @
                          ELSE q.target = "confirmed"]

\* The UPDATE of the record: an event below the threshold only refreshes
\* last_event_at; a transition also writes state and confirmed_at (now, or
\* NULL unless confirmed).
Written(q, rec) ==
  IF q.target = q.state
  THEN [rec EXCEPT !.age = q.age]
  ELSE [rec EXCEPT !.age = q.age, !.state = q.target,
                   !.stamped = (q.target = "confirmed")]

\* Both statements and session.commit().
Commit(r) ==
  /\ req[r].pc = "commit"
  /\ events' = [events EXCEPT ![ReqKey(r)] = Logged(req[r], @)]
  /\ records' = [records EXCEPT ![ReqKey(r)] = Written(req[r], @)]
  /\ Log(req[r].lecture, req[r].who, "routed")
  /\ req' = [req EXCEPT ![r] = IdleReq]
  /\ UNCHANGED <<lectureVars, rows, enrolled, op>>

\* Any exception, or the server stopping: rollback, nothing is written.
Abort(r) ==
  /\ req[r].pc # "idle"
  /\ Proceed(r, IdleReq)

-----------------------------------------------------------------------------
(* Lecture lifecycle requests: api/lectures.py over                        *)
(* LectureSessionController.  A status check that fails answers 409 and    *)
(* changes nothing, so only the checks that succeed are steps.             *)

\* POST /lectures: create_lecture inserts one row and commits.
CreateLecture(l) ==
  /\ status[l] = "uncreated"
  /\ status' = [status EXCEPT ![l] = "scheduled"]
  /\ UNCHANGED <<started, starts, recordVars, enrolled, rawLog, req, op>>

\* _get_mutable_lecture and _require_status: the lecture is loaded and its
\* status checked, once.
LoadLecture(o, l, required, pc) ==
  /\ op[o].pc = "idle"
  /\ status[l] = required
  /\ op' = [op EXCEPT ![o] = [IdleOp EXCEPT !.pc = pc, !.lecture = l]]
  /\ UNCHANGED <<lectureVars, recordVars, enrolled, rawLog, req>>

BeginStart(o, l)    == LoadLecture(o, l, "scheduled", "enrolment")
BeginClose(o, l)    == LoadLecture(o, l, "active_window_open", "close")
BeginFinalize(o, l) == LoadLecture(o, l, "active_window_closed", "finalize")

\* _active_enrolled_student_ids.
ReadEnrolment(o) ==
  /\ op[o].pc = "enrolment"
  /\ op' = [op EXCEPT ![o].pc = "start",
              ![o].students =
                 {s \in Student : <<s, SubjectOf[op[o].lecture]>> \in enrolled}]
  /\ UNCHANGED <<lectureVars, recordVars, enrolled, rawLog, req>>

\* The INSERT of one record per student, the UPDATE of the lecture and the
\* commit.  uq_attendance_records_lecture_student makes the whole transaction
\* fail when one of the records exists.  actual_start is read just before the
\* commit; lectures are ordered by it as they commit.
CommitStart(o) ==
  /\ op[o].pc = "start"
  /\ LET l == op[o].lecture
         new == {l} \X op[o].students
     IN  IF new \cap rows # {}
         THEN UNCHANGED <<lectureVars, rows>>
         ELSE /\ rows' = rows \cup new
              /\ status' = [status EXCEPT ![l] = "active_window_open"]
              /\ started' = [started EXCEPT ![l] = starts + 1]
              /\ starts' = starts + 1
  /\ op' = [op EXCEPT ![o] = IdleOp]
  /\ UNCHANGED <<records, events, enrolled, rawLog, req>>

\* Mutant: the status column gets the name of the action.
CommitStatusAction(o, pc, new) ==
  /\ op[o].pc = pc
  /\ status' = [status EXCEPT ![op[o].lecture] = pc]
  /\ op' = [op EXCEPT ![o] = IdleOp]
  /\ UNCHANGED <<started, starts, recordVars, enrolled, rawLog, req>>

\* close_lecture and finalize_lecture: UPDATE the status, commit.
CommitStatus(o, pc, new) ==
  /\ op[o].pc = pc
  /\ status' = [status EXCEPT ![op[o].lecture] = new]
  /\ op' = [op EXCEPT ![o] = IdleOp]
  /\ UNCHANGED <<started, starts, recordVars, enrolled, rawLog, req>>

CommitClose(o)    == CommitStatus(o, "close", "active_window_closed")
CommitFinalize(o) == CommitStatus(o, "finalize", "finalized")

\* Mutant: the statements of a start are not one transaction.
AbortOpAutocommit(o) ==
  /\ op[o].pc # "idle"
  /\ op' = [op EXCEPT ![o] = IdleOp]
  /\ rows' = IF op[o].pc = "start"
             THEN rows \cup ({op[o].lecture} \X op[o].students) ELSE rows
  /\ UNCHANGED <<lectureVars, records, events, enrolled, rawLog, req>>

\* A lifecycle request fails before its commit: rollback.
AbortOp(o) ==
  /\ op[o].pc # "idle"
  /\ op' = [op EXCEPT ![o] = IdleOp]
  /\ UNCHANGED <<lectureVars, recordVars, enrolled, rawLog, req>>

-----------------------------------------------------------------------------
(* The environment: the clock, and what is written straight in the         *)
(* database because no API under src/ does it.                             *)

\* One tick: every timestamp ages, in the table and in the sessions' copies.
Tick ==
  /\ records' = [k \in Key |-> [records[k] EXCEPT !.age = Older(@)]]
  /\ req' = [r \in Request |-> [req[r] EXCEPT !.age = Older(@)]]
  /\ UNCHANGED <<lectureVars, rows, events, enrolled, rawLog, op>>

\* An enrolment is activated or withdrawn.
SetEnrolment(e) ==
  /\ enrolled' = IF e \in enrolled THEN enrolled \ {e} ELSE enrolled \cup {e}
  /\ UNCHANGED <<lectureVars, recordVars, rawLog, req, op>>

\* An administrator decides a record by hand and locks it.
Override(k) ==
  /\ k \in rows
  /\ k[2] \in Overridable
  /\ records' = [records EXCEPT ![k].state = "manual_override",
                                ![k].locked = TRUE]
  /\ UNCHANGED <<lectureVars, rows, events, enrolled, rawLog, req, op>>

-----------------------------------------------------------------------------
Handle(r) ==
  \/ ResolveRoom(r)
  \/ ResolveLecture(r)
  \/ ResolveStudent(r)
  \/ LoadRecord(r)
  \/ LoadEvents(r)
  \/ Engine(r)
  \/ Commit(r)

Operate(o) ==
  \/ \E l \in Lecture : BeginStart(o, l) \/ BeginClose(o, l) \/ BeginFinalize(o, l)
  \/ ReadEnrolment(o)
  \/ CommitStart(o)
  \/ CommitClose(o)
  \/ CommitFinalize(o)
  \/ AbortOp(o)

Next ==
  \/ \E r \in Request :
       \/ \E p \in Payload : Post(r, p)
       \/ Handle(r)
       \/ Abort(r)
  \/ \E o \in Operator : Operate(o)
  \/ \E l \in Lecture : CreateLecture(l)
  \/ \E e \in Transferable : SetEnrolment(e)
  \/ \E k \in Key : Override(k)
  \/ Tick

Spec == Init /\ [][Next]_vars

\* The event loop runs every coroutine that is not waiting, and the clock
\* does not stop; nobody has to post an event or operate a lecture.
Fairness ==
  /\ \A r \in Request : WF_vars(Handle(r))
  /\ WF_vars(Tick)

FairSpec == Spec /\ Fairness

-----------------------------------------------------------------------------
(* Properties.                                                             *)

ReqPC == {"idle", "room", "lecture", "student", "record", "events", "engine",
          "commit"}
OpPC  == {"idle", "enrolment", "start", "close", "finalize"}

RecordType ==
  [state : AttendanceState, locked : BOOLEAN, age : Age, stamped : BOOLEAN]

RequestType ==
  [pc : ReqPC, ctx : Context, who : Identity, confident : BOOLEAN,
   lecture : Lecture \cup {NoLecture}, state : AttendanceState,
   locked : BOOLEAN, age : Age, hits : Nat, target : AttendanceState]

OperatorType ==
  [pc : OpPC, lecture : Lecture \cup {NoLecture}, students : SUBSET Student]

\* The columns of the tables and the fields of the requests keep their types:
\* ages stay within the cooldown, states within AttendanceState.
TypeOK ==
  /\ status \in [Lecture -> Status]
  /\ started \in [Lecture -> Nat]
  /\ starts \in Nat
  /\ enrolled \subseteq Student \X Subject
  /\ rows \subseteq Key
  /\ records \in [Key -> RecordType]
  /\ events \in [Key -> Seq(EventRow)]
  /\ rawLog \subseteq [lecture : Lecture \cup {NoLecture}, who : Identity,
                       note : Note]
  /\ req \in [Request -> RequestType]
  /\ op \in [Operator -> OperatorType]

\* A record is never in a state it has not earned: candidate, initialized and
\* confirmed records carry at least 1, 3 and 5 accepted events, although the
\* engine counts the events of a copy that other requests have overtaken
\* (engine.py:200-205, ingestor.py:280-292).
PromotionEarned ==
  \A k \in Key : HitsToReach[records[k].state] <= Len(events[k])

\* confirmed_at is set exactly on the confirmed records, unless an
\* administrator took the record over (engine.py:242-250).
ConfirmedStamped ==
  \A k \in Key : ~records[k].locked =>
    (records[k].state = "confirmed" <=> records[k].stamped)

\* The event rows explain the record: its state is where the last transition
\* that was committed went (the two tables are written by one transaction).
IsMove(e) == e.from # e.to

Explained(st, es) ==
  \/ /\ st = "undetected"
     /\ \A i \in 1 .. Len(es) : ~IsMove(es[i])
  \/ \E i \in 1 .. Len(es) :
       /\ IsMove(es[i])
       /\ es[i].to = st
       /\ \A j \in i + 1 .. Len(es) : ~IsMove(es[j])

StateExplained ==
  \A k \in Key : ~records[k].locked => Explained(records[k].state, events[k])

\* A record and its event rows never drift apart, whoever overwrites whom: the
\* last committed move led to its state, and confirmed_at agrees with it.
RecordExplained == ConfirmedStamped /\ StateExplained

\* Records exist only for lectures whose window was opened at some time, and
\* for students somebody enrolled: whatever requests race, no lecture that
\* has records is still (or again) waiting to be started.
RecordsFollowStart ==
  \A k \in rows : status[k[1]] \notin {"uncreated", "scheduled"}

\* An accepted event is always in the raw recognition log as well
\* (ingestor.py:218-232 writes it in the same transaction).
EventsLogged ==
  \A k \in Key : events[k] # <<>> =>
    [lecture |-> k[1], who |-> k[2], note |-> "routed"] \in rawLog

\* What one transaction writes is there as a whole or not at all: the records
\* with the lecture's start, an event with its row of the raw log
\* (db/session.py:40-49).
OneTransaction == RecordsFollowStart /\ EventsLogged

\* Once the window of a lecture is closed and the requests that had found it
\* open are gone, no request finds it again and no record of it accepts an
\* event, unless a start that was already running opens the window anew
\* (resolver.py:125-158 is the only place where the window is checked).
Quiet(l) ==
  /\ status[l] \in {"active_window_closed", "finalized"}
  /\ \A r \in Request : req[r].lecture # l

NoHitAfterWindow ==
  [][\A k \in Key : Quiet(k[1]) =>
       \/ Quiet(k[1])' /\ events'[k] = events[k]
       \/ started'[k[1]] # started[k[1]]]_vars

\* Once a record is locked and the requests that had loaded it unlocked are
\* gone, it stays so and accepts no event (engine.py:8, 145-152).
Settled(k) ==
  /\ records[k].locked
  /\ \A r \in Request :
       (req[r].pc \in {"events", "engine", "commit"} /\ ReqKey(r) = k)
         => req[r].locked

LockedUntouched ==
  [][\A k \in Key : Settled(k) => Settled(k)' /\ events'[k] = events[k]]_vars

\* A recognition posted from one classroom never counts in a lecture of
\* another one: whatever record accepts an event, a request that was posted
\* for its student from its room, or without a room, has just finished.
RoomIsolation ==
  [][\A k \in Key : events'[k] # events[k] =>
       \E r \in Request : /\ req[r].pc = "commit"
                          /\ req'[r].pc = "idle"
                          /\ req[r].who = k[2]
                          /\ req[r].ctx \in {AnyRoom, RoomOf[k[1]]}]_vars

\* Two accepted events of a record are at least the cooldown apart.  It needs
\* requests that do not overlap (engine.py:185-198).
CooldownKept ==
  [][\A k \in Key : events'[k] # events[k] => records[k].age = Cooldown]_vars

\* With requests that do not overlap, every record climbs the ladder of
\* HitLadder, unless an administrator may take it over.  (This is
\* \A k : Ladder(k)!Spec, with the quantifier moved inside the box.)
Ladder(k) == INSTANCE HitLadder
               WITH state <- records[k].state, hits <- Len(events[k])

ClimbsLadder ==
  /\ \A k \in Lecture \X (Student \ Overridable) : Ladder(k)!Init
  /\ [][\A k \in Lecture \X (Student \ Overridable) :
           Ladder(k)!Next \/ UNCHANGED Ladder(k)!ladderVars]_vars

\* engine.py:7, "Duplicate / backward transitions are suppressed via guard
\* table + cooldown": a record that nobody took over by hand never moves back.
NoBackwardTransition ==
  [][\A k \in Key : ~records'[k].locked =>
       HitsToReach[records[k].state] <= HitsToReach[records'[k].state]]_vars

\* controller.py:153, "finalized lectures cannot be modified".
FinalizedNotModified ==
  [][\A l \in Lecture : status[l] = "finalized" => status'[l] = "finalized"]_vars

\* Every request that was posted is answered.
EveryPostAnswered ==
  \A r \in Request : req[r].pc # "idle" ~> req[r].pc = "idle"

\* Accepted events are never lost to the count: a student for whom confident
\* events that respect the cooldown are answered over and over is confirmed
\* (engine.py:208-210 is about the stall this rules out).
Answered(k) ==
  \E r \in Request :
    /\ ReqKey(r) = k
    /\ \/ Commit(r)
       \/ /\ req[r].confident
          /\ req[r].age = Cooldown
          /\ Engine(r)
          /\ req'[r].pc = "idle"

HitsAddUp ==
  \A k \in Lecture \X (Student \ Overridable) :
    ([]<><<Answered(k)>>_vars) => <>(records[k].state = "confirmed")
=============================================================================
