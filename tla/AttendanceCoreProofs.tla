------------------------ MODULE AttendanceCoreProofs ------------------------
(***************************************************************************)
(* Theorems about AttendanceCore, for every set of lectures, students,     *)
(* requests and operators, every cooldown and every bound on the events.   *)
(*                                                                         *)
(* The inductive invariant IInv adds two facts to TypeOK.  Located: from   *)
(* the step where a request finds its lecture (its student) on, it has     *)
(* one.  Earned: what a request has read of the record is no more than     *)
(* what the record has now, because event rows are never deleted, so the   *)
(* state it will write is earned by the events there will be after its     *)
(* own.                                                                    *)
(***************************************************************************)
EXTENDS AttendanceCore, TLAPS

\* A request past the resolver has a lecture, past the student lookup a
\* student.
Located(q) ==
  /\ q.pc \in {"student", "record", "events", "engine", "commit"}
       => q.lecture \in Lecture
  /\ q.pc \in {"record", "events", "engine", "commit"} => q.who \in Student

\* The copy of the record a request holds is covered by the rows of evts.
Earned(q, evts) ==
  LET n == Len(evts[<<q.lecture, q.who>>])
  IN  /\ q.pc \in {"events", "engine"} => HitsToReach[q.state] <= n
      /\ q.pc = "engine" => q.hits <= n
      /\ q.pc = "commit" => HitsToReach[q.target] <= n + 1

OpLocated(p) == p.pc # "idle" => p.lecture \in Lecture

IInv ==
  /\ TypeOK
  /\ \A r \in Request : Located(req[r]) /\ Earned(req[r], events)
  /\ \A o \in Operator : OpLocated(op[o])
  /\ PromotionEarned

-----------------------------------------------------------------------------
(* The engine's operators.                                                 *)

\* The two tables of the engine agree: the forward move of a state leads to
\* the state its threshold is the entry price of.
LEMMA ForwardEarned ==
  /\ DOMAIN Forward = {"undetected", "candidate", "initialized"}
  /\ \A st \in DOMAIN Forward :
       /\ st \in AttendanceState
       /\ Forward[st] \in AttendanceState
       /\ HitThreshold[st] \in Nat
       /\ HitsToReach[Forward[st]] = HitThreshold[st]
BY DEF Forward, HitThreshold, HitsToReach, AttendanceState

LEMMA HitsToReachType == \A st \in AttendanceState : HitsToReach[st] \in Nat
BY DEF HitsToReach, AttendanceState

\* A target computed from a count that lags behind the rows is earned by the
\* rows and the event itself.
LEMMA TargetEarned ==
  ASSUME NEW st \in AttendanceState, ~Terminal(st),
         NEW hits \in Nat, NEW n \in Nat,
         hits <= n, HitsToReach[st] <= n
  PROVE  /\ Target(st, hits) \in AttendanceState
         /\ HitsToReach[Target(st, hits)] <= n + 1
<1>1. st \in DOMAIN Forward
  BY DEF Terminal
<1>2. CASE hits + 1 < HitThreshold[st]
  BY <1>2, HitsToReachType DEF Target
<1>3. CASE ~(hits + 1 < HitThreshold[st])
  BY <1>1, <1>3, ForwardEarned DEF Target
<1>4. QED
  BY <1>2, <1>3

LEMMA OlderType == \A age \in Age : Older(age) \in Age
BY CooldownAssumption DEF Age, Older

LEMMA IdleReqFine ==
  /\ IdleReq \in RequestType
  /\ Located(IdleReq)
  /\ \A evts : Earned(IdleReq, evts)
BY CooldownAssumption, ConstantsAssumption
  DEF IdleReq, RequestType, ReqPC, Context, Identity, AttendanceState, Age,
      Located, Earned

-----------------------------------------------------------------------------
(* Steps of a recognition request.                                         *)

\* A request that goes on with a well-formed copy keeps the invariant.
LEMMA ProceedInv ==
  ASSUME IInv, NEW r \in Request, NEW q \in RequestType,
         Located(q), Earned(q, events), Proceed(r, q)
  PROVE  IInv'
<1>1. TypeOK'
  BY DEF IInv, TypeOK, Proceed, lectureVars, recordVars
<1>2. ASSUME NEW x \in Request
      PROVE  Located(req[x])' /\ Earned(req[x], events)'
  <2>1. req'[x] = IF x = r THEN q ELSE req[x]
    BY DEF IInv, TypeOK, Proceed
  <2>2. events' = events
    BY DEF Proceed, recordVars
  <2>3. QED
    BY <2>1, <2>2 DEF IInv, Located, Earned
<1>3. ASSUME NEW o \in Operator PROVE OpLocated(op[o])'
  BY DEF IInv, Proceed, OpLocated
<1>4. PromotionEarned'
  BY DEF IInv, PromotionEarned, Proceed, recordVars
<1>5. QED
  BY <1>1, <1>2, <1>3, <1>4 DEF IInv

\* A request that is answered without a write keeps the invariant.
LEMMA RejectInv ==
  ASSUME IInv, NEW r \in Request, NEW l \in Lecture \cup {NoLecture},
         NEW note \in Note, Reject(r, l, note)
  PROVE  IInv'
<1>1. TypeOK'
  BY IdleReqFine
  DEF IInv, TypeOK, Reject, Log, lectureVars, recordVars, RequestType
<1>2. ASSUME NEW x \in Request
      PROVE  Located(req[x])' /\ Earned(req[x], events)'
  <2>1. req'[x] = IF x = r THEN IdleReq ELSE req[x]
    BY DEF IInv, TypeOK, Reject
  <2>2. events' = events
    BY DEF Reject, recordVars
  <2>3. QED
    BY <2>1, <2>2, IdleReqFine DEF IInv, Located, Earned
<1>3. ASSUME NEW o \in Operator PROVE OpLocated(op[o])'
  BY DEF IInv, Reject, OpLocated
<1>4. PromotionEarned'
  BY DEF IInv, PromotionEarned, Reject, recordVars
<1>5. QED
  BY <1>1, <1>2, <1>3, <1>4 DEF IInv

\* The steps before the record is read: nothing is compared yet.
LEMMA ResolveInv ==
  ASSUME IInv, NEW r \in Request,
         \/ \E p \in Payload : Post(r, p)
         \/ ResolveRoom(r)
         \/ ResolveLecture(r)
         \/ ResolveStudent(r)
  PROVE  IInv'
<1> USE DEF IInv
<1>0. req[r] \in RequestType /\ Located(req[r])
  BY DEF TypeOK
<1>1. CASE \E p \in Payload : Post(r, p)
  <2>1. PICK p \in Payload : Post(r, p)
    BY <1>1
  <2> DEFINE q == [IdleReq EXCEPT !.pc = "room", !.ctx = p.ctx, !.who = p.who,
                                  !.confident = p.confident]
  <2>2. /\ p.ctx \in Context
        /\ p.who \in Identity
        /\ p.confident \in BOOLEAN
    BY ConstantsAssumption DEF Context, Identity
  <2>3. q \in RequestType /\ Located(q) /\ Earned(q, events)
    BY <2>2, IdleReqFine DEF IdleReq, RequestType, ReqPC, Located, Earned
  <2>4. QED
    BY <2>1, <2>3, ProceedInv DEF Post
<1>2. CASE ResolveRoom(r)
  <2> DEFINE q == [req[r] EXCEPT !.pc = "lecture"]
  <2>1. q \in RequestType /\ Located(q) /\ Earned(q, events)
    BY <1>0 DEF RequestType, ReqPC, Located, Earned
  <2>2. CASE req[r].ctx = BadRoom
    BY <1>2, <2>2, RejectInv DEF ResolveRoom, Note
  <2>3. CASE req[r].ctx # BadRoom
    BY <1>2, <2>1, <2>3, ProceedInv DEF ResolveRoom
  <2>4. QED
    BY <2>2, <2>3
<1>3. CASE ResolveLecture(r)
  <2>1. CASE Reject(r, NoLecture, "no_active_lecture")
    BY <2>1, RejectInv DEF Note
  <2>2. ASSUME NEW l \in Lecture,
               Proceed(r, [req[r] EXCEPT !.pc = "student", !.lecture = l])
        PROVE  IInv'
    <3> DEFINE q == [req[r] EXCEPT !.pc = "student", !.lecture = l]
    <3>1. q \in RequestType /\ Located(q) /\ Earned(q, events)
      BY <1>0 DEF RequestType, ReqPC, Located, Earned
    <3>2. QED
      BY <2>2, <3>1, ProceedInv
  <2>3. QED
    BY <1>3, <2>1, <2>2 DEF ResolveLecture, Latest, OpenLectures
<1>4. CASE ResolveStudent(r)
  <2> DEFINE q == [req[r] EXCEPT !.pc = "record"]
  <2>1. req[r].lecture \in Lecture \cup {NoLecture}
    BY <1>0 DEF RequestType
  <2>2. CASE Reject(r, req[r].lecture, "unknown_identity")
    BY <2>1, <2>2, RejectInv DEF Note
  <2>3. CASE Reject(r, req[r].lecture, "not_enrolled")
    BY <2>1, <2>3, RejectInv DEF Note
  <2>4. CASE req[r].who # Stranger /\ Proceed(r, q)
    <3>1. q \in RequestType /\ Located(q) /\ Earned(q, events)
      BY <1>0, <1>4, <2>4
      DEF ResolveStudent, RequestType, ReqPC, Identity, Located, Earned
    <3>2. QED
      BY <2>4, <3>1, ProceedInv
  <2>5. QED
    BY <1>4, <2>2, <2>3, <2>4 DEF ResolveStudent
<1>5. QED
  BY <1>1, <1>2, <1>3, <1>4

\* Reading the record, then its events, and deciding on the copies.
LEMMA DecideInv ==
  ASSUME IInv, NEW r \in Request,
         LoadRecord(r) \/ LoadEvents(r) \/ Engine(r) \/ Abort(r)
  PROVE  IInv'
<1> USE DEF IInv
<1> DEFINE k == <<req[r].lecture, req[r].who>>
<1>0. /\ req[r] \in RequestType
      /\ Located(req[r])
      /\ Earned(req[r], events)
      /\ req[r].lecture \in Lecture \cup {NoLecture}
  BY DEF TypeOK, RequestType
<1>1. ASSUME req[r].pc \in {"record", "events", "engine"}
      PROVE  /\ k \in Key
             /\ records[k] \in RecordType
             /\ Len(events[k]) \in Nat
             /\ HitsToReach[records[k].state] <= Len(events[k])
  BY <1>0, <1>1 DEF Located, Key, TypeOK, PromotionEarned
<1>2. CASE LoadRecord(r)
  <2> DEFINE q == [req[r] EXCEPT !.pc = "events", !.state = records[k].state,
                      !.locked = records[k].locked, !.age = records[k].age]
  <2>1. req[r].pc = "record"
    BY <1>2 DEF LoadRecord
  <2>2. /\ q \in RequestType
        /\ q.pc = "events" /\ q.state = records[k].state
        /\ q.lecture = req[r].lecture /\ q.who = req[r].who
    BY <1>0, <1>1, <2>1 DEF RequestType, RecordType, ReqPC
  <2>3. Located(q) /\ Earned(q, events)
    BY <1>0, <1>1, <2>1, <2>2 DEF Located, Earned
  <2>4. CASE Reject(r, req[r].lecture, "engine_skip")
    BY <1>0, <2>4, RejectInv DEF Note
  <2>5. CASE Proceed(r, q)
    BY <2>2, <2>3, <2>5, ProceedInv
  <2>6. QED
    BY <1>2, <2>4, <2>5 DEF LoadRecord, ReqKey
<1>3. CASE LoadEvents(r)
  <2> DEFINE q == [req[r] EXCEPT !.pc = "engine", !.hits = Len(events[k])]
  <2>1. req[r].pc = "events" /\ Proceed(r, q)
    BY <1>3 DEF LoadEvents, ReqKey
  <2>2. /\ q \in RequestType
        /\ q.pc = "engine" /\ q.hits = Len(events[k]) /\ q.state = req[r].state
        /\ q.lecture = req[r].lecture /\ q.who = req[r].who
    BY <1>0, <1>1, <2>1 DEF RequestType, ReqPC
  <2>3. Located(q) /\ Earned(q, events)
    BY <1>0, <1>1, <2>1, <2>2 DEF Located, Earned
  <2>4. QED
    BY <2>1, <2>2, <2>3, ProceedInv
<1>4. CASE Engine(r)
  <2> DEFINE tgt == Target(req[r].state, req[r].hits)
             q == [req[r] EXCEPT !.pc = "commit", !.age = 0, !.target = tgt]
             sup == Suppressed("active_window_open", req[r].confident,
                               req[r].locked, req[r].state, req[r].age)
  <2>1. req[r].pc = "engine"
    BY <1>4 DEF Engine
  <2>2. CASE sup
    <3>1. Reject(r, req[r].lecture, "routed")
      BY <1>4, <2>2 DEF Engine
    <3>2. QED
      BY <1>0, <3>1, RejectInv DEF Note
  <2>3. CASE ~sup
    <3>1. /\ ~Terminal(req[r].state)
          /\ req[r].state \in AttendanceState
          /\ req[r].hits \in Nat
      BY <1>0, <2>3 DEF Suppressed, RequestType
    <3>2. /\ tgt \in AttendanceState
          /\ HitsToReach[tgt] <= Len(events[k]) + 1
      <4>1. /\ req[r].hits <= Len(events[k])
            /\ HitsToReach[req[r].state] <= Len(events[k])
        BY <1>0, <2>1 DEF Earned
      <4>2. QED
        BY <1>1, <2>1, <3>1, <4>1, TargetEarned
    <3>3. /\ q \in RequestType
          /\ q.pc = "commit" /\ q.target = tgt
          /\ q.lecture = req[r].lecture /\ q.who = req[r].who
      <4>1. 0 \in Age
        BY CooldownAssumption DEF Age
      <4>2. QED
        BY <1>0, <3>2, <4>1 DEF RequestType, ReqPC
    <3>4. Located(q) /\ Earned(q, events)
      BY <1>0, <2>1, <3>2, <3>3 DEF Located, Earned
    <3>5. Proceed(r, q)
      BY <1>4, <2>3 DEF Engine
    <3>6. QED
      BY <3>3, <3>4, <3>5, ProceedInv
  <2>4. QED
    BY <2>2, <2>3
<1>5. CASE Abort(r)
  BY <1>5, IdleReqFine, ProceedInv DEF Abort
<1>6. QED
  BY <1>2, <1>3, <1>4, <1>5

\* The writes: the record gains one event, so every copy other requests hold
\* is still covered, and the state written is covered with it.
LEMMA CommitInv ==
  ASSUME IInv, NEW r \in Request, Commit(r)
  PROVE  IInv'
<1> USE DEF IInv
<1> DEFINE k == <<req[r].lecture, req[r].who>>
           q == req[r]
<1>0. /\ q \in RequestType
      /\ q.pc = "commit"
      /\ Located(q)
      /\ Earned(q, events)
      /\ k \in Key
  BY DEF TypeOK, Commit, Located, Key
<1>1. /\ events' = [events EXCEPT ![k] = Logged(q, events[k])]
      /\ records' = [records EXCEPT ![k] = Written(q, records[k])]
      /\ req' = [req EXCEPT ![r] = IdleReq]
  BY DEF Commit, ReqKey
<1>2. /\ events[k] \in Seq(EventRow)
      /\ Logged(q, events[k]) \in Seq(EventRow)
      /\ Len(Logged(q, events[k])) = Len(events[k]) + 1
  <2>1. [from |-> q.state, to |-> q.target] \in EventRow
    BY <1>0 DEF RequestType, EventRow
  <2>2. events[k] \in Seq(EventRow)
    BY <1>0 DEF TypeOK
  <2>3. QED
    BY <2>1, <2>2 DEF Logged
<1>3. /\ records[k] \in RecordType
      /\ Written(q, records[k]) \in RecordType
      /\ Written(q, records[k]).state \in {records[k].state, q.target}
  <2>1. records[k] \in RecordType
    BY <1>0 DEF TypeOK
  <2>2. q.target \in AttendanceState /\ q.age \in Age
    BY <1>0 DEF RequestType
  <2>3. QED
    BY <2>1, <2>2 DEF Written, RecordType
<1>4. TypeOK'
  <2>1. events' \in [Key -> Seq(EventRow)]
    BY <1>1, <1>2 DEF TypeOK
  <2>2. records' \in [Key -> RecordType]
    BY <1>1, <1>3 DEF TypeOK
  <2>3. req' \in [Request -> RequestType]
    BY <1>1, IdleReqFine DEF TypeOK
  <2>4. rawLog' \subseteq [lecture : Lecture \cup {NoLecture}, who : Identity,
                           note : Note]
    BY <1>0 DEF TypeOK, Commit, Log, RequestType, Note
  <2>5. QED
    BY <2>1, <2>2, <2>3, <2>4 DEF TypeOK, Commit, lectureVars
<1>5. \A x \in Key : Len(events[x]) <= Len(events'[x])
  <2>1. \A x \in Key : /\ Len(events[x]) \in Nat
                       /\ events'[x] = IF x = k THEN Logged(q, events[k])
                                       ELSE events[x]
    BY <1>1 DEF TypeOK
  <2>2. Len(events[k]) \in Nat
    BY <1>2
  <2>3. ASSUME NEW x \in Key PROVE Len(events[x]) <= Len(events'[x])
    <3>1. CASE x = k
      <4>1. Len(events[x]) = Len(events[k])
        BY <3>1
      <4>2. Len(events'[x]) = Len(events[k]) + 1
        BY <1>2, <2>1, <3>1
      <4>3. QED
        BY <2>2, <4>1, <4>2
    <3>2. CASE x # k
      BY <2>1, <3>2
    <3>3. QED
      BY <3>1, <3>2
  <2>4. QED
    BY <2>3
<1>6. ASSUME NEW x \in Request
      PROVE  Located(req[x])' /\ Earned(req[x], events)'
  <2>1. req'[x] = IF x = r THEN IdleReq ELSE req[x]
    BY <1>1 DEF TypeOK
  <2>2. CASE x = r
    BY <2>1, <2>2, IdleReqFine DEF Located, Earned
  <2>3. CASE x # r
    <3> DEFINE y == <<req[x].lecture, req[x].who>>
    <3>1. Located(req[x])' /\ req'[x] = req[x]
      BY <2>1, <2>3 DEF Located
    <3>2. CASE req[x].pc \notin {"events", "engine", "commit"}
      BY <3>1, <3>2 DEF Earned
    <3>3. CASE req[x].pc \in {"events", "engine", "commit"}
      <4>1. /\ y \in Key
            /\ Len(events[y]) \in Nat
            /\ Len(events'[y]) \in Nat
            /\ Len(events[y]) <= Len(events'[y])
        BY <1>4, <1>5, <3>3 DEF Located, Key, TypeOK
      <4>2. /\ req[x].hits \in Nat
            /\ HitsToReach[req[x].state] \in Nat
            /\ HitsToReach[req[x].target] \in Nat
        BY HitsToReachType DEF TypeOK, RequestType
      <4>3. Earned(req[x], events)
        OBVIOUS
      <4>4. QED
        BY <3>1, <4>1, <4>2, <4>3 DEF Earned
    <3>4. QED
      BY <3>2, <3>3
  <2>4. QED
    BY <2>2, <2>3
<1>7. ASSUME NEW o \in Operator PROVE OpLocated(op[o])'
  BY DEF Commit, OpLocated
<1>8. ASSUME NEW x \in Key
      PROVE  HitsToReach[records'[x].state] <= Len(events'[x])
  <2>1. /\ records'[x] = IF x = k THEN Written(q, records[k]) ELSE records[x]
        /\ events'[x] = IF x = k THEN Logged(q, events[k]) ELSE events[x]
    BY <1>1 DEF TypeOK
  <2>2. HitsToReach[records[x].state] <= Len(events[x])
    BY DEF PromotionEarned
  <2>3. CASE x # k
    BY <2>1, <2>2, <2>3
  <2>4. CASE x = k
    <3>1. HitsToReach[q.target] <= Len(events[k]) + 1
      BY <1>0 DEF Earned
    <3>2. HitsToReach[records[k].state] \in Nat /\ Len(events[k]) \in Nat
      BY <1>2, <1>3, HitsToReachType DEF RecordType
    <3>3. QED
      BY <1>2, <1>3, <2>1, <2>2, <2>4, <3>1, <3>2
  <2>5. QED
    BY <2>3, <2>4
<1>9. QED
  BY <1>4, <1>6, <1>7, <1>8 DEF PromotionEarned

-----------------------------------------------------------------------------
(* Lifecycle requests and the environment.                                 *)

\* Lifecycle requests write neither events nor the columns of a record.
LEMMA OperateInv ==
  ASSUME IInv,
         \/ \E o \in Operator : Operate(o)
         \/ \E l \in Lecture : CreateLecture(l)
  PROVE  IInv'
<1> USE DEF IInv
<1>1. req' = req /\ records' = records /\ events' = events
  BY DEF Operate, CreateLecture, BeginStart, BeginClose, BeginFinalize,
         LoadLecture, ReadEnrolment, CommitStart, CommitClose, CommitFinalize,
         CommitStatus, AbortOp, recordVars
<1>2. \A r \in Request : Located(req[r])' /\ Earned(req[r], events)'
  BY <1>1 DEF Located, Earned
<1>3. PromotionEarned'
  BY <1>1 DEF PromotionEarned
<1>4. TypeOK' /\ \A x \in Operator : OpLocated(op[x])'
  <2>1. CASE \E l \in Lecture : CreateLecture(l)
    BY <1>1, <2>1 DEF CreateLecture, TypeOK, Status, recordVars, OpLocated
  <2>2. ASSUME NEW o \in Operator, Operate(o)
        PROVE  TypeOK' /\ \A x \in Operator : OpLocated(op[x])'
    <3> USE DEF TypeOK, OpLocated, OperatorType
    <3>0. IdleOp \in OperatorType /\ OpLocated(IdleOp)
      BY DEF IdleOp, OpPC
    <3>1. ASSUME NEW l \in Lecture,
                 BeginStart(o, l) \/ BeginClose(o, l) \/ BeginFinalize(o, l)
          PROVE  TypeOK' /\ \A x \in Operator : OpLocated(op[x])'
      <4>1. PICK pc \in OpPC :
              /\ op' = [op EXCEPT ![o] = [IdleOp EXCEPT !.pc = pc, !.lecture = l]]
              /\ UNCHANGED <<lectureVars, recordVars, enrolled, rawLog, req>>
        BY <3>1 DEF BeginStart, BeginClose, BeginFinalize, LoadLecture, OpPC
      <4>2. [IdleOp EXCEPT !.pc = pc, !.lecture = l] \in OperatorType
        BY <3>0
      <4>3. [IdleOp EXCEPT !.pc = pc, !.lecture = l].lecture = l
        BY DEF IdleOp
      <4>4. QED
        BY <1>1, <4>1, <4>2, <4>3 DEF lectureVars, recordVars
    <3>2. CASE ReadEnrolment(o)
      <4> DEFINE st == {s \in Student :
                          <<s, SubjectOf[op[o].lecture]>> \in enrolled}
      <4>1. /\ op[o] \in OperatorType
            /\ op' = [op EXCEPT ![o] =
                        [op[o] EXCEPT !.pc = "start", !.students = st]]
        BY <3>2 DEF ReadEnrolment
      <4>2. /\ [op[o] EXCEPT !.pc = "start", !.students = st] \in OperatorType
            /\ [op[o] EXCEPT !.pc = "start", !.students = st].lecture
                 = op[o].lecture
        BY <4>1 DEF OpPC
      <4>3. QED
        BY <1>1, <3>2, <4>1, <4>2 DEF ReadEnrolment, lectureVars, recordVars
    <3>3. CASE CommitStart(o)
      <4>1. op[o].lecture \in Lecture /\ op[o].students \subseteq Student
        BY <3>3 DEF CommitStart
      <4>2. rows' \subseteq Key
        BY <3>3, <4>1 DEF CommitStart, lectureVars, Key
      <4>3. /\ status' \in [Lecture -> Status]
            /\ started' \in [Lecture -> Nat]
            /\ starts' \in Nat
        BY <3>3, <4>1 DEF CommitStart, lectureVars, Status
      <4>4. QED
        BY <1>1, <3>0, <3>3, <4>2, <4>3 DEF CommitStart
    <3>4. CASE CommitClose(o) \/ CommitFinalize(o)
      <4>1. PICK new \in Status :
              /\ status' = [status EXCEPT ![op[o].lecture] = new]
              /\ op' = [op EXCEPT ![o] = IdleOp]
              /\ UNCHANGED <<started, starts, recordVars, enrolled, rawLog, req>>
        BY <3>4 DEF CommitClose, CommitFinalize, CommitStatus, Status
      <4>2. QED
        BY <1>1, <3>0, <4>1 DEF recordVars
    <3>5. CASE AbortOp(o)
      BY <1>1, <3>0, <3>5 DEF AbortOp, lectureVars, recordVars
    <3>6. QED
      BY <2>2, <3>1, <3>2, <3>3, <3>4, <3>5 DEF Operate
  <2>3. QED
    BY <2>1, <2>2
<1>5. QED
  BY <1>2, <1>3, <1>4

\* The clock and the administrator write no events; an override moves a
\* record to a state that needs none.
LEMMA EnvironmentInv ==
  ASSUME IInv,
         \/ Tick
         \/ \E e \in Transferable : SetEnrolment(e)
         \/ \E k \in Key : Override(k)
  PROVE  IInv'
<1> USE DEF IInv
<1>1. CASE Tick
  <2>1. \A k \in Key :
          /\ records'[k] \in RecordType
          /\ records'[k].state = records[k].state
    BY <1>1, OlderType DEF Tick, TypeOK, RecordType
  <2>2. \A r \in Request :
          /\ req'[r] \in RequestType
          /\ req'[r].pc = req[r].pc /\ req'[r].lecture = req[r].lecture
          /\ req'[r].who = req[r].who /\ req'[r].state = req[r].state
          /\ req'[r].hits = req[r].hits /\ req'[r].target = req[r].target
    BY <1>1, OlderType DEF Tick, TypeOK, RequestType
  <2>3. TypeOK'
    BY <1>1, <2>1, <2>2 DEF Tick, TypeOK, lectureVars
  <2>4. \A r \in Request : Located(req[r])' /\ Earned(req[r], events)'
    BY <1>1, <2>2 DEF Tick, Located, Earned
  <2>5. PromotionEarned'
    BY <1>1, <2>1 DEF Tick, PromotionEarned
  <2>6. \A o \in Operator : OpLocated(op[o])'
    BY <1>1 DEF Tick, OpLocated
  <2>7. QED
    BY <2>3, <2>4, <2>5, <2>6
<1>2. ASSUME NEW e \in Transferable, SetEnrolment(e)
      PROVE  IInv'
  <2>1. enrolled' \subseteq Student \X Subject
    BY <1>2, ConstantsAssumption DEF SetEnrolment, TypeOK
  <2>2. QED
    BY <1>2, <2>1 DEF SetEnrolment, TypeOK, lectureVars, recordVars,
         PromotionEarned, Located, Earned, OpLocated
<1>3. ASSUME NEW k \in Key, Override(k)
      PROVE  IInv'
  <2>1. records' = [records EXCEPT ![k] =
          [records[k] EXCEPT !.state = "manual_override", !.locked = TRUE]]
    BY <1>3 DEF Override
  <2>2. /\ records[k] \in RecordType
        /\ [records[k] EXCEPT !.state = "manual_override", !.locked = TRUE]
             \in RecordType
    BY DEF TypeOK, RecordType, AttendanceState
  <2>3. TypeOK'
    BY <1>3, <2>1, <2>2 DEF Override, TypeOK, lectureVars
  <2>4. PromotionEarned'
    <3>1. ASSUME NEW x \in Key
          PROVE  HitsToReach[records'[x].state] <= Len(events[x])
      <4>1. CASE x = k
        <5>1. records'[x].state = "manual_override"
          BY <2>1, <2>2, <4>1 DEF TypeOK, RecordType
        <5>2. Len(events[x]) \in Nat
          BY DEF TypeOK
        <5>3. QED
          BY <5>1, <5>2 DEF HitsToReach
      <4>2. CASE x # k
        BY <2>1, <4>2 DEF TypeOK, PromotionEarned
      <4>3. QED
        BY <4>1, <4>2
    <3>2. QED
      BY <1>3, <3>1 DEF Override, PromotionEarned
  <2>5. QED
    BY <1>3, <2>3, <2>4 DEF Override, Located, Earned, OpLocated
<1>4. QED
  BY <1>1, <1>2, <1>3

-----------------------------------------------------------------------------
(* The theorems.                                                           *)

LEMMA InitInv == Init => IInv
<1> SUFFICES ASSUME Init PROVE IInv
  OBVIOUS
<1>1. TypeOK
  <2>1. NewRecord \in RecordType
    BY CooldownAssumption DEF NewRecord, RecordType, AttendanceState, Age
  <2>2. IdleOp \in OperatorType
    BY DEF IdleOp, OperatorType, OpPC
  <2>3. QED
    BY <2>1, <2>2, IdleReqFine DEF Init, TypeOK, Status
<1>2. \A r \in Request : Located(req[r]) /\ Earned(req[r], events)
  BY IdleReqFine DEF Init
<1>3. \A o \in Operator : OpLocated(op[o])
  BY DEF Init, IdleOp, OpLocated
<1>4. PromotionEarned
  BY DEF Init, NewRecord, PromotionEarned, HitsToReach
<1>5. QED
  BY <1>1, <1>2, <1>3, <1>4 DEF IInv

LEMMA NextInv == IInv /\ [Next]_vars => IInv'
<1> SUFFICES ASSUME IInv, [Next]_vars PROVE IInv'
  OBVIOUS
<1>1. ASSUME NEW r \in Request,
             \/ \E p \in Payload : Post(r, p)
             \/ Handle(r)
             \/ Abort(r)
      PROVE  IInv'
  BY <1>1, ResolveInv, DecideInv, CommitInv DEF Handle
<1>2. CASE UNCHANGED vars
  BY <1>2 DEF IInv, vars, TypeOK, Located, Earned, OpLocated, PromotionEarned
<1>3. QED
  BY <1>1, <1>2, OperateInv, EnvironmentInv DEF Next

\* The inductive invariant holds in every reachable state.
THEOREM Invariance == Spec => []IInv
BY InitInv, NextInv, PTL DEF Spec

\* Every table and every request in flight keeps its type, whatever requests
\* interleave (the whole of AttendanceCore).
THEOREM TypeCorrect == Spec => []TypeOK
<1>1. IInv => TypeOK
  BY DEF IInv
<1>2. QED
  BY <1>1, Invariance, PTL

\* No record is ever in a state its events have not earned, for any number of
\* overlapping requests that all decide on stale copies (engine.py:200-205).
THEOREM PromotionsAreEarned == Spec => []PromotionEarned
<1>1. IInv => PromotionEarned
  BY DEF IInv
<1>2. QED
  BY <1>1, Invariance, PTL
=============================================================================
