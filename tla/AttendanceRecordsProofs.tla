----------------------- MODULE AttendanceRecordsProofs -----------------------
(***************************************************************************)
(* More theorems about AttendanceCore: what ties a record to its lecture,  *)
(* its room, its event rows and the log, for every number of overlapping   *)
(* requests.  They build on the invariant of AttendanceCoreProofs.         *)
(*                                                                         *)
(* RInv adds to it the invariants to be proved, and what the step          *)
(* properties need: a request past the engine holds an unlocked copy, the  *)
(* lecture it found is one of its room, and no lecture was started after   *)
(* the last start.                                                         *)
(***************************************************************************)
EXTENDS AttendanceCoreProofs

Loaded == {"events", "engine", "commit"}
Found  == {"student", "record", "events", "engine", "commit"}

\* What a request that goes on has proved to itself.
Checked(q) ==
  /\ q.pc = "commit" => ~q.locked
  /\ q.pc \in Found => q.ctx \in {AnyRoom, RoomOf[q.lecture]}

StartsInOrder == \A l \in Lecture : started[l] <= starts

RInv ==
  /\ EventsLogged /\ RecordsFollowStart /\ ConfirmedStamped /\ StateExplained
  /\ StartsInOrder
  /\ \A r \in Request : Checked(req[r])

-----------------------------------------------------------------------------
(* Which step changes what.                                                *)

LEMMA EventsChangeBy ==
  ASSUME Next
  PROVE  (\E r \in Request : Commit(r)) \/ events' = events
BY DEF Next, Handle, Post, ResolveRoom, ResolveLecture, ResolveStudent, LoadRecord,
  LoadEvents, Engine, Abort, Proceed, Reject, Operate, BeginStart, BeginClose,
  BeginFinalize, LoadLecture, ReadEnrolment, CommitStart, CommitClose,
  CommitFinalize, CommitStatus, AbortOp, CreateLecture, SetEnrolment, Override,
  Tick, recordVars

LEMMA RecordsChangeBy ==
  ASSUME Next
  PROVE  \/ \E r \in Request : Commit(r)
         \/ \E k \in Key : Override(k)
         \/ Tick
         \/ records' = records
BY DEF Next, Handle, Post, ResolveRoom, ResolveLecture, ResolveStudent, LoadRecord,
  LoadEvents, Engine, Abort, Proceed, Reject, Operate, BeginStart, BeginClose,
  BeginFinalize, LoadLecture, ReadEnrolment, CommitStart, CommitClose,
  CommitFinalize, CommitStatus, AbortOp, CreateLecture, SetEnrolment, recordVars

LEMMA LecturesChangeBy ==
  ASSUME Next
  PROVE  \/ \E o \in Operator : CommitStart(o) \/ CommitClose(o) \/ CommitFinalize(o)
         \/ \E l \in Lecture : CreateLecture(l)
         \/ UNCHANGED <<rows, status, started, starts>>
BY ZenonT(60) DEF Next, Handle, Post, ResolveRoom, ResolveLecture, ResolveStudent, LoadRecord,
  LoadEvents, Engine, Commit, Abort, Proceed, Reject, Operate, BeginStart,
  BeginClose, BeginFinalize, LoadLecture, ReadEnrolment, AbortOp, SetEnrolment,
  Override, Tick, recordVars, lectureVars

\* The raw log only grows.
LEMMA LogGrows ==
  ASSUME Next
  PROVE  rawLog \subseteq rawLog'
BY DEF Next, Handle, Post, ResolveRoom, ResolveLecture, ResolveStudent, LoadRecord,
  LoadEvents, Engine, Commit, Log, Abort, Proceed, Reject, Operate, BeginStart,
  BeginClose, BeginFinalize, LoadLecture, ReadEnrolment, CommitStart, CommitClose,
  CommitFinalize, CommitStatus, AbortOp, CreateLecture, SetEnrolment, Override,
  Tick

\* What a request carries from one step to the next.
Same(p, q) == p.ctx = q.ctx /\ p.who = q.who /\ p.lecture = q.lecture

Fresh(p) == p.pc \in {"idle", "room"} /\ p.lecture = NoLecture

OneOn == {<<"room", "lecture">>, <<"student", "record">>, <<"events", "engine">>}

\* The ways from one state q of a request to the next, p.
Way(p, q) ==
  \/ Fresh(p)
  \/ /\ q.pc = "lecture" /\ p.pc = "student"
     /\ p.ctx = q.ctx /\ p.who = q.who
     /\ p.lecture \in OpenLectures(q.ctx)
  \/ /\ q.pc = "record" /\ p.pc = "events" /\ Same(p, q)
     /\ p.locked = records[<<q.lecture, q.who>>].locked
  \/ /\ Same(p, q) /\ p.locked = q.locked
     /\ \/ p.pc = q.pc
        \/ <<q.pc, p.pc>> \in OneOn
        \/ q.pc = "engine" /\ p.pc = "commit" /\ ~q.locked

LEMMA RequestWays ==
  ASSUME IInv, Next, NEW x \in Request
  PROVE  Way(req'[x], req[x])
<1>0. req \in [Request -> RequestType] /\ req[x] \in RequestType
  BY DEF IInv, TypeOK
<1>1. CASE req' = req
  BY <1>1 DEF Way, Same
<1>2. CASE Tick
  <2>1. req'[x] = [req[x] EXCEPT !.age = Older(@)]
    BY <1>2 DEF Tick
  <2> QED
    BY <1>0, <2>1 DEF Way, Same, RequestType
<1>3. ASSUME NEW r \in Request, NEW p, req' = [req EXCEPT ![r] = p], Way(p, req[r])
      PROVE  Way(req'[x], req[x])
  <2>1. CASE x = r
    BY <1>0, <1>3, <2>1
  <2>2. CASE x # r
    BY <1>0, <1>3, <2>2 DEF Way, Same
  <2> QED
    BY <2>1, <2>2
<1>4. ASSUME NEW r \in Request, req' = [req EXCEPT ![r] = IdleReq]
      PROVE  Way(req'[x], req[x])
  BY <1>3, <1>4 DEF Way, Fresh, IdleReq
<1>5. ASSUME NEW r \in Request,
             \/ \E p \in Payload : Post(r, p)
             \/ Handle(r)
             \/ Abort(r)
      PROVE  Way(req'[x], req[x])
  <2>0. req[r] \in RequestType
    BY <1>0
  <2>1. CASE \E p \in Payload : Post(r, p)
    <3>1. PICK p \in Payload : Post(r, p)
      BY <2>1
    <3> DEFINE q == [IdleReq EXCEPT !.pc = "room", !.ctx = p.ctx, !.who = p.who,
                                    !.confident = p.confident]
    <3>2. Way(q, req[r])
      BY DEF Way, Fresh, IdleReq
    <3> QED
      BY <1>3, <3>1, <3>2 DEF Post, Proceed
  <2>2. CASE ResolveRoom(r)
    <3> DEFINE q == [req[r] EXCEPT !.pc = "lecture"]
    <3>1. Way(q, req[r]) \/ req[r].pc # "room"
      BY <2>0 DEF Way, Same, OneOn, RequestType
    <3> QED
      BY <1>3, <1>4, <2>2, <3>1 DEF ResolveRoom, Proceed, Reject
  <2>3. CASE ResolveLecture(r)
    <3>1. CASE Reject(r, NoLecture, "no_active_lecture")
      BY <1>4, <3>1 DEF Reject
    <3>2. ASSUME NEW l \in OpenLectures(req[r].ctx),
                 Proceed(r, [req[r] EXCEPT !.pc = "student", !.lecture = l])
          PROVE  Way(req'[x], req[x])
      <4> DEFINE q == [req[r] EXCEPT !.pc = "student", !.lecture = l]
      <4>1. Way(q, req[r])
        BY <2>0, <2>3, <3>2 DEF Way, RequestType, ResolveLecture
      <4> QED
        BY <1>3, <3>2, <4>1 DEF Proceed
    <3> QED
      BY <2>3, <3>1, <3>2 DEF ResolveLecture, Latest
  <2>4. CASE ResolveStudent(r)
    <3> DEFINE q == [req[r] EXCEPT !.pc = "record"]
    <3>1. Way(q, req[r])
      BY <2>0, <2>4 DEF Way, Same, OneOn, RequestType, ResolveStudent
    <3> QED
      BY <1>3, <1>4, <2>4, <3>1 DEF ResolveStudent, Proceed, Reject
  <2>5. CASE LoadRecord(r)
    <3> DEFINE k == <<req[r].lecture, req[r].who>>
               q == [req[r] EXCEPT !.pc = "events", !.state = records[k].state,
                       !.locked = records[k].locked, !.age = records[k].age]
    <3>1. Way(q, req[r])
      BY <2>0, <2>5 DEF Way, Same, RequestType, LoadRecord
    <3> QED
      BY <1>3, <1>4, <2>5, <3>1 DEF LoadRecord, ReqKey, Proceed, Reject
  <2>6. CASE LoadEvents(r)
    <3> DEFINE q == [req[r] EXCEPT !.pc = "engine", !.hits = Len(events[ReqKey(r)])]
    <3>1. Way(q, req[r])
      BY <2>0, <2>6 DEF Way, Same, OneOn, RequestType, LoadEvents
    <3> QED
      BY <1>3, <2>6, <3>1 DEF LoadEvents, Proceed
  <2>7. CASE Engine(r)
    <3> DEFINE q == [req[r] EXCEPT !.pc = "commit", !.age = 0,
                       !.target = Target(req[r].state, req[r].hits)]
    <3>1. CASE Reject(r, req[r].lecture, "routed")
      BY <1>4, <3>1 DEF Reject
    <3>2. CASE ~Reject(r, req[r].lecture, "routed")
      <4>1. req[r].pc = "engine" /\ ~req[r].locked /\ Proceed(r, q)
        BY <2>7, <3>2 DEF Engine, Suppressed
      <4>2. Way(q, req[r])
        BY <2>0, <4>1 DEF Way, Same, RequestType
      <4> QED
        BY <1>3, <4>1, <4>2 DEF Proceed
    <3> QED
      BY <3>1, <3>2
  <2>8. CASE Commit(r) \/ Abort(r)
    BY <1>4, <2>8 DEF Commit, Abort, Proceed
  <2> QED
    BY <1>5, <2>1, <2>2, <2>3, <2>4, <2>5, <2>6, <2>7, <2>8 DEF Handle
<1>6. CASE \/ \E o \in Operator : Operate(o)
           \/ \E l \in Lecture : CreateLecture(l)
           \/ \E e \in Transferable : SetEnrolment(e)
           \/ \E k \in Key : Override(k)
  <2>1. req' = req
    BY <1>6 DEF Operate, BeginStart, BeginClose, BeginFinalize, LoadLecture,
      ReadEnrolment, CommitStart, CommitClose, CommitFinalize, CommitStatus,
      AbortOp, CreateLecture, SetEnrolment, Override
  <2> QED
    BY <1>1, <2>1
<1> QED
  BY <1>2, <1>5, <1>6 DEF Next

-----------------------------------------------------------------------------
(* The invariants, one by one.                                             *)

\* A commit's view of the tables.
LEMMA CommitEffect ==
  ASSUME IInv, NEW r \in Request, Commit(r)
  PROVE  LET k == <<req[r].lecture, req[r].who>>
         IN  /\ k \in Key /\ req[r].pc = "commit" /\ req[r] \in RequestType
             /\ records[k] \in RecordType /\ events[k] \in Seq(EventRow)
             /\ \A x \in Key :
                  /\ events'[x] = IF x = k THEN Logged(req[r], events[k]) ELSE events[x]
                  /\ records'[x] = IF x = k THEN Written(req[r], records[k])
                                   ELSE records[x]
             /\ [lecture |-> req[r].lecture, who |-> req[r].who, note |-> "routed"]
                  \in rawLog'
BY DEF IInv, TypeOK, Commit, Located, Key, ReqKey, Log

LEMMA EventsLoggedStep ==
  ASSUME IInv, EventsLogged, Next
  PROVE  EventsLogged'
<1> SUFFICES ASSUME NEW k \in Key, events'[k] # <<>>
             PROVE  [lecture |-> k[1], who |-> k[2], note |-> "routed"] \in rawLog'
  BY DEF EventsLogged
<1>1. CASE events'[k] = events[k]
  BY <1>1, LogGrows DEF EventsLogged
<1>2. CASE events'[k] # events[k]
  <2>1. PICK r \in Request : Commit(r)
    BY <1>2, EventsChangeBy
  <2>2. k = <<req[r].lecture, req[r].who>>
    BY <1>2, <2>1, CommitEffect
  <2> QED
    BY <2>1, <2>2, CommitEffect
<1> QED
  BY <1>1, <1>2

LEMMA LectureStep ==
  ASSUME IInv, RecordsFollowStart, StartsInOrder, Next
  PROVE  RecordsFollowStart' /\ StartsInOrder'
<1>0. /\ status \in [Lecture -> Status] /\ rows \subseteq Key
      /\ started \in [Lecture -> Nat] /\ starts \in Nat
  BY DEF IInv, TypeOK
<1>1. ASSUME NEW o \in Operator, CommitStart(o)
      PROVE  RecordsFollowStart' /\ StartsInOrder'
  <2> DEFINE l == op[o].lecture
             new == {l} \X op[o].students
  <2>1. l \in Lecture
    BY <1>1 DEF CommitStart, IInv, OpLocated
  <2>2. CASE UNCHANGED <<lectureVars, rows>>
    BY <2>2 DEF lectureVars, RecordsFollowStart, StartsInOrder
  <2>3. CASE ~UNCHANGED <<lectureVars, rows>>
    <3>1. /\ rows' = rows \cup new
          /\ status' = [status EXCEPT ![l] = "active_window_open"]
          /\ started' = [started EXCEPT ![l] = starts + 1]
          /\ starts' = starts + 1
      BY <1>1, <2>3 DEF CommitStart
    <3>2. ASSUME NEW k \in rows' PROVE status'[k[1]] \notin {"uncreated", "scheduled"}
      <4>1. CASE k \in rows
        BY <1>0, <2>1, <3>1, <4>1 DEF RecordsFollowStart, Key
      <4>2. CASE k \in new
        BY <1>0, <2>1, <3>1, <4>2
      <4> QED
        BY <3>1, <3>2, <4>1, <4>2
    <3>3. ASSUME NEW m \in Lecture PROVE started'[m] <= starts'
      BY <1>0, <2>1, <3>1 DEF StartsInOrder
    <3> QED
      BY <3>2, <3>3 DEF RecordsFollowStart, StartsInOrder
  <2> QED
    BY <2>2, <2>3
<1>2. ASSUME NEW o \in Operator, CommitClose(o) \/ CommitFinalize(o)
      PROVE  RecordsFollowStart' /\ StartsInOrder'
  <2>1. PICK new \in {"active_window_closed", "finalized"} :
          /\ status' = [status EXCEPT ![op[o].lecture] = new]
          /\ UNCHANGED <<started, starts, recordVars>>
    BY <1>2 DEF CommitClose, CommitFinalize, CommitStatus
  <2>2. \A l \in Lecture : status'[l] \in {status[l], "active_window_closed", "finalized"}
    BY <1>0, <2>1
  <2>3. \A k \in rows : k[1] \in Lecture
    BY <1>0 DEF Key
  <2> QED
    BY <2>1, <2>2, <2>3 DEF RecordsFollowStart, StartsInOrder, recordVars
<1>3. ASSUME NEW l \in Lecture, CreateLecture(l)
      PROVE  RecordsFollowStart' /\ StartsInOrder'
  <2>1. /\ status[l] = "uncreated" /\ status' = [status EXCEPT ![l] = "scheduled"]
        /\ UNCHANGED <<started, starts, recordVars>>
    BY <1>3 DEF CreateLecture
  <2>2. \A k \in rows : k[1] \in Lecture /\ k[1] # l
    BY <1>0, <2>1 DEF Key, RecordsFollowStart
  <2> QED
    BY <1>0, <2>1, <2>2 DEF RecordsFollowStart, StartsInOrder, recordVars
<1>4. CASE UNCHANGED <<rows, status, started, starts>>
  BY <1>4 DEF RecordsFollowStart, StartsInOrder
<1> QED
  BY <1>1, <1>2, <1>3, <1>4, LecturesChangeBy

LEMMA StampStep ==
  ASSUME IInv, ConfirmedStamped, Next
  PROVE  ConfirmedStamped'
<1>0. records \in [Key -> RecordType]
  BY DEF IInv, TypeOK
<1> SUFFICES ASSUME NEW k \in Key, ~records'[k].locked
             PROVE  records'[k].state = "confirmed" <=> records'[k].stamped
  BY DEF ConfirmedStamped
<1>1. ~records[k].locked => (records[k].state = "confirmed" <=> records[k].stamped)
  BY DEF ConfirmedStamped
<1>2. ASSUME NEW r \in Request, Commit(r)
      PROVE  records'[k].state = "confirmed" <=> records'[k].stamped
  <2>1. CASE records'[k] = records[k]
    BY <1>1, <2>1
  <2>2. CASE records'[k] # records[k]
    <3>1. records'[k] = Written(req[r], records[k]) /\ records[k] \in RecordType
      BY <1>2, <2>2, CommitEffect
    <3>2. CASE req[r].target = req[r].state
      BY <1>1, <3>1, <3>2 DEF Written, RecordType
    <3>3. CASE req[r].target # req[r].state
      BY <3>1, <3>3 DEF Written, RecordType
    <3> QED
      BY <3>2, <3>3
  <2> QED
    BY <2>1, <2>2
<1>3. ASSUME NEW x \in Key, Override(x)
      PROVE  records'[k].state = "confirmed" <=> records'[k].stamped
  <2>1. records' = [records EXCEPT ![x] =
          [records[x] EXCEPT !.state = "manual_override", !.locked = TRUE]]
    BY <1>3 DEF Override
  <2>2. x # k
    BY <1>0, <2>1 DEF RecordType
  <2> QED
    BY <1>0, <1>1, <2>1, <2>2
<1>4. CASE Tick
  <2>1. records'[k] = [records[k] EXCEPT !.age = Older(@)]
    BY <1>4 DEF Tick
  <2> QED
    BY <1>0, <1>1, <2>1 DEF RecordType
<1> QED
  BY <1>1, <1>2, <1>3, <1>4, RecordsChangeBy

\* One more event row, and what the record's state has to be after it.
LEMMA ExplainedAppend ==
  ASSUME NEW es \in Seq(EventRow), NEW st, NEW e \in EventRow, Explained(st, es)
  PROVE  /\ ~IsMove(e) => Explained(st, Append(es, e))
         /\ IsMove(e) => Explained(e.to, Append(es, e))
<1> DEFINE fs == Append(es, e)
<1>1. /\ Len(es) \in Nat /\ Len(fs) = Len(es) + 1
      /\ fs[Len(es) + 1] = e
      /\ \A i \in 1 .. Len(es) : fs[i] = es[i]
  OBVIOUS
<1>2. ASSUME ~IsMove(e) PROVE Explained(st, fs)
  <2>1. \A i \in 1 .. Len(fs) : i \in 1 .. Len(es) \/ i = Len(es) + 1
    BY <1>1
  <2>2. CASE st = "undetected" /\ \A i \in 1 .. Len(es) : ~IsMove(es[i])
    <3>1. \A i \in 1 .. Len(fs) : ~IsMove(fs[i])
      BY <1>1, <1>2, <2>1, <2>2
    <3> QED
      BY <2>2, <3>1 DEF Explained
  <2>3. ASSUME NEW i \in 1 .. Len(es),
               IsMove(es[i]), es[i].to = st,
               \A j \in i + 1 .. Len(es) : ~IsMove(es[j])
        PROVE  Explained(st, fs)
    <3>1. i \in 1 .. Len(fs) /\ IsMove(fs[i]) /\ fs[i].to = st
      BY <1>1, <2>3
    <3>2. ASSUME NEW j \in i + 1 .. Len(fs) PROVE ~IsMove(fs[j])
      <4>1. j \in i + 1 .. Len(es) \/ j = Len(es) + 1
        BY <1>1
      <4>2. j \in i + 1 .. Len(es) => fs[j] = es[j]
        BY <1>1
      <4> QED
        BY <1>1, <1>2, <2>3, <4>1, <4>2
    <3> QED
      BY <3>1, <3>2 DEF Explained
  <2> QED
    BY <2>2, <2>3 DEF Explained
<1>3. ASSUME IsMove(e) PROVE Explained(e.to, fs)
  <2>1. Len(es) + 1 \in 1 .. Len(fs) /\ IsMove(fs[Len(es) + 1])
        /\ fs[Len(es) + 1].to = e.to
    BY <1>1, <1>3
  <2>2. \A j \in (Len(es) + 1) + 1 .. Len(fs) : FALSE
    BY <1>1
  <2> QED
    BY <2>1, <2>2 DEF Explained
<1> QED
  BY <1>2, <1>3

LEMMA ExplainStep ==
  ASSUME IInv, StateExplained, Next
  PROVE  StateExplained'
<1>0. records \in [Key -> RecordType] /\ events \in [Key -> Seq(EventRow)]
  BY DEF IInv, TypeOK
<1> SUFFICES ASSUME NEW k \in Key, ~records'[k].locked
             PROVE  Explained(records'[k].state, events'[k])
  BY DEF StateExplained, Explained, IsMove
<1>1. ~records[k].locked => Explained(records[k].state, events[k])
  BY DEF StateExplained
<1>2. ASSUME NEW r \in Request, Commit(r)
      PROVE  Explained(records'[k].state, events'[k])
  <2>1. CASE k # <<req[r].lecture, req[r].who>>
    BY <1>1, <1>2, <2>1, CommitEffect
  <2>2. CASE k = <<req[r].lecture, req[r].who>>
    <3> DEFINE e == [from |-> req[r].state, to |-> req[r].target]
    <3>1. /\ records'[k] = Written(req[r], records[k]) /\ records[k] \in RecordType
          /\ events'[k] = Append(events[k], e) /\ events[k] \in Seq(EventRow)
          /\ req[r] \in RequestType
      BY <1>2, <2>2, CommitEffect DEF Logged
    <3>2. e \in EventRow
      BY <3>1 DEF EventRow, RequestType
    <3>3. ~records[k].locked
      BY <3>1 DEF Written, RecordType
    <3>4. /\ ~IsMove(e) => Explained(records[k].state, Append(events[k], e))
          /\ IsMove(e) => Explained(e.to, Append(events[k], e))
      BY <1>1, <3>1, <3>2, <3>3, ExplainedAppend
    <3>5. CASE req[r].target = req[r].state
      BY <3>1, <3>4, <3>5 DEF Written, RecordType, IsMove
    <3>6. CASE req[r].target # req[r].state
      BY <3>1, <3>4, <3>6 DEF Written, RecordType, IsMove
    <3> QED
      BY <3>5, <3>6
  <2> QED
    BY <2>1, <2>2
<1>3. CASE events' = events
  <2>1. ASSUME NEW x \in Key, Override(x)
        PROVE  Explained(records'[k].state, events'[k])
    <3>1. records' = [records EXCEPT ![x] =
            [records[x] EXCEPT !.state = "manual_override", !.locked = TRUE]]
      BY <2>1 DEF Override
    <3>2. x # k
      BY <1>0, <3>1 DEF RecordType
    <3> QED
      BY <1>0, <1>1, <1>3, <3>1, <3>2
  <2>2. CASE Tick
    <3>1. records'[k] = [records[k] EXCEPT !.age = Older(@)]
      BY <2>2 DEF Tick
    <3> QED
      BY <1>0, <1>1, <1>3, <3>1 DEF RecordType
  <2> QED
    BY <1>1, <1>2, <1>3, <2>1, <2>2, RecordsChangeBy
<1> QED
  BY <1>2, <1>3, EventsChangeBy

LEMMA CheckedStep ==
  ASSUME IInv, \A r \in Request : Checked(req[r]), Next, NEW x \in Request
  PROVE  Checked(req'[x])
<1> DEFINE q == req[x]
           p == req'[x]
<1>1. Way(p, q) /\ Checked(q) /\ q \in RequestType
  BY RequestWays DEF IInv, TypeOK
<1>2. CASE Fresh(p)
  BY <1>2 DEF Fresh, Checked, Found
<1>3. CASE /\ q.pc = "lecture" /\ p.pc = "student" /\ p.ctx = q.ctx
           /\ p.lecture \in OpenLectures(q.ctx)
  BY <1>3 DEF OpenLectures, Checked, Found
<1>4. CASE q.pc = "record" /\ p.pc = "events" /\ Same(p, q)
  BY <1>1, <1>4 DEF Same, Checked, Found
<1>5. CASE /\ Same(p, q) /\ p.locked = q.locked
           /\ \/ p.pc = q.pc
              \/ <<q.pc, p.pc>> \in OneOn
              \/ q.pc = "engine" /\ p.pc = "commit" /\ ~q.locked
  BY <1>1, <1>5 DEF Same, OneOn, Checked, Found
<1> QED
  BY <1>1, <1>2, <1>3, <1>4, <1>5 DEF Way

-----------------------------------------------------------------------------
(* The theorems.                                                           *)

LEMMA RecordsInit == Init => RInv
<1> SUFFICES ASSUME Init PROVE RInv
  OBVIOUS
<1>1. EventsLogged /\ RecordsFollowStart /\ StartsInOrder
  BY DEF Init, EventsLogged, RecordsFollowStart, StartsInOrder
<1>2. ConfirmedStamped
  BY DEF Init, NewRecord, ConfirmedStamped
<1>3. StateExplained
  BY DEF Init, NewRecord, StateExplained, Explained
<1>4. \A r \in Request : Checked(req[r])
  BY DEF Init, IdleReq, Checked, Found
<1> QED
  BY <1>1, <1>2, <1>3, <1>4 DEF RInv

LEMMA RecordsNext == IInv /\ RInv /\ [Next]_vars => RInv'
<1> SUFFICES ASSUME IInv, RInv, [Next]_vars PROVE RInv'
  OBVIOUS
<1>1. CASE Next
  <2>1. \A x \in Request : Checked(req'[x])
    BY <1>1, CheckedStep DEF RInv
  <2> QED
    BY <1>1, <2>1, EventsLoggedStep, LectureStep, StampStep, ExplainStep
    DEF RInv, Checked
<1>2. CASE UNCHANGED vars
  BY <1>2 DEF vars, RInv, EventsLogged, RecordsFollowStart, ConfirmedStamped,
    StateExplained, StartsInOrder, Checked
<1> QED
  BY <1>1, <1>2

LEMMA RecordsInvariance == Spec => [](IInv /\ RInv)
BY Invariance, RecordsInit, RecordsNext, PTL DEF Spec

\* What a transaction wrote is there as a whole, for any number of requests and
\* of start, close and finalize at once (ingestor.py:218-232,
\* sessions/controller.py:71-90).
THEOREM TransactionsAreWhole == Spec => []OneTransaction
BY RecordsInvariance, PTL DEF RInv, OneTransaction

\* The last transition among a record's event rows led to its state and to its
\* confirmed_at, although requests that decided on different copies overwrite
\* each other (engine.py:242-250).
THEOREM RowsExplainRecords == Spec => []RecordExplained
BY RecordsInvariance, PTL DEF RInv, RecordExplained

-----------------------------------------------------------------------------
(* The step properties.                                                    *)

\* A step leaves an overridden record alone, and whoever loads it from now on
\* sees the lock.
LEMMA LockStep ==
  ASSUME IInv, RInv, Next, NEW k \in Key, Settled(k)
  PROVE  Settled(k)' /\ events'[k] = events[k]
<1>0. records \in [Key -> RecordType] /\ req \in [Request -> RequestType]
  BY DEF IInv, TypeOK
<1>1. events'[k] = events[k]
  <2> SUFFICES ASSUME events'[k] # events[k] PROVE FALSE
    OBVIOUS
  <2>1. PICK r \in Request : Commit(r)
    BY EventsChangeBy
  <2>2. req[r].pc = "commit" /\ ReqKey(r) = k
    BY <2>1, CommitEffect DEF ReqKey
  <2> QED
    BY <2>2, Zenon DEF Settled, RInv, Checked
<1>2. records'[k].locked
  <2>1. ASSUME NEW r \in Request, Commit(r) PROVE records'[k].locked
    <3>1. records'[k] = records[k] \/ records'[k] = Written(req[r], records[k])
      BY <2>1, CommitEffect
    <3>2. Written(req[r], records[k]).locked = records[k].locked
      BY <1>0 DEF Written, RecordType
    <3> QED
      BY <3>1, <3>2, Zenon DEF Settled
  <2>2. ASSUME NEW x \in Key, Override(x) PROVE records'[k].locked
    <3>1. records' = [records EXCEPT ![x] =
            [records[x] EXCEPT !.state = "manual_override", !.locked = TRUE]]
      BY <2>2 DEF Override
    <3>2. CASE x = k
      BY <1>0, <3>1, <3>2 DEF RecordType
    <3>3. CASE x # k
      BY <1>0, <3>1, <3>3 DEF Settled
    <3> QED
      BY <3>2, <3>3
  <2>3. CASE Tick
    <3>1. records'[k] = [records[k] EXCEPT !.age = Older(@)]
      BY <2>3 DEF Tick
    <3> QED
      BY <1>0, <3>1 DEF RecordType, Settled
  <2>4. CASE records' = records
    BY <2>4 DEF Settled
  <2> QED
    BY <2>1, <2>2, <2>3, <2>4, RecordsChangeBy
<1>3. ASSUME NEW x \in Request, req'[x].pc \in Loaded,
             <<req'[x].lecture, req'[x].who>> = k
      PROVE  req'[x].locked
  <2> DEFINE q == req[x]
             p == req'[x]
  <2>1. Way(p, q)
    BY RequestWays
  <2>2. CASE q.pc = "record" /\ Same(p, q) /\ p.locked = records[<<q.lecture, q.who>>].locked
    BY <1>3, <2>2, Zenon DEF Same, Settled
  <2>3. CASE /\ Same(p, q) /\ p.locked = q.locked
             /\ \/ p.pc = q.pc
                \/ <<q.pc, p.pc>> \in OneOn
                \/ q.pc = "engine" /\ p.pc = "commit"
    <3>1. q.pc \in Loaded
      BY <1>3, <2>3 DEF OneOn, Loaded
    <3>2. ReqKey(x) = k
      BY <1>3, <2>3 DEF Same, ReqKey
    <3> QED
      BY <2>3, <3>1, <3>2, Zenon DEF Settled, Loaded
  <2>4. ~Fresh(p) /\ p.pc # "student"
    BY <1>3 DEF Fresh, Loaded
  <2> QED
    BY <2>1, <2>2, <2>3, <2>4, Zenon DEF Way
<1> QED
  BY <1>1, <1>2, <1>3 DEF Settled, Loaded, ReqKey

\* Once nobody has a copy of a closed lecture, none gets one and none of its
\* records changes, unless it is started again.
LEMMA QuietStep ==
  ASSUME IInv, RInv, Next, NEW k \in Key, Quiet(k[1])
  PROVE  \/ Quiet(k[1])' /\ events'[k] = events[k]
         \/ started'[k[1]] # started[k[1]]
<1> DEFINE l == k[1]
<1>0. /\ l \in Lecture /\ status \in [Lecture -> Status]
      /\ started \in [Lecture -> Nat] /\ starts \in Nat /\ started[l] <= starts
      /\ status[l] \in {"active_window_closed", "finalized"}
  BY DEF IInv, TypeOK, Key, RInv, StartsInOrder, Quiet
<1>1. events'[k] = events[k]
  <2> SUFFICES ASSUME events'[k] # events[k] PROVE FALSE
    OBVIOUS
  <2>1. PICK r \in Request : Commit(r)
    BY EventsChangeBy
  <2>2. k = <<req[r].lecture, req[r].who>>
    BY <2>1, CommitEffect
  <2>3. req[r].lecture = l
    BY <2>2
  <2> QED
    BY <2>3 DEF Quiet
<1>2. ASSUME NEW x \in Request PROVE req'[x].lecture # l
  <2>1. Way(req'[x], req[x]) /\ req[x].lecture # l
    BY RequestWays DEF Quiet
  <2> QED
    BY <1>0, <2>1, ConstantsAssumption DEF Way, Fresh, Same, OpenLectures
<1>3. \/ status'[l] \in {"active_window_closed", "finalized"}
      \/ started'[l] # started[l]
  <2>1. ASSUME NEW o \in Operator, CommitStart(o)
        PROVE  \/ status'[l] \in {"active_window_closed", "finalized"}
               \/ started'[l] # started[l]
    <3>1. \/ UNCHANGED <<lectureVars, rows>>
          \/ /\ status' = [status EXCEPT ![op[o].lecture] = "active_window_open"]
             /\ started' = [started EXCEPT ![op[o].lecture] = starts + 1]
      BY <2>1 DEF CommitStart
    <3>2. CASE UNCHANGED <<lectureVars, rows>>
      BY <1>0, <3>2 DEF lectureVars
    <3>3. CASE /\ status' = [status EXCEPT ![op[o].lecture] = "active_window_open"]
               /\ started' = [started EXCEPT ![op[o].lecture] = starts + 1]
      <4>1. CASE op[o].lecture = l
        <5>1. started'[l] = starts + 1
          BY <1>0, <3>3, <4>1
        <5> QED
          BY <1>0, <5>1
      <4>2. CASE op[o].lecture # l
        BY <1>0, <3>3, <4>2
      <4> QED
        BY <4>1, <4>2
    <3> QED
      BY <3>1, <3>2, <3>3
  <2>2. ASSUME NEW o \in Operator, CommitClose(o) \/ CommitFinalize(o)
        PROVE  status'[l] \in {"active_window_closed", "finalized"}
    <3>1. PICK new \in {"active_window_closed", "finalized"} :
            status' = [status EXCEPT ![op[o].lecture] = new]
      BY <2>2 DEF CommitClose, CommitFinalize, CommitStatus
    <3> QED
      BY <1>0, <3>1
  <2>3. ASSUME NEW m \in Lecture, CreateLecture(m)
        PROVE  status'[l] \in {"active_window_closed", "finalized"}
    BY <1>0, <2>3 DEF CreateLecture
  <2> QED
    BY <1>0, <2>1, <2>2, <2>3, LecturesChangeBy
<1> QED
  BY <1>1, <1>2, <1>3 DEF Quiet

\* A locked record stays as the administrator left it once the requests that
\* had loaded it unlocked are gone (engine.py:8, 145-152).
THEOREM LocksHold == Spec => LockedUntouched
<1>1. IInv /\ RInv /\ [Next]_vars =>
        [\A k \in Key : Settled(k) => Settled(k)' /\ events'[k] = events[k]]_vars
  BY LockStep
<1> QED
  BY <1>1, RecordsInvariance, PTL DEF Spec, LockedUntouched

\* No event counts in a lecture of another room, however many lectures and
\* rooms there are (resolver.py:125-158).
THEOREM RoomsIsolated == Spec => RoomIsolation
<1>1. IInv /\ RInv /\ [Next]_vars =>
        [\A k \in Key : events'[k] # events[k] =>
           \E r \in Request : /\ req[r].pc = "commit"
                              /\ req'[r].pc = "idle"
                              /\ req[r].who = k[2]
                              /\ req[r].ctx \in {AnyRoom, RoomOf[k[1]]}]_vars
  <2> SUFFICES ASSUME IInv, RInv, Next, NEW k \in Key, events'[k] # events[k]
               PROVE  \E r \in Request : /\ req[r].pc = "commit"
                                         /\ req'[r].pc = "idle"
                                         /\ req[r].who = k[2]
                                         /\ req[r].ctx \in {AnyRoom, RoomOf[k[1]]}
    OBVIOUS
  <2>1. PICK r \in Request : Commit(r)
    BY EventsChangeBy
  <2>2. k = <<req[r].lecture, req[r].who>> /\ req[r].pc = "commit"
    BY <2>1, CommitEffect
  <2>3. req'[r].pc = "idle"
    BY <2>1 DEF Commit, IdleReq, IInv, TypeOK
  <2>4. req[r].ctx \in {AnyRoom, RoomOf[req[r].lecture]}
    BY <2>2 DEF RInv, Checked, Found
  <2> QED
    BY <2>2, <2>3, <2>4
<1> QED
  BY <1>1, RecordsInvariance, PTL DEF Spec, RoomIsolation

\* After a window is closed, and the requests that found it open are gone, no
\* record of its lecture accepts an event (resolver.py:125-158).
THEOREM WindowsStayShut == Spec => NoHitAfterWindow
<1>1. IInv /\ RInv /\ [Next]_vars =>
        [\A k \in Key : Quiet(k[1]) =>
           \/ Quiet(k[1])' /\ events'[k] = events[k]
           \/ started'[k[1]] # started[k[1]]]_vars
  BY QuietStep
<1> QED
  BY <1>1, RecordsInvariance, PTL DEF Spec, NoHitAfterWindow

-----------------------------------------------------------------------------
(***************************************************************************)
(* AttendanceCore implements HitLadder, and keeps its cooldown, as long as *)
(* no two requests hold a copy of the same record at once (Apart): for any *)
(* number of requests in flight, students, lectures and operators.         *)
(*                                                                         *)
(* The invariant they need is that a copy is never stale (Current).  It is *)
(* not an invariant of Spec alone, where another request may commit while  *)
(* a copy is held; nothing else writes what the engine decides on, except  *)
(* an administrator.                                                       *)
(***************************************************************************)

\* No two requests hold a copy of one record.
Apart ==
  \A r1, r2 \in Request :
    /\ req[r1].pc \in Loaded
    /\ req[r2].pc \in Loaded
    /\ ReqKey(r1) = ReqKey(r2)
    => r1 = r2

\* What the request holds is what the tables have, and what it is going to
\* write was decided on that.  An administrator may change the state, but
\* neither the events nor their times.
Faithful(q) ==
  LET k == <<q.lecture, q.who>>
  IN  q.pc \in Loaded =>
        /\ q.who \notin Overridable => q.state = records[k].state
        /\ q.pc # "events" => q.hits = Len(events[k])
        /\ q.pc # "commit" => q.age = records[k].age
        /\ q.pc = "commit" => /\ records[k].age = Cooldown
                              /\ ~Terminal(q.state)
                              /\ q.target = Target(q.state, q.hits)

Current == \A r \in Request : Faithful(req[r])

-----------------------------------------------------------------------------
(* The copies stay current.                                                *)

\* A request goes on, or is answered, without a write to the records.
LEMMA StepFaithful ==
  ASSUME IInv, Current, NEW r \in Request, NEW q,
         req' = [req EXCEPT ![r] = q], UNCHANGED recordVars, Faithful(q)
  PROVE  Current'
<1>1. ASSUME NEW x \in Request PROVE Faithful(req[x])'
  <2>1. req'[x] = IF x = r THEN q ELSE req[x]
    BY DEF IInv, TypeOK
  <2>2. Faithful(req'[x])
    BY <2>1 DEF Current
  <2>3. records' = records /\ events' = events
    BY DEF recordVars
  <2> QED
    BY <2>2, <2>3 DEF Faithful
<1> QED
  BY <1>1 DEF Current

LEMMA IdleFaithful == Faithful(IdleReq)
BY DEF Faithful, IdleReq, Loaded

LEMMA HandleCurrent ==
  ASSUME IInv, Current, NEW r \in Request,
         \/ \E p \in Payload : Post(r, p)
         \/ ResolveRoom(r) \/ ResolveLecture(r) \/ ResolveStudent(r)
         \/ LoadRecord(r) \/ LoadEvents(r) \/ Engine(r) \/ Abort(r)
  PROVE  Current'
<1> DEFINE k == <<req[r].lecture, req[r].who>>
<1>0. req[r] \in RequestType /\ Faithful(req[r]) /\ Located(req[r])
  BY DEF IInv, TypeOK, Current
<1>1. ASSUME NEW q, Proceed(r, q), Faithful(q) PROVE Current'
  BY <1>1, StepFaithful DEF Proceed
<1>2. ASSUME NEW l, NEW note, Reject(r, l, note) PROVE Current'
  BY <1>2, IdleFaithful, StepFaithful DEF Reject
<1>3. ASSUME NEW q, q.pc \notin Loaded PROVE Faithful(q)
  BY <1>3 DEF Faithful
<1>4. CASE \E p \in Payload : Post(r, p)
  <2>1. PICK p \in Payload : Post(r, p)
    BY <1>4
  <2> DEFINE q == [IdleReq EXCEPT !.pc = "room", !.ctx = p.ctx, !.who = p.who,
                                  !.confident = p.confident]
  <2>2. q.pc \notin Loaded
    BY DEF IdleReq, Loaded
  <2> QED
    BY <1>1, <1>3, <2>1, <2>2 DEF Post
<1>5. CASE ResolveRoom(r) \/ ResolveStudent(r)
  <2>1. ASSUME NEW pc \in {"lecture", "record"}
        PROVE  [req[r] EXCEPT !.pc = pc].pc \notin Loaded
    BY <1>0 DEF RequestType, Loaded
  <2> QED
    BY <1>1, <1>2, <1>3, <1>5, <2>1 DEF ResolveRoom, ResolveStudent
<1>6. CASE ResolveLecture(r)
  <2>1. ASSUME NEW l
        PROVE  [req[r] EXCEPT !.pc = "student", !.lecture = l].pc \notin Loaded
    BY <1>0 DEF RequestType, Loaded
  <2> QED
    BY <1>1, <1>2, <1>3, <1>6, <2>1 DEF ResolveLecture
<1>7. CASE LoadRecord(r)
  <2> DEFINE q == [req[r] EXCEPT !.pc = "events", !.state = records[k].state,
                      !.locked = records[k].locked, !.age = records[k].age]
  <2>1. Faithful(q)
    BY <1>0 DEF Faithful, RequestType
  <2> QED
    BY <1>1, <1>2, <1>7, <2>1 DEF LoadRecord, ReqKey
<1>8. CASE LoadEvents(r)
  <2> DEFINE q == [req[r] EXCEPT !.pc = "engine", !.hits = Len(events[k])]
  <2>1. req[r].pc = "events" /\ Proceed(r, q)
    BY <1>8 DEF LoadEvents, ReqKey
  <2>2. Faithful(q)
    BY <1>0, <2>1 DEF Faithful, RequestType, Loaded
  <2> QED
    BY <1>1, <2>1, <2>2
<1>9. CASE Engine(r)
  <2> DEFINE q == [req[r] EXCEPT !.pc = "commit", !.age = 0,
                      !.target = Target(req[r].state, req[r].hits)]
             sup == Suppressed("active_window_open", req[r].confident,
                               req[r].locked, req[r].state, req[r].age)
  <2>1. CASE sup
    BY <1>2, <1>9, <2>1 DEF Engine
  <2>2. CASE ~sup
    <3>1. req[r].pc = "engine" /\ Proceed(r, q)
      BY <1>9, <2>2 DEF Engine
    <3>2. ~Terminal(req[r].state) /\ ~(req[r].age < Cooldown)
      BY <2>2 DEF Suppressed
    <3>3. req[r].age = Cooldown
      BY <1>0, <3>2, CooldownAssumption DEF RequestType, Age
    <3>4. Faithful(q)
      BY <1>0, <3>1, <3>2, <3>3 DEF Faithful, RequestType, Loaded
    <3> QED
      BY <1>1, <3>1, <3>4
  <2> QED
    BY <2>1, <2>2
<1>10. CASE Abort(r)
  BY <1>1, <1>10, IdleFaithful DEF Abort
<1> QED
  BY <1>4, <1>5, <1>6, <1>7, <1>8, <1>9, <1>10

\* A commit ends the only copy of the record it writes.
LEMMA CommitCurrent ==
  ASSUME IInv, Current, Apart, NEW r \in Request, Commit(r)
  PROVE  Current'
<1> SUFFICES ASSUME NEW x \in Request PROVE Faithful(req[x])'
  BY DEF Current
<1> DEFINE k == <<req[r].lecture, req[r].who>>
           y == <<req[x].lecture, req[x].who>>
<1>1. /\ req[r].pc = "commit"
      /\ req'[x] = IF x = r THEN IdleReq ELSE req[x]
  BY DEF IInv, TypeOK, Commit
<1>2. CASE x = r
  BY <1>1, <1>2 DEF Faithful, IdleReq, Loaded
<1>3. CASE x # r /\ req[x].pc \notin Loaded
  BY <1>1, <1>3 DEF Faithful
<1>4. CASE x # r /\ req[x].pc \in Loaded
  <2>1. y # k
    BY <1>1, <1>4 DEF Apart, ReqKey, Loaded
  <2>2. y \in Key
    BY <1>4 DEF IInv, Located, Loaded, Key
  <2>3. records'[y] = records[y] /\ events'[y] = events[y]
    BY <2>1, <2>2, CommitEffect
  <2>4. Faithful(req[x]) /\ req'[x] = req[x]
    BY <1>1, <1>4 DEF Current
  <2> QED
    BY <2>3, <2>4 DEF Faithful
<1> QED
  BY <1>2, <1>3, <1>4

\* The copy ages with the row, and what was old enough stays so.
LEMMA TickCurrent ==
  ASSUME IInv, Current, Tick
  PROVE  Current'
<1> SUFFICES ASSUME NEW x \in Request PROVE Faithful(req[x])'
  BY DEF Current
<1> DEFINE y == <<req[x].lecture, req[x].who>>
           p == req'[x]
<1>1. /\ req[x] \in RequestType /\ Faithful(req[x]) /\ Located(req[x])
      /\ p = [req[x] EXCEPT !.age = Older(@)]
      /\ events' = events
  BY DEF IInv, TypeOK, Current, Tick
<1>2. CASE req[x].pc \in Loaded
  <2>1. y \in Key
    BY <1>1, <1>2 DEF Located, Loaded, Key
  <2>2. records[y] \in RecordType /\ records'[y] = [records[y] EXCEPT !.age = Older(@)]
    BY <2>1 DEF Tick, IInv, TypeOK
  <2>3. /\ records'[y].state = records[y].state
        /\ records'[y].age = Older(records[y].age)
    BY <2>2 DEF RecordType
  <2>4. /\ p.pc = req[x].pc /\ p.who = req[x].who /\ p.lecture = req[x].lecture
        /\ p.state = req[x].state /\ p.hits = req[x].hits
        /\ p.target = req[x].target /\ p.age = Older(req[x].age)
    BY <1>1 DEF RequestType
  <2>5. Older(Cooldown) = Cooldown
    BY CooldownAssumption DEF Older
  <2> QED
    BY <1>1, <2>3, <2>4, <2>5 DEF Faithful
<1>3. CASE req[x].pc \notin Loaded
  BY <1>1, <1>3 DEF Faithful, RequestType
<1> QED
  BY <1>2, <1>3

\* An override leaves the events and the age of the record alone.
LEMMA OverrideCurrent ==
  ASSUME IInv, Current, NEW k \in Key, Override(k)
  PROVE  Current'
<1> SUFFICES ASSUME NEW x \in Request PROVE Faithful(req[x])'
  BY DEF Current
<1> DEFINE y == <<req[x].lecture, req[x].who>>
<1>1. /\ Faithful(req[x]) /\ Located(req[x])
      /\ req' = req /\ events' = events
      /\ records' = [records EXCEPT ![k] =
           [records[k] EXCEPT !.state = "manual_override", !.locked = TRUE]]
      /\ k[2] \in Overridable
      /\ records \in [Key -> RecordType]
  BY DEF IInv, TypeOK, Current, Override
<1>2. CASE req[x].pc \in Loaded
  <2>1. y \in Key
    BY <1>1, <1>2 DEF Located, Loaded, Key
  <2>2. records'[y].age = records[y].age
    BY <1>1, <2>1 DEF RecordType
  <2>3. req[x].who \notin Overridable => records'[y] = records[y]
    BY <1>1, <2>1
  <2> QED
    BY <1>1, <2>2, <2>3 DEF Faithful
<1>3. CASE req[x].pc \notin Loaded
  BY <1>1, <1>3 DEF Faithful
<1> QED
  BY <1>2, <1>3

LEMMA CurrentNext == IInv /\ Current /\ Apart /\ [Next]_vars => Current'
<1> SUFFICES ASSUME IInv, Current, Apart, [Next]_vars PROVE Current'
  OBVIOUS
<1>1. ASSUME NEW r \in Request,
             \/ \E p \in Payload : Post(r, p)
             \/ Handle(r)
             \/ Abort(r)
      PROVE  Current'
  BY <1>1, HandleCurrent, CommitCurrent DEF Handle
<1>2. CASE \/ \E o \in Operator : Operate(o)
           \/ \E l \in Lecture : CreateLecture(l)
           \/ \E e \in Transferable : SetEnrolment(e)
           \/ UNCHANGED vars
  <2>1. req' = req /\ records' = records /\ events' = events
    BY <1>2 DEF Operate, BeginStart, BeginClose, BeginFinalize, LoadLecture,
      ReadEnrolment, CommitStart, CommitClose, CommitFinalize, CommitStatus,
      AbortOp, CreateLecture, SetEnrolment, recordVars, vars
  <2> QED
    BY <2>1 DEF Current, Faithful
<1> QED
  BY <1>1, <1>2, TickCurrent, OverrideCurrent DEF Next

LEMMA CurrentAlways == Spec /\ []Apart => [](IInv /\ Current)
<1>1. Init => Current
  BY IdleFaithful DEF Init, Current
<1> QED
  BY <1>1, CurrentNext, Invariance, PTL DEF Spec

-----------------------------------------------------------------------------
(* The theorems.                                                           *)

\* A commit is one step up the ladder for its record, and no step for others.
LEMMA ClimbStep ==
  ASSUME IInv, Current, Next,
         NEW k \in Lecture \X (Student \ Overridable)
  PROVE  Ladder(k)!Next \/ UNCHANGED Ladder(k)!ladderVars
<1>0. k \in Key /\ k[2] \notin Overridable /\ records[k] \in RecordType
  BY DEF Key, IInv, TypeOK
<1>1. ASSUME NEW r \in Request, Commit(r), k = <<req[r].lecture, req[r].who>>
      PROVE  Ladder(k)!Next
  <2> DEFINE q == req[r]
  <2>1. /\ q.pc = "commit" /\ events[k] \in Seq(EventRow)
        /\ events'[k] = Logged(q, events[k])
        /\ records'[k] = Written(q, records[k])
    BY <1>1, CommitEffect
  <2>2. /\ q.state = records[k].state /\ q.hits = Len(events[k])
        /\ ~Terminal(q.state) /\ q.target = Target(q.state, q.hits)
    BY <1>0, <1>1, <2>1 DEF Current, Faithful, Loaded
  <2>3. Len(events'[k]) = Len(events[k]) + 1
    BY <2>1 DEF Logged
  <2>4. records'[k].state = q.target
    BY <1>0, <2>1, <2>2 DEF Written, RecordType
  <2> QED
    BY <2>2, <2>3, <2>4
    DEF Ladder!Next, Ladder!Hit, Ladder!Terminal, Terminal, Ladder!Target, Target,
      Ladder!Forward, Forward, Ladder!HitThreshold, HitThreshold
<1>2. CASE events'[k] = events[k] /\ records'[k].state = records[k].state
  BY <1>2 DEF Ladder!ladderVars
<1>3. ASSUME NEW r \in Request, Commit(r), k # <<req[r].lecture, req[r].who>>
      PROVE  events'[k] = events[k] /\ records'[k].state = records[k].state
  BY <1>0, <1>3, CommitEffect
<1>4. CASE ~\E r \in Request : Commit(r)
  <2>1. events' = events
    BY <1>4, EventsChangeBy
  <2>2. ASSUME NEW x \in Key, Override(x) PROVE records'[k] = records[k]
    BY <1>0, <2>2 DEF Override, IInv, TypeOK
  <2>3. ASSUME Tick PROVE records'[k].state = records[k].state
    <3>1. records'[k] = [records[k] EXCEPT !.age = Older(@)]
      BY <1>0, <2>3 DEF Tick
    <3> QED
      BY <1>0, <3>1 DEF RecordType
  <2> QED
    BY <1>2, <1>4, <2>1, <2>2, <2>3, RecordsChangeBy
<1> QED
  BY <1>1, <1>2, <1>3, <1>4

\* The refinement: while no two requests hold the same record, every record
\* climbs the ladder that engine.py states as its design invariants
\* (engine.py:3-11), one rung at a time and never down, however many requests
\* of other records are under way and whatever happens to the lectures.
THEOREM NonOverlappingClimbs == Spec /\ []Apart => ClimbsLadder
<1>1. Init => \A k \in Lecture \X (Student \ Overridable) : Ladder(k)!Init
  BY DEF Init, NewRecord, Key, Ladder!Init
<1>2. IInv /\ Current /\ [Next]_vars =>
        [\A k \in Lecture \X (Student \ Overridable) :
           Ladder(k)!Next \/ UNCHANGED Ladder(k)!ladderVars]_vars
  BY ClimbStep
<1> QED
  BY <1>1, <1>2, CurrentAlways, PTL DEF Spec, ClimbsLadder

\* Under the same condition two accepted events of a record are at least the
\* cooldown apart, also for a record an administrator takes over
\* (engine.py:185-198).
THEOREM NonOverlappingCooldown == Spec /\ []Apart => CooldownKept
<1>1. IInv /\ Current /\ [Next]_vars =>
        [\A k \in Key : events'[k] # events[k] => records[k].age = Cooldown]_vars
  <2> SUFFICES ASSUME IInv, Current, Next, NEW k \in Key, events'[k] # events[k]
               PROVE  records[k].age = Cooldown
    OBVIOUS
  <2>1. PICK r \in Request : Commit(r)
    BY EventsChangeBy
  <2>2. k = <<req[r].lecture, req[r].who>> /\ req[r].pc = "commit"
    BY <2>1, CommitEffect
  <2> QED
    BY <2>2 DEF Current, Faithful, Loaded
<1> QED
  BY <1>1, CurrentAlways, PTL DEF Spec, CooldownKept

\* One request at a time is such a case.
Serial == \A r1, r2 \in Request : r1 = r2

\* With a single request in flight both promises hold.
THEOREM SerialIsEnough == Serial /\ Spec => ClimbsLadder /\ CooldownKept
<1>1. Serial => Apart
  BY DEF Serial, Apart
<1>2. Serial => Serial'
  BY DEF Serial
<1> QED
  BY <1>1, <1>2, NonOverlappingClimbs, NonOverlappingCooldown, PTL
=============================================================================
