--------------------------- MODULE ReportsProofs ---------------------------
(***************************************************************************)
(* Theorems about the freeze of Reports and what its queries answer, for   *)
(* every number of queries, lifecycle requests, lectures, students, log    *)
(* rows and presence sessions.  First: only what was finalized is frozen,  *)
(* and what is frozen stays.                                               *)
(*                                                                         *)
(* A query freezes what it FOUND finalized some steps ago.  The lecture    *)
(* may have been reopened since, by a request that had loaded it before;   *)
(* that it was finalized once stays true (Known).                          *)
(***************************************************************************)
EXTENDS Reports, FiniteSetTheorems, FunctionTheorems, WellFoundedInduction, TLAPS

Finalized == {l \in Lecture : status[l] = "finalized"}

Fields == {"pc", "scope", "rows", "spans", "live", "evidence", "verdicts", "states",
           "todo", "final", "answer", "epoch", "logged", "held"}

\* r has the fields of a query and no others, whatever they hold.
Filled(r) == r = [f \in Fields |-> r[f]]

Shaped ==
  /\ query = [q \in Query |-> query[q]]
  /\ \A q \in Query : Filled(query[q])
  /\ frozen = [l \in Lecture |-> frozen[l]]
  /\ status = [l \in Lecture |-> status[l]]
  /\ restarts \in Nat

\* What a query found finalized was finalized, and so is what is so now.
Known == Finalized \subseteq over /\ \A q \in Query : query[q].final \subseteq over

IInv == Shaped /\ Known /\ FrozenIsFinal

-----------------------------------------------------------------------------
(* What a step does to statuses, queries and the store.                    *)

\* What was finalized once stays so.
LEMMA OverGrows ==
  ASSUME Shaped, Finalized \subseteq over, Next
  PROVE  /\ status' = [l \in Lecture |-> status'[l]]
         /\ over \subseteq over' /\ Finalized' \subseteq over'
<1>1. CASE status' = status /\ over' = over
  BY <1>1 DEF Shaped, Finalized
<1>2. ASSUME NEW l, NEW s, s # "finalized",
             status' = [status EXCEPT ![l] = s], over' = over
      PROVE  /\ status' = [k \in Lecture |-> status'[k]]
             /\ over \subseteq over' /\ Finalized' \subseteq over'
  BY <1>2 DEF Shaped, Finalized
<1>3. ASSUME NEW l, status' = [status EXCEPT ![l] = "finalized"], over' = over \cup {l}
      PROVE  /\ status' = [k \in Lecture |-> status'[k]]
             /\ over \subseteq over' /\ Finalized' \subseteq over'
  BY <1>3 DEF Shaped, Finalized
<1>4. \/ status' = status /\ over' = over
      \/ \E l : \E s \in {"active_window_open", "active_window_closed"} :
           status' = [status EXCEPT ![l] = s] /\ over' = over
      \/ \E l : status' = [status EXCEPT ![l] = "finalized"] /\ over' = over \cup {l}
  <2>1. CASE \E r \in Request : Lifecycle(r)
    BY <2>1 DEF Lifecycle, BeginOp, BeginStart, BeginClose, BeginFinalize, CommitStart,
      CommitClose, CommitFinalize, AbortOp
  <2>2. CASE ~(\E r \in Request : Lifecycle(r))
    BY <2>2 DEF Next, Serve, Step, Begin, FetchRows, ListSessions, Correlate, ReadLength,
      FetchRowsAgain, Decide, ReadFlag, Answer, Recognise, PresenceEvent, Restart, Tick,
      lectureVars
  <2> QED
    BY <2>1, <2>2
<1> QED
  BY <1>1, <1>2, <1>3, <1>4

\* A query whose sessions change keeps its fields and all but those sessions.
LEMMA WatchingKeeps ==
  ASSUME NEW x, Filled(x), NEW table, NEW gone, NEW n, n = Watching(x, table, gone)
  PROVE  /\ Filled(n)
         /\ n.pc = x.pc /\ n.scope = x.scope /\ n.rows = x.rows
         /\ n.evidence = x.evidence /\ n.verdicts = x.verdicts
         /\ n.states = x.states /\ n.todo = x.todo /\ n.final = x.final
         /\ n.answer = x.answer /\ n.epoch = x.epoch /\ n.logged = x.logged
         /\ n.held = x.held
BY DEF Watching, Filled, Fields

LEMMA WatchingSpans ==
  ASSUME NEW x, Filled(x), NEW table, NEW gone, NEW k \in SessionKey
  PROVE  Watching(x, table, gone).spans[k] =
           IF k \in x.live \ gone THEN table[k] ELSE x.spans[k]
<1> DEFINE n == Watching(x, table, gone)
<1>1. n.spans = [j \in SessionKey |-> IF j \in x.live \ gone THEN table[j] ELSE x.spans[j]]
  BY DEF Watching, Filled, Fields
<1> HIDE DEF n
<1>2. n.spans[k] = IF k \in x.live \ gone THEN table[k] ELSE x.spans[k]
  BY <1>1
<1> QED
  BY <1>2 DEF n

\* A query that loses what it held keeps its fields and all the rest.
LEMMA ReopenedKeeps ==
  ASSUME NEW x, Filled(x), NEW l
  PROVE  LET n == [x EXCEPT !.held = @ \ {l}]
         IN  /\ Filled(n)
             /\ n.pc = x.pc /\ n.scope = x.scope /\ n.rows = x.rows
             /\ n.spans = x.spans
             /\ n.evidence = x.evidence /\ n.verdicts = x.verdicts
             /\ n.states = x.states /\ n.todo = x.todo /\ n.final = x.final
             /\ n.answer = x.answer /\ n.epoch = x.epoch /\ n.logged = x.logged
             /\ n.held = x.held \ {l}
BY DEF Filled, Fields

\* A query is about to keep its fields, and to add to what it found only what
\* it finds.
Served1(q) == Filled(query'[q]) /\ query'[q].final \subseteq query[q].final \cup Finalized

LEMMA OneServed ==
  ASSUME Shaped, NEW q \in Query, NEW next, query' = [query EXCEPT ![q] = next],
         Filled(next), next.final \subseteq query[q].final \cup Finalized
  PROVE  /\ query' = [p \in Query |-> query'[p]]
         /\ \A p \in Query : Served1(p)
BY DEF Shaped, Served1

\* One step of a query keeps the fields of all, and adds to what it found only
\* what it finds.
LEMMA ServedQuery ==
  ASSUME Shaped, NEW q \in Query, Serve(q)
  PROVE  /\ query' = [p \in Query |-> query'[p]]
         /\ \A p \in Query : Served1(p)
<1>0. \A p \in Query : Filled(query[p])
  BY DEF Shaped
<1>1. CASE \E scope \in Lecture \cup {All} : Begin(q, scope)
  <2>1. PICK scope \in Lecture \cup {All} : Begin(q, scope)
    BY <1>1
  <2> DEFINE next == [IdleQuery EXCEPT !.pc = "rows", !.scope = scope, !.epoch = restarts,
                !.logged = {Group(row) : row \in Range(logs)},
                !.held = {l \in Lecture : /\ frozen[l] # NotFrozen
                                          /\ status[l] = "finalized"}]
  <2>2. query' = [query EXCEPT ![q] = next]
    BY <2>1 DEF Begin, Step
  <2>3. Filled(next) /\ next.final = {}
    BY DEF Filled, Fields, IdleQuery
  <2> HIDE DEF next
  <2> QED
    BY <2>2, <2>3, OneServed
<1>2. CASE FetchRows(q)
  <2> DEFINE next == [query[q] EXCEPT !.pc = "list1", !.rows = Fetched(query[q].scope)]
  <2>1. query' = [query EXCEPT ![q] = next]
    BY <1>2 DEF FetchRows, Step
  <2>2. Filled(next) /\ next.final = query[q].final
    BY <1>0 DEF Filled, Fields
  <2> HIDE DEF next
  <2> QED
    BY <2>1, <2>2, OneServed
<1>3. CASE ListSessions(q)
  <2> DEFINE table == Expire(sessions, now)
             gone == Stale(sessions, now)
             active == IF query[q].rows = {} THEN {}
                       ELSE {k \in SessionKey : table[k].status = "active"}
             next == [query[q] EXCEPT !.live = active,
                        !.spans = [k \in SessionKey |->
                                     IF k \in active THEN table[k] ELSE NoSession],
                        !.pc = IF query[q].pc = "list1" THEN "evidence1" ELSE "evidence2"]
  <2>1. query' = [p \in Query |-> IF p = q THEN next ELSE Watching(query[p], table, gone)]
    BY <1>3 DEF ListSessions
  <2>2. Filled(next) /\ next.final = query[q].final
    BY <1>0 DEF Filled, Fields
  <2> HIDE DEF next, table, gone
  <2>3. ASSUME NEW p \in Query \ {q}
        PROVE  /\ Filled(Watching(query[p], table, gone))
               /\ Watching(query[p], table, gone).final = query[p].final
    <3>1. Filled(query[p])
      BY <1>0
    <3> QED
      BY <3>1, WatchingKeeps
  <2>4. query'[q] = next /\ \A p \in Query \ {q} : query'[p] = Watching(query[p], table, gone)
    BY <2>1
  <2>5. query' = [p \in Query |-> query'[p]]
    BY <2>1
  <2> QED
    BY <2>2, <2>3, <2>4, <2>5 DEF Served1
<1>4. CASE Correlate(q)
  <2>1. PICK rows, evidence, spans, live :
          query' = [query EXCEPT ![q] =
                      [query[q] EXCEPT !.rows = rows, !.evidence = evidence,
                         !.spans = spans, !.live = live]]
    BY <1>0, <1>4 DEF Correlate, Step, Filled, Fields
  <2> DEFINE next == [query[q] EXCEPT !.rows = rows, !.evidence = evidence,
                        !.spans = spans, !.live = live]
  <2>2. Filled(next) /\ next.final = query[q].final
    BY <1>0 DEF Filled, Fields
  <2> HIDE DEF next
  <2> QED
    BY <2>1, <2>2, OneServed DEF next
<1>5. CASE \E g \in Student \X (Lecture \cup {NoLecture}) : ReadLength(q, g)
  <2>1. PICK verdicts : query' = [query EXCEPT ![q] = [query[q] EXCEPT !.verdicts = verdicts]]
    BY <1>0, <1>5 DEF ReadLength, Step, Filled, Fields
  <2> DEFINE next == [query[q] EXCEPT !.verdicts = verdicts]
  <2>3. Filled(next) /\ next.final = query[q].final
    BY <1>0 DEF Filled, Fields
  <2> HIDE DEF next
  <2> QED
    BY <2>1, <2>3, OneServed DEF next
<1>6. CASE FetchRowsAgain(q)
  <2> DEFINE next == [query[q] EXCEPT !.pc = "list2", !.evidence = {},
                        !.rows = Fetched(query[q].scope)]
  <2>1. query' = [query EXCEPT ![q] = next]
    BY <1>6 DEF FetchRowsAgain, Step
  <2>2. Filled(next) /\ next.final = query[q].final
    BY <1>0 DEF Filled, Fields
  <2> HIDE DEF next
  <2> QED
    BY <2>1, <2>2, OneServed
<1>7. CASE Decide(q)
  <2>1. PICK states, todo :
          query' = [query EXCEPT ![q] =
                      [query[q] EXCEPT !.pc = "flags", !.evidence = {}, !.verdicts = {},
                         !.states = states, !.todo = todo]]
    BY <1>7 DEF Decide, Step
  <2> DEFINE next == [query[q] EXCEPT !.pc = "flags", !.evidence = {}, !.verdicts = {},
                        !.states = states, !.todo = todo]
  <2>3. Filled(next) /\ next.final = query[q].final
    BY <1>0 DEF Filled, Fields
  <2> HIDE DEF next
  <2> QED
    BY <2>1, <2>3, OneServed DEF next
<1>8. CASE \E l \in Lecture : ReadFlag(q, l)
  <2>1. PICK l \in Lecture : ReadFlag(q, l)
    BY <1>8
  <2> DEFINE next == [query[q] EXCEPT !.todo = @ \ {l},
                !.final = IF status[l] \in EndedStatus THEN @ \cup {l} ELSE @]
  <2>2. query' = [query EXCEPT ![q] = next]
    BY <2>1 DEF ReadFlag, Step
  <2>3. /\ Filled(next)
        /\ next.final = IF status[l] \in EndedStatus THEN query[q].final \cup {l}
                        ELSE query[q].final
    BY <1>0 DEF Filled, Fields
  <2>4. next.final \subseteq query[q].final \cup Finalized
    BY <2>3 DEF EndedStatus, Finalized
  <2> HIDE DEF next
  <2> QED
    BY <2>2, <2>3, <2>4, OneServed
<1>9. CASE Answer(q)
  <2>1. PICK answer :
          query' = [query EXCEPT ![q] =
                      [query[q] EXCEPT !.pc = "idle", !.states = {}, !.final = {},
                         !.answer = answer]]
    BY <1>9 DEF Answer, Step
  <2> DEFINE next == [query[q] EXCEPT !.pc = "idle", !.states = {}, !.final = {},
                        !.answer = answer]
  <2>3. Filled(next) /\ next.final = {}
    BY <1>0 DEF Filled, Fields
  <2> HIDE DEF next
  <2> QED
    BY <2>1, <2>3, OneServed DEF next
<1> QED
  BY <1>1, <1>2, <1>3, <1>4, <1>5, <1>6, <1>7, <1>8, <1>9 DEF Serve

\* A step that no query makes leaves the queries alone, changes the sessions
\* they hold, or takes a lecture from what they held.
LEMMA OutsideSteps ==
  ASSUME Next, ~(\E q \in Query : Serve(q)), ~Restart
  PROVE  /\ frozen' = frozen /\ restarts' = restarts
         /\ \/ query' = query
            \/ \E c \in Camera, t \in Track \cup {0},
                  kind \in {"appeared", "disappeared", "heartbeat"} : PresenceEvent(c, t, kind)
            \/ \E r \in Request : CommitStart(r) \/ CommitClose(r)
<1>1. ASSUME NEW l \in Lecture \cup {NoLecture}, NEW s \in Student, Recognise(l, s)
      PROVE  UNCHANGED <<frozen, restarts, query>>
  BY <1>1 DEF Recognise
<1>2. ASSUME NEW c \in Camera, NEW t \in Track \cup {0},
             NEW kind \in {"appeared", "disappeared", "heartbeat"}, PresenceEvent(c, t, kind)
      PROVE  UNCHANGED <<frozen, restarts>>
  BY <1>2 DEF PresenceEvent
<1>3. ASSUME NEW r \in Request, Lifecycle(r)
      PROVE  /\ UNCHANGED <<frozen, restarts>>
             /\ query' = query \/ CommitStart(r) \/ CommitClose(r)
  BY <1>3 DEF Lifecycle, BeginOp, BeginStart, BeginClose, BeginFinalize, CommitOp,
    CommitStart, CommitClose, CommitFinalize, AbortOp
<1>4. CASE Tick
  BY <1>4 DEF Tick
<1>5. \/ \E l \in Lecture \cup {NoLecture}, s \in Student : Recognise(l, s)
      \/ \E c \in Camera, t \in Track \cup {0},
            kind \in {"appeared", "disappeared", "heartbeat"} : PresenceEvent(c, t, kind)
      \/ \E r \in Request : Lifecycle(r)
      \/ Tick
  BY DEF Next
<1> QED
  BY <1>1, <1>2, <1>3, <1>4, <1>5

\* A query changes neither the clock nor the rows of the database.
LEMMA ServeLeaves ==
  ASSUME NEW q \in Query, Serve(q)
  PROVE  UNCHANGED <<now, logs, status, began, ended, op, over, appeared, restarts>>
BY DEF Serve, Step, Begin, FetchRows, ListSessions, Correlate, ReadLength,
  FetchRowsAgain, Decide, ReadFlag, Answer, lectureVars

\* The store changes where a query answers, which leaves alone what is frozen
\* and freezes what it found, or is lost.
LEMMA StoreSteps ==
  ASSUME Shaped, Next
  PROVE  \/ frozen' = frozen
         \/ restarts' = restarts + 1 /\ frozen' = [l \in Lecture |-> NotFrozen]
         \/ /\ frozen' = [l \in Lecture |-> frozen'[l]]
            /\ \A l \in Lecture : frozen'[l] # frozen[l] =>
                 /\ frozen[l] = NotFrozen
                 /\ \E q \in Query : l \in query[q].final
<1>1. CASE \E q \in Query : Answer(q)
  <2>1. PICK q \in Query : Answer(q)
    BY <1>1
  <2>2. frozen' = [l \in Lecture |-> IF l \in GroupsFinal(q) THEN Snapshot(q, l)
                                     ELSE frozen[l]]
    BY <2>1 DEF Answer
  <2>3. GroupsFinal(q) \subseteq query[q].final
    BY DEF GroupsFinal
  <2>4. \A l \in Lecture : frozen[l] # NotFrozen => Snapshot(q, l) = frozen[l]
    BY DEF Snapshot
  <2> HIDE DEF GroupsFinal, Snapshot
  <2> QED
    BY <2>2, <2>3, <2>4
<1>2. CASE Restart
  BY <1>2 DEF Restart
<1>3. CASE ~(\E q \in Query : Serve(q)) /\ ~Restart
  BY <1>3, OutsideSteps
<1>4. CASE (\E q \in Query : Serve(q)) /\ ~(\E q \in Query : Answer(q))
  BY <1>4 DEF Serve, Step, Begin, FetchRows, ListSessions, Correlate, ReadLength,
    FetchRowsAgain, Decide, ReadFlag
<1> QED
  BY <1>1, <1>2, <1>3, <1>4

-----------------------------------------------------------------------------
(* The invariant.                                                          *)

LEMMA InitInv == Init => IInv
<1> SUFFICES ASSUME Init PROVE IInv
  OBVIOUS
<1>1. Filled(IdleQuery) /\ IdleQuery.final = {}
  BY DEF Filled, Fields, IdleQuery
<1>2. Shaped
  BY <1>1 DEF Init, Shaped
<1>3. Known
  BY <1>1 DEF Init, Known, Finalized
<1>4. FrozenIsFinal
  BY DEF Init, FrozenIsFinal
<1> QED
  BY <1>2, <1>3, <1>4 DEF IInv

\* A restart clears the queries in flight and leaves the answers.
LEMMA RestartedQuery ==
  ASSUME Restart, NEW q \in Query
  PROVE  LET n == query'[q]
         IN  /\ Filled(n)
             /\ n.pc = "idle" /\ n.scope = All /\ n.rows = {} /\ n.spans = NoSpans
             /\ n.evidence = {} /\ n.verdicts = {} /\ n.states = {}
             /\ n.final = {} /\ n.logged = {} /\ n.held = {}
             /\ \/ query[q].pc # "idle" /\ n.answer = {} /\ n.epoch = 0
                \/ n.answer = query[q].answer /\ n.epoch = query[q].epoch
<1>1. CASE query[q].pc # "idle"
  <2>1. query'[q] = IdleQuery
    BY <1>1 DEF Restart
  <2> QED
    BY <1>1, <2>1 DEF IdleQuery, Filled, Fields
<1>2. CASE query[q].pc = "idle"
  <2>1. query'[q] = [IdleQuery EXCEPT !.answer = query[q].answer, !.epoch = query[q].epoch]
    BY <1>2 DEF Restart
  <2> QED
    BY <2>1 DEF IdleQuery, Filled, Fields
<1> QED
  BY <1>1, <1>2

LEMMA QueriesKnow ==
  ASSUME Shaped, Known, Next
  PROVE  /\ query' = [q \in Query |-> query'[q]]
         /\ \A q \in Query : Filled(query'[q]) /\ query'[q].final \subseteq over
<1>1. CASE \E q \in Query : Serve(q)
  BY <1>1, ServedQuery DEF Served1, Known
<1>2. CASE Restart
  <2>1. query' = [q \in Query |-> query'[q]]
    BY <1>2 DEF Restart
  <2> QED
    BY <1>2, <2>1, RestartedQuery
<1>3. CASE ~(\E q \in Query : Serve(q)) /\ ~Restart
  <2>0. \A q \in Query : Filled(query[q])
    BY DEF Shaped
  <2>1. CASE query' = query
    BY <2>1 DEF Shaped, Known
  <2>2. ASSUME NEW table, NEW gone,
               query' = [q \in Query |-> Watching(query[q], table, gone)]
        PROVE  /\ query' = [q \in Query |-> query'[q]]
               /\ \A q \in Query : Filled(query'[q]) /\ query'[q].final \subseteq over
    <3>1. ASSUME NEW q \in Query
          PROVE  /\ Filled(Watching(query[q], table, gone))
                 /\ Watching(query[q], table, gone).final = query[q].final
      <4>1. Filled(query[q])
        BY <2>0
      <4> QED
        BY <4>1, WatchingKeeps
    <3> QED
      BY <2>2, <3>1 DEF Known
  <2>3. ASSUME NEW l, query' = [q \in Query |-> [query[q] EXCEPT !.held = @ \ {l}]]
        PROVE  /\ query' = [q \in Query |-> query'[q]]
               /\ \A q \in Query : Filled(query'[q]) /\ query'[q].final \subseteq over
    <3>1. ASSUME NEW q \in Query
          PROVE  LET n == [query[q] EXCEPT !.held = @ \ {l}]
                 IN  Filled(n) /\ n.final = query[q].final
      BY <2>0, ReopenedKeeps
    <3> QED
      BY <2>3, <3>1 DEF Known
  <2>4. CASE query' # query
    <3>1. CASE \E r \in Request : CommitStart(r) \/ CommitClose(r)
      <4>1. \E l : query' = [q \in Query |-> [query[q] EXCEPT !.held = @ \ {l}]]
        BY <3>1 DEF CommitStart, CommitClose, Reopened
      <4> QED
        BY <2>3, <4>1
    <3>2. CASE ~(\E r \in Request : CommitStart(r) \/ CommitClose(r))
      <4>1. \E c \in Camera, t \in Track \cup {0},
               kind \in {"appeared", "disappeared", "heartbeat"} : PresenceEvent(c, t, kind)
        BY <1>3, <2>4, <3>2, OutsideSteps
      <4>2. \E table, gone : query' = [q \in Query |-> Watching(query[q], table, gone)]
        BY <4>1 DEF PresenceEvent
      <4> QED
        BY <2>2, <4>2
    <3> QED
      BY <3>1, <3>2
  <2> QED
    BY <2>1, <2>4
<1> QED
  BY <1>1, <1>2, <1>3

LEMMA Inductive ==
  ASSUME IInv, [Next]_vars
  PROVE  IInv'
<1>1. CASE Next
  <2>0. Shaped /\ Known /\ FrozenIsFinal
    BY DEF IInv
  <2>1. /\ status' = [l \in Lecture |-> status'[l]]
        /\ over \subseteq over' /\ Finalized' \subseteq over'
    BY <1>1, <2>0, OverGrows DEF Known
  <2>2. /\ query' = [q \in Query |-> query'[q]]
        /\ \A q \in Query : Filled(query'[q]) /\ query'[q].final \subseteq over
    BY <1>1, <2>0, QueriesKnow
  <2>3. restarts' \in Nat
    <3>1. restarts \in Nat
      BY <2>0 DEF Shaped
    <3>2. CASE \E q \in Query : Serve(q)
      BY <3>1, <3>2, ServeLeaves
    <3>3. CASE Restart
      <4>1. restarts' = restarts + 1
        BY <3>3 DEF Restart
      <4> QED
        BY <3>1, <4>1
    <3>4. CASE ~(\E q \in Query : Serve(q)) /\ ~Restart
      BY <1>1, <3>1, <3>4, OutsideSteps
    <3> QED
      BY <3>2, <3>3, <3>4
  <2>4. /\ frozen' = [l \in Lecture |-> frozen'[l]]
        /\ \A l \in Lecture : frozen'[l] # NotFrozen => l \in over
    BY <1>1, <2>0, StoreSteps DEF Shaped, Known, FrozenIsFinal
  <2>5. Shaped'
    BY <2>1, <2>2, <2>3, <2>4 DEF Shaped, Filled
  <2>6. Known'
    BY <2>1, <2>2 DEF Known
  <2>7. FrozenIsFinal'
    BY <2>1, <2>4 DEF FrozenIsFinal
  <2> QED
    BY <2>5, <2>6, <2>7 DEF IInv
<1>2. CASE UNCHANGED vars
  BY <1>2 DEF vars, lectureVars, IInv, Shaped, Filled, Known, Finalized, FrozenIsFinal
<1> QED
  BY <1>1, <1>2

THEOREM Invariance == Spec => []IInv
BY InitInv, Inductive, PTL DEF Spec

\* No query freezes a lecture that was never finalized, although it reads the
\* statuses one by one and freezes some steps later
\* (finalization_service.py:27-56), and overlapping lifecycle requests
\* overwrite one another: for every number of queries and requests at once.
THEOREM OnlyFinalizedIsFrozen == Spec => []FrozenIsFinal
<1>1. IInv => FrozenIsFinal
  BY DEF IInv
<1> QED
  BY <1>1, Invariance, PTL

\* What is frozen stays as it is until the cloud restarts, however many
\* queries have computed the same lecture (finalization_service.py:50-56).
THEOREM FrozenStaysFrozen == Spec => FrozenOnce
<1>1. ASSUME IInv, [Next]_vars
      PROVE  [\A l \in Lecture : frozen[l] # NotFrozen =>
                frozen'[l] = frozen[l] \/ restarts' # restarts]_vars
  <2>1. CASE Next
    <3>1. restarts \in Nat /\ Shaped
      BY <1>1 DEF IInv, Shaped
    <3> QED
      BY <2>1, <3>1, StoreSteps
  <2>2. CASE UNCHANGED vars
    BY <2>2
  <2> QED
    BY <1>1, <2>1, <2>2
<1> QED
  BY <1>1, Invariance, PTL DEF Spec, FrozenOnce

-----------------------------------------------------------------------------
(***************************************************************************)
(* What a query may answer.                                                *)
(*                                                                         *)
(* A query reads the tables ten times and more, and every read sees what   *)
(* is committed then.  AnswersInv follows a group, a student recognised in *)
(* a lecture, through these reads: what the query computes is about groups *)
(* that were logged (Drawn), none that was logged at its begin gets lost   *)
(* (Complete), the lecture it was asked for is found frozen if it was so   *)
(* then (Served), and its answer has one entry for a lecture, the frozen   *)
(* one if it is final (Told).  The sessions it holds began with            *)
(* appearances, whatever has become of them (Witnessed).  And whoever was  *)
(* in a final report of an earlier run of the cloud is in what is frozen,  *)
(* and known to every query that may still freeze something (PastKept).    *)
(***************************************************************************)

\* Every lecture with a confirmed record has registered cameras to be seen on.
Registered == Fallback => \A l \in Lecture : RoomCameras[l] # {}

\* Who was recognised in which lecture so far.
Groups == {Group(row) : row \in Range(logs)}

Supported(s, l) ==
  \E row \in Range(logs), seen \in appeared :
    /\ Group(row) = <<s, l>>
    /\ seen[1] \in RoomCameras[l]
    /\ Delta(row.at, [first |-> seen[2]]) <= Medium

\* What may be said of a student in a lecture.
Backed(s, l, state) ==
  /\ <<s, l>> \in Groups
  /\ state \in State
  /\ state = "confirmed" => l # NoLecture /\ (Registered => Supported(s, l))

Sound(l, standings) ==
  /\ standings \subseteq Standing /\ standings # {}
  /\ \A s \in standings : Backed(s.student, l, s.state)

\* The times that laptops stamp.
Stamps == -Skew .. (now + Skew)

\* A session that began with an appearance.
Seen(k, s) ==
  /\ s \in Session
  /\ s.first \in Stamps /\ s.last \in Stamps
  /\ s.status # "none" => <<k[1], s.first>> \in appeared

Witnessed(table) == \A k \in SessionKey : Seen(k, table[k])

TablesOK ==
  /\ now \in Nat /\ restarts \in Nat
  /\ sessions \in [SessionKey -> Session] /\ Witnessed(sessions)
  /\ logs \in Seq(Row)
  /\ status \in [Lecture -> {"scheduled", "active_window_open",
                             "active_window_closed", "finalized"}]
  /\ began \in [Lecture -> Nat]
  /\ ended \in [Lecture -> Nat \cup {-1}]
  /\ over \in SUBSET Lecture
  /\ op = [r \in Request |-> op[r]]
  /\ \A r \in Request : op[r] # NoRequest => op[r].lecture \in Lecture /\ op[r].at \in Nat

StoreSound == \A l \in Lecture : frozen[l] # NotFrozen => Sound(l, frozen[l])

\* What the evidence of a query says is about what was logged and seen.
EvidenceOK(e) ==
  /\ Group(e) \in Groups
  /\ e.confidence \in {"low", "medium", "high"}
  /\ e.kind = "presence_observed" /\ e.confidence # "low" =>
       /\ e.lecture # NoLecture
       /\ Registered => Supported(e.student, e.lecture)

\* What a query was asked for, and when; what it has read of the lectures.
Asked(Q) ==
  /\ Q.scope \in Lecture \cup {All}
  /\ Q.epoch \in Nat /\ Q.epoch <= restarts
  /\ Q.pc # "idle" => Q.epoch = restarts
  /\ Q.scope # All => /\ Q.final \subseteq {Q.scope}
                      /\ Q.pc = "flags" => Q.todo \subseteq {Q.scope}

\* What a query has computed so far is about what was logged.
Drawn(Q) ==
  /\ Asked(Q)
  /\ Q.rows \subseteq DOMAIN logs
  /\ \A e \in Q.evidence : EvidenceOK(e)
  /\ \A v \in Q.verdicts : v.group \in Groups
  /\ \A s \in Q.states : Backed(s.student, s.lecture, s.state)

\* What a query has answered: one entry for a lecture, the frozen one for what
\* is final, if the cloud has not restarted since.
Told(Q) ==
  /\ \A a \in Q.answer :
       /\ a.final \in BOOLEAN
       /\ Sound(a.lecture, a.standings)
       /\ a.final => /\ a.lecture \in Lecture
                     /\ Q.epoch = restarts => frozen[a.lecture] = a.standings
  /\ \A a, b \in Q.answer : a.lecture = b.lecture => a = b

\* One of some groups is still on its way through the query.
Carries(Q, groups) ==
  /\ Q.pc = "list1" => \E i \in Q.rows : Group(logs[i]) \in groups
  /\ Q.pc = "evidence1" =>
       \/ \E i \in Q.rows : Group(logs[i]) \in groups
       \/ \E e \in Q.evidence : Group(e) \in groups
  /\ Q.pc \in {"list2", "evidence2"} => \E v \in Q.verdicts : v.group \in groups
  /\ Q.pc = "flags" => \E s \in Q.states : <<s.student, s.lecture>> \in groups

\* Of what was logged when the query began nobody gets lost ...
Complete(Q) ==
  /\ Q.logged \subseteq Groups
  /\ Len(logs) <= Limit =>
       \A g \in Q.logged : Q.scope \in {All, g[2]} =>
         /\ Carries(Q, {g})
         /\ Q.pc = "idle" => \E a \in Q.answer :
              /\ a.lecture = g[2]
              /\ a.final \/ \E s \in a.standings : s.student = g[1]

\* ... and a lecture that was frozen when the query for it began, and stays
\* finalized, is found so.
Served(Q) ==
  \A l \in Q.held :
    /\ l \in Lecture /\ frozen[l] # NotFrozen
    /\ Q.pc # "idle" => status[l] = "finalized"
    /\ Q.scope = l =>
         /\ Carries(Q, Student \X {l})
         /\ Q.pc = "flags" => l \in Q.todo \cup Q.final
         /\ Q.pc = "idle" =>
              [lecture |-> l, final |-> TRUE, standings |-> frozen[l]] \in Q.answer

QueryOK(Q) == Drawn(Q) /\ Told(Q) /\ Complete(Q) /\ Served(Q)

\* Student s is in a final report of lecture l from before the last restart.
Past(s, l) ==
  \E p \in Query : \E a \in query[p].answer :
    /\ query[p].epoch < restarts
    /\ a.final /\ a.lecture = l /\ s \in Students(a)

PastKept ==
  /\ \A q \in Query : query[q].pc # "idle" =>
       \A s, l : Past(s, l) => <<s, l>> \in query[q].logged
  /\ Len(logs) <= Limit =>
       \A l \in Lecture : frozen[l] # NotFrozen =>
         \A s : Past(s, l) => \E t \in frozen[l] : t.student = s

AnswersInv ==
  /\ TablesOK /\ StoreSound
  /\ \A q \in Query : QueryOK(query[q]) /\ Witnessed(query[q].spans)
  /\ PastKept /\ ReportsAgree

-----------------------------------------------------------------------------
(* Sets of numbers.                                                        *)

LEMMA LeastOf ==
  ASSUME NEW S \in SUBSET Nat, S # {}
  PROVE  \E n \in S : \A m \in S : n <= m
<1> DEFINE R == OpToRel(<, Nat)
<1>1. IsWellFoundedOn(R, Nat)
  BY NatLessThanWellFounded
<1> HIDE DEF R
<1>2. PICK n \in S : \A m \in S : ~(<<m, n>> \in R)
  BY <1>1, WFMin
<1>3. ASSUME NEW m \in S PROVE n <= m
  <2>1. n \in Nat /\ m \in Nat
    BY <1>2
  <2>2. m < n => <<m, n>> \in R
    BY <2>1 DEF R, OpToRel
  <2> QED
    BY <1>2, <2>1, <2>2
<1> QED
  BY <1>2, <1>3

LEMMA GreatestBelow ==
  ASSUME NEW b \in Nat, NEW S \in SUBSET (0 .. b), S # {}
  PROVE  \E n \in S : \A m \in S : m <= n
<1> DEFINE T == {b - n : n \in S}
<1>0. \A n \in S : n \in Nat /\ n <= b /\ b - n \in Nat
  OBVIOUS
<1>1. T \in SUBSET Nat /\ T # {}
  BY <1>0
<1>2. PICK t \in T : \A u \in T : t <= u
  BY <1>1, LeastOf
<1>3. PICK n \in S : t = b - n
  BY <1>2
<1>4. ASSUME NEW m \in S PROVE m <= n
  <2>1. b - n <= b - m
    BY <1>2, <1>3
  <2> QED
    BY <1>0, <2>1
<1> QED
  BY <1>4

LEMMA MaxOfTwo ==
  ASSUME NEW a \in Int, NEW b \in Int
  PROVE  Max({a, b}) = IF a >= b THEN a ELSE b
<1> DEFINE S == {a, b}
           m == IF a >= b THEN a ELSE b
<1>1. m \in S /\ \A y \in S : m >= y
  OBVIOUS
<1>2. \A x \in S : (\A y \in S : x >= y) => x = m
  OBVIOUS
<1>3. Max(S) \in S /\ \A y \in S : Max(S) >= y
  <2>1. PICK x \in S : \A y \in S : x >= y
    BY <1>1
  <2> QED
    BY <2>1 DEF Max
<1> QED
  BY <1>2, <1>3

LEMMA MaxIsThere ==
  ASSUME NEW b \in Nat, NEW S \in SUBSET (1 .. b), S # {}
  PROVE  Max(S) \in S
<1>1. S \in SUBSET (0 .. b)
  OBVIOUS
<1>2. PICK n \in S : \A m \in S : m <= n
  BY <1>1, GreatestBelow
<1>3. \A m \in S : n >= m
  BY <1>2
<1> QED
  BY <1>3 DEF Max

-----------------------------------------------------------------------------
(* The pipeline's operators.                                               *)

\* The session picked for a row is one of those it was picked from: among
\* spans with stamps up to some time one is best.
LEMMA PickedIsThere ==
  ASSUME NEW at \in Int, NEW a \in Int, NEW b \in Int, NEW spans, spans # {},
         \A x \in spans : x.first \in a .. b /\ x.last \in a .. b
  PROVE  Picked(at, spans) \in spans
<1> DEFINE windowed == Prefer({x \in spans : /\ x.first - Window <= at
                                             /\ at <= x.last + Window}, spans)
           overlapping == Prefer({x \in windowed : x.first <= at /\ at <= x.last}, windowed)
           pool == Prefer({x \in overlapping : x.status = "active"}, overlapping)
           Best(x) == \A y \in pool :
                        \/ Delta(at, x) < Delta(at, y)
                        \/ Delta(at, x) = Delta(at, y) /\ Duration(x) >= Duration(y)
<1>1. pool \subseteq spans /\ pool # {}
  BY DEF Prefer
<1> HIDE DEF pool
<1>n. PICK n \in Nat : \A x \in pool : x.last - x.first <= n
  <2>1. PICK x \in pool : TRUE
    BY <1>1
  <2>2. x.first \in a .. b
    BY <1>1, <2>1
  <2>3. b - a \in Nat
    BY <2>2
  <2>4. ASSUME NEW y \in pool PROVE y.last - y.first <= b - a
    <3>1. y.first \in a .. b /\ y.last \in a .. b
      BY <1>1
    <3> QED
      BY <3>1
  <2> QED
    BY <2>3, <2>4
<1>2. \A x \in pool : Delta(at, x) \in Nat /\ Duration(x) \in 0 .. n
  <2> SUFFICES ASSUME NEW x \in pool
               PROVE  Delta(at, x) \in Nat /\ Duration(x) \in 0 .. n
    OBVIOUS
  <2>1. x.first \in Int /\ x.last \in Int /\ x.last - x.first <= n
    BY <1>1, <1>n
  <2>2. Duration(x) = IF 0 >= x.last - x.first THEN 0 ELSE x.last - x.first
    BY <2>1, MaxOfTwo DEF Duration
  <2> QED
    BY <2>1, <2>2 DEF Delta
<1> DEFINE near == {Delta(at, x) : x \in pool}
<1>3. PICK d \in near : \A e \in near : d <= e
  <2>1. near \in SUBSET Nat /\ near # {}
    BY <1>1, <1>2
  <2> QED
    BY <2>1, LeastOf
<1> DEFINE long == {Duration(x) : x \in {y \in pool : Delta(at, y) = d}}
<1>4. PICK u \in long : \A v \in long : v <= u
  <2>1. long \in SUBSET (0 .. n) /\ long # {}
    BY <1>2, <1>3
  <2> QED
    BY <2>1, GreatestBelow
<1>5. PICK x \in pool : Delta(at, x) = d /\ Duration(x) = u
  BY <1>4
<1>6. Best(x)
  <2> SUFFICES ASSUME NEW y \in pool
               PROVE  \/ Delta(at, x) < Delta(at, y)
                      \/ Delta(at, x) = Delta(at, y) /\ Duration(x) >= Duration(y)
    OBVIOUS
  <2>1. d <= Delta(at, y) /\ d \in Nat /\ Delta(at, y) \in Nat
    BY <1>2, <1>3
  <2>2. CASE d < Delta(at, y)
    BY <1>5, <2>2
  <2>3. CASE d = Delta(at, y)
    <3>1. Duration(y) <= u
      BY <1>4, <2>3
    <3> QED
      BY <1>2, <1>5, <2>3, <3>1
  <2> QED
    BY <2>1, <2>2, <2>3
<1>7. (CHOOSE z \in pool : Best(z)) \in pool
  BY <1>5, <1>6
<1> QED
  BY <1>1, <1>7 DEF Picked, pool

\* What the evidence of a row says, and what an observation not of low
\* confidence rests on.
LEMMA EvidenceRests ==
  ASSUME NEW row \in Row, NEW a \in Int, NEW b \in Int, NEW spans,
         \A x \in spans : x.first \in a .. b /\ x.last \in a .. b
  PROVE  LET e == Evidence(row, spans)
         IN  /\ Group(e) = Group(row) /\ e.lecture = row.lecture
             /\ e.confidence \in {"low", "medium", "high"}
             /\ e.kind = "presence_observed" /\ e.confidence # "low" =>
                  /\ row.lecture # NoLecture
                  /\ \E x \in spans : /\ x.camera \in CamerasFor(row.lecture, spans)
                                      /\ Delta(row.at, x) <= Medium
<1> DEFINE e == Evidence(row, spans)
           matching == Matching(row.lecture, spans)
           pick == Picked(row.at, matching)
<1>1. CASE matching = {}
  BY <1>1 DEF Evidence, Group
<1>2. CASE matching # {}
  <2>1. e = [student |-> row.student, lecture |-> row.lecture,
             kind |-> "presence_observed",
             confidence |-> Confidence(Delta(row.at, pick)),
             duration |-> Duration(pick)]
    BY <1>2 DEF Evidence
  <2>2. matching \subseteq spans /\ row.lecture # NoLecture
        /\ \A x \in matching : x.camera \in CamerasFor(row.lecture, spans)
    BY <1>2 DEF Matching
  <2>3. row.at \in Int
    BY DEF Row
  <2>4. pick \in matching
    BY <1>2, <2>2, <2>3, PickedIsThere
  <2>5. Delta(row.at, pick) \in Nat
    BY <2>2, <2>3, <2>4 DEF Delta
  <2> HIDE DEF pick, matching
  <2>6. /\ Confidence(Delta(row.at, pick)) \in {"low", "medium", "high"}
        /\ Confidence(Delta(row.at, pick)) # "low" => Delta(row.at, pick) <= Medium
    BY <2>5, PipelineAssumption DEF Confidence
  <2> QED
    BY <2>1, <2>2, <2>4, <2>6 DEF Group
<1> QED
  BY <1>1, <1>2

\* The best confidence is one of an observation of the group.
LEMMA BestIsThere ==
  ASSUME NEW g, NEW evidence,
         \A e \in evidence : e.confidence \in {"low", "medium", "high"},
         BestConfidence(g, evidence) # "low"
  PROVE  \E e \in Observed(evidence) : Group(e) = g /\ e.confidence # "low"
<1> DEFINE own == {e \in Observed(evidence) : Group(e) = g}
           Rank(e) == ConfidenceRank[e.confidence]
           Best(e) == \A f \in own : Rank(f) <= Rank(e)
<1>1. own # {} /\ own \subseteq evidence
  BY DEF BestConfidence, Observed
<1>2. \A e \in own : Rank(e) \in 0 .. 2
  BY <1>1 DEF ConfidenceRank
<1>3. \E e \in own : Best(e)
  <2> HIDE DEF own, Rank
  <2> DEFINE ranks == {Rank(e) : e \in own}
  <2>1. ranks \in SUBSET (0 .. 2) /\ ranks # {}
    BY <1>1, <1>2
  <2>2. PICK n \in ranks : \A m \in ranks : m <= n
    BY <2>1, GreatestBelow
  <2> QED
    BY <2>2
<1>4. (CHOOSE e \in own : Best(e)) \in own
  BY <1>3
<1>5. BestConfidence(g, evidence) = (CHOOSE e \in own : Best(e)).confidence
  BY <1>1 DEF BestConfidence
<1> QED
  BY <1>4, <1>5

\* Nothing is confirmed without an observation that is not of low confidence.
LEMMA DerivedFrom ==
  ASSUME NEW eligibility, NEW confidence
  PROVE  LET st == DerivedState(Decision(eligibility, confidence))
         IN  /\ st \in State
             /\ st = "confirmed" => confidence # "low"
BY DEF DerivedState, Decision, State


-----------------------------------------------------------------------------
(* The tables.                                                             *)

\* A log only gets longer, an appearance is never forgotten, the clock goes on.
Growing ==
  /\ Len(logs) <= Len(logs')
  /\ \A i \in DOMAIN logs : i \in DOMAIN logs' /\ logs'[i] = logs[i]
  /\ Range(logs) \subseteq Range(logs')
  /\ appeared \subseteq appeared'
  /\ Stamps \subseteq Stamps'

LEMMA AppendKeeps ==
  ASSUME NEW S, NEW s \in Seq(S), NEW e \in S
  PROVE  /\ Append(s, e) \in Seq(S)
         /\ Len(s) <= Len(Append(s, e))
         /\ \A i \in DOMAIN s : i \in DOMAIN Append(s, e) /\ Append(s, e)[i] = s[i]
         /\ Range(s) \subseteq Range(Append(s, e))
<1>1. Append(s, e) \in Seq(S) /\ Len(Append(s, e)) = Len(s) + 1 /\ Len(s) \in Nat
  OBVIOUS
<1>2. DOMAIN s = 1 .. Len(s) /\ DOMAIN Append(s, e) = 1 .. Len(Append(s, e))
  BY <1>1
<1>3. \A i \in DOMAIN s : i \in DOMAIN Append(s, e) /\ Append(s, e)[i] = s[i]
  BY <1>1, <1>2
<1> QED
  BY <1>1, <1>3 DEF Range

LEMMA NothingSeen ==
  ASSUME now \in Nat, NEW k
  PROVE  NoSession \in Session /\ Seen(k, NoSession)
<1>1. /\ NoSession \in Session /\ NoSession.status = "none"
      /\ NoSession.first = 0 /\ NoSession.last = 0
  BY DEF NoSession, Session
<1>2. 0 \in Stamps
  BY ReportsAssumption DEF Stamps
<1> QED
  BY <1>1, <1>2 DEF Seen

\* Dropping what is stale leaves a table of the same kind.
LEMMA ExpireKeeps ==
  ASSUME NEW table, table \in [SessionKey -> Session], Witnessed(table),
         now \in Nat, NEW t
  PROVE  /\ Expire(table, t) \in [SessionKey -> Session]
         /\ Witnessed(Expire(table, t))
<1>1. \A k \in SessionKey : Expire(table, t)[k] \in {NoSession, table[k]}
  BY DEF Expire
<1>2. \A k \in SessionKey : NoSession \in Session /\ Seen(k, NoSession)
  BY NothingSeen
<1>3. Witnessed(Expire(table, t))
  BY <1>1, <1>2 DEF Witnessed
<1>4. \A k \in SessionKey : Expire(table, t)[k] \in Session
  BY <1>1, <1>2
<1>5. Expire(table, t) = [k \in SessionKey |-> Expire(table, t)[k]]
  BY DEF Expire
<1> HIDE DEF Expire
<1> QED
  BY <1>3, <1>4, <1>5

\* An event leaves a table of sessions that began with appearances.
LEMMA EventKeeps ==
  ASSUME TablesOK, NEW c \in Camera, NEW t \in Track \cup {0},
         NEW kind \in {"appeared", "disappeared", "heartbeat"},
         PresenceEvent(c, t, kind)
  PROVE  sessions' \in [SessionKey -> Session] /\ Witnessed(sessions)'
<1> DEFINE ts == now - Lag[c]
           e == [camera |-> c, track |-> t, kind |-> kind, ts |-> ts]
           old == Expire(sessions, ts)
<1>0. /\ sessions' = OnEvent(sessions, e)
      /\ appeared' = IF kind = "appeared" THEN appeared \cup {<<c, ts>>} ELSE appeared
      /\ now' = now
  BY DEF PresenceEvent
<1>a. ts \in Int /\ ts \in Stamps /\ Stamps' = Stamps
  <2>1. Lag[c] \in -Skew .. Skew /\ Skew \in Nat /\ now \in Nat
    BY ReportsAssumption DEF TablesOK
  <2>2. ts \in Int /\ -Skew <= ts /\ ts <= now + Skew
    BY <2>1
  <2>3. Stamps' = Stamps
    BY <1>0 DEF Stamps
  <2> QED
    BY <2>1, <2>2, <2>3 DEF Stamps
<1>1. old \in [SessionKey -> Session] /\ Witnessed(old)
  BY ExpireKeeps DEF TablesOK
<1>2. sessions' = Applied(old, e)
  BY <1>0 DEF OnEvent
<1> HIDE DEF old, ts
<1>3. ASSUME NEW k \in SessionKey PROVE Seen(k, sessions[k])'
  <2>1. Seen(k, old[k])
    BY <1>1 DEF Witnessed
  <2>2. CASE kind = "appeared" /\ k = <<c, t>>
    <3>1. sessions'[k] = [status |-> "active", first |-> ts, last |-> ts] /\ k[1] = c
      BY <1>2, <2>2 DEF Applied
    <3> QED
      BY <1>0, <1>a, <2>2, <3>1 DEF Session, Seen
  <2>3. CASE ~(kind = "appeared" /\ k = <<c, t>>)
    <3>1. \/ sessions'[k] = old[k]
          \/ /\ sessions'[k] = [old[k] EXCEPT !.status = "inactive", !.last = ts]
             /\ old[k].status # "none"
          \/ sessions'[k] = [old[k] EXCEPT !.last = ts]
      BY <1>2, <2>3 DEF Applied
    <3>2. appeared \subseteq appeared'
      BY <1>0
    <3>3. /\ old[k].status \in {"none", "active", "inactive"} /\ old[k].first \in Int
          /\ old[k] = [status |-> old[k].status, first |-> old[k].first, last |-> old[k].last]
      BY <2>1 DEF Seen, Session
    <3>4. \/ sessions'[k] = old[k]
          \/ /\ sessions'[k] = [status |-> "inactive", first |-> old[k].first, last |-> ts]
             /\ old[k].status # "none"
          \/ sessions'[k] = [status |-> old[k].status, first |-> old[k].first, last |-> ts]
      BY <3>1, <3>3
    <3>5. /\ sessions'[k] \in Session
          /\ sessions'[k].first = old[k].first
          /\ sessions'[k].last \in {old[k].last, ts}
          /\ sessions'[k].status # "none" => old[k].status # "none"
      <4>1. CASE sessions'[k] = old[k]
        BY <2>1, <4>1 DEF Seen
      <4>2. CASE /\ sessions'[k] = [status |-> "inactive", first |-> old[k].first, last |-> ts]
                 /\ old[k].status # "none"
        BY <1>a, <3>3, <4>2 DEF Session
      <4>3. CASE sessions'[k] = [status |-> old[k].status, first |-> old[k].first, last |-> ts]
        BY <1>a, <3>3, <4>3 DEF Session
      <4> QED
        BY <3>4, <4>1, <4>2, <4>3
    <3> QED
      BY <1>a, <2>1, <3>2, <3>5 DEF Seen
  <2> QED
    BY <2>2, <2>3
<1>4. sessions' = [k \in SessionKey |-> sessions'[k]]
  BY <1>2 DEF Applied
<1>5. sessions' \in [SessionKey -> Session]
  BY <1>3, <1>4 DEF Seen
<1> QED
  BY <1>3, <1>5 DEF Witnessed

\* What a lifecycle request does keeps the types of its tables.
LEMMA LectureSteps ==
  ASSUME TablesOK, NEW r \in Request, Lifecycle(r)
  PROVE  /\ UNCHANGED <<now, sessions, logs, appeared, restarts, frozen>>
         /\ status' \in [Lecture -> {"scheduled", "active_window_open",
                                     "active_window_closed", "finalized"}]
         /\ began' \in [Lecture -> Nat]
         /\ ended' \in [Lecture -> Nat \cup {-1}]
         /\ over' \in SUBSET Lecture
         /\ op' = [x \in Request |-> op'[x]]
         /\ \A x \in Request : op'[x] # NoRequest =>
              op'[x].lecture \in Lecture /\ op'[x].at \in Nat
<1> USE DEF TablesOK
<1>1. ASSUME NEW l \in Lecture, NEW action, NEW required, BeginOp(r, l, action, required)
      PROVE  /\ op' = [x \in Request |-> op'[x]]
             /\ \A x \in Request : op'[x] # NoRequest =>
                  op'[x].lecture \in Lecture /\ op'[x].at \in Nat
             /\ UNCHANGED <<status, began, ended, over>>
             /\ UNCHANGED <<now, sessions, logs, appeared, restarts, frozen>>
  BY <1>1 DEF BeginOp
<1>2. CASE \E l \in Lecture : BeginStart(r, l) \/ BeginClose(r, l) \/ BeginFinalize(r, l)
  BY <1>1, <1>2 DEF BeginStart, BeginClose, BeginFinalize
<1>3. CASE CommitStart(r)
  <2>1. op[r].lecture \in Lecture /\ op[r].at \in Nat
    BY <1>3 DEF CommitStart, CommitOp
  <2>2. \A t \in op[r].at .. now : t \in Nat
    BY <2>1
  <2>3. /\ UNCHANGED <<now, sessions, logs, appeared, restarts, frozen, ended, over>>
        /\ op' = [op EXCEPT ![r] = NoRequest]
        /\ status' = [status EXCEPT ![op[r].lecture] = "active_window_open"]
        /\ \E t \in op[r].at .. now : began' = [began EXCEPT ![op[r].lecture] = t]
    BY <1>3 DEF CommitStart, CommitOp
  <2> QED
    BY <2>1, <2>2, <2>3
<1>4. CASE CommitClose(r)
  <2>1. op[r].lecture \in Lecture /\ op[r].at \in Nat
    BY <1>4 DEF CommitClose, CommitOp
  <2> QED
    BY <1>4, <2>1 DEF CommitClose, CommitOp
<1>5. CASE CommitFinalize(r)
  <2>1. op[r].lecture \in Lecture
    BY <1>5 DEF CommitFinalize, CommitOp
  <2> QED
    BY <1>5, <2>1 DEF CommitFinalize, CommitOp
<1>6. CASE AbortOp(r)
  BY <1>6 DEF AbortOp
<1> QED
  BY <1>2, <1>3, <1>4, <1>5, <1>6 DEF Lifecycle

\* The tables keep their types, and nothing that was logged gets lost.
LEMMA TablesKept ==
  ASSUME TablesOK, Next
  PROVE  TablesOK' /\ Growing
<1> USE DEF TablesOK
<1>0. Witnessed(sessions) /\ now \in Nat /\ Len(logs) \in Nat
  OBVIOUS
<1>1. CASE \E q \in Query : Serve(q)
  <2>1. PICK q \in Query : Serve(q)
    BY <1>1
  <2>2. UNCHANGED <<now, logs, status, began, ended, op, over, appeared, restarts>>
    BY <2>1, ServeLeaves
  <2>3. sessions' = sessions \/ sessions' = Expire(sessions, now)
    BY <2>1 DEF Serve, Begin, FetchRows, ListSessions, Correlate, ReadLength,
      FetchRowsAgain, Decide, ReadFlag, Answer
  <2>4. sessions' \in [SessionKey -> Session] /\ Witnessed(sessions')
    BY <1>0, <2>3, ExpireKeeps
  <2>5. Witnessed(sessions)'
    BY <2>2, <2>4 DEF Witnessed, Seen, Stamps
  <2>6. TablesOK'
    BY <2>2, <2>4, <2>5
  <2> QED
    BY <1>0, <2>2, <2>6 DEF Growing, Stamps
<1>2. ASSUME NEW l \in Lecture \cup {NoLecture}, NEW s \in Student, Recognise(l, s)
      PROVE  TablesOK' /\ Growing
  <2> DEFINE row == [lecture |-> l, student |-> s, at |-> now - EdgeLag]
  <2>1. row \in Row
    <3>1. EdgeLag \in Int
      BY ReportsAssumption
    <3> QED
      BY <3>1 DEF Row
  <2>2. logs' = Append(logs, row)
        /\ UNCHANGED <<now, sessions, lectureVars, frozen, query, appeared, restarts>>
    BY <1>2 DEF Recognise
  <2> HIDE DEF row
  <2>3. /\ logs' \in Seq(Row) /\ Len(logs) <= Len(logs') /\ Range(logs) \subseteq Range(logs')
        /\ \A i \in DOMAIN logs : i \in DOMAIN logs' /\ logs'[i] = logs[i]
    BY <2>1, <2>2, AppendKeeps
  <2> QED
    BY <2>2, <2>3 DEF Growing, lectureVars, Witnessed, Seen, Stamps
<1>3. ASSUME NEW c \in Camera, NEW t \in Track \cup {0},
             NEW kind \in {"appeared", "disappeared", "heartbeat"}, PresenceEvent(c, t, kind)
      PROVE  TablesOK' /\ Growing
  <2>1. sessions' \in [SessionKey -> Session] /\ Witnessed(sessions)'
    BY <1>3, EventKeeps
  <2>2. /\ UNCHANGED <<now, logs, lectureVars, restarts>>
        /\ appeared \subseteq appeared'
    BY <1>3 DEF PresenceEvent
  <2> QED
    BY <1>0, <2>1, <2>2 DEF Growing, lectureVars, Stamps
<1>4. ASSUME NEW r \in Request, Lifecycle(r)
      PROVE  TablesOK' /\ Growing
  <2>1. /\ UNCHANGED <<now, sessions, logs, appeared, restarts, frozen>>
        /\ status' \in [Lecture -> {"scheduled", "active_window_open",
                                    "active_window_closed", "finalized"}]
        /\ began' \in [Lecture -> Nat]
        /\ ended' \in [Lecture -> Nat \cup {-1}]
        /\ over' \in SUBSET Lecture
        /\ op' = [x \in Request |-> op'[x]]
        /\ \A x \in Request : op'[x] # NoRequest =>
             op'[x].lecture \in Lecture /\ op'[x].at \in Nat
    BY <1>4, LectureSteps
  <2>2. Witnessed(sessions)'
    BY <1>0, <2>1 DEF Witnessed, Seen, Stamps
  <2> QED
    BY <1>0, <2>1, <2>2 DEF Growing, Stamps
<1>5. CASE Restart
  <2>1. /\ sessions' = NoSpans
        /\ restarts' = restarts + 1
        /\ op' = [r \in Request |-> NoRequest]
        /\ UNCHANGED <<now, logs, status, began, ended, over, appeared>>
    BY <1>5 DEF Restart
  <2>2. \A k \in SessionKey : NoSession \in Session /\ Seen(k, NoSession)
    BY <1>0, NothingSeen
  <2>3. sessions' \in [SessionKey -> Session] /\ \A k \in SessionKey : sessions'[k] = NoSession
    BY <2>1, <2>2 DEF NoSpans
  <2>4. Witnessed(sessions)'
    BY <2>1, <2>2, <2>3 DEF Witnessed, Seen, Stamps
  <2> QED
    BY <1>0, <2>1, <2>3, <2>4 DEF Growing, Stamps
<1>6. CASE Tick
  <2>1. now' = now + 1 /\ UNCHANGED <<sessions, logs, lectureVars, appeared, restarts>>
    BY <1>6 DEF Tick
  <2>2. Stamps \subseteq Stamps'
    BY <2>1, ReportsAssumption DEF Stamps
  <2>3. Witnessed(sessions)'
    BY <1>0, <2>1, <2>2 DEF Witnessed, Seen
  <2> QED
    BY <1>0, <2>1, <2>2, <2>3 DEF Growing, lectureVars
<1> QED
  BY <1>1, <1>2, <1>3, <1>4, <1>5, <1>6 DEF Next

-----------------------------------------------------------------------------
(* What one read of a query contributes.                                   *)

\* A query fetches rows of its scope, some if there are any, and all of them
\* as long as the limit is not reached.
LEMMA FetchedRows ==
  ASSUME TablesOK, NEW scope
  PROVE  /\ Fetched(scope) \subseteq {i \in DOMAIN logs : InScope(scope, logs[i])}
         /\ \A i \in DOMAIN logs : InScope(scope, logs[i]) =>
              /\ Fetched(scope) # {}
              /\ Len(logs) <= Limit => i \in Fetched(scope)
<1> DEFINE places == {i \in DOMAIN logs : InScope(scope, logs[i])}
           later(i) == {j \in places : j > i}
<1>1. Len(logs) \in Nat /\ DOMAIN logs = 1 .. Len(logs) /\ Limit \in Nat \ {0}
  BY ReportsAssumption DEF TablesOK
<1>2. Fetched(scope) = {j \in places : Cardinality(later(j)) < Limit}
  BY DEF Fetched, Newest
<1>3. Fetched(scope) \subseteq places
  BY <1>2
<1>4. ASSUME NEW i \in places
      PROVE  /\ Fetched(scope) # {}
             /\ Len(logs) <= Limit => i \in Fetched(scope)
  <2>2. Fetched(scope) # {}
    <3>1. places \in SUBSET (0 .. Len(logs)) /\ places # {}
      BY <1>1, <1>4
    <3>2. PICK n \in places : \A m \in places : m <= n
      BY <1>1, <3>1, GreatestBelow
    <3>3. later(n) = {}
      BY <1>1, <3>2
    <3>4. Cardinality(later(n)) = 0
      BY <3>3, FS_EmptySet
    <3> HIDE DEF places, later
    <3>5. Cardinality(later(n)) < Limit
      BY <1>1, <3>4
    <3> QED
      BY <1>2, <3>2, <3>5
  <2>3. ASSUME Len(logs) <= Limit PROVE i \in Fetched(scope)
    <3> DEFINE behind == (i + 1) .. Len(logs)
    <3>1. i \in 1 .. Len(logs) /\ later(i) \subseteq behind
      BY <1>1
    <3>2. IsFiniteSet(behind) /\ Cardinality(behind) <= Len(logs) - i
      <4>1. i + 1 \in Int /\ Len(logs) \in Int
        BY <1>1, <3>1
      <4>2. /\ IsFiniteSet(behind)
            /\ Cardinality(behind) = IF i + 1 > Len(logs) THEN 0 ELSE Len(logs) - (i + 1) + 1
        BY <4>1, FS_Interval
      <4> HIDE DEF behind
      <4> QED
        BY <1>1, <3>1, <4>2
    <3>3. Cardinality(later(i)) <= Cardinality(behind) /\ Cardinality(later(i)) \in Nat
          /\ Cardinality(behind) \in Nat
      BY <3>1, <3>2, FS_Subset, FS_CardinalityType
    <3> HIDE DEF behind, later
    <3>4. Cardinality(later(i)) < Limit
      BY <1>1, <2>3, <3>1, <3>2, <3>3
    <3> QED
      BY <1>2, <3>4
  <2> QED
    BY <2>2, <2>3
<1> QED
  BY <1>3, <1>4

\* The next row of a query is one of its rows.
LEMMA NextRow ==
  ASSUME TablesOK, NEW rows, rows \subseteq DOMAIN logs, rows # {}
  PROVE  Max(rows) \in rows /\ logs[Max(rows)] \in Row /\ logs[Max(rows)] \in Range(logs)
<1>1. Len(logs) \in Nat /\ DOMAIN logs = 1 .. Len(logs)
  BY DEF TablesOK
<1>2. Max(rows) \in rows
  BY <1>1, MaxIsThere
<1> QED
  BY <1>1, <1>2 DEF TablesOK, Range

\* The evidence of a row is about its group, and an observation not of low
\* confidence has an appearance that supports it.
LEMMA EvidenceSupported ==
  ASSUME TablesOK, NEW q \in Query, Witnessed(query[q].spans),
         NEW row \in Range(logs)
  PROVE  LET e == Evidence(row, Spans(q)) IN Group(e) = Group(row) /\ EvidenceOK(e)
<1> DEFINE spans == Spans(q)
           e == Evidence(row, spans)
<1>1. ASSUME NEW x \in spans
      PROVE  /\ x.first \in Stamps /\ x.last \in Stamps
             /\ <<x.camera, x.first>> \in appeared
  <2>1. PICK k \in SessionKey :
          /\ query[q].spans[k].status # "none"
          /\ x.camera = k[1] /\ x.first = query[q].spans[k].first
          /\ x.last = query[q].spans[k].last
    BY DEF Spans
  <2>2. Seen(k, query[q].spans[k])
    BY DEF Witnessed
  <2> QED
    BY <2>1, <2>2 DEF Seen
<1>2. row \in Row
  BY DEF TablesOK, Range
<1>3. -Skew \in Int /\ now + Skew \in Int
  BY ReportsAssumption DEF TablesOK
<1>4. \A x \in spans : x.first \in -Skew .. (now + Skew) /\ x.last \in -Skew .. (now + Skew)
  BY <1>1 DEF Stamps
<1> HIDE DEF spans
<1>5. /\ Group(e) = Group(row) /\ e.lecture = row.lecture
      /\ e.confidence \in {"low", "medium", "high"}
      /\ e.kind = "presence_observed" /\ e.confidence # "low" =>
           /\ row.lecture # NoLecture
           /\ \E x \in spans : /\ x.camera \in CamerasFor(row.lecture, spans)
                               /\ Delta(row.at, x) <= Medium
  BY <1>2, <1>3, <1>4, EvidenceRests
<1> HIDE DEF e
<1>6. e.student = row.student /\ Group(e) \in Groups
  BY <1>5 DEF Group, Groups
<1>7. ASSUME e.kind = "presence_observed", e.confidence # "low", Registered
      PROVE  Supported(e.student, e.lecture)
  <2>1. PICK x \in spans : /\ x.camera \in CamerasFor(row.lecture, spans)
                           /\ Delta(row.at, x) <= Medium
    BY <1>5, <1>7
  <2>2. row.lecture \in Lecture
    BY <1>2, <1>5, <1>7 DEF Row
  <2>3. x.camera \in RoomCameras[row.lecture]
    BY <1>7, <2>1, <2>2, PipelineAssumption DEF CamerasFor, Registered
  <2> DEFINE seen == <<x.camera, x.first>>
  <2>4. seen \in appeared /\ seen[1] = x.camera /\ seen[2] = x.first
    BY <1>1
  <2>5. Delta(row.at, [first |-> seen[2]]) = Delta(row.at, x)
    BY <2>4 DEF Delta
  <2>6. Group(row) = <<row.student, row.lecture>>
    BY DEF Group
  <2> HIDE DEF seen
  <2> QED
    BY <1>5, <1>6, <2>1, <2>3, <2>4, <2>5, <2>6 DEF Supported
<1>8. Group(e) = Group(row) /\ EvidenceOK(e)
  BY <1>5, <1>6, <1>7 DEF EvidenceOK
<1> QED
  BY <1>8 DEF e, spans

-----------------------------------------------------------------------------
(* The steps of a query that leave the store alone.                        *)

\* A query that begins has everything before it.
LEMMA BeginSound ==
  ASSUME TablesOK, NEW scope \in Lecture \cup {All}
  PROVE  QueryOK([IdleQuery EXCEPT !.pc = "rows", !.scope = scope, !.epoch = restarts,
                    !.logged = {Group(row) : row \in Range(logs)},
                    !.held = {l \in Lecture : /\ frozen[l] # NotFrozen
                                              /\ status[l] = "finalized"}])
<1> DEFINE n == [IdleQuery EXCEPT !.pc = "rows", !.scope = scope, !.epoch = restarts,
                   !.logged = {Group(row) : row \in Range(logs)},
                   !.held = {l \in Lecture : /\ frozen[l] # NotFrozen
                                             /\ status[l] = "finalized"}]
<1>1. /\ n.pc = "rows" /\ n.scope = scope /\ n.rows = {} /\ n.evidence = {}
      /\ n.verdicts = {} /\ n.states = {} /\ n.answer = {} /\ n.final = {}
      /\ n.epoch = restarts /\ n.logged = Groups
      /\ n.held = {l \in Lecture : frozen[l] # NotFrozen /\ status[l] = "finalized"}
  BY DEF IdleQuery, Groups
<1> HIDE DEF n
<1>2. restarts \in Nat
  BY DEF TablesOK
<1>3. Drawn(n) /\ Told(n)
  BY <1>1, <1>2 DEF Drawn, Told, Asked
<1>4. \A groups : Carries(n, groups)
  BY <1>1 DEF Carries
<1>5. Complete(n) /\ Served(n)
  BY <1>1, <1>4 DEF Complete, Served
<1>6. QueryOK(n)
  BY <1>3, <1>5 DEF QueryOK
<1> QED
  BY <1>6 DEF n

\* The first fetch brings in a row of everybody it must not lose.
LEMMA FetchRowsSound ==
  ASSUME TablesOK, StoreSound, NEW Q, Filled(Q), QueryOK(Q), Q.pc = "rows"
  PROVE  QueryOK([Q EXCEPT !.pc = "list1", !.rows = Fetched(Q.scope)])
<1> DEFINE n == [Q EXCEPT !.pc = "list1", !.rows = Fetched(Q.scope)]
<1>1. /\ n.pc = "list1" /\ n.rows = Fetched(Q.scope) /\ n.scope = Q.scope
      /\ n.evidence = Q.evidence /\ n.verdicts = Q.verdicts /\ n.states = Q.states
      /\ n.todo = Q.todo /\ n.final = Q.final /\ n.epoch = Q.epoch
      /\ n.answer = Q.answer /\ n.logged = Q.logged /\ n.held = Q.held
  BY DEF Filled, Fields
<1> HIDE DEF n
<1>0. Drawn(Q) /\ Told(Q) /\ Complete(Q) /\ Served(Q)
  BY DEF QueryOK
<1>2. /\ n.rows \subseteq {i \in DOMAIN logs : InScope(n.scope, logs[i])}
      /\ \A i \in DOMAIN logs : InScope(n.scope, logs[i]) =>
           /\ n.rows # {}
           /\ Len(logs) <= Limit => i \in n.rows
  BY <1>1, FetchedRows
<1>a. \A row \in Range(logs) : \E i \in DOMAIN logs : row = logs[i]
  BY DEF Range
<1>3. Drawn(n) /\ Told(n)
  BY <1>0, <1>1, <1>2 DEF Drawn, Told, Asked
<1>4. Complete(n)
  <2> SUFFICES ASSUME Len(logs) <= Limit, NEW g \in n.logged, n.scope \in {All, g[2]}
               PROVE  Carries(n, {g})
    BY <1>0, <1>1 DEF Complete
  <2>1. PICK row \in Range(logs) : g = Group(row)
    BY <1>0, <1>1 DEF Complete, Groups
  <2>2. PICK i \in DOMAIN logs : row = logs[i]
    BY <1>a
  <2>3. InScope(n.scope, logs[i])
    BY <2>1, <2>2 DEF InScope, Group
  <2>4. i \in n.rows
    BY <1>2, <2>3
  <2> QED
    BY <1>1, <2>1, <2>2, <2>4 DEF Carries
<1>5. Served(n)
  <2> SUFFICES ASSUME NEW l \in n.held, n.scope = l
               PROVE  Carries(n, Student \X {l})
    BY <1>0, <1>1 DEF Served
  <2>1. l \in Lecture /\ frozen[l] # NotFrozen /\ l # All
    BY <1>0, <1>1, ReportsAssumption DEF Served
  <2>2. PICK s \in frozen[l] : <<s.student, l>> \in Groups
    BY <2>1 DEF StoreSound, Sound, Backed
  <2>3. PICK row \in Range(logs) : Group(row) = <<s.student, l>>
    BY <2>2 DEF Groups
  <2>4. PICK i \in DOMAIN logs : row = logs[i]
    BY <1>a
  <2>5. InScope(n.scope, logs[i])
    BY <2>3, <2>4 DEF InScope, Group
  <2>6. PICK j \in n.rows : TRUE
    BY <1>2, <2>5
  <2>7. j \in DOMAIN logs /\ logs[j].lecture = l
    BY <1>2, <2>1, <2>6 DEF InScope
  <2>8. logs[j].student \in Student
    <3>1. logs[j] \in Row
      BY <2>7 DEF TablesOK
    <3> QED
      BY <3>1 DEF Row
  <2>9. Group(logs[j]) \in Student \X {l}
    BY <2>7, <2>8 DEF Group
  <2> QED
    BY <1>1, <2>6, <2>9 DEF Carries
<1>6. QueryOK(n)
  BY <1>3, <1>4, <1>5 DEF QueryOK
<1> QED
  BY <1>6 DEF n

\* The sessions a query lists carry nobody on: the rows do.
LEMMA ListSound ==
  ASSUME NEW Q, QueryOK(Q), Q.pc \in {"list1", "list2"},
         NEW n, n.pc = IF Q.pc = "list1" THEN "evidence1" ELSE "evidence2",
         n.rows = Q.rows, n.scope = Q.scope, n.evidence = Q.evidence,
         n.verdicts = Q.verdicts, n.states = Q.states, n.todo = Q.todo,
         n.final = Q.final, n.epoch = Q.epoch, n.answer = Q.answer,
         n.logged = Q.logged, n.held = Q.held
  PROVE  QueryOK(n)
<1>1. /\ n.pc = IF Q.pc = "list1" THEN "evidence1" ELSE "evidence2"
      /\ n.rows = Q.rows /\ n.scope = Q.scope
      /\ n.evidence = Q.evidence /\ n.verdicts = Q.verdicts /\ n.states = Q.states
      /\ n.todo = Q.todo /\ n.final = Q.final /\ n.epoch = Q.epoch
      /\ n.answer = Q.answer /\ n.logged = Q.logged /\ n.held = Q.held
  OBVIOUS
<1>0. Drawn(Q) /\ Told(Q) /\ Complete(Q) /\ Served(Q)
  BY DEF QueryOK
<1>3. Drawn(n) /\ Told(n)
  BY <1>0, <1>1 DEF Drawn, Told, Asked
<1>4. ASSUME NEW groups, Carries(Q, groups) PROVE Carries(n, groups)
  BY <1>1, <1>4 DEF Carries
<1>b. n.pc \notin {"idle", "flags"} /\ Q.pc \notin {"idle", "flags"}
  BY <1>1
<1>5. Complete(n) /\ Served(n)
  <2>1. Complete(n)
    BY <1>0, <1>1, <1>4, <1>b DEF Complete
  <2>2. Served(n)
    BY <1>0, <1>1, <1>4, <1>b DEF Served
  <2> QED
    BY <2>1, <2>2
<1> QED
  BY <1>3, <1>5 DEF QueryOK

\* A row that is correlated becomes evidence about the same group.
LEMMA CorrelateSound ==
  ASSUME TablesOK, NEW Q, QueryOK(Q), Q.pc \in {"evidence1", "evidence2"},
         NEW i \in Q.rows, NEW e, Group(e) = Group(logs[i]), EvidenceOK(e),
         NEW n, n.pc = Q.pc, n.rows = Q.rows \ {i}, n.scope = Q.scope,
         n.evidence = Q.evidence \cup {e}, n.verdicts = Q.verdicts,
         n.states = Q.states, n.todo = Q.todo, n.final = Q.final,
         n.epoch = Q.epoch, n.answer = Q.answer, n.logged = Q.logged, n.held = Q.held
  PROVE  QueryOK(n)
<1>1. /\ n.pc = Q.pc /\ n.rows = Q.rows \ {i} /\ n.scope = Q.scope
      /\ n.evidence = Q.evidence \cup {e} /\ n.verdicts = Q.verdicts /\ n.states = Q.states
      /\ n.todo = Q.todo /\ n.final = Q.final /\ n.epoch = Q.epoch
      /\ n.answer = Q.answer /\ n.logged = Q.logged /\ n.held = Q.held
  OBVIOUS
<1>0. Drawn(Q) /\ Told(Q) /\ Complete(Q) /\ Served(Q)
  BY DEF QueryOK
<1>3. Drawn(n) /\ Told(n)
  BY <1>0, <1>1 DEF Drawn, Told, Asked
<1>4. ASSUME NEW groups, Carries(Q, groups) PROVE Carries(n, groups)
  <2>1. CASE Q.pc = "evidence1"
    BY <1>1, <1>4, <2>1 DEF Carries
  <2>2. CASE Q.pc = "evidence2"
    BY <1>1, <1>4, <2>2 DEF Carries
  <2> QED
    BY <2>1, <2>2
<1>b. n.pc \notin {"idle", "flags"} /\ Q.pc \notin {"idle", "flags"}
  BY <1>1
<1>5. Complete(n) /\ Served(n)
  <2>1. Complete(n)
    BY <1>0, <1>1, <1>4, <1>b DEF Complete
  <2>2. Served(n)
    BY <1>0, <1>1, <1>4, <1>b DEF Served
  <2> QED
    BY <2>1, <2>2
<1> QED
  BY <1>3, <1>5 DEF QueryOK

\* A group that is read gets its verdict.
LEMMA ReadLengthSound ==
  ASSUME NEW Q, Filled(Q), QueryOK(Q), Q.pc = "evidence1", NEW g \in Undecided(Q),
         NEW v, v.group = g
  PROVE  QueryOK([Q EXCEPT !.verdicts = @ \cup {v}])
<1> DEFINE n == [Q EXCEPT !.verdicts = @ \cup {v}]
<1>1. /\ n.pc = Q.pc /\ n.rows = Q.rows /\ n.scope = Q.scope
      /\ n.evidence = Q.evidence /\ n.verdicts = Q.verdicts \cup {v} /\ n.states = Q.states
      /\ n.todo = Q.todo /\ n.final = Q.final /\ n.epoch = Q.epoch
      /\ n.answer = Q.answer /\ n.logged = Q.logged /\ n.held = Q.held
  BY DEF Filled, Fields
<1>0. Drawn(Q) /\ Told(Q) /\ Complete(Q) /\ Served(Q)
  BY DEF QueryOK
<1>2. v.group \in Groups
  BY <1>0 DEF Undecided, Grouped, Drawn, EvidenceOK
<1> HIDE DEF n
<1>3. Drawn(n) /\ Told(n)
  BY <1>0, <1>1, <1>2 DEF Drawn, Told, Asked
<1>4. ASSUME NEW groups, Carries(Q, groups) PROVE Carries(n, groups)
  BY <1>1, <1>4 DEF Carries
<1>b. n.pc \notin {"idle", "flags"} /\ Q.pc \notin {"idle", "flags"}
  BY <1>1
<1>5. Complete(n) /\ Served(n)
  <2>1. Complete(n)
    BY <1>0, <1>1, <1>4, <1>b DEF Complete
  <2>2. Served(n)
    BY <1>0, <1>1, <1>4, <1>b DEF Served
  <2> QED
    BY <2>1, <2>2
<1>6. QueryOK(n)
  BY <1>3, <1>5 DEF QueryOK
<1> QED
  BY <1>6 DEF n

\* Once all groups have verdicts they go on as such, whatever the second
\* fetch brings in.
LEMMA FetchRowsAgainSound ==
  ASSUME TablesOK, NEW Q, Filled(Q), QueryOK(Q), Q.pc = "evidence1", Q.rows = {},
         Undecided(Q) = {}
  PROVE  QueryOK([Q EXCEPT !.pc = "list2", !.evidence = {}, !.rows = Fetched(Q.scope)])
<1> DEFINE n == [Q EXCEPT !.pc = "list2", !.evidence = {}, !.rows = Fetched(Q.scope)]
<1>1. /\ n.pc = "list2" /\ n.rows = Fetched(Q.scope) /\ n.scope = Q.scope
      /\ n.evidence = {} /\ n.verdicts = Q.verdicts /\ n.states = Q.states
      /\ n.todo = Q.todo /\ n.final = Q.final /\ n.epoch = Q.epoch
      /\ n.answer = Q.answer /\ n.logged = Q.logged /\ n.held = Q.held
  BY DEF Filled, Fields
<1> HIDE DEF n
<1>0. Drawn(Q) /\ Told(Q) /\ Complete(Q) /\ Served(Q)
  BY DEF QueryOK
<1>2. n.rows \subseteq DOMAIN logs
  BY <1>1, FetchedRows
<1>3. Drawn(n) /\ Told(n)
  BY <1>0, <1>1, <1>2 DEF Drawn, Told, Asked
<1>4. ASSUME NEW groups, Carries(Q, groups) PROVE Carries(n, groups)
  <2>1. PICK e \in Q.evidence : Group(e) \in groups
    BY <1>4 DEF Carries
  <2>2. PICK v \in Q.verdicts : v.group = Group(e)
    BY <2>1 DEF Undecided, Grouped
  <2> QED
    BY <1>1, <2>1, <2>2 DEF Carries
<1>5. Complete(n) /\ Served(n)
  BY <1>0, <1>1, <1>4 DEF Complete, Served
<1>6. QueryOK(n)
  BY <1>3, <1>5 DEF QueryOK
<1> QED
  BY <1>6 DEF n

\* Whoever ends up confirmed is supported by the second evidence, on which the
\* decision's confidence rests.
LEMMA DecideSound ==
  ASSUME NEW Q, Filled(Q), QueryOK(Q), Q.pc = "evidence2", NEW states,
         states = {[lecture |-> v.group[2], student |-> v.group[1],
                    state |-> DerivedState(Decision(v.eligibility,
                                BestConfidence(v.group, Q.evidence)))] :
                      v \in Q.verdicts}
  PROVE  QueryOK([Q EXCEPT !.pc = "flags", !.evidence = {}, !.verdicts = {},
                    !.states = states,
                    !.todo = IF Q.scope # All THEN {Q.scope}
                             ELSE {s.lecture : s \in states} \ {NoLecture}])
<1> DEFINE todo == IF Q.scope # All THEN {Q.scope}
                   ELSE {s.lecture : s \in states} \ {NoLecture}
           n == [Q EXCEPT !.pc = "flags", !.evidence = {}, !.verdicts = {},
                   !.states = states, !.todo = todo]
           StateOf(v) == DerivedState(Decision(v.eligibility,
                                        BestConfidence(v.group, Q.evidence)))
<1>1. /\ n.pc = "flags" /\ n.rows = Q.rows /\ n.scope = Q.scope
      /\ n.evidence = {} /\ n.verdicts = {} /\ n.states = states
      /\ n.todo = todo /\ n.final = Q.final /\ n.epoch = Q.epoch
      /\ n.answer = Q.answer /\ n.logged = Q.logged /\ n.held = Q.held
  BY DEF Filled, Fields
<1>0. Drawn(Q) /\ Told(Q) /\ Complete(Q) /\ Served(Q)
  BY DEF QueryOK
<1>2. ASSUME NEW v \in Q.verdicts
      PROVE  /\ v.group = <<v.group[1], v.group[2]>>
             /\ Backed(v.group[1], v.group[2], StateOf(v))
  <2>1. v.group \in Groups
    BY <1>0 DEF Drawn
  <2>2. v.group = <<v.group[1], v.group[2]>>
    BY <2>1 DEF Groups, Group
  <2>3. /\ StateOf(v) \in State
        /\ StateOf(v) = "confirmed" => BestConfidence(v.group, Q.evidence) # "low"
    BY DerivedFrom
  <2> HIDE DEF StateOf
  <2>4. ASSUME StateOf(v) = "confirmed"
        PROVE  v.group[2] # NoLecture /\ (Registered => Supported(v.group[1], v.group[2]))
    <3>1. \A e \in Q.evidence :
              /\ e.confidence \in {"low", "medium", "high"}
              /\ e.kind = "presence_observed" /\ e.confidence # "low" =>
                   /\ e.lecture # NoLecture
                   /\ Registered => Supported(e.student, e.lecture)
      BY <1>0 DEF Drawn, EvidenceOK
    <3>2. PICK e \in Observed(Q.evidence) : Group(e) = v.group /\ e.confidence # "low"
      BY <2>3, <2>4, <3>1, BestIsThere
    <3>3. e.student = v.group[1] /\ e.lecture = v.group[2]
      BY <3>2 DEF Group
    <3> QED
      BY <3>1, <3>2, <3>3 DEF Observed
  <2> QED
    BY <2>1, <2>2, <2>3, <2>4 DEF Backed
<1>3. states = {[lecture |-> v.group[2], student |-> v.group[1], state |-> StateOf(v)] :
                  v \in Q.verdicts}
  OBVIOUS
<1>4. Q.scope # All => todo = {Q.scope}
  OBVIOUS
<1> HIDE DEF n, StateOf, todo
<1>5. Drawn(n) /\ Told(n)
  <2>1. ASSUME NEW s \in states PROVE Backed(s.student, s.lecture, s.state)
    <3>1. PICK v \in Q.verdicts :
            s = [lecture |-> v.group[2], student |-> v.group[1], state |-> StateOf(v)]
      BY <1>3
    <3>2. s.student = v.group[1] /\ s.lecture = v.group[2] /\ s.state = StateOf(v)
      BY <3>1
    <3> QED
      BY <1>2, <3>2
  <2> QED
    BY <1>0, <1>1, <1>4, <2>1 DEF Drawn, Told, Asked
<1>6. ASSUME NEW groups, Carries(Q, groups) PROVE Carries(n, groups)
  <2>1. PICK v \in Q.verdicts : v.group \in groups
    BY <1>6 DEF Carries
  <2> DEFINE s == [lecture |-> v.group[2], student |-> v.group[1], state |-> StateOf(v)]
  <2>2. s \in states /\ <<s.student, s.lecture>> = v.group
    BY <1>2, <1>3
  <2> HIDE DEF s
  <2> QED
    BY <1>1, <2>1, <2>2 DEF Carries
<1>7. Complete(n)
  BY <1>0, <1>1, <1>6 DEF Complete
<1>8. Served(n)
  <2>1. \A l \in Lecture : Q.scope = l => l \in todo
    BY <1>4, ReportsAssumption
  <2> QED
    BY <1>0, <1>1, <1>6, <2>1 DEF Served
<1>9. QueryOK(n)
  BY <1>5, <1>7, <1>8 DEF QueryOK
<1> QED
  BY <1>9 DEF n, todo

\* A lecture that was frozen and stays finalized is found so.
LEMMA ReadFlagSound ==
  ASSUME NEW Q, Filled(Q), QueryOK(Q), Q.pc = "flags", NEW l \in Q.todo
  PROVE  QueryOK([Q EXCEPT !.todo = @ \ {l},
                    !.final = IF status[l] \in EndedStatus THEN @ \cup {l} ELSE @])
<1> DEFINE final == IF status[l] \in EndedStatus THEN Q.final \cup {l} ELSE Q.final
           n == [Q EXCEPT !.todo = @ \ {l}, !.final = final]
<1>1. /\ n.pc = "flags" /\ n.rows = Q.rows /\ n.scope = Q.scope
      /\ n.evidence = Q.evidence /\ n.verdicts = Q.verdicts /\ n.states = Q.states
      /\ n.todo = Q.todo \ {l} /\ n.final = final /\ n.epoch = Q.epoch
      /\ n.answer = Q.answer /\ n.logged = Q.logged /\ n.held = Q.held
  BY DEF Filled, Fields
<1>0. Drawn(Q) /\ Told(Q) /\ Complete(Q) /\ Served(Q)
  BY DEF QueryOK
<1>2. \A k \in Q.held : k \in Q.todo \cup Q.final => k \in n.todo \cup n.final
  <2>1. \A k \in Q.held : status[k] = "finalized"
    BY <1>0 DEF Served
  <2> QED
    BY <1>1, <2>1 DEF EndedStatus
<1>a. final \subseteq Q.final \cup {l}
  OBVIOUS
<1> HIDE DEF n, final
<1>3. Drawn(n) /\ Told(n)
  <2>1. Asked(n)
    BY <1>0, <1>1, <1>a DEF Drawn, Asked
  <2> QED
    BY <1>0, <1>1, <2>1 DEF Drawn, Told
<1>4. ASSUME NEW groups, Carries(Q, groups) PROVE Carries(n, groups)
  BY <1>1, <1>4 DEF Carries
<1>5. Complete(n)
  BY <1>0, <1>1, <1>4 DEF Complete
<1>6. Served(n)
  BY <1>0, <1>1, <1>2, <1>4 DEF Served
<1>7. QueryOK(n)
  BY <1>3, <1>5, <1>6 DEF QueryOK
<1> QED
  BY <1>7 DEF n, final

-----------------------------------------------------------------------------
(* The answer.                                                             *)

\* What a query says of a lecture, as it is or closed, is sound.
LEMMA OwnSound ==
  ASSUME TablesOK, StoreSound, NEW q \in Query, QueryOK(query[q]),
         NEW l, StandingsOf(q, l) # {}
  PROVE  /\ Sound(l, StandingsOf(q, l))
         /\ l \in Lecture => Sound(l, Snapshot(q, l))
<1>1. \A t \in query[q].states : Backed(t.student, t.lecture, t.state)
  BY DEF QueryOK, Drawn
<1>2. ASSUME NEW s \in StandingsOf(q, l)
      PROVE  s \in Standing /\ Backed(s.student, l, s.state)
  <2>1. PICK t \in query[q].states :
          t.lecture = l /\ s = [student |-> t.student, state |-> t.state]
    BY DEF StandingsOf
  <2>2. s.student = t.student /\ s.state = t.state
    BY <2>1
  <2>3. Backed(s.student, l, s.state)
    BY <1>1, <2>1, <2>2
  <2>4. PICK row \in Range(logs) : Group(row) = <<s.student, l>>
    BY <2>3 DEF Backed, Groups
  <2>5. row \in Row
    BY DEF TablesOK, Range
  <2>6. s.student \in Student
    BY <2>4, <2>5 DEF Row, Group
  <2>7. s.state \in State
    BY <2>3 DEF Backed
  <2> QED
    BY <2>1, <2>2, <2>3, <2>6, <2>7 DEF Standing
<1>3. Sound(l, StandingsOf(q, l))
  BY <1>2 DEF Sound
<1>4. ASSUME l \in Lecture PROVE Sound(l, Snapshot(q, l))
  <2>1. CASE frozen[l] # NotFrozen
    BY <1>4, <2>1 DEF StoreSound, Snapshot
  <2>2. CASE frozen[l] = NotFrozen
    <3>1. Snapshot(q, l) = {[s EXCEPT !.state = Closed(@)] : s \in StandingsOf(q, l)}
      BY <2>2 DEF Snapshot
    <3>2. ASSUME NEW s \in StandingsOf(q, l)
          PROVE  LET c == [s EXCEPT !.state = Closed(@)]
                 IN  c \in Standing /\ Backed(c.student, l, c.state)
      <4> DEFINE c == [s EXCEPT !.state = Closed(@)]
      <4>1. c = [student |-> s.student, state |-> Closed(s.state)] /\ s.student \in Student
        BY <1>2, <3>2 DEF Standing
      <4>2. c.student = s.student /\ c.state = Closed(s.state)
        BY <4>1
      <4>3. /\ Closed(s.state) \in State
            /\ Closed(s.state) = "confirmed" => s.state = "confirmed"
        BY <1>2, <3>2 DEF Standing, State, Closed
      <4>4. Backed(c.student, l, c.state)
        <5>1. Backed(s.student, l, s.state)
          BY <1>2, <3>2
        <5> HIDE DEF c
        <5> QED
          BY <4>2, <4>3, <5>1 DEF Backed
      <4>5. c \in Standing
        BY <4>1, <4>3 DEF Standing
      <4> QED
        BY <4>4, <4>5
    <3> QED
      BY <3>1, <3>2 DEF Sound
  <2> QED
    BY <2>1, <2>2
<1> QED
  BY <1>3, <1>4

\* Whoever has a state of a lecture is in what the query freezes of it.
LEMMA SnapshotHas ==
  ASSUME NEW q, NEW s \in query[q].states, frozen[s.lecture] = NotFrozen
  PROVE  \E t \in Snapshot(q, s.lecture) : t.student = s.student
<1> DEFINE t == [student |-> s.student, state |-> s.state]
           c == [t EXCEPT !.state = Closed(@)]
<1>1. t \in StandingsOf(q, s.lecture)
  BY DEF StandingsOf
<1>2. c \in Snapshot(q, s.lecture) /\ c.student = s.student
  BY <1>1 DEF Snapshot
<1> QED
  BY <1>2

\* What is sound stays so while logs and appearances only grow.
LEMMA SoundStays ==
  ASSUME Growing
  PROVE  /\ Groups \subseteq Groups'
         /\ \A s, l, state : Backed(s, l, state) => Backed(s, l, state)'
         /\ \A l, standings : Sound(l, standings) => Sound(l, standings)'
         /\ \A e : EvidenceOK(e) => EvidenceOK(e)'
<1>1. Groups \subseteq Groups'
  BY DEF Growing, Groups
<1>2. \A s, l : Supported(s, l) => Supported(s, l)'
  BY DEF Growing, Supported
<1>3. Registered' = Registered
  BY DEF Registered
<1>4. ASSUME NEW s, NEW l, NEW state, Backed(s, l, state) PROVE Backed(s, l, state)'
  BY <1>1, <1>2, <1>3, <1>4 DEF Backed
<1>5. ASSUME NEW l, NEW standings, Sound(l, standings) PROVE Sound(l, standings)'
  BY <1>4, <1>5 DEF Sound
<1>6. ASSUME NEW e, EvidenceOK(e) PROVE EvidenceOK(e)'
  BY <1>1, <1>2, <1>3, <1>6 DEF EvidenceOK
<1> QED
  BY <1>1, <1>4, <1>5, <1>6

\* A query that does nothing, while what is frozen stays and the lectures it
\* counts on stay finalized, keeps all it has.
LEMMA QuerySteady ==
  ASSUME TablesOK, TablesOK', Growing, NEW Q, QueryOK(Q), restarts' = restarts,
         \A l \in Lecture : frozen[l] # NotFrozen => frozen'[l] = frozen[l],
         \A l \in Q.held : status[l] = "finalized" => status'[l] = "finalized"
  PROVE  QueryOK(Q)'
<1>0. Drawn(Q) /\ Told(Q) /\ Complete(Q) /\ Served(Q)
  BY DEF QueryOK
<1>1. /\ Groups \subseteq Groups'
      /\ \A s, l, state : Backed(s, l, state) => Backed(s, l, state)'
      /\ \A l, standings : Sound(l, standings) => Sound(l, standings)'
      /\ \A e : EvidenceOK(e) => EvidenceOK(e)'
  BY SoundStays
<1>2. Drawn(Q)'
  <2>1. Asked(Q)'
    BY <1>0 DEF Drawn, Asked
  <2>2. Q.rows \subseteq DOMAIN logs'
    BY <1>0 DEF Drawn, Growing
  <2> QED
    BY <1>0, <1>1, <2>1, <2>2 DEF Drawn
<1>3. Told(Q)'
  <2>1. ASSUME NEW a \in Q.answer
        PROVE  /\ a.final \in BOOLEAN
               /\ Sound(a.lecture, a.standings)'
               /\ a.final => /\ a.lecture \in Lecture
                             /\ Q.epoch = restarts' => frozen'[a.lecture] = a.standings
    <3>1. /\ a.final \in BOOLEAN
          /\ Sound(a.lecture, a.standings)
          /\ a.final => /\ a.lecture \in Lecture
                        /\ Q.epoch = restarts => frozen[a.lecture] = a.standings
      BY <1>0 DEF Told
    <3>2. a.standings # NotFrozen
      BY <3>1, ReportsAssumption DEF Sound
    <3> QED
      BY <1>1, <3>1, <3>2
  <2> QED
    BY <1>0, <2>1 DEF Told
<1>4. \A groups : Carries(Q, groups) => Carries(Q, groups)'
  <2>1. \A i \in Q.rows : i \in DOMAIN logs /\ logs'[i] = logs[i]
    BY <1>0 DEF Drawn, Growing
  <2> QED
    BY <2>1 DEF Carries
<1>5. Complete(Q)'
  <2>1. Len(logs) \in Nat /\ Len(logs') \in Nat /\ Limit \in Nat /\ Len(logs) <= Len(logs')
    BY ReportsAssumption DEF TablesOK, Growing
  <2>2. Len(logs') <= Limit => Len(logs) <= Limit
    BY <2>1
  <2> QED
    BY <1>0, <1>1, <1>4, <2>2 DEF Complete
<1>6. Served(Q)'
  BY <1>0, <1>4 DEF Served
<1> QED
  BY <1>2, <1>3, <1>5, <1>6 DEF QueryOK

\* All this does not depend on the sessions a query holds, and the fewer
\* lectures it counts on, the better.
LEMMA SameQuery ==
  ASSUME NEW Q, QueryOK(Q), NEW n,
         n.pc = Q.pc, n.scope = Q.scope, n.rows = Q.rows, n.evidence = Q.evidence,
         n.verdicts = Q.verdicts, n.states = Q.states, n.todo = Q.todo,
         n.final = Q.final, n.answer = Q.answer, n.epoch = Q.epoch,
         n.logged = Q.logged, n.held \subseteq Q.held
  PROVE  QueryOK(n)
<1>0. Drawn(Q) /\ Told(Q) /\ Complete(Q) /\ Served(Q)
  BY DEF QueryOK
<1>1. Drawn(n)
  BY <1>0 DEF Drawn, Asked
<1>2. Told(n)
  BY <1>0 DEF Told
<1>3. \A groups : Carries(Q, groups) => Carries(n, groups)
  BY DEF Carries
<1>4. Complete(n)
  BY <1>0, <1>3 DEF Complete
<1>5. Served(n)
  BY <1>0, <1>3 DEF Served
<1> QED
  BY <1>1, <1>2, <1>4, <1>5 DEF QueryOK

\* To know what a query is next, it is enough to know its next record.
LEMMA NextRecord ==
  ASSUME NEW q, NEW n, query'[q] = n, QueryOK(n)'
  PROVE  QueryOK(query[q])'
BY DEF QueryOK, Drawn, Asked, Told, Complete, Served, Carries

\* An answer tells of each lecture once, leaves out nobody it carried, and is
\* the frozen one for what is final; whoever was logged when the query began
\* is in what it freezes.
LEMMA AnswerSound ==
  ASSUME IInv, TablesOK, TablesOK', Growing, StoreSound,
         NEW q \in Query, QueryOK(query[q]), Answer(q)
  PROVE  /\ StoreSound'
         /\ \A l \in Lecture : frozen[l] # NotFrozen => frozen'[l] = frozen[l]
         /\ Len(logs) <= Limit =>
              \A l \in Lecture : frozen'[l] # NotFrozen /\ frozen[l] = NotFrozen =>
                \A g \in query[q].logged : g[2] = l =>
                  \E t \in frozen'[l] : t.student = g[1]
         /\ \A p \in Query \ {q} : query'[p] = query[p]
         /\ QueryOK(query[q])'
         /\ query'[q].pc = "idle" /\ query'[q].epoch = restarts
         /\ query'[q].spans = query[q].spans
<1> DEFINE Q == query[q]
           final == GroupsFinal(q)
           live == {s \in Q.states : s.lecture \notin final}
           answer == {[lecture |-> l, final |-> TRUE, standings |-> Snapshot(q, l)] : l \in final}
                     \cup {[lecture |-> l, final |-> FALSE, standings |-> StandingsOf(q, l)] :
                             l \in {s.lecture : s \in live}}
           n == [Q EXCEPT !.pc = "idle", !.states = {}, !.final = {}, !.answer = answer]
<1>1. /\ Filled(Q) /\ query = [p \in Query |-> query[p]]
      /\ Q.final \subseteq over /\ over \subseteq Lecture
  BY DEF IInv, Shaped, Known, TablesOK
<1>2. /\ Q.pc = "flags" /\ Q.todo = {}
      /\ frozen' = [l \in Lecture |-> IF l \in final THEN Snapshot(q, l) ELSE frozen[l]]
      /\ query' = [query EXCEPT ![q] = n]
      /\ UNCHANGED <<now, logs, lectureVars, appeared, restarts, sessions>>
  BY DEF Answer, Step
<1>3. /\ n.pc = "idle" /\ n.rows = Q.rows /\ n.scope = Q.scope /\ n.spans = Q.spans
      /\ n.evidence = Q.evidence /\ n.verdicts = Q.verdicts /\ n.states = {}
      /\ n.todo = Q.todo /\ n.final = {} /\ n.epoch = Q.epoch
      /\ n.answer = answer /\ n.logged = Q.logged /\ n.held = Q.held
  BY <1>1 DEF Filled, Fields
<1>4. query'[q] = n /\ \A p \in Query \ {q} : query'[p] = query[p]
  BY <1>1, <1>2
<1>5. /\ final \subseteq Lecture
      /\ \A l \in final : l \in Q.final /\ StandingsOf(q, l) # {}
      /\ \A s \in Q.states : [student |-> s.student, state |-> s.state] \in StandingsOf(q, s.lecture)
      /\ \A l : l \in Q.final /\ StandingsOf(q, l) # {} => l \in final
  BY <1>1 DEF GroupsFinal, StandingsOf
<1>6. \A l \in Lecture : frozen[l] # NotFrozen => Snapshot(q, l) = frozen[l]
  BY DEF Snapshot
<1>0. Drawn(Q) /\ Told(Q) /\ Complete(Q) /\ Served(Q)
  BY DEF QueryOK
<1>7. /\ \A l \in final : Sound(l, Snapshot(q, l))
      /\ \A s \in live : Sound(s.lecture, StandingsOf(q, s.lecture))
  <2> HIDE DEF final
  <2> QED
    BY <1>5, OwnSound
<1>8. /\ Groups \subseteq Groups'
      /\ \A l, standings : Sound(l, standings) => Sound(l, standings)'
      /\ \A e : EvidenceOK(e) => EvidenceOK(e)'
  BY SoundStays
<1>e. Q.epoch = restarts
  BY <1>0, <1>2 DEF Drawn, Asked
<1> HIDE DEF final
<1>9. StoreSound'
  BY <1>2, <1>7, <1>8 DEF StoreSound
<1>10. \A l \in Lecture : frozen[l] # NotFrozen => frozen'[l] = frozen[l]
  BY <1>2, <1>6
<1>11. \A a \in answer :
         \/ /\ a.lecture \in final /\ a.final = TRUE
            /\ a.standings = Snapshot(q, a.lecture)
         \/ /\ a.lecture \notin final /\ a.final = FALSE
            /\ a.standings = StandingsOf(q, a.lecture)
            /\ \E s \in live : s.lecture = a.lecture
  OBVIOUS
<1>12. \A a, b \in answer : a.lecture = b.lecture => a = b
  <2>1. \A a \in answer :
          a = [lecture |-> a.lecture, final |-> a.final, standings |-> a.standings]
    OBVIOUS
  <2> HIDE DEF answer
  <2>2. ASSUME NEW a \in answer, NEW b \in answer, a.lecture = b.lecture
        PROVE  a.final = b.final /\ a.standings = b.standings
    BY <1>11, <2>2
  <2> QED
    BY <2>1, <2>2
<1>13. \A l \in final : [lecture |-> l, final |-> TRUE, standings |-> Snapshot(q, l)] \in answer
  OBVIOUS
<1>14. \A s \in live :
         [lecture |-> s.lecture, final |-> FALSE, standings |-> StandingsOf(q, s.lecture)] \in answer
  OBVIOUS
<1> HIDE DEF n, answer, Q
<1>15. PICK N : N = n
  OBVIOUS
<1>16. query'[q] = N
  BY <1>4, <1>15
<1>17. Drawn(N)'
  <2>1. /\ N.scope = Q.scope /\ N.rows = Q.rows /\ N.evidence = Q.evidence
        /\ N.verdicts = Q.verdicts /\ N.states = {} /\ N.final = {}
        /\ N.epoch = restarts /\ N.pc = "idle"
    BY <1>3, <1>15, <1>e
  <2>2. N.scope \in Lecture \cup {All} /\ N.rows \subseteq DOMAIN logs'
    BY <1>0, <1>2, <2>1 DEF Drawn, Asked
  <2>3. \A e \in N.evidence : EvidenceOK(e)'
    BY <1>0, <1>8, <2>1 DEF Drawn
  <2>4. ASSUME NEW v \in N.verdicts PROVE v.group \in Groups'
    <3>1. v.group \in Groups
      BY <1>0, <2>1 DEF Drawn
    <3> QED
      BY <1>8, <3>1
  <2>5. \A s \in N.states : Backed(s.student, s.lecture, s.state)'
    BY <2>1
  <2>6. restarts' = restarts /\ restarts \in Nat
    BY <1>2 DEF TablesOK
  <2>7. Asked(N)'
    BY <2>1, <2>2, <2>6 DEF Asked
  <2> QED
    BY <2>2, <2>3, <2>4, <2>5, <2>7 DEF Drawn
<1>18. Told(N)'
  <2>1. ASSUME NEW a \in answer
        PROVE  /\ a.final \in BOOLEAN
               /\ Sound(a.lecture, a.standings)'
               /\ a.final => a.lecture \in Lecture /\ frozen'[a.lecture] = a.standings
    <3>1. CASE /\ a.lecture \in final /\ a.final = TRUE
               /\ a.standings = Snapshot(q, a.lecture)
      BY <1>2, <1>5, <1>7, <1>8, <3>1
    <3>2. CASE /\ a.lecture \notin final /\ a.final = FALSE
               /\ a.standings = StandingsOf(q, a.lecture)
               /\ \E s \in live : s.lecture = a.lecture
      BY <1>7, <1>8, <3>2
    <3> QED
      BY <1>11, <3>1, <3>2
  <2> QED
    BY <1>3, <1>12, <1>15, <2>1 DEF Told
<1>19. ASSUME NEW groups, Carries(Q, groups)
       PROVE  \E s \in Q.states : <<s.student, s.lecture>> \in groups
  BY <1>2, <1>19 DEF Carries
<1>20. \A groups : Carries(N, groups)'
  BY <1>3, <1>15 DEF Carries
<1>21. Complete(N)'
  <2> SUFFICES ASSUME Len(logs) <= Limit, NEW g \in Q.logged, Q.scope \in {All, g[2]}
               PROVE  \E a \in answer : /\ a.lecture = g[2]
                                        /\ a.final \/ \E s \in a.standings : s.student = g[1]
    BY <1>0, <1>2, <1>3, <1>8, <1>15, <1>20 DEF Complete
  <2>0. Carries(Q, {g})
    BY <1>0 DEF Complete
  <2>1. PICK s \in Q.states : <<s.student, s.lecture>> \in {g}
    BY <1>19, <2>0
  <2>2. s.student = g[1] /\ s.lecture = g[2]
    BY <2>1
  <2>3. CASE s.lecture \in final
    <3> DEFINE a == [lecture |-> s.lecture, final |-> TRUE, standings |-> Snapshot(q, s.lecture)]
    <3>1. a \in answer /\ a.lecture = s.lecture /\ a.final
      BY <1>13, <2>3
    <3> QED
      BY <2>2, <3>1
  <2>4. CASE s.lecture \notin final
    <3> DEFINE a == [lecture |-> s.lecture, final |-> FALSE,
                     standings |-> StandingsOf(q, s.lecture)]
               t == [student |-> s.student, state |-> s.state]
    <3>1. a \in answer /\ a.lecture = s.lecture /\ t \in a.standings /\ t.student = s.student
      BY <1>5, <1>14, <2>4
    <3> QED
      BY <2>2, <3>1
  <2> QED
    BY <2>3, <2>4
<1>22. Served(N)'
  <2>1. ASSUME NEW l \in Q.held
        PROVE  /\ l \in Lecture /\ frozen'[l] # NotFrozen
               /\ Q.scope = l =>
                    [lecture |-> l, final |-> TRUE, standings |-> frozen'[l]] \in answer
    <3>1. l \in Lecture /\ frozen[l] # NotFrozen
      BY <1>0 DEF Served
    <3>2. ASSUME Q.scope = l
          PROVE  [lecture |-> l, final |-> TRUE, standings |-> frozen'[l]] \in answer
      <4>1. Carries(Q, Student \X {l}) /\ l \in Q.final
        BY <1>0, <1>2, <3>2 DEF Served
      <4>2. PICK s \in Q.states : <<s.student, s.lecture>> \in Student \X {l}
        BY <1>19, <4>1
      <4>3. s.lecture = l
        BY <4>2
      <4>4. l \in final
        BY <1>5, <4>1, <4>2, <4>3
      <4> QED
        BY <1>2, <1>13, <3>1, <4>4
    <3> QED
      BY <1>10, <3>1, <3>2
  <2> QED
    BY <1>3, <1>15, <1>20, <2>1 DEF Served
<1>23. QueryOK(N)'
  BY <1>17, <1>18, <1>21, <1>22 DEF QueryOK
<1>24. QueryOK(query[q])'
  BY <1>16, <1>23, NextRecord
<1>25. ASSUME Len(logs) <= Limit, NEW l \in Lecture, frozen'[l] # NotFrozen,
              frozen[l] = NotFrozen, NEW g \in Q.logged, g[2] = l
       PROVE  \E t \in frozen'[l] : t.student = g[1]
  <2>1. l \in final
    BY <1>2, <1>25
  <2>2. Q.scope \in {All, l}
    BY <1>0, <1>5, <2>1 DEF Drawn, Asked
  <2>3. Carries(Q, {g})
    BY <1>0, <1>25, <2>2 DEF Complete
  <2>4. PICK s \in Q.states : <<s.student, s.lecture>> \in {g}
    BY <1>19, <2>3
  <2>5. s.student = g[1] /\ s.lecture = l
    BY <1>25, <2>4
  <2>6. frozen'[l] = Snapshot(q, l)
    BY <1>2, <2>1
  <2> QED
    BY <1>25, <2>4, <2>5, <2>6, SnapshotHas DEF Q
<1>26. query'[q].pc = "idle" /\ query'[q].epoch = restarts /\ query'[q].spans = Q.spans
  BY <1>3, <1>4, <1>e
<1> QED
  BY <1>4, <1>9, <1>10, <1>24, <1>25, <1>26 DEF Q

-----------------------------------------------------------------------------
(* The invariant.                                                          *)

\* What a step other than an answer leaves of a query: its answer, unless the
\* query begins or is lost, and who was logged when it began.
Kept(Q, n) ==
  \/ /\ n.answer = Q.answer /\ n.epoch = Q.epoch
     /\ n.pc # "idle" => Q.pc # "idle" /\ n.logged = Q.logged
  \/ n.answer = {} /\ n.logged = Groups
  \/ n.answer = {} /\ n.pc = "idle"

\* The sessions a query holds are those of before, of now or none.
Held(spans, old) == \A k \in SessionKey : spans[k] \in {old[k], sessions'[k], NoSession}

\* What a step that neither answers nor restarts makes of a query.
Sustained(q, n) ==
  /\ query'[q] = n /\ QueryOK(n) /\ Kept(query[q], n) /\ Held(n.spans, query[q].spans)
  /\ \A l \in n.held : status[l] = "finalized" => status'[l] = "finalized"

\* One step of a query, unless it answers, for the query itself.
LEMMA ServeSound ==
  ASSUME IInv, AnswersInv, NEW q \in Query, Serve(q), ~Answer(q)
  PROVE  /\ frozen' = frozen
         /\ \E n : Sustained(q, n)
<1>0. /\ Filled(query[q]) /\ QueryOK(query[q]) /\ Witnessed(query[q].spans)
      /\ TablesOK /\ StoreSound /\ FrozenIsFinal
      /\ query = [p \in Query |-> query[p]]
  BY DEF IInv, AnswersInv, Shaped
<1>a. status' = status
  BY ServeLeaves
<1>b. ASSUME NEW n, query' = [query EXCEPT ![q] = n], QueryOK(n),
             n.answer = query[q].answer, n.epoch = query[q].epoch,
             query[q].pc # "idle", n.logged = query[q].logged,
             Held(n.spans, query[q].spans)
      PROVE  \E m : Sustained(q, m)
  <2>1. query'[q] = n
    BY <1>0, <1>b
  <2>2. Sustained(q, n)
    BY <1>a, <1>b, <2>1 DEF Sustained, Kept
  <2> QED
    BY <2>2
<1>c. Held(query[q].spans, query[q].spans)
  BY DEF Held
<1>1. CASE \E scope \in Lecture \cup {All} : Begin(q, scope)
  <2>1. PICK scope \in Lecture \cup {All} : Begin(q, scope)
    BY <1>1
  <2> DEFINE next == [IdleQuery EXCEPT !.pc = "rows", !.scope = scope, !.epoch = restarts,
                !.logged = {Group(row) : row \in Range(logs)},
                !.held = {l \in Lecture : /\ frozen[l] # NotFrozen
                                          /\ status[l] = "finalized"}]
  <2>2. query' = [query EXCEPT ![q] = next] /\ frozen' = frozen
    BY <2>1 DEF Begin, Step
  <2>3. QueryOK(next)
    BY <1>0, BeginSound
  <2>4. next.answer = {} /\ next.logged = Groups /\ next.spans = NoSpans
    BY DEF IdleQuery, Groups
  <2> HIDE DEF next
  <2>5. query'[q] = next
    BY <1>0, <2>2
  <2>6. Held(next.spans, query[q].spans)
    BY <2>4 DEF Held, NoSpans
  <2>7. Sustained(q, next)
    BY <1>a, <2>3, <2>4, <2>5, <2>6 DEF Sustained, Kept
  <2> QED
    BY <2>2, <2>7
<1>2. CASE FetchRows(q)
  <2> DEFINE next == [query[q] EXCEPT !.pc = "list1", !.rows = Fetched(query[q].scope)]
  <2>1. /\ query' = [query EXCEPT ![q] = next] /\ frozen' = frozen
        /\ query[q].pc = "rows"
    BY <1>2 DEF FetchRows, Step
  <2>2. QueryOK(next)
    BY <1>0, <2>1, FetchRowsSound
  <2>3. /\ next.answer = query[q].answer /\ next.epoch = query[q].epoch
        /\ next.logged = query[q].logged /\ next.spans = query[q].spans
    BY <1>0 DEF Filled, Fields
  <2> HIDE DEF next
  <2> QED
    BY <1>b, <1>c, <2>1, <2>2, <2>3
<1>3. CASE ListSessions(q)
  <2> DEFINE table == Expire(sessions, now)
             gone == Stale(sessions, now)
             active == IF query[q].rows = {} THEN {}
                       ELSE {k \in SessionKey : table[k].status = "active"}
             spans == [k \in SessionKey |-> IF k \in active THEN table[k] ELSE NoSession]
             next == [query[q] EXCEPT !.live = active, !.spans = spans,
                        !.pc = IF query[q].pc = "list1" THEN "evidence1" ELSE "evidence2"]
  <2>1. /\ query' = [p \in Query |-> IF p = q THEN next ELSE Watching(query[p], table, gone)]
        /\ sessions' = table /\ frozen' = frozen
        /\ query[q].pc \in {"list1", "list2"}
    BY <1>3 DEF ListSessions
  <2>2. Held(spans, query[q].spans)
    BY <2>1 DEF Held
  <2> HIDE DEF table, gone, active, spans
  <2>4. /\ next.pc = IF query[q].pc = "list1" THEN "evidence1" ELSE "evidence2"
        /\ next.rows = query[q].rows /\ next.scope = query[q].scope /\ next.spans = spans
        /\ next.evidence = query[q].evidence
        /\ next.verdicts = query[q].verdicts /\ next.states = query[q].states
        /\ next.todo = query[q].todo /\ next.final = query[q].final
        /\ next.answer = query[q].answer /\ next.epoch = query[q].epoch
        /\ next.logged = query[q].logged /\ next.held = query[q].held
    BY <1>0 DEF Filled, Fields
  <2> HIDE DEF next
  <2>3. QueryOK(next)
    BY <1>0, <2>1, <2>4, ListSound
  <2>5. query'[q] = next
    BY <2>1
  <2>6. Sustained(q, next)
    BY <1>a, <2>1, <2>2, <2>3, <2>4, <2>5 DEF Sustained, Kept
  <2> QED
    BY <2>1, <2>6
<1>4. CASE Correlate(q)
  <2> DEFINE i == Max(query[q].rows)
             rows == query[q].rows \ {i}
             e == Evidence(logs[i], Spans(q))
             spans == IF rows = {} THEN NoSpans ELSE query[q].spans
             live == IF rows = {} THEN {} ELSE query[q].live
             next == [query[q] EXCEPT !.rows = query[q].rows \ {i}, !.evidence = @ \cup {e},
                        !.spans = spans, !.live = live]
  <2>1. /\ query[q].pc \in {"evidence1", "evidence2"} /\ query[q].rows # {}
        /\ query' = [query EXCEPT ![q] =
             [query[q] EXCEPT !.rows = rows, !.evidence = @ \cup {e},
                !.spans = IF rows = {} THEN NoSpans ELSE @,
                !.live = IF rows = {} THEN {} ELSE @]]
        /\ frozen' = frozen
    BY <1>4 DEF Correlate, Step
  <2>2. query[q].rows \subseteq DOMAIN logs
    BY <1>0 DEF QueryOK, Drawn
  <2>3. i \in query[q].rows /\ logs[i] \in Range(logs)
    BY <1>0, <2>1, <2>2, NextRow
  <2> HIDE DEF i
  <2>4. Group(e) = Group(logs[i]) /\ EvidenceOK(e)
    BY <1>0, <2>3, EvidenceSupported
  <2>5. query' = [query EXCEPT ![q] = next]
    BY <2>1
  <2>6. Held(spans, query[q].spans)
    BY DEF Held, NoSpans
  <2> HIDE DEF e, spans, live, rows
  <2>7. /\ next.pc = query[q].pc /\ next.rows = query[q].rows \ {i}
        /\ next.scope = query[q].scope /\ next.spans = spans
        /\ next.evidence = query[q].evidence \cup {e}
        /\ next.verdicts = query[q].verdicts /\ next.states = query[q].states
        /\ next.todo = query[q].todo /\ next.final = query[q].final
        /\ next.answer = query[q].answer /\ next.epoch = query[q].epoch
        /\ next.logged = query[q].logged /\ next.held = query[q].held
    BY <1>0 DEF Filled, Fields
  <2> HIDE DEF next
  <2>8. QueryOK(next)
    BY <1>0, <2>1, <2>3, <2>4, <2>7, CorrelateSound
  <2> QED
    BY <1>b, <2>1, <2>5, <2>6, <2>7, <2>8
<1>5. CASE \E g \in Student \X (Lecture \cup {NoLecture}) : ReadLength(q, g)
  <2>1. PICK g \in Student \X (Lecture \cup {NoLecture}) : ReadLength(q, g)
    BY <1>5
  <2> DEFINE own == {e \in query[q].evidence : Group(e) = g}
             v == [group |-> g, eligibility |-> Eligibility(own, Length(g[2]))]
             next == [query[q] EXCEPT !.verdicts = @ \cup {v}]
  <2>2. /\ query' = [query EXCEPT ![q] = next] /\ frozen' = frozen
        /\ query[q].pc = "evidence1" /\ g \in Undecided(query[q])
    BY <2>1 DEF ReadLength, Step
  <2>3. v.group = g
    OBVIOUS
  <2> HIDE DEF v
  <2>4. QueryOK(next)
    BY <1>0, <2>2, <2>3, ReadLengthSound
  <2>5. /\ next.answer = query[q].answer /\ next.epoch = query[q].epoch
        /\ next.logged = query[q].logged /\ next.spans = query[q].spans
    BY <1>0 DEF Filled, Fields
  <2> HIDE DEF next
  <2> QED
    BY <1>b, <1>c, <2>2, <2>4, <2>5
<1>6. CASE FetchRowsAgain(q)
  <2> DEFINE next == [query[q] EXCEPT !.pc = "list2", !.evidence = {},
                        !.rows = Fetched(query[q].scope)]
  <2>1. /\ query' = [query EXCEPT ![q] = next] /\ frozen' = frozen
        /\ query[q].pc = "evidence1" /\ query[q].rows = {} /\ Undecided(query[q]) = {}
    BY <1>6 DEF FetchRowsAgain, Step
  <2>2. QueryOK(next)
    BY <1>0, <2>1, FetchRowsAgainSound
  <2>3. /\ next.answer = query[q].answer /\ next.epoch = query[q].epoch
        /\ next.logged = query[q].logged /\ next.spans = query[q].spans
    BY <1>0 DEF Filled, Fields
  <2> HIDE DEF next
  <2> QED
    BY <1>b, <1>c, <2>1, <2>2, <2>3
<1>7. CASE Decide(q)
  <2> DEFINE states == {[lecture |-> v.group[2], student |-> v.group[1],
                         state |-> DerivedState(Decision(v.eligibility,
                                     BestConfidence(v.group, query[q].evidence)))] :
                           v \in query[q].verdicts}
             next == [query[q] EXCEPT !.pc = "flags", !.evidence = {}, !.verdicts = {},
                    !.states = states,
                    !.todo = IF query[q].scope # All THEN {query[q].scope}
                             ELSE {s.lecture : s \in states} \ {NoLecture}]
  <2>1. /\ query' = [query EXCEPT ![q] = next] /\ frozen' = frozen
        /\ query[q].pc = "evidence2"
    BY <1>7 DEF Decide, Step
  <2>2. QueryOK(next)
    BY <1>0, <2>1, DecideSound
  <2>3. /\ next.answer = query[q].answer /\ next.epoch = query[q].epoch
        /\ next.logged = query[q].logged /\ next.spans = query[q].spans
    BY <1>0 DEF Filled, Fields
  <2> HIDE DEF next
  <2> QED
    BY <1>b, <1>c, <2>1, <2>2, <2>3
<1>8. CASE \E l \in Lecture : ReadFlag(q, l)
  <2>1. PICK l \in Lecture : ReadFlag(q, l)
    BY <1>8
  <2> DEFINE next == [query[q] EXCEPT !.todo = @ \ {l},
                !.final = IF status[l] \in EndedStatus THEN @ \cup {l} ELSE @]
  <2>2. /\ query' = [query EXCEPT ![q] = next] /\ frozen' = frozen
        /\ query[q].pc = "flags" /\ l \in query[q].todo
    BY <2>1 DEF ReadFlag, Step
  <2>3. QueryOK(next)
    BY <1>0, <2>2, ReadFlagSound
  <2>4. /\ next.answer = query[q].answer /\ next.epoch = query[q].epoch
        /\ next.logged = query[q].logged /\ next.spans = query[q].spans
    BY <1>0 DEF Filled, Fields
  <2> HIDE DEF next
  <2> QED
    BY <1>b, <1>c, <2>2, <2>3, <2>4
<1> QED
  BY <1>1, <1>2, <1>3, <1>4, <1>5, <1>6, <1>7, <1>8 DEF Serve

\* Others' sessions change a query's own only where it holds them.
LEMMA WatchingSound ==
  ASSUME IInv, AnswersInv, NEW q \in Query, NEW gone,
         query'[q] = Watching(query[q], sessions', gone), status' = status
  PROVE  \E n : Sustained(q, n)
<1> DEFINE Q == query[q]
           n == Watching(Q, sessions', gone)
<1>0. Filled(Q) /\ QueryOK(Q)
  BY DEF IInv, AnswersInv, Shaped
<1>1. PICK N : N = n
  OBVIOUS
<1>2. /\ N.pc = Q.pc /\ N.scope = Q.scope /\ N.rows = Q.rows
      /\ N.evidence = Q.evidence /\ N.verdicts = Q.verdicts
      /\ N.states = Q.states /\ N.todo = Q.todo /\ N.final = Q.final
      /\ N.answer = Q.answer /\ N.epoch = Q.epoch /\ N.logged = Q.logged
      /\ N.held = Q.held
  BY <1>0, <1>1, WatchingKeeps
<1>3. \A k \in SessionKey : N.spans[k] \in {Q.spans[k], sessions'[k]}
  BY <1>0, <1>1, WatchingSpans
<1> HIDE DEF Q, n
<1>4. QueryOK(N)
  BY <1>0, <1>2, SameQuery
<1>5. Held(N.spans, Q.spans)
  BY <1>3 DEF Held
<1>6. Kept(Q, N)
  BY <1>2 DEF Kept
<1>7. Sustained(q, N)
  BY <1>1, <1>4, <1>5, <1>6 DEF Sustained, Q, n
<1> QED
  BY <1>7

\* A step that neither answers nor restarts.
LEMMA OtherSteps ==
  ASSUME IInv, AnswersInv, Next, ~(\E q \in Query : Answer(q)), ~Restart
  PROVE  /\ frozen' = frozen /\ restarts' = restarts
         /\ \A q \in Query : \E n : Sustained(q, n)
<1>0. /\ query = [q \in Query |-> query[q]] /\ status = [l \in Lecture |-> status[l]]
      /\ \A q \in Query : Filled(query[q]) /\ QueryOK(query[q])
      /\ TablesOK
  BY DEF IInv, AnswersInv, Shaped
<1>a. ASSUME NEW q \in Query, query'[q] = query[q],
             \A l \in query[q].held : status[l] = "finalized" => status'[l] = "finalized"
      PROVE  \E n : Sustained(q, n)
  <2>1. Sustained(q, query[q])
    BY <1>0, <1>a DEF Sustained, Kept, Held
  <2> QED
    BY <2>1
<1>1. CASE \E q \in Query : Serve(q)
  <2>1. PICK q \in Query : Serve(q)
    BY <1>1
  <2>2. UNCHANGED <<status, restarts>>
    BY <2>1, ServeLeaves
  <2>3. frozen' = frozen /\ \E n : Sustained(q, n)
    BY <2>1, ServeSound
  <2>4. ASSUME NEW p \in Query \ {q} PROVE \E n : Sustained(p, n)
    <3>1. CASE ListSessions(q)
      <4>1. query'[p] = Watching(query[p], sessions', Stale(sessions, now))
        BY <3>1 DEF ListSessions
      <4> QED
        BY <2>2, <4>1, WatchingSound
    <3>2. CASE ~ListSessions(q)
      <4>1. \E next : query' = [query EXCEPT ![q] = next]
        BY <2>1, <3>2 DEF Serve, Step, Begin, FetchRows, Correlate, ReadLength,
          FetchRowsAgain, Decide, ReadFlag, Answer
      <4>2. query'[p] = query[p]
        BY <1>0, <4>1
      <4> QED
        BY <1>a, <2>2, <4>2
    <3> QED
      BY <3>1, <3>2
  <2> QED
    BY <2>2, <2>3, <2>4
<1>2. CASE ~(\E q \in Query : Serve(q))
  <2>1. frozen' = frozen /\ restarts' = restarts
    BY <1>2, OutsideSteps
  <2>2. ASSUME NEW c \in Camera, NEW t \in Track \cup {0},
               NEW kind \in {"appeared", "disappeared", "heartbeat"},
               PresenceEvent(c, t, kind), NEW q \in Query
        PROVE  \E n : Sustained(q, n)
    <3>1. \E gone : query'[q] = Watching(query[q], sessions', gone)
      BY <2>2 DEF PresenceEvent
    <3>2. status' = status
      BY <2>2 DEF PresenceEvent, lectureVars
    <3> QED
      BY <3>1, <3>2, WatchingSound
  <2>3. ASSUME NEW r \in Request, CommitStart(r) \/ CommitClose(r), NEW q \in Query
        PROVE  \E n : Sustained(q, n)
    <3>1. PICK l, s : /\ status' = [status EXCEPT ![l] = s]
                      /\ query' = [p \in Query |-> [query[p] EXCEPT !.held = @ \ {l}]]
      BY <2>3 DEF CommitStart, CommitClose, Reopened
    <3> DEFINE n == [query[q] EXCEPT !.held = @ \ {l}]
    <3>2. query'[q] = n
      BY <3>1
    <3>3. /\ n.pc = query[q].pc /\ n.scope = query[q].scope /\ n.rows = query[q].rows
          /\ n.spans = query[q].spans
          /\ n.evidence = query[q].evidence /\ n.verdicts = query[q].verdicts
          /\ n.states = query[q].states /\ n.todo = query[q].todo
          /\ n.final = query[q].final
          /\ n.answer = query[q].answer /\ n.epoch = query[q].epoch
          /\ n.logged = query[q].logged
          /\ n.held = query[q].held \ {l}
      BY <1>0, ReopenedKeeps
    <3> HIDE DEF n
    <3>4. QueryOK(n)
      BY <1>0, <3>3, SameQuery
    <3>5. \A k \in n.held : status[k] = "finalized" => status'[k] = "finalized"
      <4>1. \A k : k # l /\ status[k] = "finalized" => status'[k] = "finalized" \/ k \notin Lecture
        BY <1>0, <3>1
      <4>2. n.held \subseteq Lecture
        BY <3>4 DEF QueryOK, Served
      <4> QED
        BY <3>3, <4>1, <4>2
    <3>6. Sustained(q, n)
      BY <3>2, <3>3, <3>4, <3>5 DEF Sustained, Kept, Held
    <3> QED
      BY <3>6
  <2>4. ASSUME query' = query, ~(\E r \in Request : CommitStart(r) \/ CommitClose(r)),
               ~(\E c \in Camera, t \in Track \cup {0},
                    kind \in {"appeared", "disappeared", "heartbeat"} :
                    PresenceEvent(c, t, kind)),
               NEW q \in Query
        PROVE  \E n : Sustained(q, n)
    <3>1. \/ status' = status
          \/ \E l : status' = [status EXCEPT ![l] = "finalized"]
      <4>1. ASSUME NEW r \in Request, Lifecycle(r)
            PROVE  \/ status' = status
                   \/ \E l : status' = [status EXCEPT ![l] = "finalized"]
        BY <2>4, <4>1 DEF Lifecycle, BeginOp, BeginStart, BeginClose, BeginFinalize,
          CommitFinalize, AbortOp
      <4>2. CASE Tick
        BY <4>2 DEF Tick, lectureVars
      <4>3. ASSUME NEW l \in Lecture \cup {NoLecture}, NEW s \in Student, Recognise(l, s)
            PROVE  status' = status
        BY <4>3 DEF Recognise, lectureVars
      <4> QED
        BY <1>2, <2>4, <4>1, <4>2, <4>3 DEF Next
    <3>2. query[q].held \subseteq Lecture
      BY <1>0 DEF QueryOK, Served
    <3>3. \A l \in query[q].held : status[l] = "finalized" => status'[l] = "finalized"
      BY <1>0, <3>1, <3>2
    <3> QED
      BY <1>a, <2>4, <3>3
  <2> QED
    BY <1>2, <2>1, <2>2, <2>3, <2>4, OutsideSteps
<1> QED
  BY <1>1, <1>2

\* An idle query has nothing to lose.
LEMMA IdleSound ==
  ASSUME TablesOK
  PROVE  QueryOK(IdleQuery) /\ Witnessed(IdleQuery.spans)
<1> DEFINE n == IdleQuery
<1>1. /\ n.pc = "idle" /\ n.scope = All /\ n.rows = {} /\ n.evidence = {}
      /\ n.verdicts = {} /\ n.states = {} /\ n.answer = {} /\ n.final = {}
      /\ n.epoch = 0 /\ n.logged = {} /\ n.held = {} /\ n.spans = NoSpans
  BY DEF IdleQuery
<1> HIDE DEF n
<1>2. restarts \in Nat /\ now \in Nat
  BY DEF TablesOK
<1>3. Drawn(n) /\ Told(n)
  BY <1>1, <1>2 DEF Drawn, Asked, Told
<1>4. Complete(n) /\ Served(n)
  BY <1>1 DEF Complete, Carries, Served
<1>5. Witnessed(n.spans)
  BY <1>1, <1>2, NothingSeen DEF Witnessed, NoSpans
<1> QED
  BY <1>3, <1>4, <1>5 DEF QueryOK, n

LEMMA AnswersInit == Init => AnswersInv
<1> SUFFICES ASSUME Init PROVE AnswersInv
  OBVIOUS
<1>1. TablesOK
  <2>1. sessions = NoSpans /\ now = 0 /\ restarts = 0 /\ logs = <<>>
    BY DEF Init
  <2>2. \A k \in SessionKey : NoSession \in Session /\ Seen(k, NoSession)
    BY <2>1, NothingSeen
  <2>3. Witnessed(sessions) /\ sessions \in [SessionKey -> Session]
    BY <2>1, <2>2 DEF Witnessed, NoSpans
  <2>4. logs \in Seq(Row)
    BY <2>1
  <2> QED
    BY <2>1, <2>3, <2>4 DEF TablesOK, Init
<1>2. StoreSound
  BY DEF Init, StoreSound
<1>3. \A q \in Query : query[q] = IdleQuery
  BY DEF Init
<1>4. \A q \in Query : query[q].answer = {} /\ query[q].pc = "idle"
  BY <1>3 DEF IdleQuery
<1>5. PastKept /\ ReportsAgree
  <2>1. \A s, l : ~Past(s, l)
    BY <1>4 DEF Past
  <2> QED
    BY <1>4, <2>1 DEF PastKept, ReportsAgree, FinalReports
<1> QED
  BY <1>1, <1>2, <1>3, <1>5, IdleSound DEF AnswersInv

LEMMA ZeroStamp ==
  ASSUME NEW n \in Nat
  PROVE  0 \in -Skew .. (n + Skew)
BY ReportsAssumption

\* The sessions a query holds began with appearances, in the next state too.
LEMMA HeldSeen ==
  ASSUME TablesOK', Growing, NEW spans, NEW old, Witnessed(old), Held(spans, old)
  PROVE  Witnessed(spans)'
<1> SUFFICES ASSUME NEW k \in SessionKey PROVE Seen(k, spans[k])'
  BY DEF Witnessed
<1>1. now' \in Nat /\ \A j \in SessionKey : Seen(j, sessions[j])'
  BY DEF TablesOK, Witnessed
<1>2. \A s : Seen(k, s) => Seen(k, s)'
  BY DEF Seen, Growing
<1>3. Seen(k, NoSession)'
  <2>1. /\ NoSession \in Session /\ NoSession.status = "none"
        /\ NoSession.first = 0 /\ NoSession.last = 0
    BY DEF NoSession, Session
  <2>2. Stamps' = -Skew .. (now' + Skew)
    BY DEF Stamps
  <2>3. 0 \in Stamps'
    BY <1>1, <2>2, ZeroStamp
  <2> QED
    BY <2>1, <2>3 DEF Seen
<1>4. Seen(k, old[k])
  BY DEF Witnessed
<1>5. CASE spans[k] = old[k]
  BY <1>2, <1>4, <1>5
<1>6. CASE spans[k] = sessions'[k]
  BY <1>1, <1>6
<1>7. CASE spans[k] = NoSession
  BY <1>3, <1>7
<1> QED
  BY <1>5, <1>6, <1>7 DEF Held

\* What a step makes of a query's answer and of who was logged when it began.
Follows(q) ==
  \/ /\ query'[q].answer = query[q].answer /\ query'[q].epoch = query[q].epoch
     /\ query'[q].pc # "idle" => query[q].pc # "idle" /\ query'[q].logged = query[q].logged
  \/ query'[q].answer = {} /\ query'[q].logged = Groups
  \/ query'[q].answer = {} /\ query'[q].pc = "idle"
  \/ query'[q].pc = "idle" /\ query'[q].epoch = restarts

\* While the cloud runs, no report becomes one of an earlier run; what was in
\* one is known to the queries, and is in what is frozen.
LEMMA PastStays ==
  ASSUME AnswersInv, TablesOK', Growing, restarts' = restarts,
         \A q \in Query : Follows(q),
         Len(logs) <= Limit =>
           \A l \in Lecture : frozen'[l] # NotFrozen =>
             \/ frozen'[l] = frozen[l] /\ frozen[l] # NotFrozen
             \/ \E q \in Query :
                  /\ query[q].pc # "idle"
                  /\ \A g \in query[q].logged : g[2] = l =>
                       \E t \in frozen'[l] : t.student = g[1]
  PROVE  PastKept'
<1>0. PastKept /\ TablesOK /\ \A q \in Query : Told(query[q])
  BY DEF AnswersInv, QueryOK
<1>1. ASSUME NEW s, NEW l, Past(s, l)' PROVE Past(s, l) /\ <<s, l>> \in Groups
  <2>1. PICK p \in Query : \E a \in query'[p].answer :
          /\ query'[p].epoch < restarts' /\ a.final /\ a.lecture = l /\ s \in Students(a)
    BY <1>1 DEF Past
  <2>2. restarts \in Nat
    BY <1>0 DEF TablesOK
  <2>3. query'[p].answer = query[p].answer /\ query'[p].epoch = query[p].epoch
    BY <2>1, <2>2 DEF Follows
  <2>4. Past(s, l)
    BY <2>1, <2>3 DEF Past
  <2>5. PICK a \in query[p].answer : a.lecture = l /\ s \in Students(a)
    BY <2>1, <2>3
  <2>6. Sound(a.lecture, a.standings)
    BY <1>0, <2>5 DEF Told
  <2>7. <<s, l>> \in Groups
    BY <2>5, <2>6 DEF Sound, Backed, Students
  <2> QED
    BY <2>4, <2>7
<1>2. ASSUME NEW q \in Query, query'[q].pc # "idle", NEW s, NEW l, Past(s, l)'
      PROVE  <<s, l>> \in query'[q].logged
  <2>1. \/ query[q].pc # "idle" /\ query'[q].logged = query[q].logged
        \/ query'[q].logged = Groups
    BY <1>2 DEF Follows
  <2> QED
    BY <1>0, <1>1, <1>2, <2>1 DEF PastKept
<1>3. ASSUME Len(logs') <= Limit, NEW l \in Lecture, frozen'[l] # NotFrozen,
             NEW s, Past(s, l)'
      PROVE  \E t \in frozen'[l] : t.student = s
  <2>1. Len(logs) <= Limit
    <3>1. Len(logs) \in Nat /\ Len(logs') \in Nat /\ Limit \in Nat /\ Len(logs) <= Len(logs')
      BY <1>0, ReportsAssumption DEF TablesOK, Growing
    <3> QED
      BY <1>3, <3>1
  <2>2. Past(s, l)
    BY <1>1, <1>3
  <2>3. CASE frozen'[l] = frozen[l] /\ frozen[l] # NotFrozen
    BY <1>0, <2>1, <2>2, <2>3 DEF PastKept
  <2>4. CASE \E q \in Query :
                  /\ query[q].pc # "idle"
                  /\ \A g \in query[q].logged : g[2] = l =>
                       \E t \in frozen'[l] : t.student = g[1]
    <3>1. PICK q \in Query :
                  /\ query[q].pc # "idle"
                  /\ \A g \in query[q].logged : g[2] = l =>
                       \E t \in frozen'[l] : t.student = g[1]
      BY <2>4
    <3> DEFINE g == <<s, l>>
    <3>2. g \in query[q].logged /\ g[1] = s /\ g[2] = l
      BY <1>0, <2>2, <3>1 DEF PastKept
    <3> HIDE DEF g
    <3> QED
      BY <3>1, <3>2
  <2> QED
    BY <1>3, <2>1, <2>3, <2>4
<1> QED
  BY <1>2, <1>3 DEF PastKept

\* Reports of one run are what is frozen; of those of earlier runs nobody is
\* left out.
LEMMA AgreeStays ==
  ASSUME AnswersInv, TablesOK', Growing, PastKept', \A q \in Query : Told(query[q])',
         \A q \in Query : \/ query'[q].answer = {} \/ query'[q].epoch = restarts'
                          \/ (query'[q].answer = query[q].answer
                             /\ query'[q].epoch = query[q].epoch),
         \A q \in Query : \/ query'[q].answer = {}
                          \/ query'[q].epoch \in Nat /\ query'[q].epoch <= restarts'
  PROVE  ReportsAgree'
<1> SUFFICES ASSUME NEW p \in Query, NEW q \in Query, NEW l \in Lecture,
                    NEW a \in FinalReports(p, l)', NEW b \in FinalReports(q, l)'
             PROVE  /\ query'[p].epoch = query'[q].epoch => a.standings = b.standings
                    /\ query'[p].epoch < query'[q].epoch /\ Len(logs') <= Limit =>
                         Students(a) \subseteq Students(b)
  BY DEF ReportsAgree, Students
<1>0. TablesOK /\ ReportsAgree /\ restarts' \in Nat
  BY DEF AnswersInv, TablesOK
<1>1. /\ a \in query'[p].answer /\ a.final /\ a.lecture = l
      /\ b \in query'[q].answer /\ b.final /\ b.lecture = l
  BY DEF FinalReports
<1>2. /\ query'[p].epoch \in Nat /\ query'[p].epoch <= restarts'
      /\ query'[q].epoch \in Nat /\ query'[q].epoch <= restarts'
  BY <1>1
<1>3. /\ query'[p].epoch = restarts' => frozen'[l] = a.standings
      /\ query'[q].epoch = restarts' =>
           frozen'[l] = b.standings /\ Sound(l, b.standings)'
  BY <1>1 DEF Told
<1>4. CASE query'[p].epoch # restarts' /\ query'[q].epoch # restarts'
  <2>1. /\ query'[p].answer = query[p].answer /\ query'[p].epoch = query[p].epoch
        /\ query'[q].answer = query[q].answer /\ query'[q].epoch = query[q].epoch
    BY <1>1, <1>4
  <2>2. a \in FinalReports(p, l) /\ b \in FinalReports(q, l)
    BY <1>1, <2>1 DEF FinalReports
  <2>3. Len(logs') <= Limit => Len(logs) <= Limit
    <3>1. Len(logs) \in Nat /\ Len(logs') \in Nat /\ Limit \in Nat /\ Len(logs) <= Len(logs')
      BY <1>0, ReportsAssumption DEF TablesOK, Growing
    <3> QED
      BY <3>1
  <2> QED
    BY <1>0, <2>1, <2>2, <2>3 DEF ReportsAgree
<1>5. CASE query'[q].epoch = restarts'
  <2>1. ASSUME query'[p].epoch < restarts', Len(logs') <= Limit, NEW s \in Students(a)
        PROVE  s \in Students(b)
    <3>1. Past(s, l)'
      BY <1>1, <2>1 DEF Past, Students
    <3>2. frozen'[l] = b.standings /\ b.standings # NotFrozen
      BY <1>3, <1>5, ReportsAssumption DEF Sound
    <3>3. \E t \in frozen'[l] : t.student = s
      BY <2>1, <3>1, <3>2 DEF PastKept
    <3> QED
      BY <3>2, <3>3 DEF Students
  <2> QED
    BY <1>2, <1>3, <1>5, <2>1
<1>6. CASE query'[p].epoch = restarts' /\ query'[q].epoch # restarts'
  BY <1>2, <1>6
<1> QED
  BY <1>4, <1>5, <1>6

LEMMA AnswersInductive ==
  ASSUME IInv, AnswersInv, [Next]_vars
  PROVE  AnswersInv'
<1>0. /\ TablesOK /\ StoreSound /\ PastKept /\ ReportsAgree
      /\ \A q \in Query : QueryOK(query[q]) /\ Witnessed(query[q].spans)
      /\ restarts \in Nat
  BY DEF AnswersInv, TablesOK
<1>1. CASE UNCHANGED vars
  <2>1. TablesOK'
    BY <1>0, <1>1 DEF TablesOK, Witnessed, Seen, Stamps, vars, lectureVars
  <2>2. /\ Growing /\ frozen' = frozen /\ query' = query /\ status' = status
        /\ restarts' = restarts /\ logs' = logs
    BY <1>0, <1>1 DEF TablesOK, Growing, Stamps, vars, lectureVars
  <2>3. \A q \in Query : QueryOK(query[q])' /\ Witnessed(query[q].spans)'
    <3> SUFFICES ASSUME NEW q \in Query
                 PROVE  QueryOK(query[q])' /\ Witnessed(query[q].spans)'
      OBVIOUS
    <3>1. PICK Q : Q = query[q]
      OBVIOUS
    <3>2. QueryOK(Q)'
      BY <1>0, <2>1, <2>2, <3>1, QuerySteady
    <3>3. QueryOK(query[q])'
      BY <2>2, <3>1, <3>2, NextRecord
    <3>4. Witnessed(query[q].spans)'
      BY <1>0, <1>1 DEF Witnessed, Seen, Stamps, vars
    <3> QED
      BY <3>3, <3>4
  <2>4. StoreSound'
    BY <1>0, <2>2, SoundStays DEF StoreSound
  <2>5. PastKept'
    BY <1>0, <2>2 DEF PastKept, Past, Students
  <2>6. ReportsAgree'
    <3>1. \A p \in Query : Told(query[p])'
      BY <2>3 DEF QueryOK
    <3>2. \A p \in Query : query'[p].epoch \in Nat /\ query'[p].epoch <= restarts'
      BY <2>3 DEF QueryOK, Drawn, Asked
    <3> QED
      BY <2>1, <2>2, <2>5, <3>1, <3>2, AgreeStays
  <2> QED
    BY <2>1, <2>3, <2>4, <2>5, <2>6 DEF AnswersInv
<1>2. CASE Next
  <2>0. TablesOK' /\ Growing
    BY <1>0, <1>2, TablesKept
  <2>1. CASE \E q \in Query : Answer(q)
    <3>1. PICK q \in Query : Answer(q)
      BY <2>1
    <3>2. /\ StoreSound'
          /\ \A l \in Lecture : frozen[l] # NotFrozen => frozen'[l] = frozen[l]
          /\ Len(logs) <= Limit =>
               \A l \in Lecture : frozen'[l] # NotFrozen /\ frozen[l] = NotFrozen =>
                 \A g \in query[q].logged : g[2] = l =>
                   \E t \in frozen'[l] : t.student = g[1]
          /\ \A p \in Query \ {q} : query'[p] = query[p]
          /\ QueryOK(query[q])'
          /\ query'[q].pc = "idle" /\ query'[q].epoch = restarts
          /\ query'[q].spans = query[q].spans
      BY <1>0, <2>0, <3>1, AnswerSound
    <3>a. restarts' = restarts /\ status' = status /\ query[q].pc = "flags"
      BY <3>1 DEF Answer, Step, lectureVars
    <3>3. ASSUME NEW p \in Query PROVE QueryOK(query[p])' /\ Witnessed(query[p].spans)'
      <4>1. PICK Q : Q = query[p]
        OBVIOUS
      <4>2. QueryOK(Q) /\ Witnessed(Q.spans)
        BY <1>0, <4>1
      <4>3. QueryOK(Q)'
        BY <1>0, <2>0, <3>2, <3>a, <4>2, QuerySteady
      <4>4. QueryOK(query[p])'
        <5>1. CASE p = q
          BY <3>2, <5>1
        <5>2. CASE p # q
          BY <3>2, <4>1, <4>3, <5>2, NextRecord
        <5> QED
          BY <5>1, <5>2
      <4>5. PICK spans : spans = query[p].spans
        OBVIOUS
      <4>6. Held(spans, spans) /\ query'[p].spans = spans /\ Witnessed(spans)
        BY <1>0, <3>2, <4>5 DEF Held
      <4>7. Witnessed(spans)'
        BY <2>0, <4>6, HeldSeen
      <4>8. Witnessed(query[p].spans)'
        BY <4>6, <4>7 DEF Witnessed
      <4> QED
        BY <4>4, <4>8
    <3>4. \A p \in Query : Follows(p)
      BY <3>2 DEF Follows
    <3>5. PastKept'
      BY <2>0, <3>2, <3>4, <3>a, PastStays
    <3>6. ReportsAgree'
      <4>1. \A p \in Query : Told(query[p])'
        BY <3>3 DEF QueryOK
      <4>2. \A p \in Query : query'[p].epoch \in Nat /\ query'[p].epoch <= restarts'
        BY <3>3 DEF QueryOK, Drawn, Asked
      <4>3. \A p \in Query :
              \/ query'[p].epoch = restarts'
              \/ query'[p].answer = query[p].answer /\ query'[p].epoch = query[p].epoch
        BY <3>2, <3>a
      <4> QED
        BY <2>0, <3>5, <4>1, <4>2, <4>3, AgreeStays
    <3> QED
      BY <2>0, <3>2, <3>3, <3>5, <3>6 DEF AnswersInv
  <2>2. CASE Restart
    <3>1. /\ frozen' = [l \in Lecture |-> NotFrozen]
          /\ restarts' = restarts + 1 /\ logs' = logs
      BY <2>2 DEF Restart
    <3>2. StoreSound'
      BY <3>1 DEF StoreSound
    <3>3. ASSUME NEW q \in Query PROVE QueryOK(query[q])' /\ Witnessed(query[q].spans)'
      <4> DEFINE Q == query[q]
      <4>1. PICK n : n = query'[q]
        OBVIOUS
      <4>2. /\ n.pc = "idle" /\ n.scope = All /\ n.rows = {} /\ n.spans = NoSpans
            /\ n.evidence = {} /\ n.verdicts = {} /\ n.states = {}
            /\ n.final = {} /\ n.logged = {} /\ n.held = {}
            /\ \/ n.answer = {} /\ n.epoch = 0
               \/ n.answer = Q.answer /\ n.epoch = Q.epoch
        BY <2>2, <4>1, RestartedQuery
      <4>3. /\ Told(Q) /\ Q.epoch \in Nat /\ Q.epoch <= restarts
        BY <1>0 DEF QueryOK, Drawn, Asked
      <4>4. /\ n.epoch \in Nat /\ n.epoch <= restarts' /\ n.epoch # restarts'
        BY <1>0, <3>1, <4>2, <4>3
      <4> HIDE DEF Q
      <4>5. Drawn(n)'
        BY <4>2, <4>4 DEF Drawn, Asked
      <4>6. Told(n)'
        <5>1. n.answer \subseteq Q.answer
          BY <4>2
        <5>2. \A l, standings : Sound(l, standings) => Sound(l, standings)'
          BY <2>0, SoundStays
        <5> QED
          BY <4>3, <4>4, <5>1, <5>2 DEF Told
      <4>7. Complete(n)' /\ Served(n)'
        BY <4>2 DEF Complete, Carries, Served
      <4>8. QueryOK(n)'
        BY <4>5, <4>6, <4>7 DEF QueryOK
      <4>9. QueryOK(query[q])'
        BY <4>1, <4>8, NextRecord
      <4>10. Witnessed(NoSpans)'
        <5>1. PICK spans : spans = NoSpans
          OBVIOUS
        <5>2. Held(spans, sessions) /\ Witnessed(sessions)
          BY <1>0, <5>1 DEF Held, NoSpans, TablesOK
        <5>3. Witnessed(spans)'
          BY <2>0, <5>2, HeldSeen
        <5> QED
          BY <5>1, <5>3 DEF Witnessed, NoSpans
      <4>11. Witnessed(query[q].spans)'
        BY <4>1, <4>2, <4>10 DEF Witnessed, NoSpans
      <4> QED
        BY <4>9, <4>11
    <3>4. \A q \in Query :
            /\ query'[q].pc = "idle"
            /\ \/ query'[q].answer = {}
               \/ query'[q].answer = query[q].answer /\ query'[q].epoch = query[q].epoch
      BY <2>2, RestartedQuery
    <3>5. PastKept'
      BY <3>1, <3>4 DEF PastKept
    <3>6. ReportsAgree'
      <4>1. \A p \in Query : Told(query[p])'
        BY <3>3 DEF QueryOK
      <4>2. \A p \in Query : query'[p].epoch \in Nat /\ query'[p].epoch <= restarts'
        BY <3>3 DEF QueryOK, Drawn, Asked
      <4> QED
        BY <2>0, <3>4, <3>5, <4>1, <4>2, AgreeStays
    <3> QED
      BY <2>0, <3>2, <3>3, <3>5, <3>6 DEF AnswersInv
  <2>3. CASE ~(\E q \in Query : Answer(q)) /\ ~Restart
    <3>1. /\ frozen' = frozen /\ restarts' = restarts
          /\ \A q \in Query : \E n : Sustained(q, n)
      BY <1>2, <2>3, OtherSteps
    <3>2. StoreSound'
      BY <1>0, <2>0, <3>1, SoundStays DEF StoreSound
    <3>3. ASSUME NEW q \in Query
          PROVE  /\ QueryOK(query[q])' /\ Witnessed(query[q].spans)'
                 /\ Follows(q)
                 /\ \/ query'[q].answer = {}
                    \/ query'[q].answer = query[q].answer /\ query'[q].epoch = query[q].epoch
      <4>1. PICK n : Sustained(q, n)
        BY <3>1
      <4>2. /\ query'[q] = n /\ QueryOK(n) /\ Kept(query[q], n)
            /\ Held(n.spans, query[q].spans)
            /\ \A l \in n.held : status[l] = "finalized" => status'[l] = "finalized"
        BY <4>1 DEF Sustained
      <4>3. QueryOK(n)'
        BY <1>0, <2>0, <3>1, <4>2, QuerySteady
      <4>4. QueryOK(query[q])'
        BY <4>2, <4>3, NextRecord
      <4>5. PICK spans, old : spans = n.spans /\ old = query[q].spans
        OBVIOUS
      <4>6. Held(spans, old) /\ Witnessed(old)
        BY <1>0, <4>2, <4>5
      <4>7. Witnessed(spans)'
        BY <2>0, <4>6, HeldSeen
      <4>8. Witnessed(query[q].spans)'
        BY <4>2, <4>5, <4>7 DEF Witnessed
      <4> QED
        BY <4>2, <4>4, <4>8 DEF Kept, Follows
    <3>5. PastKept'
      BY <2>0, <3>1, <3>3, PastStays
    <3>6. ReportsAgree'
      <4>1. \A p \in Query : Told(query[p])'
        BY <3>3 DEF QueryOK
      <4>2. \A p \in Query : query'[p].epoch \in Nat /\ query'[p].epoch <= restarts'
        BY <3>3 DEF QueryOK, Drawn, Asked
      <4> QED
        BY <2>0, <3>3, <3>5, <4>1, <4>2, AgreeStays
    <3> QED
      BY <2>0, <3>2, <3>3, <3>5, <3>6 DEF AnswersInv
  <2> QED
    BY <2>1, <2>2, <2>3
<1> QED
  BY <1>1, <1>2

THEOREM AnswersInvariance == Spec => [](IInv /\ AnswersInv)
<1>1. Init => IInv /\ AnswersInv
  BY InitInv, AnswersInit
<1>2. IInv /\ AnswersInv /\ [Next]_vars => (IInv /\ AnswersInv)'
  BY Inductive, AnswersInductive
<1> QED
  BY <1>1, <1>2, PTL DEF Spec

\* A finalized lecture has one report while the cloud runs: whoever asks is
\* told what is frozen, by every query and from then on
\* (finalization_service.py:50-56), unless the lecture was reopened since; and
\* a report from after a restart leaves out nobody who was in one from before,
\* as long as the fetch limit is not reached.  For every number of queries,
\* lifecycle requests and restarts.
THEOREM OneReport == Spec => []OneFinalReport
<1>1. ASSUME IInv, AnswersInv PROVE OneFinalReport
  <2>1. /\ TablesOK /\ StoreSound /\ ReportsAgree
        /\ \A q \in Query : Told(query[q]) /\ Served(query[q])
    BY <1>1 DEF AnswersInv, QueryOK
  <2>2. \A l, standings : Sound(l, standings) =>
          /\ l \in Lecture \cup {NoLecture}
          /\ standings \in (SUBSET Standing) \ {{}}
    <3> SUFFICES ASSUME NEW l, NEW standings, Sound(l, standings)
                 PROVE  l \in Lecture \cup {NoLecture} /\ standings \in (SUBSET Standing) \ {{}}
      OBVIOUS
    <3>1. PICK s \in standings : <<s.student, l>> \in Groups
      BY DEF Sound, Backed
    <3>2. PICK row \in Range(logs) : Group(row) = <<s.student, l>>
      BY <3>1 DEF Groups
    <3>3. row \in Row /\ row.lecture = l
      BY <2>1, <3>2 DEF TablesOK, Range, Group
    <3> QED
      BY <3>3 DEF Sound, Row
  <2>3. TypeOK
    BY <2>1, <2>2 DEF TypeOK, TablesOK, StoreSound, Told
  <2>4. AnswersFrozen
    BY <2>1 DEF AnswersFrozen, Told
  <2>5. FrozenIsServed
    BY <2>1 DEF FrozenIsServed, Answered, Served
  <2> QED
    BY <2>1, <2>3, <2>4, <2>5 DEF OneFinalReport
<1> QED
  BY <1>1, AnswersInvariance, PTL

\* Nobody who was recognised before a query began is missing from its answer,
\* as long as the fetch limit is not reached (evidence_queries.py:25-29): for
\* every number of rows, lectures and students.
THEOREM NobodyIsLost == Spec => []LiveComplete
<1>1. ASSUME AnswersInv PROVE LiveComplete
  BY <1>1 DEF AnswersInv, QueryOK, Complete, LiveComplete, Answered
<1> QED
  BY <1>1, AnswersInvariance, PTL

\* Nobody is reported confirmed without an appearance on a camera of the
\* lecture's classroom (decision_service.py:31-46), if every classroom has
\* registered cameras or the fallback to other cameras is off: for every
\* number of lectures, cameras, tracks and queries.
THEOREM ConfirmedNeedsPresence == Spec /\ Registered => []ConfirmedSupported
<1>1. ASSUME AnswersInv, Registered PROVE ConfirmedSupported
  BY <1>1 DEF AnswersInv, QueryOK, Told, Sound, Backed, Supported, ConfirmedSupported
<1>2. Registered => Registered'
  BY DEF Registered
<1> QED
  BY <1>1, <1>2, AnswersInvariance, PTL DEF Spec

\* A student is reported confirmed in at most as many lectures as the rate is
\* taken of (report_service.py:98-114), for every number of lectures.
THEOREM RateIsRate == Spec => []StudentRateIsRate
<1>1. ASSUME AnswersInv, NEW q \in Query, NEW who \in Student
      PROVE  LET report == StudentReport(query[q].answer, who)
             IN  report.confirmed <= report.lectures
  <2> DEFINE answer == query[q].answer
             own == {a \in answer : \E s \in a.standings : s.student = who}
             confirmed == {a \in own : [student |-> who, state |-> "confirmed"] \in a.standings}
             lectures == {a.lecture : a \in own} \ {NoLecture}
             lectureOf == [a \in confirmed |-> a.lecture]
  <2>1. /\ \A a \in answer : Sound(a.lecture, a.standings)
        /\ \A a, b \in answer : a.lecture = b.lecture => a = b
        /\ logs \in Seq(Row)
    BY <1>1 DEF AnswersInv, QueryOK, Told, TablesOK
  <2>2. \A a \in answer : a.lecture \in Lecture \cup {NoLecture}
    <3> SUFFICES ASSUME NEW a \in answer PROVE a.lecture \in Lecture \cup {NoLecture}
      OBVIOUS
    <3>1. PICK s \in a.standings : <<s.student, a.lecture>> \in Groups
      BY <2>1 DEF Sound, Backed
    <3>2. PICK row \in Range(logs) : Group(row) = <<s.student, a.lecture>>
      BY <3>1 DEF Groups
    <3>3. row \in Row /\ row.lecture = a.lecture
      BY <2>1, <3>2 DEF Range, Group
    <3> QED
      BY <3>3 DEF Row
  <2>3. \A a \in confirmed : a.lecture \in lectures
    <3> SUFFICES ASSUME NEW a \in confirmed PROVE a.lecture # NoLecture
      OBVIOUS
    <3> DEFINE s == [student |-> who, state |-> "confirmed"]
    <3>1. s \in a.standings /\ s.state = "confirmed"
      OBVIOUS
    <3>2. Backed(s.student, a.lecture, s.state)
      BY <2>1, <3>1 DEF Sound
    <3> QED
      BY <3>1, <3>2 DEF Backed
  <2>4. IsFiniteSet(lectures) /\ Cardinality(lectures) \in Nat
    <3>1. lectures \in SUBSET Lecture
      BY <2>2
    <3> QED
      BY <3>1, FS_Subset, FS_CardinalityType, ReportsAssumption
  <2>5. lectureOf \in Injection(confirmed, lectures)
    <3>1. \A a, b \in confirmed : a.lecture = b.lecture => a = b
      BY <2>1
    <3> HIDE DEF confirmed, lectures
    <3> QED
      BY <2>3, <3>1, Fun_IsInj
  <2>6. IsFiniteSet(confirmed) /\ Cardinality(confirmed) <= Cardinality(lectures)
        /\ Cardinality(confirmed) \in Nat
    <3> HIDE DEF confirmed, lectures, lectureOf
    <3> QED
      BY <2>4, <2>5, FS_Injection, FS_CardinalityType
  <2>7. StudentReport(answer, who) =
          [lectures |-> IF own # {} THEN Max({1, Cardinality(lectures)}) ELSE 0,
           confirmed |-> Cardinality(confirmed)]
    BY DEF StudentReport
  <2>8. CASE own = {}
    <3>1. confirmed = {}
      BY <2>8
    <3>2. Cardinality(confirmed) = 0
      BY <3>1, FS_EmptySet
    <3> QED
      BY <2>7, <2>8, <3>2
  <2>9. CASE own # {}
    <3> HIDE DEF own, confirmed, lectures, answer
    <3>1. Max({1, Cardinality(lectures)}) = IF 1 >= Cardinality(lectures) THEN 1
                                            ELSE Cardinality(lectures)
      BY <2>4, MaxOfTwo
    <3> QED
      BY <2>4, <2>6, <2>7, <2>9, <3>1 DEF answer
  <2> QED
    BY <2>8, <2>9
<1>2. AnswersInv => StudentRateIsRate
  BY <1>1 DEF StudentRateIsRate
<1> QED
  BY <1>2, AnswersInvariance, PTL
=============================================================================
