--------------------------- MODULE DashboardPage ---------------------------
(***************************************************************************)
(* The attendance page of the dashboard (app.js): a browser page that      *)
(* polls the cloud every five seconds without waiting for the poll before  *)
(* it, and asks for a lecture to be created, started or finalized.  The    *)
(* code runs to its next await without interruption; between two awaits    *)
(* other polls, clicks and other users of the server come in.              *)
(*                                                                         *)
(* A task is one running call of an async function: a poll (refresh), the  *)
(* one lifecycle action lifecycleActionLoading allows, and the form that   *)
(* creates a lecture.  Tables of the page are reduced to the lecture whose *)
(* rows they show.                                                         *)
(***************************************************************************)
EXTENDS Integers, FiniteSets, SequencesExt

CONSTANTS Lecture,     \* a set of numbers: the later scheduled, the larger
          Loaded,      \* what the page may find: statuses and classrooms of the lectures
          Poll,        \* the polls that may run at once
          MaxCalls,    \* bound on the calls that run at once
          MaxEvents,   \* bound on clicks, failures and changes made elsewhere
          NoLecture

VARIABLES
  status,    \* [Lecture -> Status]: the lectures in the database
  starts,    \* the open lectures, newest actual_start first
  room,      \* [Lecture -> classroom]
  task,      \* [Task -> a running call, pc "idle" when there is none]
  page,      \* the globals of the page and what its tables show
  modal,     \* pendingFinalize: the lecture of the open dialog and its status then
  events     \* clicks, failures and changes made elsewhere so far

serverVars == <<status, starts, room>>
pageVars == <<serverVars, task, page, modal, events>>

Status == {"none", "scheduled", "open", "closed", "finalized"}

ASSUME PageAssumption ==
  /\ Lecture \subseteq Nat /\ IsFiniteSet(Lecture) /\ NoLecture \notin Lecture
  /\ Poll \cap {"action", "form"} = {}
  /\ \A db \in Loaded : db.status \in [Lecture -> Status]

Task == Poll \cup {"action", "form"}
Entry == [lecture : Lecture, status : Status]
Query == {"open", "scheduled", "closed"}

Idle == [pc |-> "idle", op |-> "none", lecture |-> NoLecture, todo |-> {}, got |-> [q \in Query |-> <<>>],
         entries |-> <<>>, moved |-> {}, detail |-> NoLecture, evidence |-> FALSE]

NoModal == [lecture |-> NoLecture, status |-> "none"]

PageInit ==
  /\ \E db \in Loaded : status = db.status /\ room = db.room
  /\ starts \in SetToSeqs({l \in Lecture : status[l] = "open"})
  /\ task = [t \in Task |-> Idle]
  /\ page = [cards |-> <<>>, selected |-> NoLecture, visible |-> FALSE, presence |-> FALSE,
             records |-> NoLecture, evidence |-> NoLecture, shown |-> NoLecture]
  /\ modal = NoModal
  /\ events = 0

-----------------------------------------------------------------------------
(* What the page does between two awaits, as functions of page.            *)

clearDetailPanels(p) ==
  [p EXCEPT !.records = NoLecture, !.evidence = NoLecture, !.shown = NoLecture]

onLectureChanged(p, l) ==
  IF p.selected \notin {NoLecture, l} THEN clearDetailPanels(p) ELSE p

clearSelectedLecture(p) ==
  [clearDetailPanels(p) EXCEPT !.selected = NoLecture, !.visible = FALSE]

(* Mutant: the evidence table shows what was fetched, whatever is selected. *)
renderEvidencePanelUnfiltered(p) == [p EXCEPT !.shown = p.evidence]

(* filterEvidenceForLecture keeps every row when nothing is selected.      *)
renderEvidencePanel(p) ==
  [p EXCEPT !.shown = IF p.selected \in {NoLecture, p.evidence} THEN p.evidence ELSE NoLecture]

selectLecture(p, e) ==
  LET open == e.status = "open"
      q == [onLectureChanged(p, e.lecture) EXCEPT !.selected = e.lecture, !.visible = open]
  IN  IF ~open THEN clearDetailPanels(q)
      ELSE IF q.presence THEN renderEvidencePanel(q)
      ELSE [q EXCEPT !.shown = NoLecture]

resetPresenceState(p) ==
  [p EXCEPT !.presence = FALSE, !.evidence = NoLecture, !.shown = NoLecture]

Preferred(es) == LET open == {i \in DOMAIN es : es[i].status = "open"}
                 IN es[IF open = {} THEN 1 ELSE Min(open)]

CardOf(es, l) == {e \in ToSet(es) : e.lecture = l}

renderOverview(p, es) ==
  LET q == [p EXCEPT !.cards = es]
  IN CASE es = <<>> /\ p.selected = NoLecture -> [q EXCEPT !.visible = FALSE]
       [] es # <<>> /\ p.selected = NoLecture -> selectLecture(q, Preferred(es))
       [] OTHER -> IF CardOf(es, p.selected) = {} THEN clearSelectedLecture(q)
                     ELSE selectLecture(q, CHOOSE e \in CardOf(es, p.selected) : TRUE)

shouldPollLectureDetail(p) ==
  \E e \in CardOf(p.cards, p.selected) : e.status = "open"

(* The end of refreshDetail: the answers for lecture l are shown, whatever *)
(* is selected by now.                                                     *)
ShowDetail(p, l, withEvidence) ==
  renderEvidencePanel([p EXCEPT !.records = l,
                                !.evidence = IF withEvidence THEN l ELSE NoLecture])

(* The first entry of each classroom: pushEntry and appendListed of the     *)
(* page, and seen_classroom_ids of the endpoint.                           *)
OnePerClassroom(es) ==
  LET kept[n \in 0 .. Len(es)] ==
        IF n = 0 THEN <<>>
        ELSE IF \E e \in ToSet(kept[n - 1]) : room[e.lecture] = room[es[n].lecture] THEN kept[n - 1]
        ELSE Append(kept[n - 1], es[n])
  IN  kept[Len(es)]

Entries(got) == OnePerClassroom(got["open"] \o got["scheduled"] \o got["closed"])

-----------------------------------------------------------------------------
(* The answers of the server.                                              *)

(* The newest open lecture of each classroom, the newest first.            *)
ActiveByClassroom ==
  OnePerClassroom([i \in DOMAIN starts |-> [lecture |-> starts[i], status |-> "open"]])

ListLectures(st) ==
  LET ls == CHOOSE s \in SetToSeqs({l \in Lecture : status[l] = st}) :
              \A i, j \in DOMAIN s : i < j => s[i] > s[j]
  IN  [i \in DOMAIN ls |-> [lecture |-> ls[i], status |-> st]]

Answer(q) == IF q = "open" THEN ActiveByClassroom ELSE ListLectures(q)

Running == {t \in Task : task[t].pc # "idle"}

(* One more of the events MaxEvents bounds.                                *)
Disturb == events < MaxEvents /\ events' = events + 1

Fetching(t) == task[t].pc \in {"overview", "presence", "ready"}

Without(ls, l) ==
  IF l \in ToSet(ls) THEN RemoveAt(ls, CHOOSE i \in DOMAIN ls : ls[i] = l) ELSE ls

(* A lecture changes status while overviews may be under way; moved is a   *)
(* history variable: the lectures that changed since the fetch began.      *)
SetStatus(l, st, tasks) ==
  /\ status' = [status EXCEPT ![l] = st]
  /\ starts' = IF st = "open" THEN <<l>> \o starts ELSE Without(starts, l)
  /\ task' = [t \in Task |-> IF Fetching(t) THEN [tasks[t] EXCEPT !.moved = @ \cup {l}]
                                            ELSE tasks[t]]
  /\ UNCHANGED room

-----------------------------------------------------------------------------
(* The async functions, await by await.                                    *)

fetchOverviewData(t) == [task[t] EXCEPT !.pc = "overview", !.todo = Query]

(* setInterval calls refresh whether or not the last call has ended.       *)
refresh(p) ==
  /\ task[p].pc = "idle" /\ Cardinality(Running) < MaxCalls
  /\ task' = [task EXCEPT ![p] = fetchOverviewData(p)]
  /\ UNCHANGED <<serverVars, page, modal>>

(* One of the three parallel fetches reads the database.                   *)
Fetch(t) ==
  /\ task[t].pc = "overview"
  /\ \E q \in task[t].todo :
       \E got \in {[task[t].got EXCEPT ![q] = Answer(q)]} :
         task' = [task EXCEPT ![t] =
           IF task[t].todo # {q} THEN [task[t] EXCEPT !.got = got, !.todo = task[t].todo \ {q}]
           ELSE [task[t] EXCEPT !.pc = IF t \in Poll THEN "presence" ELSE "ready",
                                !.got = Idle.got, !.todo = {}, !.entries = Entries(got)]]
  /\ UNCHANGED <<serverVars, page, modal>>

refreshSurveillanceGlobal(p) ==
  /\ task[p].pc = "presence"
  /\ task' = [task EXCEPT ![p].pc = "ready"]
  /\ \/ page' = [page EXCEPT !.presence = TRUE]
     \/ page' = resetPresenceState(page)
  /\ UNCHANGED <<serverVars, modal>>

(* What follows refreshDetail: handleStartLecture selects its lecture as   *)
(* the answer of the start request described it.                           *)
Finish(t, p) ==
  IF task[t].op = "start" THEN selectLecture(p, [lecture |-> task[t].lecture, status |-> "open"])
                          ELSE p

(* renderOverview and refreshDetail up to its await.                       *)
Render(t) ==
  /\ task[t].pc = "ready"
  /\ \E p \in {renderOverview(page, task[t].entries)} :
       IF shouldPollLectureDetail(p)
         THEN /\ page' = p
              /\ task' = [task EXCEPT ![t] = [Idle EXCEPT !.pc = "detail", !.op = task[t].op,
                            !.lecture = task[t].lecture, !.detail = p.selected,
                            !.evidence = p.presence]]
         ELSE /\ page' = Finish(t, clearDetailPanels(p))
              /\ task' = [task EXCEPT ![t] = Idle]
  /\ UNCHANGED <<serverVars, modal>>

refreshDetail(t) ==
  /\ task[t].pc = "detail"
  /\ page' = Finish(t, ShowDetail(page, task[t].detail, task[t].evidence))
  /\ task' = [task EXCEPT ![t] = Idle]
  /\ UNCHANGED <<serverVars, modal>>

(* A fetch is refused, or its answer is lost: the call ends in its catch.  *)
Fail(t) ==
  /\ task[t].pc \notin {"idle", "ready"}
  /\ task' = [task EXCEPT ![t] = Idle]
  /\ UNCHANGED <<serverVars, page, modal>>

-----------------------------------------------------------------------------
(* The lifecycle requests.                                                 *)

(* The server carries a request out if the lecture is in status from, and  *)
(* refuses it otherwise; then is what the task does next.                  *)
Lifecycle(t, pc, from, to, then) ==
  /\ task[t].pc = pc
  /\ IF status[task[t].lecture] = from
       THEN SetStatus(task[t].lecture, to, [task EXCEPT ![t] = then])
       ELSE task' = [task EXCEPT ![t] = Idle] /\ UNCHANGED serverVars
  /\ UNCHANGED <<page, modal>>

createLecture == Lifecycle("form", "create", "none", "scheduled", fetchOverviewData("form"))
startLecture == Lifecycle("action", "start", "scheduled", "open", fetchOverviewData("action"))
closeLecture == Lifecycle("action", "close", "open", "closed", [task["action"] EXCEPT !.pc = "finalize"])
finalizeLecture ==
  Lifecycle("action", "finalize", "closed", "finalized", [task["action"] EXCEPT !.pc = "finalized"])

(* confirmFinalizeLecture after its last request.                          *)
Finalized ==
  /\ task["action"].pc = "finalized"
  /\ modal' = NoModal
  /\ page' = IF page.selected = task["action"].lecture THEN clearSelectedLecture(page) ELSE page
  /\ task' = [task EXCEPT !["action"] = fetchOverviewData("action")]
  /\ UNCHANGED serverVars

-----------------------------------------------------------------------------
(* The user of the page; an open dialog covers the cards.                  *)

Cards(l) == {e \in CardOf(page.cards, l) : modal = NoModal}

ClickCard(l) ==
  /\ \E e \in Cards(l) : page' = selectLecture(page, e)
  /\ UNCHANGED <<serverVars, task, modal>>

Begin(t, op, pc, l) ==
  /\ task[t].pc = "idle" /\ Cardinality(Running) < MaxCalls
  /\ task' = [task EXCEPT ![t] = [Idle EXCEPT !.pc = pc, !.op = op, !.lecture = l]]

handleStartLecture(l) ==
  /\ \E e \in Cards(l) : e.status = "scheduled"
  /\ Begin("action", "start", "start", l)
  /\ UNCHANGED <<serverVars, page, modal>>

openFinalizeModal(l) ==
  /\ \E e \in Cards(l) : e.status \in {"open", "closed"} /\ modal' = e
  /\ UNCHANGED <<serverVars, task, page>>

closeFinalizeModal ==
  /\ modal # NoModal
  /\ modal' = NoModal
  /\ UNCHANGED <<serverVars, task, page>>

confirmFinalizeLecture ==
  /\ modal # NoModal
  /\ Begin("action", "finalize", IF modal.status = "open" THEN "close" ELSE "finalize", modal.lecture)
  /\ UNCHANGED <<serverVars, page, modal>>

handleCreateLectureSubmit(l) ==
  /\ status[l] = "none"
  /\ Begin("form", "create", "create", l)
  /\ UNCHANGED <<serverVars, page, modal>>

(* Somebody else: another page, or a script.                               *)
Elsewhere(l) ==
  /\ \E step \in {<<"none", "scheduled">>, <<"scheduled", "open">>, <<"open", "closed">>,
                  <<"closed", "finalized">>} :
       status[l] = step[1] /\ SetStatus(l, step[2], task)
  /\ UNCHANGED <<page, modal>>

-----------------------------------------------------------------------------
Answered == createLecture \/ startLecture \/ closeLecture \/ finalizeLecture \/ Finalized

Step(t) == Fetch(t) \/ refreshSurveillanceGlobal(t) \/ Render(t) \/ refreshDetail(t)

Calm ==
  /\ Answered \/ (\E t \in Task : Step(t)) \/ (\E p \in Poll : refresh(p))
  /\ UNCHANGED events

Click ==
  \E l \in Lecture : \/ ClickCard(l) \/ handleStartLecture(l) \/ openFinalizeModal(l)
                      \/ handleCreateLectureSubmit(l)

Dialog == (closeFinalizeModal \/ confirmFinalizeLecture) /\ UNCHANGED events

PageNext ==
  \/ Calm
  \/ Dialog
  \/ Disturb /\ (Click \/ (\E l \in Lecture : Elsewhere(l)) \/ (\E t \in Task : Fail(t)))

(* The timer fires; a request is answered in the end, or fails.            *)
Timer == WF_pageVars((\E p \in Poll : refresh(p)) /\ UNCHANGED events)

Answers ==
  /\ WF_pageVars(Answered /\ UNCHANGED events)
  /\ \A t \in Task : WF_pageVars(Step(t) /\ UNCHANGED events)

PageSpec == PageInit /\ [][PageNext]_pageVars /\ Timer /\ Answers

-----------------------------------------------------------------------------
(* Properties.                                                             *)

(* The page and its calls have the shape the code gives them: a call knows *)
(* its lecture, only listed lectures are shown, and no two cards are of    *)
(* one classroom.                                                          *)
PageTypeOK ==
  /\ status \in [Lecture -> Status]
  /\ ToSet(starts) \subseteq Lecture
  /\ \A t \in Task : /\ task[t].lecture = NoLecture <=> task[t].op = "none"
                     /\ task[t].todo \subseteq Query
                     /\ task[t].detail \in Lecture \cup {NoLecture}
  /\ \A i, j \in DOMAIN page.cards :
       room[page.cards[i].lecture] = room[page.cards[j].lecture] => i = j
  /\ {page.selected, page.records, page.evidence, page.shown} \subseteq Lecture \cup {NoLecture}
  /\ modal = NoModal \/ modal.status \in {"open", "closed"}

(* Evidence stands beside the records of its own lecture, and that is the  *)
(* selected one, although answers for a lecture that was selected before   *)
(* may arrive at any time; with nothing selected it can be another's, but  *)
(* then the section it is in is off the screen (app.js:598, :636, :1259).  *)
EvidenceBesideItsRecords ==
  page.shown # NoLecture =>
    /\ page.records = page.shown
    /\ page.selected = page.shown \/ (page.selected = NoLecture /\ ~page.visible)

(* The three fetches of one overview read the database at three moments; a *)
(* lecture that kept its status throughout has a card, or another lecture  *)
(* of its classroom has, and an open one only gives way to an open one.    *)
RestingLectureListed ==
  \A t \in Task : task[t].pc \in {"presence", "ready"} =>
    \A l \in Lecture \ task[t].moved : status[l] \in Query =>
      \E e \in ToSet(task[t].entries) :
        room[e.lecture] = room[l] /\ (status[l] = "open" => e.status = "open")

(* The detail section shows a lecture only after it was opened: no order   *)
(* of stale overviews, clicks and answers runs ahead of the database, and  *)
(* none leaves the section on the screen with nothing selected             *)
(* (app.js:868, :791, :839).                                               *)
DetailIsOfOpened ==
  page.visible => page.selected # NoLecture /\ status[page.selected] \notin {"none", "scheduled"}

(* What the page should look like, given the database.                     *)
Truth == Entries([q \in Query |-> Answer(q)])

Settled ==
  /\ page.cards = Truth
  /\ page.selected = NoLecture <=> Truth = <<>>
  /\ page.selected # NoLecture => CardOf(Truth, page.selected) # {}
  /\ page.visible <=> shouldPollLectureDetail(page)
  /\ page.records = IF shouldPollLectureDetail(page) THEN page.selected ELSE NoLecture

(* Once nobody clicks, changes a lecture or loses an answer any more       *)
(* (MaxEvents is used up), the overlapping polls leave the page showing    *)
(* the database: every classroom, a lecture selected, and that lecture's   *)
(* records if it is open (app.js:1279-1297).                               *)
PageConverges == <>[]Settled

(* The buttons come back: a lifecycle action and a submitted form end, so  *)
(* the flags that block the next one are reset, however often the dialog   *)
(* is confirmed again (app.js:513, :545, :410).                            *)
ButtonsComeBack == []<>(\A t \in {"action", "form"} : task[t].pc = "idle")

(* However refreshes, clicks and late answers overlap, the page never      *)
(* mixes lectures or runs ahead, and comes to show the database.           *)
PageFollowsDatabase ==
  /\ [](PageTypeOK /\ EvidenceBesideItsRecords /\ RestingLectureListed /\ DetailIsOfOpened)
  /\ PageConverges /\ ButtonsComeBack
=============================================================================
