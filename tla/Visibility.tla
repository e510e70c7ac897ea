----------------------------- MODULE Visibility -----------------------------
(***************************************************************************)
(* What the read-only endpoints of api/visibility.py show of lectures,     *)
(* records, events and recognition logs (visibility_queries.py,            *)
(* serializers.py), over posts and lectures that come one after the other; *)
(* AttendanceCore has them overlap.  A log row does not say what the       *)
(* engine made of the post: the endpoint infers it from the time of the    *)
(* record's events, so what is shown of a row can change.                  *)
(*                                                                         *)
(* Two clocks are involved.  Rows and events carry the time at which their *)
(* transaction began on the database's; last_event_at, from which the      *)
(* cooldown counts, is the application's at the decision (engine.py:78).   *)
(***************************************************************************)
EXTENDS AttendanceEngine, Integers, Sequences, SequencesExt

CONSTANTS
  Class,       \* lectures of one classroom
  Before,      \* 2 seconds, in clock ticks
  After,       \* 30 seconds, in clock ticks
  RowLimit,    \* VISIBILITY_TELEMETRY_LIMIT
  Start,       \* the database's clock in the beginning
  Lag,         \* what the application's clock can be ahead (behind, if negative)
  MaxNow,      \* BOUND on the clock
  MaxPosts     \* BOUND on posts

ASSUME VisibilityAssumption ==
  /\ {Before, After, RowLimit, Start, MaxNow, MaxPosts} \subseteq Nat
  /\ \A lag \in Lag : lag \in Int /\ Start + lag \in Nat
  /\ 0 \notin Class   \* a row's lecture if there is none

VARIABLES
  now,       \* the database's clock
  open,      \* the lectures whose window is open, newest actual_start first
  over,      \* the lectures that were closed
  entry,     \* the attendance record of the student, per lecture
  happened,  \* its attendance_events, oldest first
  posts      \* recognition_event_log, oldest first; accepted is history

viewVars == <<now, open, over, entry, happened, posts>>

\* last_event_at; Never for NULL.
Never == -1

ViewInit ==
  /\ now = Start /\ open = <<>> /\ over = {}
  /\ entry = [c \in Class |-> [state |-> "undetected", last |-> Never]]
  /\ happened = [c \in Class |-> <<>>]
  /\ posts = <<>>

OpenClass(c) ==
  /\ c \notin over \cup Range(open)
  /\ open' = <<c>> \o open
  /\ UNCHANGED <<now, over, entry, happened, posts>>

CloseClass(c) ==
  /\ \E i \in DOMAIN open : open[i] = c /\ open' = RemoveAt(open, i)
  /\ over' = over \cup {c}
  /\ UNCHANGED <<now, entry, happened, posts>>

\* A post that ends before the engine leaves its disposition in the row.
TurnedAway(note, c) ==
  /\ posts' = Append(posts, [class |-> c, note |-> note, at |-> now, accepted |-> FALSE])
  /\ UNCHANGED <<now, open, over, entry, happened>>

\* The lecture a post from the classroom goes to, and the one that is shown
\* as active there (list_active_lectures_by_classroom).
Receiving == Head(open)

\* What an accepted event writes into the record.
Counted(rec, st, time) == [state |-> st, last |-> time]

\* A post of the student, or of somebody unknown.  Of one that reaches the
\* engine the row has the record and no disposition.  The engine decides on
\* it at the application's time.
PostFrom(known, confident, lag) ==
  /\ Len(posts) < MaxPosts
  /\ IF open = <<>> THEN TurnedAway("no_active_lecture_in_classroom", 0)
     ELSE IF ~known THEN TurnedAway("unknown_identity", Receiving)
     ELSE LET c == Receiving
              rec == entry[c]
              time == now + lag
              age == IF rec.last = Never \/ time - rec.last > Cooldown THEN Cooldown
                     ELSE time - rec.last
              st == Target(rec.state, Len(happened[c]))
              suppressed == Suppressed("active_window_open", confident, FALSE, rec.state, age)
          IN  /\ posts' = Append(posts, [class |-> c, note |-> "none", at |-> now,
                                         accepted |-> ~suppressed])
              /\ IF suppressed THEN UNCHANGED <<entry, happened>>
                 ELSE /\ entry' = [entry EXCEPT ![c] = Counted(@, st, time)]
                      /\ happened' = [happened EXCEPT ![c] =
                           Append(@, [from |-> rec.state, to |-> st, at |-> now])]
              /\ UNCHANGED <<now, open, over>>

\* An administrator writes a state into the record.
OverrideEntry(c) ==
  /\ c \in Range(open) /\ entry[c].state # "manual_override"
  /\ entry' = [entry EXCEPT ![c].state = "manual_override"]
  /\ UNCHANGED <<now, open, over, happened, posts>>

TickView ==
  /\ now < MaxNow /\ now' = now + 1
  /\ UNCHANGED <<open, over, entry, happened, posts>>

ViewNext ==
  \/ \E c \in Class : OpenClass(c) \/ CloseClass(c) \/ OverrideEntry(c)
  \/ \E known, confident \in BOOLEAN, lag \in Lag : PostFrom(known, confident, lag)
  \/ TickView

-----------------------------------------------------------------------------
(* What is shown.                                                          *)

\* Mutant: the event has to come after the row.
MatchedLaterOnly(p) ==
  p.class # 0 /\ \E e \in Range(happened[p.class]) : p.at < e.at /\ e.at <= p.at + After

\* recognition_logs_matched_engine: the record has an event from around then.
Matched(p) ==
  p.class # 0 /\ \E e \in Range(happened[p.class]) :
                   p.at - Before <= e.at /\ e.at <= p.at + After

\* _infer_recognition_outcome, for the rows the ingestor writes.
ShownAs(p) ==
  IF p.note # "none" THEN p.note
  ELSE IF Matched(p) THEN "accepted" ELSE "suppressed"

\* list_recognition_logs.
ShownRows == SubSeq(posts, Max({1, Len(posts) - RowLimit + 1}), Len(posts))

\* build_progression_meta: when the record last moved, and was last seen
\* without moving.
Progression(c) ==
  LET moves == {e \in Range(happened[c]) : e.from # e.to}
      rests == Range(happened[c]) \ moves
  IN  [count |-> Len(happened[c]),
       transition |-> Max({Never} \cup {e.at : e \in moves}),
       accumulation |-> Max({Never} \cup {e.at : e \in rests})]

-----------------------------------------------------------------------------
(* Properties.                                                             *)

\* The record, its events and the rows fit: an event for every accepted row of
\* a lecture, and as many hits as the state needs (ingestor.py:218-249).
ViewTypeOK ==
  \A c \in Class :
    /\ Len(happened[c]) =
         Cardinality({i \in DOMAIN posts : posts[i].class = c /\ posts[i].accepted})
    /\ entry[c].state \in AttendanceState
    /\ entry[c].state # "manual_override" => Len(happened[c]) >= HitsToReach[entry[c].state]

\* A post the engine accepted is never shown as suppressed, and one that ended
\* before the engine is never shown as accepted (visibility_queries.py:35-64,
\* 163-216).
AcceptedShown ==
  \A p \in Range(ShownRows) :
    /\ p.accepted => ShownAs(p) = "accepted"
    /\ p.note # "none" => ShownAs(p) = p.note

\* The inference errs on one side and within limits: a row shown as accepted
\* is near a post that the engine accepted for the same lecture and student.
ShownAcceptedNear ==
  \A p \in Range(ShownRows) :
    ShownAs(p) = "accepted" =>
      \E q \in Range(posts) :
        /\ q.accepted /\ q.class = p.class
        /\ p.at - Before <= q.at /\ q.at <= p.at + After

\* What a row is shown as may turn from suppressed into accepted while the
\* student goes on being seen, but never back, and no more once the window
\* of thirty seconds has passed.
RowsSettle ==
  [][\A i \in DOMAIN posts :
       ShownAs(posts[i])' # ShownAs(posts[i]) =>
         ShownAs(posts[i]) = "suppressed" /\ now <= posts[i].at + After]_viewVars

\* What is shown of a record's progress explains its state: it has left
\* undetected just when it has a transition, it was seen without moving once
\* it has two hits, and the later of the two times is that of the event that
\* last_event_at stands for, up to what the two clocks differ
\* (serializers.py:64-80, engine.py:229, 272).
ProgressExplains ==
  \A c \in Class :
    LET shown == Progression(c)
    IN  /\ entry[c].state # "manual_override" =>
             (shown.transition = Never <=> entry[c].state = "undetected")
        /\ shown.accumulation = Never <=> shown.count <= 1
        /\ entry[c].last = Never <=> shown.count = 0
        /\ shown.count > 0 =>
             entry[c].last - Max({shown.transition, shown.accumulation}) \in Lag

\* What the endpoints show of a recognition is what the engine decided on it,
\* or errs on the stated side, within the window, and settles.
ShownAsDecided ==
  /\ [](ViewTypeOK /\ AcceptedShown /\ ShownAcceptedNear /\ ProgressExplains)
  /\ RowsSettle
=============================================================================
