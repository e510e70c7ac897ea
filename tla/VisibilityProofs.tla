-------------------------- MODULE VisibilityProofs --------------------------
(***************************************************************************)
(* What readers of stored rows are shown.  First the read-only endpoints:  *)
(* what they show of a recognition is what the engine decided on it, or    *)
(* errs on the stated side, for every number of lectures, posts and rows   *)
(* shown, and every length of the window in which an event counts for a    *)
(* row.  Then, each sharing nothing with the others, the study over        *)
(* several captures, and the attendance page of the dashboard.             *)
(*                                                                         *)
(* A record's state is a function of the number of its events (Rung); so   *)
(* its events, one by one, are known from their number (Climbed), and what *)
(* is shown of its progress follows.  Between rows and events there is     *)
(* Paired: an accepted row has an event of its own second, and an event    *)
(* has an accepted row.                                                    *)
(***************************************************************************)
EXTENDS Visibility, SweepStudy, DashboardPage, FiniteSetTheorems, WellFoundedInduction, TLAPS

ViewSpec == ViewInit /\ [][ViewNext]_viewVars

\* The state of a record nobody took over, by its events.
Rung(n) ==
  IF n = 0 THEN "undetected" ELSE IF n <= 2 THEN "candidate"
  ELSE IF n <= 4 THEN "initialized" ELSE "confirmed"

Notes == {"none", "no_active_lecture_in_classroom", "unknown_identity"}
EntryRecords == [state : AttendanceState, last : Nat \cup {Never}]
Happenings == [from : AttendanceState, to : AttendanceState, at : Nat]
Rows == [class : Class \cup {0}, note : Notes, at : Nat, accepted : BOOLEAN]

Typed ==
  /\ now \in Nat /\ now >= Start
  /\ open \in Seq(Class)
  /\ entry \in [Class -> EntryRecords]
  /\ happened \in [Class -> Seq(Happenings)]
  /\ posts \in Seq(Rows)

\* The events of a record are the first rungs of the ladder, none is later
\* than the last, and the record has the time of the last on the other clock.
Climbed(c) ==
  LET n == Len(happened[c])
  IN  /\ entry[c].state # "manual_override" => entry[c].state = Rung(n)
      /\ n <= 5
      /\ \A k \in 1 .. n : /\ happened[c][k].from = Rung(k - 1)
                           /\ happened[c][k].to = Rung(k)
                           /\ happened[c][k].at <= happened[c][n].at
                           /\ happened[c][k].at <= now
      /\ n = 0 => entry[c].last = Never
      /\ n > 0 => entry[c].last # Never /\ entry[c].last - happened[c][n].at \in Lag

\* Every accepted row has its event, and every event its row.
Paired ==
  /\ \A p \in Range(posts) :
       p.accepted => /\ p.class # 0 /\ p.note = "none"
                     /\ \E e \in Range(happened[p.class]) : e.at = p.at
  /\ \A c \in Class : \A e \in Range(happened[c]) :
       \E p \in Range(posts) : p.accepted /\ p.class = c /\ p.at = e.at

AcceptedOf(s, c) == {i \in DOMAIN s : s[i].class = c /\ s[i].accepted}

Counts == \A c \in Class : Len(happened[c]) = Cardinality(AcceptedOf(posts, c))

VInv == Typed /\ (\A c \in Class : Climbed(c)) /\ Paired /\ Counts

-----------------------------------------------------------------------------
(* Sequences.                                                              *)

LEMMA AppendRange ==
  ASSUME NEW T, NEW s \in Seq(T), NEW x \in T
  PROVE  /\ Append(s, x) \in Seq(T)
         /\ Len(Append(s, x)) = Len(s) + 1 /\ Len(s) \in Nat
         /\ DOMAIN s = 1 .. Len(s) /\ DOMAIN Append(s, x) = 1 .. (Len(s) + 1)
         /\ \A i \in 1 .. Len(s) : Append(s, x)[i] = s[i]
         /\ Append(s, x)[Len(s) + 1] = x
         /\ Range(Append(s, x)) = Range(s) \cup {x}
<1>1. /\ Append(s, x) \in Seq(T)
      /\ Len(Append(s, x)) = Len(s) + 1 /\ Len(s) \in Nat
      /\ DOMAIN s = 1 .. Len(s) /\ DOMAIN Append(s, x) = 1 .. (Len(s) + 1)
      /\ \A i \in 1 .. Len(s) : Append(s, x)[i] = s[i]
      /\ Append(s, x)[Len(s) + 1] = x
  OBVIOUS
<1>2. Range(Append(s, x)) = Range(s) \cup {x}
  BY <1>1 DEF Range
<1> QED
  BY <1>1, <1>2

LEMMA EntryTyped ==
  ASSUME NEW T, NEW s \in Seq(T)
  PROVE  /\ \A i \in DOMAIN s : s[i] \in T
         /\ Range(s) \subseteq T
         /\ DOMAIN s = 1 .. Len(s) /\ Len(s) \in Nat
BY DEF Range

\* A row that is appended counts if it is an accepted one of the lecture.
LEMMA CountAppend ==
  ASSUME NEW s \in Seq(Rows), NEW p \in Rows, NEW c
  PROVE  /\ Cardinality(AcceptedOf(s, c)) \in Nat
         /\ Cardinality(AcceptedOf(Append(s, p), c)) =
              Cardinality(AcceptedOf(s, c)) + (IF p.class = c /\ p.accepted THEN 1 ELSE 0)
<1> DEFINE n == Len(s)
           A == AcceptedOf(s, c)
           B == AcceptedOf(Append(s, p), c)
<1>1. /\ n \in Nat /\ DOMAIN s = 1 .. n /\ DOMAIN Append(s, p) = 1 .. (n + 1)
      /\ \A i \in 1 .. n : Append(s, p)[i] = s[i]
      /\ Append(s, p)[n + 1] = p
  BY AppendRange
<1>2. IsFiniteSet(A)
  <2>1. IsFiniteSet(1 .. n) /\ A \subseteq 1 .. n
    BY <1>1, FS_Interval DEF AcceptedOf
  <2> QED
    BY <2>1, FS_Subset
<1>3. Cardinality(A) \in Nat
  BY <1>2, FS_CardinalityType
<1>4. CASE p.class = c /\ p.accepted
  <2>1. B = A \cup {n + 1} /\ n + 1 \notin A
    BY <1>1, <1>4 DEF AcceptedOf
  <2>2. PICK x : x = n + 1
    OBVIOUS
  <2>3. Cardinality(A \cup {x}) = Cardinality(A) + 1
    BY <1>2, <2>1, <2>2, FS_AddElement
  <2>4. Cardinality(B) = Cardinality(A) + 1
    BY <2>1, <2>2, <2>3
  <2> QED
    BY <1>3, <1>4, <2>4
<1>5. CASE ~(p.class = c /\ p.accepted)
  <2>1. B = A
    BY <1>1, <1>5 DEF AcceptedOf
  <2>2. Cardinality(B) = Cardinality(A)
    BY <2>1
  <2> QED
    BY <1>3, <1>5, <2>2
<1> QED
  BY <1>3, <1>4, <1>5

\* A sequence without one of its entries.
LEMMA RemoveTyped ==
  ASSUME NEW T, NEW s \in Seq(T), NEW i \in DOMAIN s
  PROVE  RemoveAt(s, i) \in Seq(T)
<1>1. Len(s) \in Nat /\ i \in 1 .. Len(s)
  BY EntryTyped
<1>2. SubSeq(s, 1, i - 1) \in Seq(T) /\ SubSeq(s, i + 1, Len(s)) \in Seq(T)
  BY <1>1
<1> QED
  BY <1>2 DEF RemoveAt

-----------------------------------------------------------------------------
(* The invariant.                                                          *)

LEMMA ViewStart == ViewInit => VInv
<1> SUFFICES ASSUME ViewInit PROVE VInv
  OBVIOUS
<1>1. Typed
  BY VisibilityAssumption DEF ViewInit, Typed, EntryRecords, AttendanceState, Never
<1>2. ASSUME NEW c \in Class PROVE Climbed(c)
  <2>1. happened[c] = <<>> /\ entry[c].state = "undetected" /\ entry[c].last = Never
    BY DEF ViewInit
  <2> QED
    BY <2>1 DEF Climbed, Rung, Never
<1>3. Range(posts) = {} /\ \A c \in Class : Range(happened[c]) = {}
  BY DEF ViewInit, Range
<1>4. Paired
  BY <1>3 DEF Paired
<1>5. Counts
  <2>1. \A c : AcceptedOf(posts, c) = {}
    BY DEF ViewInit, AcceptedOf
  <2> QED
    BY <2>1, FS_EmptySet DEF ViewInit, Counts
<1> QED
  BY <1>1, <1>2, <1>4, <1>5 DEF VInv

\* A post that did not reach a record.
LEMMA NotedKept ==
  ASSUME VInv, NEW p \in Rows, ~p.accepted, posts' = Append(posts, p),
         UNCHANGED <<now, open, entry, happened>>
  PROVE  VInv'
<1>1. /\ posts' \in Seq(Rows) /\ Range(posts') = Range(posts) \cup {p}
  BY AppendRange DEF VInv, Typed
<1>2. Typed'
  BY <1>1 DEF VInv, Typed
<1>3. ASSUME NEW c \in Class PROVE Climbed(c)'
  BY DEF VInv, Climbed
<1>4. Paired'
  BY <1>1 DEF VInv, Paired
<1>5. ASSUME NEW c \in Class
      PROVE  Len(happened[c]) = Cardinality(AcceptedOf(Append(posts, p), c))
  <2>1. Cardinality(AcceptedOf(Append(posts, p), c)) = Cardinality(AcceptedOf(posts, c))
    BY CountAppend DEF VInv, Typed
  <2> QED
    BY <2>1 DEF VInv, Counts
<1>6. Counts'
  BY <1>5 DEF Counts
<1> QED
  BY <1>2, <1>3, <1>4, <1>6 DEF VInv

\* Steps that leave rows and events alone.
LEMMA QuietKept ==
  ASSUME VInv, UNCHANGED <<happened, posts>>, now' \in Nat, now' >= now,
         open' \in Seq(Class), entry' \in [Class -> EntryRecords],
         \A c \in Class : /\ entry'[c].last = entry[c].last
                          /\ entry'[c].state \in {entry[c].state, "manual_override"}
  PROVE  VInv'
<1>1. Typed'
  BY VisibilityAssumption DEF VInv, Typed
<1>2. ASSUME NEW c \in Class PROVE Climbed(c)'
  <2>1. /\ now \in Nat /\ happened[c] \in Seq(Happenings)
        /\ \A k \in 1 .. Len(happened[c]) : happened[c][k] \in Happenings
    BY EntryTyped DEF VInv, Typed
  <2>2. Climbed(c)
    BY DEF VInv
  <2>3. \A k \in 1 .. Len(happened[c]) : happened[c][k].at \in Nat /\ happened[c][k].at <= now'
    BY <2>1, <2>2 DEF Climbed, Happenings
  <2> QED
    BY <2>2, <2>3 DEF Climbed
<1>3. Paired' /\ Counts'
  BY DEF VInv, Paired, Counts
<1> QED
  BY <1>1, <1>2, <1>3 DEF VInv

\* The rule of the engine, read as a step of the ladder.
LEMMA NextRung ==
  ASSUME NEW n \in 0 .. 4
  PROVE  Rung(n) \in AttendanceState /\ Target(Rung(n), n) = Rung(n + 1)
<1>1. n = 0 \/ n = 1 \/ n = 2 \/ n = 3 \/ n = 4
  OBVIOUS
<1> QED
  BY <1>1 DEF Rung, Target, HitThreshold, Forward, AttendanceState

LEMMA TopRung == Terminal(Rung(5)) /\ Terminal("manual_override")
BY DEF Rung, Terminal, Forward

\* A post that an open lecture accepted.
LEMMA AcceptedKept ==
  ASSUME VInv, NEW c \in Class, NEW p, NEW e, NEW st, NEW lag \in Lag,
         st = Target(entry[c].state, Len(happened[c])),
         ~Terminal(entry[c].state),
         p = [class |-> c, note |-> "none", at |-> now, accepted |-> TRUE],
         e = [from |-> entry[c].state, to |-> st, at |-> now],
         posts' = Append(posts, p),
         happened' = [happened EXCEPT ![c] = Append(@, e)],
         entry' = [entry EXCEPT ![c] = Counted(@, st, now + lag)],
         UNCHANGED <<now, open>>
  PROVE  VInv'
<1> DEFINE n == Len(happened[c])
<1>1. /\ now \in Nat /\ open \in Seq(Class) /\ entry \in [Class -> EntryRecords]
      /\ happened \in [Class -> Seq(Happenings)] /\ posts \in Seq(Rows)
      /\ Climbed(c) /\ Paired /\ Counts
  BY DEF VInv, Typed
<1>2. happened[c] \in Seq(Happenings) /\ n \in Nat
  BY <1>1, EntryTyped
<1>3. entry[c].state # "manual_override" /\ entry[c].state = Rung(n) /\ n # 5 /\ n <= 5
  BY <1>1, TopRung DEF Climbed
<1>4. n \in 0 .. 4 /\ n + 1 \in 1 .. 5
  <2>1. n \in Nat /\ n # 5 /\ n <= 5
    BY <1>2, <1>3
  <2> HIDE DEF n
  <2> QED
    BY ONLY <2>1
<1>5. st = Rung(n + 1) /\ st \in AttendanceState /\ entry[c].state \in AttendanceState
  <2>1. entry[c].state \in AttendanceState
    BY <1>1 DEF EntryRecords
  <2>2. Rung(n + 1) \in AttendanceState
    BY DEF Rung, AttendanceState
  <2> QED
    BY <1>3, <1>4, <2>1, <2>2, NextRung
<1>6. p \in Rows /\ e \in Happenings
  BY <1>1, <1>5 DEF Rows, Happenings, Notes
<1>7. /\ Append(happened[c], e) \in Seq(Happenings)
      /\ Len(Append(happened[c], e)) = n + 1
      /\ \A i \in 1 .. n : Append(happened[c], e)[i] = happened[c][i]
      /\ Append(happened[c], e)[n + 1] = e
      /\ Range(Append(happened[c], e)) = Range(happened[c]) \cup {e}
  BY <1>2, <1>6, AppendRange
<1>8. /\ happened'[c] = Append(happened[c], e)
      /\ \A d \in Class \ {c} : happened'[d] = happened[d]
      /\ happened' \in [Class -> Seq(Happenings)]
  BY <1>1, <1>7
<1>9. /\ entry'[c].state = st /\ entry'[c].last = now + lag
      /\ now + lag \in Nat /\ lag \in Int
      /\ \A d \in Class \ {c} : entry'[d] = entry[d]
      /\ entry' \in [Class -> EntryRecords]
  <2>1. now + lag \in Nat /\ lag \in Int
    BY VisibilityAssumption DEF VInv, Typed
  <2> QED
    BY <1>1, <1>5, <2>1 DEF Counted, EntryRecords
<1>10. posts' \in Seq(Rows) /\ Range(posts') = Range(posts) \cup {p}
  <2>1. posts \in Seq(Rows) /\ p \in Rows /\ posts' = Append(posts, p)
    BY <1>1, <1>6
  <2> QED
    BY ONLY <2>1, AppendRange
<1>11. Typed'
  BY <1>1, <1>8, <1>9, <1>10 DEF VInv, Typed
<1>12. Climbed(c)'
  <2>1. Len(happened'[c]) = n + 1 /\ n + 1 <= 5 /\ n + 1 # 0
    <3>1. Len(happened'[c]) = n + 1
      BY <1>7, <1>8
    <3> HIDE DEF n
    <3> QED
      BY ONLY <3>1, <1>4
  <2>2. ASSUME NEW k \in 1 .. (n + 1)
        PROVE  /\ happened'[c][k].from = Rung(k - 1)
               /\ happened'[c][k].to = Rung(k)
               /\ happened'[c][k].at <= now
    <3>1. CASE k = n + 1
      <4>1. happened'[c][k] = e /\ k - 1 = n
        BY <1>2, <1>7, <1>8, <3>1
      <4> QED
        BY <1>1, <1>3, <1>5, <1>9, <3>1, <4>1
    <3>2. CASE k # n + 1
      <4>1. k \in 1 .. n
        BY <1>2, <3>2
      <4>2. happened'[c][k] = happened[c][k]
        BY <1>7, <1>8, <4>1
      <4>3. happened[c][k] \in Happenings
        BY <1>2, <4>1, EntryTyped
      <4>4. /\ happened[c][k].from = Rung(k - 1) /\ happened[c][k].to = Rung(k)
            /\ happened[c][k].at <= now
        BY <1>1, <4>1 DEF Climbed
      <4> QED
        BY <4>2, <4>4
    <3> QED
      BY <3>1, <3>2
  <2>3. /\ happened'[c][n + 1].at = now /\ now' = now
        /\ entry'[c].last # Never /\ entry'[c].last - now \in Lag
    <3>1. happened'[c][n + 1] = e
      BY <1>7, <1>8
    <3>2. entry'[c].last - now = lag
      BY <1>1, <1>9
    <3> QED
      BY <1>9, <3>1, <3>2 DEF Never
  <2>4. entry'[c].state = Rung(n + 1)
    BY <1>5, <1>9
  <2> QED
    BY <2>1, <2>2, <2>3, <2>4 DEF Climbed
<1>13. ASSUME NEW d \in Class \ {c} PROVE Climbed(d)'
  <2>1. Climbed(d)
    BY DEF VInv
  <2> QED
    BY <1>8, <1>9, <2>1 DEF Climbed
<1>14. Paired'
  <2>1. ASSUME NEW q \in Range(posts'), q.accepted
        PROVE  /\ q.class # 0 /\ q.note = "none"
               /\ \E f \in Range(happened'[q.class]) : f.at = q.at
    <3>1. CASE q = p
      <4>1. e \in Range(happened'[c])
        BY <1>7, <1>8
      <4> QED
        BY <1>6, <3>1, <4>1, VisibilityAssumption
    <3>2. CASE q \in Range(posts)
      <4>1. q \in Rows
        BY <1>1, <3>2, EntryTyped
      <4>2. /\ q.class # 0 /\ q.note = "none"
            /\ \E f \in Range(happened[q.class]) : f.at = q.at
        BY <1>1, <2>1, <3>2 DEF Paired
      <4>3. q.class \in Class
        BY <4>1, <4>2 DEF Rows
      <4>4. Range(happened[q.class]) \subseteq Range(happened'[q.class])
        BY <1>7, <1>8, <4>3
      <4> QED
        BY <4>2, <4>4
    <3> QED
      BY <1>10, <3>1, <3>2
  <2>2. ASSUME NEW d \in Class, NEW f \in Range(happened'[d])
        PROVE  \E q \in Range(posts') : q.accepted /\ q.class = d /\ q.at = f.at
    <3>1. CASE f \in Range(happened[d])
      <4>1. PICK q \in Range(posts) : q.accepted /\ q.class = d /\ q.at = f.at
        BY <1>1, <3>1 DEF Paired
      <4>2. q \in Range(posts')
        BY ONLY <1>10
      <4> QED
        BY ONLY <4>1, <4>2
    <3>2. CASE f \notin Range(happened[d])
      <4>1. d = c /\ f = e
        BY <1>7, <1>8, <3>2
      <4>2. p \in Range(posts')
        BY ONLY <1>10
      <4>3. p.accepted /\ p.class = d /\ p.at = f.at
        BY <4>1
      <4> QED
        BY ONLY <4>2, <4>3
    <3> QED
      BY <3>1, <3>2
  <2> QED
    BY <2>1, <2>2 DEF Paired
<1>15. Counts'
  <2>1. ASSUME NEW d \in Class PROVE Len(happened'[d]) = Cardinality(AcceptedOf(Append(posts, p), d))
    <3>1. /\ Cardinality(AcceptedOf(posts, d)) \in Nat
          /\ Cardinality(AcceptedOf(Append(posts, p), d)) =
               Cardinality(AcceptedOf(posts, d)) + (IF p.class = d /\ p.accepted THEN 1 ELSE 0)
      BY <1>1, <1>6, CountAppend
    <3>2. Len(happened[d]) = Cardinality(AcceptedOf(posts, d))
      BY <1>1 DEF Counts
    <3>3. CASE d = c
      BY <1>7, <1>8, <3>1, <3>2, <3>3
    <3>4. CASE d # c
      BY <1>8, <3>1, <3>2, <3>4
    <3> QED
      BY <3>3, <3>4
  <2> QED
    BY <2>1 DEF Counts
<1> QED
  BY <1>11, <1>12, <1>13, <1>14, <1>15 DEF VInv

LEMMA ViewStep == VInv /\ [ViewNext]_viewVars => VInv'
<1> SUFFICES ASSUME VInv, [ViewNext]_viewVars PROVE VInv'
  OBVIOUS
<1>1. /\ now \in Nat /\ open \in Seq(Class) /\ entry \in [Class -> EntryRecords]
      /\ happened \in [Class -> Seq(Happenings)] /\ posts \in Seq(Rows)
  BY DEF VInv, Typed
<1>2. ASSUME NEW c \in Class, OpenClass(c) PROVE VInv'
  <2>1. <<c>> \o open \in Seq(Class)
    BY <1>1
  <2> QED
    BY <1>1, <1>2, <2>1, QuietKept DEF OpenClass
<1>3. ASSUME NEW c \in Class, CloseClass(c) PROVE VInv'
  <2>1. PICK i \in DOMAIN open : open' = RemoveAt(open, i)
    BY <1>3 DEF CloseClass
  <2>2. open' \in Seq(Class)
    BY <1>1, <2>1, RemoveTyped
  <2> QED
    BY <1>1, <1>3, <2>2, QuietKept DEF CloseClass
<1>4. ASSUME NEW c \in Class, OverrideEntry(c) PROVE VInv'
  <2>1. /\ entry' \in [Class -> EntryRecords]
        /\ \A d \in Class : /\ entry'[d].last = entry[d].last
                            /\ entry'[d].state \in {entry[d].state, "manual_override"}
    BY <1>1, <1>4 DEF OverrideEntry, EntryRecords, AttendanceState
  <2> QED
    BY <1>1, <1>4, <2>1, QuietKept DEF OverrideEntry
<1>5. ASSUME TickView PROVE VInv'
  <2>1. now' \in Nat /\ now' >= now
    BY <1>1, <1>5 DEF TickView
  <2> QED
    BY <1>1, <1>5, <2>1, QuietKept DEF TickView
<1>6. ASSUME NEW note \in Notes, NEW c \in Class \cup {0}, TurnedAway(note, c) PROVE VInv'
  <2> DEFINE p == [class |-> c, note |-> note, at |-> now, accepted |-> FALSE]
  <2>1. p \in Rows /\ ~p.accepted /\ posts' = Append(posts, p)
    BY <1>1, <1>6 DEF Rows, TurnedAway
  <2> QED
    BY <1>6, <2>1, NotedKept DEF TurnedAway
<1>7. ASSUME NEW known \in BOOLEAN, NEW confident \in BOOLEAN, NEW lag \in Lag,
             PostFrom(known, confident, lag)
      PROVE  VInv'
  <2>1. open # <<>> => Receiving \in Class
    BY <1>1 DEF Receiving
  <2>2. CASE open = <<>>
    <3>1. TurnedAway("no_active_lecture_in_classroom", 0)
      BY <1>7, <2>2 DEF PostFrom
    <3> QED
      BY <1>6, <3>1 DEF Notes
  <2>3. CASE open # <<>> /\ ~known
    <3>1. TurnedAway("unknown_identity", Receiving)
      BY <1>7, <2>3 DEF PostFrom
    <3> QED
      BY <1>6, <2>1, <2>3, <3>1 DEF Notes
  <2>4. CASE open # <<>> /\ known
    <3> DEFINE c == Receiving
               rec == entry[c]
               time == now + lag
               age == IF rec.last = Never \/ time - rec.last > Cooldown THEN Cooldown
                      ELSE time - rec.last
               st == Target(rec.state, Len(happened[c]))
               suppressed == Suppressed("active_window_open", confident, FALSE, rec.state, age)
               p == [class |-> c, note |-> "none", at |-> now, accepted |-> ~suppressed]
               e == [from |-> rec.state, to |-> st, at |-> now]
    <3>1. /\ posts' = Append(posts, p)
          /\ IF suppressed THEN UNCHANGED <<entry, happened>>
             ELSE /\ entry' = [entry EXCEPT ![c] = Counted(@, st, time)]
                  /\ happened' = [happened EXCEPT ![c] = Append(@, e)]
          /\ UNCHANGED <<now, open, over>>
      BY <1>7, <2>4 DEF PostFrom
    <3>2. suppressed \in BOOLEAN /\ c \in Class
      BY <2>1, <2>4 DEF Suppressed
    <3>3. CASE suppressed
      <4>1. p \in Rows /\ ~p.accepted
        BY <1>1, <3>2, <3>3 DEF Rows, Notes
      <4> HIDE DEF p, suppressed
      <4> QED
        BY <3>1, <3>3, <4>1, NotedKept
    <3>4. CASE ~suppressed
      <4>1. ~Terminal(rec.state)
        BY <3>4 DEF Suppressed
      <4>2. p = [class |-> c, note |-> "none", at |-> now, accepted |-> TRUE]
        BY <3>2, <3>4
      <4>3. PICK q : q = p
        OBVIOUS
      <4>4. PICK f : f = e
        OBVIOUS
      <4>5. PICK tt : tt = st
        OBVIOUS
      <4>6. PICK d : d = c
        OBVIOUS
      <4>7. /\ d \in Class /\ tt = Target(entry[d].state, Len(happened[d]))
            /\ ~Terminal(entry[d].state)
            /\ q = [class |-> d, note |-> "none", at |-> now, accepted |-> TRUE]
            /\ f = [from |-> entry[d].state, to |-> tt, at |-> now]
            /\ posts' = Append(posts, q)
            /\ happened' = [happened EXCEPT ![d] = Append(@, f)]
            /\ entry' = [entry EXCEPT ![d] = Counted(@, tt, now + lag)]
            /\ UNCHANGED <<now, open>>
        BY <3>1, <3>2, <3>4, <4>1, <4>2, <4>3, <4>4, <4>5, <4>6
      <4> QED
        BY ONLY <4>7, VInv, AcceptedKept
    <3> QED
      BY <3>3, <3>4
  <2> QED
    BY <2>2, <2>3, <2>4
<1>8. CASE UNCHANGED viewVars
  BY <1>1, <1>8, QuietKept DEF viewVars
<1> QED
  BY <1>2, <1>3, <1>4, <1>5, <1>7, <1>8 DEF ViewNext

\* Rows and events are as the engine left them, whatever the order of posts,
\* classes and overrides (ingestor.py:218-249).
THEOREM ViewInvariance == ViewSpec => []VInv
BY ViewStart, ViewStep, PTL DEF ViewSpec

-----------------------------------------------------------------------------
(* What is shown.                                                          *)

\* Integers that do not exceed a bound have a greatest.
LEMMA MaxExists ==
  ASSUME NEW S \in SUBSET Int, S # {}, NEW b \in Int, \A x \in S : x <= b
  PROVE  Max(S) \in S /\ \A x \in S : x <= Max(S)
<1> DEFINE R == OpToRel(<, Nat)
           T == {d \in Nat : b - d \in S}
<1>1. IsWellFoundedOn(R, Nat)
  BY NatLessThanWellFounded
<1>2. T # {} /\ T \subseteq Nat
  <2>1. PICK x \in S : TRUE
    OBVIOUS
  <2>2. b - x \in Nat /\ b - (b - x) = x
    BY <2>1
  <2> QED
    BY <2>1, <2>2
<1> HIDE DEF R
<1>3. PICK n \in T : \A m \in T : ~(<<m, n>> \in R)
  <2> HIDE DEF T
  <2> QED
    BY <1>1, <1>2, WFMin
<1>4. b - n \in S /\ n \in Nat
  BY <1>3
<1>5. ASSUME NEW x \in S PROVE b - n >= x
  <2>1. b - x \in Nat /\ b - (b - x) = x
    BY <1>5
  <2>2. b - x \in T
    BY <2>1
  <2>3. ~(b - x < n)
    BY <1>3, <1>4, <2>1, <2>2 DEF R, OpToRel
  <2> QED
    BY <1>4, <2>1, <2>3
<1>6. \E x \in S : \A y \in S : x >= y
  BY <1>4, <1>5
<1>7. Max(S) \in S /\ \A y \in S : Max(S) >= y
  BY <1>6 DEF Max
<1> QED
  BY <1>7

LEMMA MaxIs ==
  ASSUME NEW S \in SUBSET Int, NEW m \in S, \A x \in S : x <= m
  PROVE  Max(S) = m
<1>1. m \in Int /\ S # {}
  OBVIOUS
<1>2. Max(S) \in S /\ \A x \in S : x <= Max(S)
  BY <1>1, MaxExists
<1>3. Max(S) \in Int /\ Max(S) <= m /\ m <= Max(S)
  BY <1>2
<1> QED
  BY <1>1, <1>3

\* The rows that are shown are rows there are.
LEMMA ShownAreRows == Typed => Range(ShownRows) \subseteq Range(posts)
<1> SUFFICES ASSUME Typed PROVE Range(ShownRows) \subseteq Range(posts)
  OBVIOUS
<1> DEFINE n == Len(posts)
           m == Max({1, n - RowLimit + 1})
<1>1. posts \in Seq(Rows) /\ n \in Nat /\ RowLimit \in Nat
  BY VisibilityAssumption DEF Typed
<1>2. m \in Nat \ {0}
  <2>1. PICK a : a = n - RowLimit + 1
    OBVIOUS
  <2>2. PICK S : S = {1, a}
    OBVIOUS
  <2>3. a \in Int /\ S \in SUBSET Int
    BY <1>1, <2>1, <2>2
  <2>4. m = Max(S)
    BY <2>1, <2>2
  <2>5. CASE a <= 1
    <3>1. 1 \in S /\ \A x \in S : x <= 1
      BY <2>2, <2>3, <2>5
    <3> QED
      BY <2>3, <2>4, <3>1, MaxIs
  <2>6. CASE a > 1
    <3>1. a \in S /\ \A x \in S : x <= a
      BY <2>2, <2>3, <2>6
    <3>2. m = a
      BY <2>3, <2>4, <3>1, MaxIs
    <3> HIDE DEF m
    <3> QED
      BY <2>3, <2>6, <3>2
  <2> HIDE DEF m
  <2> QED
    BY <2>3, <2>5, <2>6
<1>3. ShownRows = SubSeq(posts, m, n)
  BY DEF ShownRows
<1> HIDE DEF m
<1>4. ASSUME NEW i \in DOMAIN ShownRows PROVE ShownRows[i] \in Range(posts)
  <2>1. i \in Nat \ {0} /\ m + i - 1 \in 1 .. n /\ ShownRows[i] = posts[m + i - 1]
    BY <1>1, <1>2, <1>3
  <2> QED
    BY <1>1, <2>1 DEF Range
<1> QED
  BY <1>4 DEF Range

\* Record, events and rows fit.
LEMMA ViewTyped == VInv => ViewTypeOK
<1> SUFFICES ASSUME VInv, NEW c \in Class
    PROVE  /\ Len(happened[c]) = Cardinality(AcceptedOf(posts, c))
           /\ entry[c].state \in AttendanceState
           /\ entry[c].state # "manual_override" =>
                Len(happened[c]) >= HitsToReach[entry[c].state]
  BY DEF ViewTypeOK, AcceptedOf
<1>1. Climbed(c) /\ Counts /\ entry[c] \in EntryRecords /\ Len(happened[c]) \in Nat
  BY EntryTyped DEF VInv, Typed
<1>2. entry[c].state # "manual_override" => Len(happened[c]) >= HitsToReach[entry[c].state]
  <2> SUFFICES ASSUME entry[c].state # "manual_override"
      PROVE  Len(happened[c]) >= HitsToReach[entry[c].state]
    OBVIOUS
  <2>1. entry[c].state = Rung(Len(happened[c]))
    BY <1>1 DEF Climbed
  <2>2. ASSUME NEW n \in Nat PROVE n >= HitsToReach[Rung(n)]
    BY DEF Rung, HitsToReach
  <2> QED
    BY <1>1, <2>1, <2>2
<1> QED
  BY <1>1, <1>2 DEF Counts, EntryRecords

\* An accepted row has an event of its own second, which is within the window.
LEMMA AcceptedAreShown == VInv => AcceptedShown
<1> SUFFICES ASSUME VInv, NEW p \in Range(ShownRows)
    PROVE  /\ p.accepted => ShownAs(p) = "accepted"
           /\ p.note # "none" => ShownAs(p) = p.note
  BY DEF AcceptedShown
<1>1. p \in Range(posts) /\ p \in Rows
  BY ShownAreRows, EntryTyped DEF VInv, Typed
<1>2. ASSUME p.accepted PROVE ShownAs(p) = "accepted"
  <2>1. p.class # 0 /\ p.note = "none" /\ p.class \in Class
    BY <1>1, <1>2 DEF VInv, Paired, Rows
  <2>2. PICK e \in Range(happened[p.class]) : e.at = p.at
    BY <1>1, <1>2 DEF VInv, Paired
  <2>3. p.at \in Nat /\ Before \in Nat /\ After \in Nat
    BY <1>1, VisibilityAssumption DEF Rows
  <2>4. Matched(p)
    BY <2>1, <2>2, <2>3 DEF Matched
  <2> QED
    BY <2>1, <2>4 DEF ShownAs
<1> QED
  BY <1>2 DEF ShownAs

\* An event that makes a row look accepted has an accepted row of its own.
LEMMA ShownAreNear == VInv => ShownAcceptedNear
<1> SUFFICES ASSUME VInv, NEW p \in Range(ShownRows), ShownAs(p) = "accepted"
    PROVE  \E q \in Range(posts) :
             /\ q.accepted /\ q.class = p.class
             /\ p.at - Before <= q.at /\ q.at <= p.at + After
  BY DEF ShownAcceptedNear
<1>1. p \in Range(posts) /\ p \in Rows
  BY ShownAreRows, EntryTyped DEF VInv, Typed
<1>2. p.note # "accepted"
  BY <1>1 DEF Rows, Notes
<1>3. Matched(p)
  BY <1>2 DEF ShownAs
<1>4. p.class \in Class
  BY <1>1, <1>3 DEF Matched, Rows
<1>5. PICK e \in Range(happened[p.class]) : p.at - Before <= e.at /\ e.at <= p.at + After
  BY <1>3 DEF Matched
<1>6. PICK q \in Range(posts) : q.accepted /\ q.class = p.class /\ q.at = e.at
  BY <1>4, <1>5 DEF VInv, Paired
<1> QED
  BY <1>5, <1>6

\* What is shown of the progress is what the ladder of events tells.
LEMMA ProgressIsExplained == VInv => ProgressExplains
<1> SUFFICES ASSUME VInv, NEW c \in Class
    PROVE  /\ entry[c].state # "manual_override" =>
                (Progression(c).transition = Never <=> entry[c].state = "undetected")
           /\ Progression(c).accumulation = Never <=> Progression(c).count <= 1
           /\ entry[c].last = Never <=> Progression(c).count = 0
           /\ Progression(c).count > 0 =>
                entry[c].last - Max({Progression(c).transition, Progression(c).accumulation}) \in Lag
  BY DEF ProgressExplains
<1> DEFINE h == happened[c]
           n == Len(h)
           moves == {e \in Range(h) : e.from # e.to}
           rests == Range(h) \ moves
           M == {Never} \cup {e.at : e \in moves}
           R == {Never} \cup {e.at : e \in rests}
<1>1. /\ Climbed(c) /\ h \in Seq(Happenings) /\ n \in Nat /\ n <= 5
      /\ DOMAIN h = 1 .. n /\ Range(h) \subseteq Happenings
  BY EntryTyped DEF VInv, Typed, Climbed
<1>2. \A k \in 1 .. n : h[k] \in Range(h)
  BY <1>1 DEF Range
<1>3. \A e \in Range(h) : \E k \in 1 .. n : e = h[k]
  BY <1>1 DEF Range
<1>4. /\ Progression(c).count = n /\ Progression(c).transition = Max(M)
      /\ Progression(c).accumulation = Max(R)
  BY DEF Progression
<1>5. \A k \in 1 .. n : h[k].from = Rung(k - 1) /\ h[k].to = Rung(k) /\ h[k].at <= h[n].at
  BY <1>1 DEF Climbed
<1>6. ASSUME NEW k \in 1 .. n PROVE h[k] \in moves <=> k \in {1, 3, 5}
  <2>1. k = 1 \/ k = 2 \/ k = 3 \/ k = 4 \/ k = 5
    BY <1>1
  <2>2. Rung(k - 1) # Rung(k) <=> k \in {1, 3, 5}
    BY <2>1 DEF Rung
  <2> QED
    BY <1>2, <1>5, <2>2
<1>7. \A k \in 1 .. n : h[k].at \in Nat
  BY <1>1, <1>2 DEF Happenings
<1>8. /\ n = 0 => entry[c].last = Never
      /\ n > 0 => entry[c].last # Never /\ entry[c].last - h[n].at \in Lag
  BY <1>1 DEF Climbed
<1> DEFINE top == IF n = 0 THEN Never ELSE h[n].at
<1>9. \A x \in M \cup R : x = Never \/ \E k \in 1 .. n : x = h[k].at
  BY <1>3
<1>10. top \in Int /\ M \cup R \subseteq Int /\ \A x \in M \cup R : x <= top
  <2>1. top \in Int /\ Never \in Int /\ Never <= top
    <3>1. n # 0 => n \in 1 .. n
      BY <1>1
    <3> QED
      BY <1>7, <3>1 DEF Never
  <2>2. ASSUME NEW x \in M \cup R PROVE x \in Int /\ x <= top
    <3>1. CASE x = Never
      BY <2>1, <3>1
    <3>2. CASE \E k \in 1 .. n : x = h[k].at
      BY <1>1, <1>5, <1>7, <3>2
    <3> QED
      BY <1>9, <3>1, <3>2
  <2> HIDE DEF M, R, top
  <2> QED
    BY <2>1, <2>2
<1>11. top \in Int /\ M \in SUBSET Int /\ R \in SUBSET Int /\ M # {} /\ R # {}
  BY <1>10
<1> DEFINE a == Max(M)
           b == Max(R)
<1>12. a \in M /\ (\A x \in M : x <= a) /\ b \in R /\ (\A x \in R : x <= b)
  <2>1. (\A x \in M : x <= top) /\ (\A x \in R : x <= top)
    BY <1>10
  <2> HIDE DEF M, R, top
  <2> QED
    BY <1>11, <2>1, MaxExists
<1> HIDE DEF a, b
<1>13. a \in Int /\ b \in Int
  BY <1>11, <1>12
<1>14. a # Never <=> n >= 1
  <2>1. ASSUME n >= 1 PROVE a # Never
    <3>1. 1 \in 1 .. n
      BY <1>1, <2>1
    <3>2. h[1].at \in M /\ h[1].at \in Nat
      BY <1>6, <1>7, <3>1
    <3> QED
      BY <1>12, <1>13, <3>2 DEF Never
  <2>2. ASSUME n = 0 PROVE a = Never
    <3>1. M = {Never}
      BY <1>3, <2>2
    <3> QED
      BY <1>12, <3>1
  <2> QED
    BY <1>1, <2>1, <2>2
<1>15. b # Never <=> n >= 2
  <2>1. ASSUME n >= 2 PROVE b # Never
    <3>1. 2 \in 1 .. n
      BY <1>1, <2>1
    <3>2. h[2] \in rests /\ h[2].at \in Nat
      BY <1>2, <1>6, <1>7, <3>1
    <3> QED
      BY <1>12, <1>13, <3>2 DEF Never
  <2>2. ASSUME n <= 1 PROVE b = Never
    <3>1. ASSUME NEW e \in rests PROVE FALSE
      <4>1. PICK k \in 1 .. n : e = h[k]
        BY <1>3, <3>1
      <4>2. k = 1
        BY <1>1, <2>2
      <4> QED
        BY <1>6, <3>1, <4>1, <4>2
    <3>2. R = {Never}
      BY <3>1
    <3> QED
      BY <1>12, <3>2
  <2> QED
    BY <1>1, <2>1, <2>2
<1>16. entry[c].state # "manual_override" => (a = Never <=> entry[c].state = "undetected")
  <2> SUFFICES ASSUME entry[c].state # "manual_override"
      PROVE  a = Never <=> entry[c].state = "undetected"
    OBVIOUS
  <2>1. entry[c].state = Rung(n)
    BY <1>1 DEF Climbed
  <2>2. Rung(n) = "undetected" <=> n = 0
    BY <1>1 DEF Rung
  <2> QED
    BY <1>1, <1>14, <2>1, <2>2
<1>17. top = Max({a, b})
  <2>1. a <= top /\ b <= top
    BY <1>10, <1>12
  <2>2. top = a \/ top = b
    <3>1. CASE n = 0
      BY <1>14, <3>1
    <3>2. CASE n # 0
      <4>1. n \in 1 .. n /\ top = h[n].at
        BY <1>1, <3>2
      <4>2. h[n].at \in M \/ h[n].at \in R
        BY <1>2, <4>1
      <4>3. h[n].at <= a \/ h[n].at <= b
        BY <1>12, <4>2
      <4> QED
        BY <1>11, <1>13, <2>1, <4>1, <4>3
    <3> QED
      BY <3>1, <3>2
  <2>3. {a, b} \in SUBSET Int /\ top \in {a, b} /\ \A x \in {a, b} : x <= top
    BY <1>13, <2>1, <2>2
  <2> QED
    BY <2>3, MaxIs
<1>18. Progression(c).transition = a /\ Progression(c).accumulation = b
  BY <1>4 DEF a, b
<1>19. Progression(c).accumulation = Never <=> Progression(c).count <= 1
  BY <1>1, <1>4, <1>15, <1>18
<1>20. /\ entry[c].last = Never <=> Progression(c).count = 0
       /\ Progression(c).count > 0 =>
            entry[c].last - Max({Progression(c).transition, Progression(c).accumulation}) \in Lag
  <2>1. n # 0 => top = h[n].at
    OBVIOUS
  <2>2. Max({Progression(c).transition, Progression(c).accumulation}) = top
    BY <1>17, <1>18
  <2> HIDE DEF top, h
  <2> QED
    BY <1>1, <1>4, <1>8, <2>1, <2>2
<1> QED
  BY <1>16, <1>18, <1>19, <1>20

-----------------------------------------------------------------------------
(* What a row is shown as, step by step.                                   *)

\* Rows are only added.
LEMMA PostsGrow ==
  ASSUME Typed, ViewNext, NEW i \in DOMAIN posts
  PROVE  posts'[i] = posts[i]
<1>1. posts \in Seq(Rows)
  BY DEF Typed
<1>2. posts' = posts \/ \E p : posts' = Append(posts, p)
  BY DEF ViewNext, OpenClass, CloseClass, OverrideEntry, TickView, PostFrom, TurnedAway
<1>3. ASSUME NEW p, posts' = Append(posts, p) PROVE posts'[i] = posts[i]
  BY <1>1, <1>3
<1> QED
  BY <1>2, <1>3

\* Events are only added, each in its own second.
LEMMA EventsGrow ==
  ASSUME VInv, ViewNext, NEW d \in Class
  PROVE  /\ Range(happened[d]) \subseteq Range(happened'[d])
         /\ \A e \in Range(happened'[d]) \ Range(happened[d]) : e.at = now
<1>1. /\ now \in Nat /\ open \in Seq(Class) /\ entry \in [Class -> EntryRecords]
      /\ happened \in [Class -> Seq(Happenings)] /\ posts \in Seq(Rows)
  BY DEF VInv, Typed
<1>2. CASE UNCHANGED happened
  BY <1>2
<1>3. ASSUME NEW note, NEW c, TurnedAway(note, c)
      PROVE  happened' = happened
  BY <1>3 DEF TurnedAway
<1>4. ASSUME NEW known \in BOOLEAN, NEW confident \in BOOLEAN, NEW lag \in Lag,
             PostFrom(known, confident, lag),
             open # <<>>, known
      PROVE  /\ Range(happened[d]) \subseteq Range(happened'[d])
             /\ \A e \in Range(happened'[d]) \ Range(happened[d]) : e.at = now
  <2>3. PICK c \in Class :
          \/ happened' = happened
          \/ \E st : happened' = [happened EXCEPT ![c] =
                            Append(@, [from |-> entry[c].state, to |-> st, at |-> now])]
    <3>1. Receiving \in Class
      BY <1>1, <1>4 DEF Receiving
    <3> QED
      BY <1>4, <3>1 DEF PostFrom
  <2>4. CASE happened' = happened
    BY <2>4
  <2>5. ASSUME NEW st, happened' = [happened EXCEPT ![c] =
                            Append(@, [from |-> entry[c].state, to |-> st, at |-> now])]
        PROVE  /\ Range(happened[d]) \subseteq Range(happened'[d])
               /\ \A e \in Range(happened'[d]) \ Range(happened[d]) : e.at = now
    <3>1. PICK e : e = [from |-> entry[c].state, to |-> st, at |-> now]
      OBVIOUS
    <3>2. happened'[c] = Append(happened[c], e) /\ (d # c => happened'[d] = happened[d])
      BY <1>1, <2>5, <3>1
    <3>3. happened[c] \in Seq(Happenings)
      BY <1>1
    <3>4. Range(Append(happened[c], e)) = Range(happened[c]) \cup {e}
      <4>1. /\ DOMAIN happened[c] = 1 .. Len(happened[c]) /\ Len(happened[c]) \in Nat
            /\ DOMAIN Append(happened[c], e) = 1 .. (Len(happened[c]) + 1)
            /\ \A i \in 1 .. Len(happened[c]) : Append(happened[c], e)[i] = happened[c][i]
            /\ Append(happened[c], e)[Len(happened[c]) + 1] = e
        BY <3>3
      <4> QED
        BY <4>1 DEF Range
    <3>5. e.at = now
      BY <3>1
    <3>6. CASE d = c
      BY <3>2, <3>4, <3>5, <3>6
    <3>7. CASE d # c
      BY <3>2, <3>7
    <3> QED
      BY <3>6, <3>7
  <2> QED
    BY <2>3, <2>4, <2>5
<1>5. ASSUME NEW known \in BOOLEAN, NEW confident \in BOOLEAN, NEW lag \in Lag,
             PostFrom(known, confident, lag)
      PROVE  /\ Range(happened[d]) \subseteq Range(happened'[d])
             /\ \A e \in Range(happened'[d]) \ Range(happened[d]) : e.at = now
  <2>1. CASE open = <<>>
    <3>1. TurnedAway("no_active_lecture_in_classroom", 0)
      BY <1>5, <2>1 DEF PostFrom
    <3> QED
      BY <1>3, <3>1
  <2>2. CASE open # <<>> /\ ~known
    <3>1. TurnedAway("unknown_identity", Receiving)
      BY <1>5, <2>2 DEF PostFrom
    <3> QED
      BY <1>3, <3>1
  <2>3. CASE open # <<>> /\ known
    BY <1>4, <1>5, <2>3
  <2> QED
    BY <2>1, <2>2, <2>3
<1> QED
  BY <1>2, <1>5 DEF ViewNext, OpenClass, CloseClass, OverrideEntry, TickView

LEMMA RowsSettleStep ==
  ASSUME VInv, [ViewNext]_viewVars, NEW i \in DOMAIN posts,
         ShownAs(posts[i])' # ShownAs(posts[i])
  PROVE  ShownAs(posts[i]) = "suppressed" /\ now <= posts[i].at + After
<1> DEFINE p == posts[i]
<1>1. CASE UNCHANGED viewVars
  BY <1>1 DEF viewVars, ShownAs, Matched
<1>2. CASE ViewNext
  <2>1. p \in Rows /\ posts'[i] = p
    BY <1>2, PostsGrow, EntryTyped DEF VInv, Typed
  <2>2. p.note = "none" /\ p.class \in Class
    BY <2>1 DEF ShownAs, Matched, Rows
  <2>3. /\ Range(happened[p.class]) \subseteq Range(happened'[p.class])
        /\ \A e \in Range(happened'[p.class]) \ Range(happened[p.class]) : e.at = now
    BY <1>2, <2>2, EventsGrow
  <2>4. Matched(p) # (p.class # 0 /\ \E e \in Range(happened'[p.class]) :
                        p.at - Before <= e.at /\ e.at <= p.at + After)
    BY <2>1, <2>2 DEF ShownAs, Matched
  <2>5. ~Matched(p) /\ \E e \in Range(happened'[p.class]) \ Range(happened[p.class]) :
                         e.at <= p.at + After
    BY <2>3, <2>4 DEF Matched
  <2> QED
    BY <2>2, <2>3, <2>5 DEF ShownAs
<1> QED
  BY <1>1, <1>2

\* The endpoints show of a recognition what the engine decided on it, or err
\* on the stated side and within the window (visibility_queries.py:35-64,
\* 163-216; serializers.py:64-80), for every number of posts and lectures.
THEOREM ViewShowsDecisions == ViewSpec => ShownAsDecided
<1>1. VInv => ViewTypeOK /\ AcceptedShown /\ ShownAcceptedNear /\ ProgressExplains
  BY ViewTyped, AcceptedAreShown, ShownAreNear, ProgressIsExplained
<1>2. VInv /\ [ViewNext]_viewVars =>
        [\A i \in DOMAIN posts :
           ShownAs(posts[i])' # ShownAs(posts[i]) =>
             ShownAs(posts[i]) = "suppressed" /\ now <= posts[i].at + After]_viewVars
  BY RowsSettleStep
<1> QED
  BY <1>1, <1>2, ViewInvariance, PTL DEF ViewSpec, ShownAsDecided, RowsSettle

(***************************************************************************)
(* SweepStudy, for every number of sessions, rows and tags: what a study   *)
(* tabulates and recommends is about the sessions it names.  The reason is *)
(* in the reports: wherever one is kept, it counts rows its session still  *)
(* has, because logs only grow (Honest), and so does what the tool at work *)
(* has read of a log that grows meanwhile (CopiesOK); and no tag changes   *)
(* while a sweep goes on, as the tools run one after another.              *)
(***************************************************************************)
StudySpec == StudyInit /\ [][StudyNext]_studyVars

Bins(items) == \A x \in items : x.lo_m \in Nat /\ x.hi_m = x.lo_m + 1

\* A report that could be made of the rows its session had once.
Honest(r, log) ==
  /\ DOMAIN r = {"session_id", "rows", "protocol", "per_bin", "keys",
                 "offload_trigger_rate", "agreement_rate"}
  /\ r.session_id \in Directory /\ r.rows \in 0 .. Len(log[r.session_id])
  /\ Bins(r.per_bin) /\ r.keys \in {BuiltKeys, SortedKeys}
  /\ \E n \in 1 .. r.rows : r.offload_trigger_rate = OffloadRate(SubSeq(log[r.session_id], 1, n))

Sequence(s) == \E T : s \in Seq(T)

\* The first pass's reports are of sessions with a log, and with their tags.
Listed(reports) ==
  /\ Sequence(reports)
  /\ \A i \in DOMAIN reports :
       /\ Honest(reports[i], capture) /\ CanBuild(reports[i].session_id)
       /\ reports[i].protocol = load_protocol(reports[i].session_id)

\* A row of the table beside the report of the first pass.
RowFits(row, report) ==
  /\ row.session_id = report.session_id
  /\ \A l \in DOMAIN row.comparison_value :
       row.comparison_value[l].lo_m = IF row.keys = BuiltKeys THEN l ELSE l - 1
  /\ \/ row.sweep_value = get_path(report, dimension)
     \/ InStore(row.session_id) /\ stored[row.session_id].protocol # protocol[row.session_id]

\* The second pass has come so far.
Tabulated(reports, table, todo) ==
  /\ Sequence(table) /\ Len(table) <= Len(reports)
  /\ todo = SubSeq(Analysed(reports), Len(table) + 1, Len(reports))
  /\ \A i \in 1 .. Len(table) : RowFits(table[i], reports[i])

ToolOK ==
  \/ tool = AtPrompt
  \/ \E s \in Directory : \E tag :
       tool = [at |-> "tagging", session |-> s, tag |-> tag] /\ tag \notin {NoFile, Torn}
  \/ \E s \in Directory : tool = [at |-> "reading", session |-> s] /\ CanBuild(s)
  \/ \E at \in {"opening", "writing"}, s \in Directory : \E r :
       /\ tool = [at |-> at, session |-> s, report |-> r]
       /\ Honest(r, capture) /\ r.session_id = s
  \/ \E todo \in Seq(Directory) : \E reports :
       /\ tool = [at |-> "analysing", todo |-> todo, per_session |-> reports, table |-> <<>>]
       /\ Listed(reports)
  \/ \E at \in {"tabulating", "wrote"} : \E todo, reports, table :
       /\ tool = [at |-> at, todo |-> todo, per_session |-> reports, table |-> table]
       /\ Listed(reports) /\ Tabulated(reports, table, todo)
       /\ at = "wrote" => todo = <<>>
  \/ \E todo \in Seq(Directory) : \E reports :
       /\ tool = [at |-> "advising", todo |-> todo, reports |-> reports]
       /\ \A r \in reports : Honest(r, capture)
  \/ \E r :
       /\ tool = [at |-> "advised", session |-> r]
       /\ r # NoFile => Honest(r, capture) /\ UnderCeiling(r.offload_trigger_rate)

\* What was read of a log is what the log began with.
Began(rows, log) == \E n \in 1 .. Len(log) : rows = SubSeq(log, 1, n)

CopiesOK ==
  /\ copies # <<>> => Building # {}
  /\ Sequence(copies)
  /\ \A s \in Building : \A i \in DOMAIN copies : Began(copies[i], capture[s])

StudyInv ==
  /\ dimension \in Preset
  /\ capture \in [Directory -> Seq(Measured)]
  /\ protocol = [s \in Directory |-> protocol[s]] /\ stored = [s \in Directory |-> stored[s]]
  /\ \A s \in Directory : protocol[s] # Torn
  /\ \A s \in Directory : InStore(s) => Honest(stored[s], capture) /\ stored[s].session_id = s
  /\ ToolOK
  /\ CopiesOK

-----------------------------------------------------------------------------
(* Reports.                                                                *)

LEMMA FirstRows ==
  ASSUME NEW T, NEW s \in Seq(T)
  PROVE  /\ SubSeq(s, 1, Len(s)) = s
         /\ \A x \in T : \A n \in 0 .. Len(s) : SubSeq(Append(s, x), 1, n) = SubSeq(s, 1, n)
<1>1. SubSeq(s, 1, Len(s)) = s
  OBVIOUS
<1>2. ASSUME NEW x \in T, NEW n \in 0 .. Len(s)
      PROVE  SubSeq(Append(s, x), 1, n) = SubSeq(s, 1, n)
  <2>1. Append(s, x) \in Seq(T) /\ Len(Append(s, x)) = Len(s) + 1
        /\ \A i \in 1 .. Len(s) : Append(s, x)[i] = s[i]
    OBVIOUS
  <2>2. /\ SubSeq(Append(s, x), 1, n) = [i \in 1 .. n |-> Append(s, x)[i]]
        /\ SubSeq(s, 1, n) = [i \in 1 .. n |-> s[i]]
    BY <2>1
  <2>3. \A i \in 1 .. n : Append(s, x)[i] = s[i]
    BY <2>1
  <2> QED
    BY <2>2, <2>3
<1> QED
  BY <1>1, <1>2

LEMMA ElementIs ==
  ASSUME NEW rows, NEW b
  PROVE  Element(rows, b).lo_m = b /\ Element(rows, b).hi_m = b + 1
BY DEF Element

LEMMA BinsOfRows ==
  ASSUME NEW rows \in Seq(Measured)
  PROVE  Bins(distance_vs_confidence(rows))
<1> SUFFICES ASSUME NEW x \in distance_vs_confidence(rows)
             PROVE  x.lo_m \in Nat /\ x.hi_m = x.lo_m + 1
  BY DEF Bins
<1>1. PICK i \in DOMAIN rows : x = Element(rows, rows[i].bin)
  BY DEF distance_vs_confidence
<1>2. rows[i] \in Measured
  OBVIOUS
<1>3. rows[i].bin \in Nat
  BY <1>2, StudyAssumption
<1> QED
  BY <1>1, <1>3, ElementIs

LEMMA AtPromptAt == AtPrompt.at = "prompt"
BY DEF AtPrompt

\* Of one session at a time a report is made, and it has a log.
LEMMA OneAtATime ==
  ASSUME StudyInv
  PROVE  /\ \A s \in Building : s \in Directory /\ CanBuild(s)
         /\ \A s, d \in Building : s = d
<1>1. tool.at \in {"analysing", "tabulating", "advising"} => Turn \subseteq Directory
  <2> SUFFICES ASSUME tool.at \in {"analysing", "tabulating", "advising"}
               PROVE  Turn \subseteq Directory
    OBVIOUS
  <2>1. CASE tool.at \in {"analysing", "advising"}
    <3>1. tool.todo \in Seq(Directory)
      BY <2>1, AtPromptAt DEF StudyInv, ToolOK
    <3> QED
      BY <3>1 DEF Turn
  <2>2. CASE tool.at = "tabulating"
    <3>1. PICK todo, reports, table :
            /\ tool = [at |-> "tabulating", todo |-> todo, per_session |-> reports, table |-> table]
            /\ Listed(reports) /\ Tabulated(reports, table, todo)
      BY <2>2, AtPromptAt DEF StudyInv, ToolOK
    <3> DEFINE ids == Analysed(reports)
    <3>2. PICK T : reports \in Seq(T)
      BY <3>1 DEF Listed, Sequence
    <3>3. Len(reports) \in Nat /\ DOMAIN reports = 1 .. Len(reports)
      BY <3>2
    <3>4. \A i \in 1 .. Len(reports) : reports[i].session_id \in Directory
      BY <3>1, <3>3 DEF Listed, Honest
    <3>5. ids \in Seq(Directory) /\ Len(ids) = Len(reports)
      BY <3>3, <3>4 DEF Analysed
    <3> HIDE DEF ids
    <3>6. Len(table) \in Nat
      BY <3>1 DEF Tabulated, Sequence
    <3>7. todo = SubSeq(ids, Len(table) + 1, Len(ids))
      BY <3>1, <3>5 DEF Tabulated, ids
    <3>8. todo \in Seq(Directory)
      BY <3>5, <3>6, <3>7
    <3> QED
      BY <3>1, <3>8 DEF Turn
  <2> QED
    BY <2>1, <2>2
<1>2. tool.at = "reading" => tool.session \in Directory /\ CanBuild(tool.session)
  BY AtPromptAt DEF StudyInv, ToolOK
<1>3. \A s, d \in Turn : s = d
  BY DEF Turn
<1>4. \A s \in Building : s \in Directory /\ CanBuild(s)
  BY <1>1, <1>2 DEF Building, Loadable
<1>5. \A s, d \in Building : s = d
  BY <1>3 DEF Building
<1> QED
  BY <1>4, <1>5

\* A new report.
LEMMA Built ==
  ASSUME StudyInv, NEW s \in Building, AllRead
  PROVE  LET r == build_report(s)
         IN  /\ Honest(r, capture) /\ r.session_id = s /\ r.protocol = load_protocol(s)
             /\ r.keys = BuiltKeys
<1> DEFINE r == build_report(s)
           p == distance_vs_confidence(copies[2])
           o == OffloadRate(copies[1])
           a == AgreementRate(copies[1])
           t == load_protocol(s)
<1>1. r = [session_id |-> s, rows |-> Len(capture[s]), protocol |-> t, per_bin |-> p,
           keys |-> BuiltKeys, offload_trigger_rate |-> o, agreement_rate |-> a]
  BY DEF build_report
<1>2. s \in Directory /\ capture[s] \in Seq(Measured) /\ Len(capture[s]) \in Nat
  BY OneAtATime DEF StudyInv
<1>3. Began(copies[1], capture[s]) /\ Began(copies[2], capture[s])
  <2>1. Len(copies) = 2 /\ Sequence(copies)
    BY DEF AllRead, StudyInv, CopiesOK
  <2>2. 1 \in DOMAIN copies /\ 2 \in DOMAIN copies
    BY <2>1 DEF Sequence
  <2> QED
    BY <2>2 DEF StudyInv, CopiesOK
<1>4. copies[2] \in Seq(Measured)
  BY <1>2, <1>3 DEF Began
<1>5. Bins(p)
  BY <1>4, BinsOfRows
<1>6. \E n \in 1 .. Len(capture[s]) : o = OffloadRate(SubSeq(capture[s], 1, n))
  BY <1>3 DEF Began
<1> HIDE DEF p, o, a, t
<1>7. /\ DOMAIN r = {"session_id", "rows", "protocol", "per_bin", "keys",
                     "offload_trigger_rate", "agreement_rate"}
      /\ r.session_id = s /\ r.rows = Len(capture[s]) /\ r.protocol = t /\ r.per_bin = p
      /\ r.keys = BuiltKeys /\ r.offload_trigger_rate = o
  BY <1>1
<1> HIDE DEF r
<1>8. Honest(r, capture)
  BY <1>2, <1>5, <1>6, <1>7 DEF Honest
<1> QED
  BY <1>7, <1>8 DEF r, t

\* A log that grows begins as before.
LEMMA StillBegins ==
  ASSUME NEW log \in Seq(Measured), NEW x \in Measured, NEW rows, Began(rows, log)
  PROVE  Began(rows, Append(log, x))
<1>1. PICK n \in 1 .. Len(log) : rows = SubSeq(log, 1, n)
  BY DEF Began
<1>2. rows = SubSeq(Append(log, x), 1, n) /\ n \in 1 .. Len(Append(log, x))
  BY <1>1, FirstRows
<1> QED
  BY <1>2 DEF Began

\* Logs only grow.
LEMMA StaysHonest ==
  ASSUME StudyInv, NEW s \in Directory, NEW x \in Measured,
         capture' = [capture EXCEPT ![s] = Append(@, x)], NEW r, Honest(r, capture)
  PROVE  Honest(r, capture')
<1> DEFINE d == r.session_id
<1>1. d \in Directory /\ capture[d] \in Seq(Measured) /\ Len(capture[d]) \in Nat
      /\ r.rows \in 0 .. Len(capture[d])
  BY DEF Honest, StudyInv
<1>2. CASE d # s
  <2>1. capture'[d] = capture[d]
    BY <1>1, <1>2 DEF StudyInv
  <2> QED
    BY <2>1 DEF Honest
<1>3. CASE d = s
  <2>1. capture'[d] = Append(capture[d], x)
    BY <1>1, <1>3 DEF StudyInv
  <2>2. Len(capture'[d]) = Len(capture[d]) + 1
    BY <1>1, <2>1
  <2>3. \A n \in 1 .. r.rows : SubSeq(capture'[d], 1, n) = SubSeq(capture[d], 1, n)
    BY <1>1, <2>1, FirstRows
  <2>4. r.rows \in 0 .. Len(capture'[d])
    BY <1>1, <2>2
  <2> QED
    BY <1>1, <2>3, <2>4 DEF Honest
<1> QED
  BY <1>2, <1>3

\* A report in a file has its keys sorted.
LEMMA Sorted ==
  ASSUME NEW r, NEW log, Honest(r, log)
  PROVE  LET q == [r EXCEPT !.keys = SortedKeys]
         IN  Honest(q, log) /\ q.session_id = r.session_id
<1> DEFINE q == [r EXCEPT !.keys = SortedKeys]
<1>1. /\ DOMAIN q = DOMAIN r /\ q.session_id = r.session_id /\ q.rows = r.rows
      /\ q.per_bin = r.per_bin /\ q.keys = SortedKeys
      /\ q.offload_trigger_rate = r.offload_trigger_rate
  BY DEF Honest
<1> HIDE DEF q
<1>2. Honest(q, log)
  BY <1>1 DEF Honest
<1> QED
  BY <1>1, <1>2 DEF q

-----------------------------------------------------------------------------
(* Rows.                                                                   *)

LEMMA Labels == LabelKey(BuiltKeys) = "lo_m" /\ LabelKey(SortedKeys) = "hi_m" /\ BuiltKeys # SortedKeys
<1>1. ASSUME NEW keys, DOMAIN keys = 1 .. 5, keys[1] # "sim_mean"
      PROVE  LabelKey(keys) = keys[1]
  <2> DEFINE First(i) == i \in DOMAIN keys /\ keys[i] # "sim_mean"
                           /\ \A j \in 1 .. i - 1 : keys[j] = "sim_mean"
  <2>1. First(1)
    BY <1>1
  <2>2. ASSUME NEW i, First(i) PROVE i = 1
    <3>1. i \in 1 .. 5
      BY <1>1, <2>2
    <3>2. CASE i > 1
      <4>1. 1 \in 1 .. i - 1
        BY <3>1, <3>2
      <4> QED
        BY <1>1, <2>2, <4>1
    <3> QED
      BY <3>1, <3>2
  <2>3. (CHOOSE i \in DOMAIN keys : keys[i] # "sim_mean" /\ \A j \in 1 .. i - 1 : keys[j] = "sim_mean") = 1
    BY <2>1, <2>2
  <2> QED
    BY <2>3 DEF LabelKey
<1>2. DOMAIN BuiltKeys = 1 .. 5 /\ BuiltKeys[1] = "lo_m"
  BY DEF BuiltKeys
<1>3. DOMAIN SortedKeys = 1 .. 5 /\ SortedKeys[1] = "hi_m"
  BY DEF SortedKeys
<1> QED
  BY <1>1, <1>2, <1>3

\* The columns of an honest report.
LEMMA RowIs ==
  ASSUME NEW r, Honest(r, capture)
  PROVE  LET row == RowOf(r)
         IN  /\ row.session_id = r.session_id /\ row.sweep_value = get_path(r, dimension)
             /\ row.keys = r.keys
             /\ \A l \in DOMAIN row.comparison_value :
                  row.comparison_value[l].lo_m = IF row.keys = BuiltKeys THEN l ELSE l - 1
<1> DEFINE v == resolve_metric_path(r)
           g == get_path(r, dimension)
           row == RowOf(r)
<1>1. row = [session_id |-> r.session_id, rows |-> r.rows, keys |-> r.keys, sweep_value |-> g,
             comparison_value |-> v]
  BY DEF RowOf
<1> DEFINE key == LabelKey(r.keys)
<1>2. v = [l \in {item[key] : item \in r.per_bin} |-> CHOOSE item \in r.per_bin : item[key] = l]
  BY DEF resolve_metric_path
<1>3. key = (IF r.keys = BuiltKeys THEN "lo_m" ELSE "hi_m")
  BY Labels DEF Honest
<1>4. ASSUME NEW l \in DOMAIN v
      PROVE  v[l].lo_m = IF r.keys = BuiltKeys THEN l ELSE l - 1
  <2> HIDE DEF key, v
  <2>1. \E item \in r.per_bin : item[key] = l
    BY <1>2, <1>4
  <2>2. v[l] \in r.per_bin /\ v[l][key] = l
    BY <1>2, <1>4, <2>1
  <2>3. v[l].lo_m \in Nat /\ v[l].hi_m = v[l].lo_m + 1
    BY <2>2 DEF Honest, Bins
  <2> QED
    BY <1>3, <2>2, <2>3
<1> HIDE DEF v, g
<1>5. row.session_id = r.session_id /\ row.keys = r.keys /\ row.sweep_value = g
      /\ row.comparison_value = v
  BY <1>1
<1> HIDE DEF row
<1> QED
  BY <1>4, <1>5 DEF row, g

-----------------------------------------------------------------------------
(* Steps.                                                                  *)

LEMMA StudyStart == StudyInit => StudyInv
<1> SUFFICES ASSUME StudyInit PROVE StudyInv
  OBVIOUS
<1>1. <<>> \in Seq(Measured)
  OBVIOUS
<1>2. capture \in [Directory -> Seq(Measured)]
  BY <1>1 DEF StudyInit
<1>3. \A s \in Directory : protocol[s] # Torn /\ ~InStore(s)
  BY StudyAssumption DEF StudyInit, InStore
<1>4. protocol = [s \in Directory |-> protocol[s]] /\ stored = [s \in Directory |-> stored[s]]
  BY DEF StudyInit
<1>5. CopiesOK
  BY <<>> \in Seq({}), AtPromptAt DEF StudyInit, CopiesOK, Sequence
<1> QED
  BY <1>2, <1>3, <1>4, <1>5 DEF StudyInit, StudyInv, ToolOK

\* A row is logged while some tool may be at work.
LEMMA MeasureStep ==
  ASSUME StudyInv, NEW s \in Directory, NEW x \in Measured, Measure(s, x)
  PROVE  StudyInv'
<1>1. capture' = [capture EXCEPT ![s] = Append(@, x)]
      /\ UNCHANGED <<dimension, protocol, stored, tags, tool, copies>>
  BY DEF Measure
<1>2. capture' \in [Directory -> Seq(Measured)]
  BY <1>1 DEF StudyInv
<1>3. \A r : Honest(r, capture) => Honest(r, capture')
  BY <1>1, StaysHonest
<1>4. \A d \in Directory : CanBuild(d) => CanBuild(d)'
  <2> SUFFICES ASSUME NEW d \in Directory, capture[d] # <<>> PROVE capture'[d] # <<>>
    BY DEF CanBuild
  <2>1. capture[d] \in Seq(Measured)
    BY DEF StudyInv
  <2>2. CASE d = s
    <3>1. capture'[d] = Append(capture[d], x)
      BY <1>1, <2>2 DEF StudyInv
    <3> QED
      BY <2>1, <3>1
  <2>3. CASE d # s
    BY <1>1, <2>3 DEF StudyInv
  <2> QED
    BY <2>2, <2>3
<1>5. ASSUME NEW reports, Listed(reports) PROVE Listed(reports)'
  <2>1. \A i \in DOMAIN reports : reports[i].session_id \in Directory
    BY <1>5 DEF Listed, Honest
  <2> QED
    BY <1>1, <1>3, <1>4, <1>5, <2>1 DEF Listed, load_protocol
<1>6. ASSUME NEW reports, NEW table, NEW todo, Tabulated(reports, table, todo)
      PROVE  Tabulated(reports, table, todo)'
  BY <1>1, <1>6 DEF Tabulated, RowFits, Analysed, get_path, InStore
<1>7. ToolOK'
  <2>1. CASE tool = AtPrompt
    BY <1>1, <2>1 DEF ToolOK, AtPrompt
  <2>2. ASSUME NEW d \in Directory, NEW tag,
               tool = [at |-> "tagging", session |-> d, tag |-> tag], tag \notin {NoFile, Torn}
        PROVE  ToolOK'
    BY <1>1, <2>2 DEF ToolOK
  <2>3. ASSUME NEW at \in {"opening", "writing"}, NEW d \in Directory, NEW r,
               tool = [at |-> at, session |-> d, report |-> r], Honest(r, capture), r.session_id = d
        PROVE  ToolOK'
    BY <1>1, <1>3, <2>3 DEF ToolOK
  <2>4. ASSUME NEW todo \in Seq(Directory), NEW reports, Listed(reports),
               tool = [at |-> "analysing", todo |-> todo, per_session |-> reports, table |-> <<>>]
        PROVE  ToolOK'
    BY <1>1, <1>5, <2>4 DEF ToolOK
  <2>5. ASSUME NEW at \in {"tabulating", "wrote"}, NEW todo, NEW reports, NEW table,
               tool = [at |-> at, todo |-> todo, per_session |-> reports, table |-> table],
               Listed(reports), Tabulated(reports, table, todo), at = "wrote" => todo = <<>>
        PROVE  ToolOK'
    BY <1>1, <1>5, <1>6, <2>5 DEF ToolOK
  <2>6. ASSUME NEW r, tool = [at |-> "advised", session |-> r],
               r # NoFile => Honest(r, capture) /\ UnderCeiling(r.offload_trigger_rate)
        PROVE  ToolOK'
    BY <1>1, <1>3, <2>6 DEF ToolOK
  <2>7. ASSUME NEW d \in Directory, tool = [at |-> "reading", session |-> d], CanBuild(d)
        PROVE  ToolOK'
    BY <1>1, <1>4, <2>7 DEF ToolOK
  <2>8. ASSUME NEW todo \in Seq(Directory), NEW reports,
               tool = [at |-> "advising", todo |-> todo, reports |-> reports],
               \A r \in reports : Honest(r, capture)
        PROVE  ToolOK'
    BY <1>1, <1>3, <2>8 DEF ToolOK
  <2> QED
    BY <2>1, <2>2, <2>3, <2>4, <2>5, <2>6, <2>7, <2>8 DEF StudyInv, ToolOK
<1>8. \A d \in Directory : InStore(d)' = InStore(d)
  BY <1>1 DEF InStore
<1>9. CopiesOK'
  <2>1. \A d \in Building : d \in Building'
    <3> SUFFICES ASSUME NEW d \in Building PROVE d \in Building'
      OBVIOUS
    <3>1. d \in Directory /\ CanBuild(d)' /\ Turn' = Turn
      BY <1>1, <1>4, OneAtATime DEF Turn
    <3> QED
      BY <1>1, <3>1 DEF Building, InStore, Loadable
  <2>2. CASE copies = <<>>
    BY <1>1, <2>2 DEF StudyInv, CopiesOK
  <2>3. CASE copies # <<>>
    <3>1. PICK d \in Building : d \in Directory
      BY <2>3, OneAtATime DEF StudyInv, CopiesOK
    <3>2. \A b \in Building' : b = d
      BY <1>1, <2>1, <3>1 DEF Building, Turn
    <3>3. \A i \in DOMAIN copies : Began(copies[i], capture'[d])
      <4>1. capture'[d] = capture[d] \/ capture'[d] = Append(capture[d], x)
        BY <1>1, <3>1 DEF StudyInv
      <4>2. capture[d] \in Seq(Measured) /\ \A i \in DOMAIN copies : Began(copies[i], capture[d])
        BY <3>1 DEF StudyInv, CopiesOK
      <4> QED
        BY <4>1, <4>2, StillBegins
    <3> QED
      BY <1>1, <2>1, <3>1, <3>2, <3>3 DEF StudyInv, CopiesOK
  <2> QED
    BY <2>2, <2>3
<1> QED
  BY <1>1, <1>2, <1>3, <1>7, <1>8, <1>9 DEF StudyInv

\* A step of a tool that leaves the files alone.
LEMMA QuietStep ==
  ASSUME StudyInv, UNCHANGED <<dimension, capture, protocol, stored>>, ToolOK',
         copies' = <<>> \/ (UNCHANGED copies /\ Building = {})
  PROVE  StudyInv'
<1>1. copies' = <<>>
  BY DEF StudyInv, CopiesOK
<1>2. CopiesOK'
  BY <1>1, <<>> \in Seq({}) DEF CopiesOK, Sequence
<1> QED
  BY <1>2 DEF StudyInv, InStore

\* One more read.
LEMMA ReadStep ==
  ASSUME StudyInv, ReadLog
  PROVE  StudyInv'
<1>1. PICK s \in Building : copies' = Append(copies, capture[s])
  BY DEF ReadLog
<1>2. UNCHANGED <<dimension, capture, protocol, stored, tool>>
  BY DEF ReadLog
<1>3. s \in Directory /\ CanBuild(s) /\ \A d \in Building : d = s
  BY OneAtATime
<1>4. Began(capture[s], capture[s])
  <2>1. capture[s] \in Seq(Measured) /\ capture[s] # <<>>
    BY <1>3 DEF StudyInv, CanBuild
  <2>2. Len(capture[s]) \in 1 .. Len(capture[s]) /\ capture[s] = SubSeq(capture[s], 1, Len(capture[s]))
    BY <2>1, FirstRows
  <2> QED
    BY <2>2 DEF Began
<1>5. PICK T : copies \in Seq(T)
  BY DEF StudyInv, CopiesOK, Sequence
<1>6. /\ copies' \in Seq(T \cup {capture[s]}) /\ DOMAIN copies' = 1 .. Len(copies) + 1
      /\ DOMAIN copies = 1 .. Len(copies) /\ Len(copies) \in Nat
      /\ \A i \in 1 .. Len(copies) : copies'[i] = copies[i]
      /\ copies'[Len(copies) + 1] = capture[s]
  <2> DEFINE U == T \cup {capture[s]}
             c == capture[s]
  <2>1. copies \in Seq(U) /\ c \in U /\ copies' = Append(copies, c)
    BY <1>1, <1>5
  <2> HIDE DEF U, c
  <2>2. /\ copies' \in Seq(U) /\ DOMAIN copies' = 1 .. Len(copies) + 1
        /\ DOMAIN copies = 1 .. Len(copies) /\ Len(copies) \in Nat
        /\ \A i \in 1 .. Len(copies) : copies'[i] = copies[i]
        /\ copies'[Len(copies) + 1] = c
    BY <2>1
  <2> QED
    BY <2>2 DEF U, c
<1>7. Building' = Building
  BY <1>2 DEF Building, Turn, InStore, Loadable, CanBuild
<1>8. \A i \in DOMAIN copies' : Began(copies'[i], capture[s])
  <2> SUFFICES ASSUME NEW i \in DOMAIN copies' PROVE Began(copies'[i], capture[s])
    OBVIOUS
  <2>1. CASE i = Len(copies) + 1
    BY <1>4, <1>6, <2>1
  <2>2. CASE i \in 1 .. Len(copies)
    BY <1>6, <2>2 DEF StudyInv, CopiesOK
  <2> QED
    BY <1>6, <2>1, <2>2
<1>9. CopiesOK'
  BY <1>2, <1>3, <1>6, <1>7, <1>8 DEF CopiesOK, Sequence
<1>10. ToolOK'
  <2>1. \A reports : Listed(reports) => Listed(reports)'
    BY <1>2 DEF Listed, CanBuild, load_protocol
  <2>2. \A a, b, c : Tabulated(a, b, c) => Tabulated(a, b, c)'
    BY <1>2 DEF Tabulated, RowFits, InStore, get_path, Analysed
  <2> QED
    BY <1>2, <2>1, <2>2 DEF StudyInv, ToolOK, AtPrompt, CanBuild
<1> QED
  BY <1>2, <1>9, <1>10 DEF StudyInv, InStore

LEMMA TagStep ==
  ASSUME StudyInv, write_protocol
  PROVE  StudyInv'
<1>1. PICK s \in Directory : \E tag :
        tool = [at |-> "tagging", session |-> s, tag |-> tag] /\ tag \notin {NoFile, Torn}
  BY AtPromptAt DEF write_protocol, StudyInv, ToolOK
<1>2. PICK tag : tool = [at |-> "tagging", session |-> s, tag |-> tag] /\ tag \notin {NoFile, Torn}
  BY <1>1
<1>3. protocol' = [protocol EXCEPT ![s] = tag] /\ tool' = AtPrompt
      /\ UNCHANGED <<dimension, capture, stored, copies>>
  BY <1>2 DEF write_protocol
<1>4. protocol' = [d \in Directory |-> protocol'[d]] /\ \A d \in Directory : protocol'[d] # Torn
  BY <1>2, <1>3 DEF StudyInv
<1>5. ToolOK'
  BY <1>3 DEF ToolOK, AtPrompt
<1>6. Building = {} /\ copies' = <<>>
  BY <1>2, <1>3 DEF Building, StudyInv, CopiesOK
<1>7. CopiesOK'
  BY <1>6, <<>> \in Seq({}) DEF CopiesOK, Sequence
<1> QED
  BY <1>3, <1>4, <1>5, <1>7 DEF StudyInv, InStore

LEMMA ReportStep ==
  ASSUME StudyInv, (\E s \in Directory : Analyse(s)) \/ BuildReport \/ OpenReport \/ WriteReport
  PROVE  StudyInv'
<1>0. tool.at \in {"prompt", "opening", "writing"} => Building = {} /\ copies = <<>>
  BY DEF Building, StudyInv, CopiesOK
<1>1. ASSUME NEW s \in Directory, Analyse(s) PROVE StudyInv'
  <2>1. /\ tool' = [at |-> "reading", session |-> s] /\ CanBuild(s) /\ tool.at = "prompt"
        /\ UNCHANGED <<dimension, capture, protocol, stored, copies>>
    BY <1>1, AtPromptAt DEF Analyse
  <2>2. ToolOK'
    BY <2>1 DEF ToolOK, CanBuild
  <2> QED
    BY <1>0, <2>1, <2>2, QuietStep
<1>5. CASE BuildReport
  <2>1. PICK s \in Directory : tool = [at |-> "reading", session |-> s] /\ CanBuild(s)
    BY <1>5, AtPromptAt DEF BuildReport, StudyInv, ToolOK
  <2>2. s \in Building /\ AllRead
    BY <1>5, <2>1 DEF Building, BuildReport
  <2> DEFINE r == build_report(s)
  <2>3. Honest(r, capture) /\ r.session_id = s
    BY <2>2, Built
  <2>4. /\ tool' = [at |-> "opening", session |-> s, report |-> r] /\ copies' = <<>>
        /\ UNCHANGED <<dimension, capture, protocol, stored>>
    BY <1>5, <2>1 DEF BuildReport
  <2> HIDE DEF r
  <2>5. ToolOK'
    BY <2>3, <2>4 DEF ToolOK
  <2> QED
    BY <2>4, <2>5, QuietStep
<1>2. ASSUME tool.at \in {"opening", "writing"}
      PROVE  \E s \in Directory : \E r :
               /\ tool = [at |-> tool.at, session |-> s, report |-> r]
               /\ Honest(r, capture) /\ r.session_id = s
  BY <1>2, AtPromptAt DEF StudyInv, ToolOK
<1>3. CASE OpenReport
  <2>1. tool.at = "opening"
    BY <1>3 DEF OpenReport
  <2>2. PICK s \in Directory : \E r : /\ tool = [at |-> tool.at, session |-> s, report |-> r]
                                      /\ Honest(r, capture) /\ r.session_id = s
    BY <1>2, <2>1
  <2>3. PICK r : /\ tool = [at |-> "opening", session |-> s, report |-> r]
                 /\ Honest(r, capture) /\ r.session_id = s
    BY <2>1, <2>2
  <2>4. stored' = [stored EXCEPT ![s] = Torn] /\ UNCHANGED <<dimension, capture, protocol, copies>>
        /\ tool' = [at |-> "writing", session |-> s, report |-> r]
    BY <1>3, <2>3 DEF OpenReport
  <2>5. ToolOK'
    BY <2>3, <2>4 DEF ToolOK
  <2>6. \A d \in Directory : stored'[d] = IF d = s THEN Torn ELSE stored[d]
    BY <2>4 DEF StudyInv
  <2>7. \A d \in Directory : InStore(d)' => InStore(d) /\ stored'[d] = stored[d]
    BY <2>6 DEF InStore
  <2>8. stored' = [d \in Directory |-> stored'[d]]
    BY <2>4 DEF StudyInv
  <2>9. CopiesOK'
    BY <1>0, <2>1, <2>4, <<>> \in Seq({}) DEF CopiesOK, Sequence
  <2> QED
    BY <2>4, <2>5, <2>7, <2>8, <2>9 DEF StudyInv
<1>4. CASE WriteReport
  <2>1. tool.at = "writing"
    BY <1>4 DEF WriteReport
  <2>2. PICK s \in Directory : \E r : /\ tool = [at |-> tool.at, session |-> s, report |-> r]
                                      /\ Honest(r, capture) /\ r.session_id = s
    BY <1>2, <2>1
  <2>3. PICK r : /\ tool = [at |-> "writing", session |-> s, report |-> r]
                 /\ Honest(r, capture) /\ r.session_id = s
    BY <2>1, <2>2
  <2> DEFINE q == [r EXCEPT !.keys = SortedKeys]
  <2>4. stored' = [stored EXCEPT ![s] = q] /\ UNCHANGED <<dimension, capture, protocol, copies>>
        /\ tool' = AtPrompt
    BY <1>4, <2>3 DEF WriteReport
  <2>5. Honest(q, capture) /\ q.session_id = s
    BY <2>3, Sorted
  <2> HIDE DEF q
  <2>6. ToolOK'
    BY <2>4 DEF ToolOK, AtPrompt
  <2>7. \A d \in Directory : stored'[d] = IF d = s THEN q ELSE stored[d]
    BY <2>4 DEF StudyInv
  <2>8. \A d \in Directory : InStore(d)' => d = s \/ (InStore(d) /\ stored'[d] = stored[d])
    BY <2>7 DEF InStore
  <2>9. stored' = [d \in Directory |-> stored'[d]]
    BY <2>4 DEF StudyInv
  <2>10. CopiesOK'
    BY <1>0, <2>1, <2>4, <<>> \in Seq({}) DEF CopiesOK, Sequence
  <2> QED
    BY <2>4, <2>5, <2>6, <2>7, <2>8, <2>9, <2>10 DEF StudyInv
<1> QED
  BY <1>1, <1>3, <1>4, <1>5

\* The session ids of some reports, in order.
LEMMA AnalysedIs ==
  ASSUME NEW reports, Listed(reports)
  PROVE  /\ Len(reports) \in Nat /\ DOMAIN reports = 1 .. Len(reports)
         /\ Analysed(reports) \in Seq(Directory) /\ Len(Analysed(reports)) = Len(reports)
         /\ \A i \in 1 .. Len(reports) : Analysed(reports)[i] = reports[i].session_id
<1>1. PICK T : reports \in Seq(T)
  BY DEF Listed, Sequence
<1>2. Len(reports) \in Nat /\ DOMAIN reports = 1 .. Len(reports)
  BY <1>1
<1>3. \A i \in 1 .. Len(reports) : reports[i].session_id \in Directory
  BY <1>2 DEF Listed, Honest
<1>4. Analysed(reports) = [i \in 1 .. Len(reports) |-> reports[i].session_id]
  BY <1>2 DEF Analysed
<1>5. Analysed(reports) \in Seq(Directory)
  BY <1>2, <1>3, <1>4
<1>6. Len(Analysed(reports)) = Len(reports)
  BY <1>2, <1>4
<1> QED
  BY <1>2, <1>4, <1>5, <1>6

LEMMA SweepStarts ==
  ASSUME StudyInv, StartSweep([i \in Directory |-> i])
  PROVE  StudyInv'
<1> DEFINE todo == [i \in Directory |-> i]
<1>1. todo \in Seq(Directory)
  BY StudyAssumption DEF Directory
<1> HIDE DEF todo
<1>2. tool' = [at |-> "analysing", todo |-> todo, per_session |-> <<>>, table |-> <<>>]
      /\ UNCHANGED <<dimension, capture, protocol, stored, copies>> /\ tool.at = "prompt"
  BY AtPromptAt DEF StartSweep, todo
<1>3. Listed(<<>>)'
  <2>1. <<>> \in Seq({}) /\ \A i \in DOMAIN <<>> : FALSE
    OBVIOUS
  <2> QED
    BY <2>1 DEF Listed, Sequence
<1>4. ToolOK'
  BY <1>1, <1>2, <1>3 DEF ToolOK
<1>5. Building = {}
  BY <1>2 DEF Building
<1> QED
  BY <1>2, <1>4, <1>5, QuietStep

LEMMA AnalyseStep ==
  ASSUME StudyInv, AnalyseNext
  PROVE  StudyInv'
<1>1. /\ tool.at = "analysing" /\ AllRead /\ copies' = <<>>
      /\ UNCHANGED <<dimension, capture, protocol, stored>>
  BY DEF AnalyseNext
<1>2. PICK todo \in Seq(Directory) : \E reports :
        /\ tool = [at |-> "analysing", todo |-> todo, per_session |-> reports, table |-> <<>>]
        /\ Listed(reports)
  BY <1>1, AtPromptAt DEF StudyInv, ToolOK
<1>3. PICK reports :
        /\ tool = [at |-> "analysing", todo |-> todo, per_session |-> reports, table |-> <<>>]
        /\ Listed(reports)
  BY <1>2
<1>4. ASSUME NEW x, Listed(x) PROVE Listed(x)'
  BY <1>1, <1>4 DEF Listed, CanBuild, load_protocol
<1>5. CASE todo = <<>>
  <2> DEFINE ids == Analysed(reports)
  <2>1. tool' = [at |-> "tabulating", todo |-> ids, per_session |-> reports, table |-> <<>>]
    BY <1>3, <1>5 DEF AnalyseNext
  <2>2. Len(reports) \in Nat /\ ids \in Seq(Directory) /\ Len(ids) = Len(reports)
    BY <1>3, AnalysedIs
  <2>3. SubSeq(ids, 1, Len(ids)) = ids
    BY <2>2, FirstRows
  <2>4. Sequence(<<>>) /\ Len(<<>>) = 0
    BY <<>> \in Seq({}) DEF Sequence
  <2>5. Tabulated(reports, <<>>, ids)'
    <3>1. Tabulated(reports, <<>>, ids)
      BY <2>2, <2>3, <2>4 DEF Tabulated
    <3> QED
      BY <1>1, <3>1 DEF Tabulated, RowFits, InStore, get_path, Analysed
  <2> HIDE DEF ids
  <2>6. ToolOK'
    BY <1>3, <1>4, <2>1, <2>5 DEF ToolOK
  <2> QED
    BY <1>1, <2>6, QuietStep
<1>6. CASE todo # <<>>
  <2>1. Head(todo) \in Directory /\ Tail(todo) \in Seq(Directory)
    BY <1>6
  <2> DEFINE s == Head(todo)
             r == build_report(s)
             rest == Tail(todo)
  <2>2. CanBuild(s) => Honest(r, capture) /\ r.session_id = s /\ r.protocol = load_protocol(s)
    <3>1. s \in Turn
      BY <1>3, <1>6 DEF Turn
    <3>2. CanBuild(s) => s \in Building
      BY <1>1, <3>1 DEF Building
    <3> QED
      BY <1>1, <3>2, Built
  <2>3. tool' = [at |-> "analysing", todo |-> rest, table |-> <<>>,
                 per_session |-> IF CanBuild(s) THEN Append(reports, r) ELSE reports]
    BY <1>3, <1>6 DEF AnalyseNext
  <2> HIDE DEF r, rest
  <2>4. CASE CanBuild(s)
    <3>1. PICK T : reports \in Seq(T)
      BY <1>3 DEF Listed, Sequence
    <3> DEFINE U == T \cup {r}
               longer == Append(reports, r)
    <3>2. reports \in Seq(U) /\ r \in U
      BY <3>1
    <3> HIDE DEF U
    <3>3. longer \in Seq(U) /\ DOMAIN longer = 1 .. Len(reports) + 1
          /\ DOMAIN reports = 1 .. Len(reports) /\ Len(reports) \in Nat
          /\ longer[Len(reports) + 1] = r
          /\ \A i \in 1 .. Len(reports) : longer[i] = reports[i]
      BY <3>2
    <3> HIDE DEF longer
    <3>4. ASSUME NEW i \in DOMAIN longer
          PROVE  /\ Honest(longer[i], capture) /\ CanBuild(longer[i].session_id)
                 /\ longer[i].protocol = load_protocol(longer[i].session_id)
      <4>1. CASE i \in 1 .. Len(reports)
        BY <1>3, <3>3, <4>1 DEF Listed
      <4>2. CASE i = Len(reports) + 1
        BY <2>2, <2>4, <3>3, <4>2
      <4> QED
        BY <3>3, <4>1, <4>2
    <3>5. Listed(longer)
      BY <3>3, <3>4 DEF Listed, Sequence
    <3>6. tool' = [at |-> "analysing", todo |-> rest, per_session |-> longer, table |-> <<>>]
      BY <2>3, <2>4 DEF longer
    <3>7. ToolOK'
      BY <1>4, <2>1, <3>5, <3>6 DEF ToolOK, rest
    <3> QED
      BY <1>1, <3>7, QuietStep
  <2>5. CASE ~CanBuild(s)
    <3>1. tool' = [at |-> "analysing", todo |-> rest, per_session |-> reports, table |-> <<>>]
      BY <2>3, <2>5
    <3>2. ToolOK'
      BY <1>3, <1>4, <2>1, <3>1 DEF ToolOK, rest
    <3> QED
      BY <1>1, <3>2, QuietStep
  <2> QED
    BY <2>4, <2>5
<1> QED
  BY <1>5, <1>6

\* The row of a session that was analysed.
LEMMA RowsFit ==
  ASSUME StudyInv, NEW report, Honest(report, capture), CanBuild(report.session_id),
         report.protocol = load_protocol(report.session_id),
         InStore(report.session_id) \/ (report.session_id \in Building /\ AllRead)
  PROVE  /\ HasReport(report.session_id)
         /\ RowFits(RowOf(load_report(report.session_id)), report)
<1> DEFINE s == report.session_id
           r == load_report(s)
           row == RowOf(r)
<1>1. s \in Directory
  BY DEF Honest
<1>2. HasReport(s)
  BY DEF HasReport
<1>3. CASE InStore(s)
  <2>1. r = stored[s]
    BY <1>3 DEF load_report
  <2>2. Honest(r, capture) /\ r.session_id = s
    BY <1>1, <1>3, <2>1 DEF StudyInv
  <2>3. /\ row.session_id = s /\ row.sweep_value = get_path(r, dimension)
        /\ \A l \in DOMAIN row.comparison_value :
             row.comparison_value[l].lo_m = IF row.keys = BuiltKeys THEN l ELSE l - 1
    BY <2>2, RowIs
  <2>4. protocol[s] = load_protocol(s)
    BY <1>1 DEF StudyInv, load_protocol
  <2>5. r.protocol = protocol[s] => get_path(r, dimension) = get_path(report, dimension)
    BY <2>4 DEF get_path
  <2> HIDE DEF row
  <2> QED
    BY <1>2, <1>3, <2>1, <2>3, <2>5 DEF RowFits, row
<1>4. CASE ~InStore(s)
  <2>1. r = build_report(s)
    BY <1>4 DEF load_report
  <2>2. Honest(r, capture) /\ r.session_id = s /\ r.protocol = load_protocol(s)
    BY <1>4, <2>1, Built
  <2>3. /\ row.session_id = s /\ row.sweep_value = get_path(r, dimension)
        /\ \A l \in DOMAIN row.comparison_value :
             row.comparison_value[l].lo_m = IF row.keys = BuiltKeys THEN l ELSE l - 1
    BY <2>2, RowIs
  <2>4. get_path(r, dimension) = get_path(report, dimension)
    BY <2>2 DEF get_path
  <2> HIDE DEF row
  <2> QED
    BY <1>2, <2>3, <2>4 DEF RowFits, row
<1> QED
  BY <1>3, <1>4

\* What is left of a sequence, and its first.
LEMMA Onward ==
  ASSUME NEW T, NEW s \in Seq(T), NEW n \in Nat, n < Len(s)
  PROVE  LET t == SubSeq(s, n + 1, Len(s))
         IN  t # <<>> /\ Head(t) = s[n + 1] /\ Tail(t) = SubSeq(s, n + 2, Len(s))
<1> DEFINE m == Len(s)
           t == SubSeq(s, n + 1, m)
           k == m - n
<1>0. m \in Nat /\ k \in Nat /\ k >= 1 /\ k = m - n
  OBVIOUS
<1>1. \A i \in 1 .. k : s[n + i] \in T
  BY <1>0
<1>2. t = [i \in 1 .. k |-> s[n + i]]
  <2>1. t = [i \in 1 .. (m - (n + 1)) + 1 |-> s[(i + (n + 1)) - 1]]
    BY <1>0
  <2>2. (m - (n + 1)) + 1 = k /\ \A i \in 1 .. k : (i + (n + 1)) - 1 = n + i
    BY <1>0
  <2> HIDE DEF m, k, t
  <2> QED
    BY <2>1, <2>2
<1>3. SubSeq(s, n + 2, m) = [i \in 1 .. k - 1 |-> s[(n + 1) + i]]
  <2>1. SubSeq(s, n + 2, m) = [i \in 1 .. (m - (n + 2)) + 1 |-> s[(i + (n + 2)) - 1]]
    BY <1>0
  <2>2. (m - (n + 2)) + 1 = k - 1 /\ \A i \in 1 .. k - 1 : (i + (n + 2)) - 1 = (n + 1) + i
    BY <1>0
  <2> HIDE DEF m, k
  <2> QED
    BY <2>1, <2>2
<1> HIDE DEF t, k
<1>4. t \in Seq(T)
  BY <1>0, <1>1, <1>2
<1>5. Len(t) = k
  BY <1>0, <1>2, <1>4
<1>6. t # <<>> /\ Head(t) = s[n + 1]
  <2>1. t # <<>> /\ Head(t) = t[1]
    BY <1>0, <1>4, <1>5
  <2>2. t[1] = s[n + 1]
    BY <1>0, <1>2
  <2> QED
    BY <2>1, <2>2
<1>7. Tail(t) = [i \in 1 .. k - 1 |-> t[i + 1]]
  <2>1. Tail(t) \in Seq(T)
    BY <1>4, <1>6
  <2>2. Len(Tail(t)) = k - 1
    BY <1>4, <1>5, <1>6
  <2>3. \A i \in 1 .. k - 1 : Tail(t)[i] = t[i + 1]
    BY <1>4, <1>5, <1>6
  <2> DEFINE u == Tail(t)
  <2>4. u = [i \in 1 .. k - 1 |-> u[i]]
    <3>1. u \in Seq(T) /\ Len(u) = k - 1
      BY <2>1, <2>2
    <3> HIDE DEF u
    <3> QED
      BY <3>1
  <2> QED
    BY <2>3, <2>4
<1>8. \A i \in 1 .. k - 1 : t[i + 1] = s[(n + 1) + i]
  BY <1>0, <1>2
<1> HIDE DEF m
<1>9. Tail(t) = SubSeq(s, n + 2, m)
  BY <1>3, <1>7, <1>8
<1> QED
  BY <1>6, <1>9 DEF t, m

LEMMA TabulateStep ==
  ASSUME StudyInv, TabulateNext \/ WritePayload
  PROVE  StudyInv'
<1>1. tool.at = "tabulating" /\ UNCHANGED <<dimension, capture, protocol, stored>>
  BY DEF TabulateNext, WritePayload
<1>2. PICK todo, reports, table :
        /\ tool = [at |-> "tabulating", todo |-> todo, per_session |-> reports, table |-> table]
        /\ Listed(reports) /\ Tabulated(reports, table, todo)
  BY <1>1, AtPromptAt DEF StudyInv, ToolOK
<1>3. ASSUME NEW x, Listed(x) PROVE Listed(x)'
  BY <1>1, <1>3 DEF Listed, CanBuild, load_protocol
<1>4. ASSUME NEW a, NEW b, NEW c, Tabulated(a, b, c) PROVE Tabulated(a, b, c)'
  BY <1>1, <1>4 DEF Tabulated, RowFits, InStore, get_path, Analysed
<1>5. CASE WritePayload
  <2>1. /\ todo = <<>> /\ tool' = [at |-> "wrote", todo |-> todo, per_session |-> reports, table |-> table]
        /\ UNCHANGED copies
    BY <1>2, <1>5 DEF WritePayload
  <2>3. Building = {}
    BY <1>1, <1>2, <2>1 DEF Building, Turn
  <2>2. ToolOK'
    BY <1>2, <1>3, <1>4, <2>1 DEF ToolOK
  <2> QED
    BY <1>1, <2>1, <2>2, <2>3, QuietStep
<1>6. CASE TabulateNext
  <2> DEFINE ids == Analysed(reports)
             n == Len(table)
             m == Len(reports)
  <2>1. /\ m \in Nat /\ ids \in Seq(Directory) /\ Len(ids) = m /\ DOMAIN reports = 1 .. m
        /\ \A i \in 1 .. m : ids[i] = reports[i].session_id
    BY <1>2, AnalysedIs
  <2>2. PICK T : table \in Seq(T)
    BY <1>2 DEF Tabulated, Sequence
  <2>3. n \in Nat /\ n <= m /\ todo = SubSeq(ids, n + 1, m) /\ todo # <<>>
    BY <1>2, <1>6, <2>2 DEF Tabulated, TabulateNext
  <2> HIDE DEF ids, m
  <2>4. n < m
    <3>1. n = m => SubSeq(ids, n + 1, m) = <<>>
      BY <2>1, <2>3
    <3> QED
      BY <2>1, <2>3, <3>1
  <2>5. n + 1 \in 1 .. m /\ Head(todo) = ids[n + 1] /\ Tail(todo) = SubSeq(ids, n + 2, m)
    BY <2>1, <2>3, <2>4, Onward
  <2> DEFINE report == reports[n + 1]
             s == report.session_id
             row == RowOf(load_report(s))
  <2>6. s = Head(todo)
    BY <2>1, <2>5
  <2>7. HasReport(s) /\ RowFits(row, report)
    <3>1. Honest(report, capture) /\ CanBuild(s) /\ report.protocol = load_protocol(s)
      BY <1>2, <2>1, <2>5 DEF Listed
    <3>2. s \in Turn
      <4>1. tool.todo = todo /\ todo \in Seq(Directory) /\ todo # <<>>
        BY <1>2, <2>1, <2>3
      <4> QED
        BY <2>6, <4>1 DEF Turn
    <3>3. InStore(s) \/ (s \in Building /\ AllRead)
      BY <1>1, <1>6, <3>1, <3>2 DEF Building, TabulateNext
    <3> QED
      BY <3>1, <3>3, RowsFit
  <2> DEFINE longer == Append(table, row)
             rest == Tail(todo)
  <2>8. tool' = [at |-> "tabulating", todo |-> rest, per_session |-> reports, table |-> longer]
    BY <1>2, <1>6, <2>6, <2>7 DEF TabulateNext
  <2> HIDE DEF row
  <2>9. PICK U : table \in Seq(U) /\ row \in U
    <3>1. table \in Seq(T \cup {row})
      BY <2>2
    <3> QED
      BY <3>1
  <2>10. longer \in Seq(U) /\ Len(longer) = n + 1 /\ longer[n + 1] = row
         /\ \A i \in 1 .. n : longer[i] = table[i]
    BY <2>9
  <2> HIDE DEF longer, rest
  <2>11. \A i \in 1 .. n + 1 : RowFits(longer[i], reports[i])
    <3> SUFFICES ASSUME NEW i \in 1 .. n + 1 PROVE RowFits(longer[i], reports[i])
      OBVIOUS
    <3>1. CASE i \in 1 .. n
      BY <1>2, <2>10, <3>1 DEF Tabulated
    <3>2. CASE i = n + 1
      BY <2>7, <2>10, <3>2
    <3> QED
      BY <2>3, <3>1, <3>2
  <2>12. Tabulated(reports, longer, rest)
    <3>1. (n + 1) + 1 = n + 2 /\ n + 1 <= m
      BY <2>1, <2>3, <2>4
    <3>2. rest = SubSeq(ids, Len(longer) + 1, m)
      BY <2>5, <2>10, <3>1 DEF rest
    <3>3. Sequence(longer)
      BY <2>10 DEF Sequence
    <3>4. \A i \in 1 .. Len(longer) : RowFits(longer[i], reports[i])
      BY <2>10, <2>11
    <3>5. Len(longer) <= m
      BY <2>10, <3>1
    <3> QED
      BY <3>2, <3>3, <3>4, <3>5 DEF Tabulated, ids, m
  <2>13. ToolOK'
    BY <1>2, <1>3, <1>4, <2>8, <2>12 DEF ToolOK
  <2>14. copies' = <<>>
    BY <1>6 DEF TabulateNext
  <2> QED
    BY <1>1, <2>13, <2>14, QuietStep
<1> QED
  BY <1>5, <1>6

\* Numbers have a least one.
LEMMA LeastNumber ==
  ASSUME NEW S \in SUBSET Nat, S # {}
  PROVE  \E n \in S : \A m \in S : n <= m
<1> DEFINE R == OpToRel(<, Nat)
<1>1. IsWellFoundedOn(R, Nat)
  BY NatLessThanWellFounded
<1> HIDE DEF R
<1>2. PICK n \in S : \A m \in S : ~(<<m, n>> \in R)
  BY <1>1, WFMin
<1>3. ASSUME NEW m \in S PROVE n <= m
  <2>1. m < n => <<m, n>> \in R
    BY DEF R, OpToRel
  <2> QED
    BY <1>2, <2>1
<1> QED
  BY <1>3

\* What is recommended is one of the reports, under the ceiling.
LEMMA Recommended ==
  ASSUME NEW reports, \A x \in reports : Honest(x, capture),
         NEW r, r = recommend_routing_policy(reports), r # NoFile
  PROVE  r \in reports /\ UnderCeiling(r.offload_trigger_rate)
<1> DEFINE eligible == {x \in reports : UnderCeiling(x.offload_trigger_rate)}
           best == {x \in eligible : \A q \in eligible : ~ MoreAgreed(q, x)}
           First(x) == x \in best /\ \A q \in best : x.session_id <= q.session_id
<1>1. r = IF best = {} THEN NoFile ELSE CHOOSE x \in best : \A q \in best : x.session_id <= q.session_id
  BY DEF recommend_routing_policy
<1>2. best \subseteq eligible
  OBVIOUS
<1> HIDE DEF best
<1>3. CASE best # {}
  <2> DEFINE ids == {x.session_id : x \in best}
  <2>1. ids \subseteq Nat /\ ids # {}
    <3>1. \A x \in best : x.session_id \in Directory
      BY <1>2 DEF Honest
    <3>2. Directory \subseteq Nat
      BY StudyAssumption DEF Directory
    <3> QED
      BY <1>3, <3>1, <3>2
  <2>2. PICK least \in ids : \A n \in ids : least <= n
    BY <2>1, LeastNumber
  <2>3. PICK x \in best : x.session_id = least
    BY <2>2
  <2>4. First(x)
    BY <2>2, <2>3
  <2>5. r \in best
    BY <1>1, <1>3, <2>4
  <2> QED
    BY <1>2, <2>5
<1> QED
  BY <1>1, <1>3

LEMMA AdviceStep ==
  ASSUME StudyInv, StartAdvice([i \in Directory |-> i]) \/ Recommend
  PROVE  StudyInv'
<1>1. CASE StartAdvice([i \in Directory |-> i])
  <2> DEFINE todo == [i \in Directory |-> i]
  <2>1. todo \in Seq(Directory)
    BY StudyAssumption DEF Directory
  <2> HIDE DEF todo
  <2>2. /\ tool' = [at |-> "advising", todo |-> todo, reports |-> {}] /\ tool.at = "prompt"
        /\ UNCHANGED <<dimension, capture, protocol, stored, copies>>
    BY <1>1, AtPromptAt DEF StartAdvice, todo
  <2>3. ToolOK'
    <3>1. \A r \in {} : Honest(r, capture')
      OBVIOUS
    <3>2. \E q \in Seq(Directory) : \E reports :
            /\ tool' = [at |-> "advising", todo |-> q, reports |-> reports]
            /\ \A r \in reports : Honest(r, capture')
      <4>1. todo \in Seq(Directory)
        BY <2>1
      <4> WITNESS todo \in Seq(Directory)
      <4> WITNESS {}
      <4> QED
        BY <2>2, <3>1
    <3> QED
      BY <3>2 DEF ToolOK
  <2>4. Building = {}
    BY <2>2 DEF Building
  <2> QED
    BY <2>2, <2>3, <2>4, QuietStep
<1>2. CASE Recommend
  <2>1. /\ tool.at = "advising" /\ AllRead /\ copies' = <<>>
        /\ UNCHANGED <<dimension, capture, protocol, stored>>
    BY <1>2 DEF Recommend
  <2>2. PICK todo \in Seq(Directory) : \E reports :
          /\ tool = [at |-> "advising", todo |-> todo, reports |-> reports]
          /\ \A x \in reports : Honest(x, capture)
    BY <2>1, AtPromptAt DEF StudyInv, ToolOK
  <2>3. PICK reports :
          /\ tool = [at |-> "advising", todo |-> todo, reports |-> reports]
          /\ \A x \in reports : Honest(x, capture)
    BY <2>2
  <2>4. CASE todo = <<>>
    <3> DEFINE r == recommend_routing_policy(reports)
    <3>1. tool' = [at |-> "advised", session |-> r]
      BY <1>2, <2>3, <2>4 DEF Recommend
    <3>2. r # NoFile => Honest(r, capture) /\ UnderCeiling(r.offload_trigger_rate)
      BY <2>3, Recommended
    <3> HIDE DEF r
    <3>3. ToolOK'
      BY <2>1, <3>1, <3>2 DEF ToolOK
    <3> QED
      BY <2>1, <3>3, QuietStep
  <2>5. CASE todo # <<>>
    <3> DEFINE more == reports \cup {load_report(s) : s \in {d \in Turn : Loadable(d)}}
               rest == Tail(todo)
    <3>1. tool' = [at |-> "advising", todo |-> rest, reports |-> more]
      BY <1>2, <2>3, <2>5 DEF Recommend
    <3>2. ASSUME NEW s \in Turn, Loadable(s) PROVE Honest(load_report(s), capture)
      <4>1. s \in Directory
        BY <2>3 DEF Turn
      <4>2. CASE InStore(s)
        BY <4>1, <4>2 DEF StudyInv, load_report
      <4>3. CASE ~InStore(s)
        <5>1. s \in Building
          BY <2>1, <3>2, <4>3 DEF Building
        <5> QED
          BY <2>1, <4>3, <5>1, Built DEF load_report
      <4> QED
        BY <4>2, <4>3
    <3>3. \A x \in more : Honest(x, capture)
      BY <2>3, <3>2
    <3>4. rest \in Seq(Directory)
      BY <2>5
    <3> HIDE DEF more, rest
    <3>5. ToolOK'
      BY <2>1, <3>1, <3>3, <3>4 DEF ToolOK
    <3> QED
      BY <2>1, <3>5, QuietStep
  <2> QED
    BY <2>4, <2>5
<1> QED
  BY <1>1, <1>2

-----------------------------------------------------------------------------
LEMMA StudyStep ==
  ASSUME StudyInv, [StudyNext]_studyVars
  PROVE  StudyInv'
<1>1. ASSUME NEW s \in Directory, NEW v \in SweepValue, NEW allow \in BOOLEAN, TagSession(s, v, allow)
      PROVE  StudyInv'
  <2> DEFINE tag == plan_runs(dimension, v).protocol
  <2>1. tag \notin {NoFile, Torn}
    BY StudyAssumption DEF StudyInv
  <2>2. tool' = [at |-> "tagging", session |-> s, tag |-> tag]
        /\ UNCHANGED <<dimension, capture, protocol, stored, copies>> /\ tool.at = "prompt"
    BY <1>1, AtPromptAt DEF TagSession
  <2> HIDE DEF tag
  <2>3. ToolOK'
    BY <2>1, <2>2 DEF ToolOK
  <2>4. Building = {}
    BY <2>2 DEF Building
  <2> QED
    BY <2>2, <2>3, <2>4, QuietStep
<1>2. CASE EndTool
  <2>1. ToolOK'
    BY <1>2 DEF EndTool, ToolOK, AtPrompt
  <2> QED
    BY <1>2, <2>1, QuietStep DEF EndTool
<1>3. CASE UNCHANGED studyVars
  <2>1. UNCHANGED <<dimension, capture, protocol, stored, tool, copies>>
    BY <1>3 DEF studyVars
  <2>2. \A reports : Listed(reports) => Listed(reports)'
    BY <2>1 DEF Listed, CanBuild, load_protocol
  <2>3. \A a, b, c : Tabulated(a, b, c) => Tabulated(a, b, c)'
    BY <2>1 DEF Tabulated, RowFits, InStore, get_path, Analysed
  <2>4. ToolOK'
    BY <2>1, <2>2, <2>3 DEF StudyInv, ToolOK, AtPrompt, CanBuild
  <2>5. Building' = Building
    BY <2>1 DEF Building, Turn, InStore, Loadable, CanBuild
  <2>6. CopiesOK'
    BY <2>1, <2>5 DEF StudyInv, CopiesOK, Sequence
  <2> QED
    BY <2>1, <2>4, <2>6 DEF StudyInv, InStore
<1> QED
  BY <1>1, <1>2, <1>3, MeasureStep, ReadStep, TagStep, ReportStep, SweepStarts, AnalyseStep, TabulateStep,
     AdviceStep DEF StudyNext

LEMMA StudyTells ==
  ASSUME StudyInv
  PROVE  EverySessionTabled /\ TableFollowsTags /\ OneBinPerLabel /\ UnderTheCeiling
<1>1. ASSUME tool.at = "wrote"
      PROVE  \E reports, table :
               /\ tool.per_session = reports /\ tool.table = table
               /\ Listed(reports) /\ Sequence(table) /\ Len(table) = Len(reports)
               /\ \A i \in 1 .. Len(table) : RowFits(table[i], reports[i])
  <2>1. PICK todo, reports, table :
          /\ tool = [at |-> "wrote", todo |-> todo, per_session |-> reports, table |-> table]
          /\ Listed(reports) /\ Tabulated(reports, table, todo) /\ todo = <<>>
    BY <1>1, AtPromptAt DEF StudyInv, ToolOK
  <2> DEFINE ids == Analysed(reports)
  <2>2. Len(reports) \in Nat /\ ids \in Seq(Directory) /\ Len(ids) = Len(reports)
    BY <2>1, AnalysedIs
  <2> HIDE DEF ids
  <2>3. Len(table) \in Nat /\ Len(table) <= Len(reports)
        /\ SubSeq(ids, Len(table) + 1, Len(reports)) = <<>>
    BY <2>1 DEF Tabulated, Sequence, ids
  <2>4. Len(table) = Len(reports)
    BY <2>2, <2>3, Onward
  <2> QED
    BY <2>1, <2>4 DEF Tabulated
<1>2. EverySessionTabled /\ TableFollowsTags /\ OneBinPerLabel
  <2> SUFFICES ASSUME tool.at = "wrote" PROVE EverySessionTabled /\ TableFollowsTags /\ OneBinPerLabel
    BY DEF EverySessionTabled, TableFollowsTags, OneBinPerLabel
  <2>1. PICK reports, table :
          /\ tool.per_session = reports /\ tool.table = table
          /\ Listed(reports) /\ Sequence(table) /\ Len(table) = Len(reports)
          /\ \A i \in 1 .. Len(table) : RowFits(table[i], reports[i])
    BY <1>1
  <2>2. DOMAIN table = 1 .. Len(reports) /\ DOMAIN reports = 1 .. Len(reports)
    BY <2>1, AnalysedIs DEF Sequence
  <2>3. EverySessionTabled
    BY <2>1, <2>2 DEF EverySessionTabled, Analysed, RowFits
  <2>4. TableFollowsTags
    BY <2>1, <2>2 DEF TableFollowsTags, RowFits
  <2>5. OneBinPerLabel
    BY <2>1, <2>2 DEF OneBinPerLabel, RowFits
  <2> QED
    BY <2>3, <2>4, <2>5
<1>3. UnderTheCeiling
  <2> SUFFICES ASSUME tool.at = "advised", tool.session # NoFile PROVE UnderTheCeiling
    BY DEF UnderTheCeiling
  <2>1. Honest(tool.session, capture) /\ UnderCeiling(tool.session.offload_trigger_rate)
    BY AtPromptAt DEF StudyInv, ToolOK
  <2> QED
    BY <2>1 DEF UnderTheCeiling, Honest
<1> QED
  BY <1>2, <1>3

LEMMA TagsStay ==
  ASSUME StudyInv, [StudyNext]_studyVars, NEW s \in Directory, load_protocol(s) # NoFile
  PROVE  load_protocol(s)' # NoFile
<1>1. CASE UNCHANGED protocol
  BY <1>1 DEF load_protocol
<1>2. CASE write_protocol
  <2>1. PICK d \in Directory : \E tag :
          tool = [at |-> "tagging", session |-> d, tag |-> tag] /\ tag \notin {NoFile, Torn}
    BY <1>2, AtPromptAt DEF write_protocol, StudyInv, ToolOK
  <2>2. PICK tag : tool = [at |-> "tagging", session |-> d, tag |-> tag] /\ tag \notin {NoFile, Torn}
    BY <2>1
  <2>3. protocol' = [protocol EXCEPT ![d] = tag]
    BY <1>2, <2>2 DEF write_protocol
  <2>4. protocol'[s] = tag \/ protocol'[s] = protocol[s]
    BY <2>3 DEF StudyInv
  <2> QED
    BY <2>2, <2>4 DEF load_protocol
<1> QED
  BY <1>1, <1>2 DEF StudyNext, Measure, TagSession, Analyse, ReadLog, BuildReport, OpenReport, WriteReport,
     StartSweep, AnalyseNext, TabulateNext, WritePayload, StartAdvice, Recommend, EndTool, studyVars

\* Whatever is captured, tagged and analysed between and under a study's tools,
\* its table has a row for each session it names, under that session's tag and
\* with one bin per label, and what it recommends was under the ceiling.
THEOREM StudiesAreSound == StudySpec => StudyFollowsSessions
<1>1. StudyInv /\ [StudyNext]_studyVars =>
        [\A s \in Directory : load_protocol(s) # NoFile => load_protocol(s)' # NoFile]_studyVars
  BY TagsStay
<1> QED
  BY <1>1, StudyStart, StudyStep, StudyTells, PTL DEF StudySpec, StudyFollowsSessions, TagKept

-----------------------------------------------------------------------------
(***************************************************************************)
(* DashboardPage, for every set of lectures and polls, every number of     *)
(* calls that overlap, and every order of clicks, failures and changes     *)
(* made elsewhere.                                                         *)
(*                                                                         *)
(* Each property is about what calls under way carry.  An entry that says  *)
(* open is of a lecture that was opened (OpenedSaid), which holds from     *)
(* then on; a fetch under way has, of every lecture that rested so far,    *)
(* its classroom (CallFits); evidence in hand is of the lecture whose      *)
(* records are (PageFits).                                                 *)
(***************************************************************************)
PageBehaviour == PageInit /\ [][PageNext]_pageVars

Shown == Lecture \cup {NoLecture}

PageRecord == [cards : Seq(Entry), selected : Shown, visible : BOOLEAN, presence : BOOLEAN,
               records : Shown, evidence : Shown, shown : Shown]

CallRecord ==
  [pc : {"idle", "overview", "presence", "ready", "detail", "create", "start", "close",
         "finalize", "finalized"},
   op : {"none", "start", "finalize", "create"},
   lecture : Shown, todo : SUBSET Query, got : [Query -> Seq(Entry)], entries : Seq(Entry),
   moved : SUBSET Lecture, detail : Shown, evidence : BOOLEAN]

\* A lecture that has been opened, whatever became of it.
WasOpened(l, st) == st[l] \notin {"none", "scheduled"}

OpenedSaid(es, st) == \A i \in DOMAIN es : es[i].status = "open" => WasOpened(es[i].lecture, st)

\* No two entries are of one classroom.
RoomsDiffer(es, r) == \A i, j \in DOMAIN es : r[es[i].lecture] = r[es[j].lecture] => i = j

\* There is an entry of a lecture's classroom, and an open one if it is open.
Listing(es, l, st, r) ==
  \E e \in ToSet(es) : r[e.lecture] = r[l] /\ (st[l] = "open" => e.status = "open")

\* The classrooms of the lectures at rest that a query was about.
Answering(es, q, resting, st, r) ==
  /\ \A i \in DOMAIN es : es[i].status = q
  /\ \A l \in resting : st[l] = q => \E i \in DOMAIN es : r[es[i].lecture] = r[l]

CallFits(c, st, r) ==
  /\ c \in CallRecord
  /\ c.lecture = NoLecture <=> c.op = "none"
  /\ c.pc \in {"create", "start", "close", "finalize", "finalized"} => c.lecture \in Lecture
  /\ c.op = "start" /\ c.pc # "start" => WasOpened(c.lecture, st)
  /\ OpenedSaid(c.entries, st) /\ \A q \in Query : OpenedSaid(c.got[q], st)
  /\ c.pc = "overview" =>
       \A q \in Query \ c.todo : Answering(c.got[q], q, Lecture \ c.moved, st, r)
  /\ c.pc \in {"presence", "ready"} =>
       /\ RoomsDiffer(c.entries, r)
       /\ \A l \in Lecture \ c.moved : st[l] \in Query => Listing(c.entries, l, st, r)

PageFits(p, st, r) ==
  /\ p \in PageRecord
  /\ OpenedSaid(p.cards, st) /\ RoomsDiffer(p.cards, r)
  /\ p.evidence \in {NoLecture, p.records}
  /\ p.shown # NoLecture =>
       p.records = p.shown /\ (p.selected = p.shown \/ (p.selected = NoLecture /\ ~p.visible))
  /\ p.visible => p.selected # NoLecture /\ WasOpened(p.selected, st)

\* The open lectures, each once.
StartsFit(ss, st) ==
  /\ ss \in Seq(Lecture)
  /\ \A i, j \in DOMAIN ss : ss[i] = ss[j] => i = j
  /\ ToSet(ss) = {l \in Lecture : st[l] = "open"}

ServerFits == status \in [Lecture -> Status] /\ StartsFit(starts, status)

CallsFit ==
  /\ task \in [Task -> CallRecord]
  /\ \A t \in Task : CallFits(task[t], status, room)

ModalFits == modal = NoModal \/ (modal \in Entry /\ modal.status \in {"open", "closed"})

PageInv == ServerFits /\ CallsFit /\ PageFits(page, status, room) /\ ModalFits

-----------------------------------------------------------------------------
(* Lists with one entry of each classroom.                                 *)

\* Induction, of a set.
LEMMA NumberByNumber ==
  ASSUME NEW S, 0 \in S, \A k \in Nat : k \in S => k + 1 \in S
  PROVE  \A k \in Nat : k \in S
<1> DEFINE T == Nat \ S
<1> SUFFICES ASSUME T # {} PROVE FALSE
  OBVIOUS
<1>1. PICK n \in T : \A m \in T : n <= m
  <2>1. T \in SUBSET Nat /\ T # {}
    OBVIOUS
  <2> HIDE DEF T
  <2> QED
    BY <2>1, LeastNumber
<1>2. n \in Nat /\ n # 0 /\ n - 1 \in Nat
  BY <1>1
<1>3. n - 1 \in T
  <2>1. (n - 1) + 1 = n
    BY <1>2
  <2> QED
    BY <1>1, <1>2, <2>1
<1> QED
  BY <1>1, <1>2, <1>3

\* From t0 by one step for each number up to N.
Stepwise(g, T, t0, N, st) ==
  g \in [0 .. N -> T] /\ g[0] = t0 /\ \A n \in 1 .. N : g[n] = st[n][g[n - 1]]

LEMMA StepwiseThere ==
  ASSUME NEW T, NEW t0 \in T, NEW N \in Nat, NEW st \in [1 .. N -> [T -> T]]
  PROVE  \E g : Stepwise(g, T, t0, N, st)
<1> DEFINE Upto(g, k) == g \in [0 .. k -> T] /\ g[0] = t0 /\ \A n \in 1 .. k : g[n] = st[n][g[n - 1]]
           S == {k \in Nat : k <= N => \E g : Upto(g, k)}
<1>1. 0 \in S
  <2>1. Upto([i \in 0 .. 0 |-> t0], 0)
    OBVIOUS
  <2> QED
    BY <2>1
<1>2. ASSUME NEW k \in Nat, k \in S PROVE k + 1 \in S
  <2> SUFFICES ASSUME k + 1 <= N PROVE \E g : Upto(g, k + 1)
    BY k + 1 \in Nat, Zenon
  <2>1. PICK g : Upto(g, k)
    BY <1>2
  <2> DEFINE h == [i \in 0 .. k + 1 |-> IF i = k + 1 THEN st[k + 1][g[k]] ELSE g[i]]
  <2>2. k + 1 \in 1 .. N /\ k \in 0 .. k /\ k \in 0 .. k + 1 /\ k # k + 1
    OBVIOUS
  <2>3. st[k + 1][g[k]] \in T
    BY <2>1, <2>2
  <2>4. h \in [0 .. k + 1 -> T] /\ h[0] = t0
    BY <2>1, <2>3
  <2>5. ASSUME NEW n \in 1 .. k + 1 PROVE h[n] = st[n][h[n - 1]]
    <3>1. CASE n = k + 1
      BY <2>2, <3>1
    <3>2. CASE n # k + 1
      <4>1. n \in 1 .. k /\ n \in 0 .. k + 1 /\ n - 1 \in 0 .. k + 1 /\ n - 1 # k + 1
        BY <3>2
      <4> QED
        BY <2>1, <3>2, <4>1
    <3> QED
      BY <3>1, <3>2
  <2> HIDE DEF h
  <2>6. Upto(h, k + 1)
    BY <2>4, <2>5
  <2> QED
    BY <2>6
<1>3. N \in S
  <2> HIDE DEF S
  <2> QED
    BY <1>1, <1>2, NumberByNumber
<1> QED
  BY <1>3 DEF Stepwise

\* A list s with an entry of each classroom among the first n of es: the first.
FirstOfEach(s, es, n) ==
  /\ s \in Seq(Entry)
  /\ \A i \in DOMAIN s : \E j \in 1 .. n : s[i] = es[j]
  /\ RoomsDiffer(s, room)
  /\ \A k \in 1 .. n : \E i \in DOMAIN s : \E j \in 1 .. k :
       s[i] = es[j] /\ room[es[j].lecture] = room[es[k].lecture]

LEMMA ListGrows ==
  ASSUME NEW s \in Seq(Entry), NEW e \in Entry
  PROVE  /\ Append(s, e) \in Seq(Entry)
         /\ DOMAIN s = 1 .. Len(s) /\ Len(s) \in Nat
         /\ DOMAIN Append(s, e) = 1 .. Len(s) + 1
         /\ Append(s, e)[Len(s) + 1] = e
         /\ \A i \in 1 .. Len(s) : Append(s, e)[i] = s[i]
  OBVIOUS

LEMMA OneMoreEntry ==
  ASSUME NEW es \in Seq(Entry), NEW n \in Nat, n + 1 <= Len(es), NEW s, FirstOfEach(s, es, n)
  PROVE  FirstOfEach(IF \E e \in ToSet(s) : room[e.lecture] = room[es[n + 1].lecture] THEN s
                     ELSE Append(s, es[n + 1]), es, n + 1)
<1>0. /\ es[n + 1] \in Entry /\ s \in Seq(Entry) /\ DOMAIN s = 1 .. Len(s) /\ Len(s) \in Nat
      /\ \A k \in 1 .. n + 1 : k = n + 1 \/ k \in 1 .. n
      /\ \A k \in 1 .. n : k \in 1 .. n + 1
      /\ n + 1 \in 1 .. n + 1
  BY DEF FirstOfEach
<1>1. CASE \E e \in ToSet(s) : room[e.lecture] = room[es[n + 1].lecture]
  <2>1. PICK i \in DOMAIN s : room[s[i].lecture] = room[es[n + 1].lecture]
    BY <1>1 DEF ToSet
  <2>2. PICK j \in 1 .. n : s[i] = es[j]
    BY DEF FirstOfEach
  <2>3. \A k \in 1 .. n + 1 : \E ii \in DOMAIN s : \E jj \in 1 .. k :
          s[ii] = es[jj] /\ room[es[jj].lecture] = room[es[k].lecture]
    <3> SUFFICES ASSUME NEW k \in 1 .. n + 1
                 PROVE  \E ii \in DOMAIN s : \E jj \in 1 .. k :
                          s[ii] = es[jj] /\ room[es[jj].lecture] = room[es[k].lecture]
      OBVIOUS
    <3>1. CASE k = n + 1
      <4>1. j \in 1 .. k
        BY <3>1
      <4> QED
        BY <2>1, <2>2, <3>1, <4>1
    <3>2. CASE k \in 1 .. n
      BY <3>2 DEF FirstOfEach
    <3> QED
      BY <1>0, <3>1, <3>2
  <2>4. FirstOfEach(s, es, n + 1)
    BY <1>0, <2>3 DEF FirstOfEach
  <2> QED
    BY <1>1, <2>4
<1>2. CASE ~(\E e \in ToSet(s) : room[e.lecture] = room[es[n + 1].lecture])
  <2> DEFINE m == Len(s)
             u == Append(s, es[n + 1])
  <2>1. /\ u \in Seq(Entry) /\ DOMAIN u = 1 .. m + 1 /\ u[m + 1] = es[n + 1]
        /\ \A i \in 1 .. m : u[i] = s[i]
        /\ \A i \in 1 .. m + 1 : i = m + 1 \/ i \in 1 .. m
        /\ m + 1 \in 1 .. m + 1 /\ \A i \in 1 .. m : i \in 1 .. m + 1
        /\ DOMAIN s = 1 .. m
    BY <1>0, ListGrows
  <2> HIDE DEF u, m
  <2>2. \A i \in 1 .. m : room[s[i].lecture] # room[es[n + 1].lecture]
    BY <1>2, <2>1 DEF ToSet
  <2>3. RoomsDiffer(u, room)
    <3> SUFFICES ASSUME NEW i \in 1 .. m + 1, NEW j \in 1 .. m + 1,
                        room[u[i].lecture] = room[u[j].lecture]
                 PROVE  i = j
      BY <2>1 DEF RoomsDiffer
    <3>1. RoomsDiffer(s, room)
      BY DEF FirstOfEach
    <3> QED
      BY <2>1, <2>2, <3>1 DEF RoomsDiffer
  <2>4. \A i \in DOMAIN u : \E j \in 1 .. n + 1 : u[i] = es[j]
    <3> SUFFICES ASSUME NEW i \in 1 .. m + 1 PROVE \E j \in 1 .. n + 1 : u[i] = es[j]
      BY <2>1
    <3>1. CASE i = m + 1
      BY <1>0, <2>1, <3>1
    <3>2. CASE i \in 1 .. m
      <4>1. PICK j \in 1 .. n : s[i] = es[j]
        BY <2>1, <3>2 DEF FirstOfEach
      <4> QED
        BY <1>0, <2>1, <3>2, <4>1
    <3> QED
      BY <2>1, <3>1, <3>2
  <2>5. \A k \in 1 .. n + 1 : \E i \in DOMAIN u : \E j \in 1 .. k :
          u[i] = es[j] /\ room[es[j].lecture] = room[es[k].lecture]
    <3> SUFFICES ASSUME NEW k \in 1 .. n + 1
                 PROVE  \E i \in DOMAIN u : \E j \in 1 .. k :
                          u[i] = es[j] /\ room[es[j].lecture] = room[es[k].lecture]
      OBVIOUS
    <3>1. CASE k = n + 1
      BY <1>0, <2>1, <3>1
    <3>2. CASE k \in 1 .. n
      <4>1. PICK i \in DOMAIN s : \E j \in 1 .. k :
               s[i] = es[j] /\ room[es[j].lecture] = room[es[k].lecture]
        BY <3>2 DEF FirstOfEach
      <4> QED
        BY <2>1, <4>1
    <3> QED
      BY <1>0, <3>1, <3>2
  <2>6. FirstOfEach(u, es, n + 1)
    BY <2>1, <2>3, <2>4, <2>5 DEF FirstOfEach
  <2> QED
    BY <1>2, <2>6 DEF u
<1> QED
  BY <1>1, <1>2

LEMMA OneOfEach ==
  ASSUME NEW es \in Seq(Entry)
  PROVE  FirstOfEach(OnePerClassroom(es), es, Len(es))
<1> DEFINE N == Len(es)
           next(s, n) == IF \E e \in ToSet(s) : room[e.lecture] = room[es[n].lecture] THEN s
                         ELSE Append(s, es[n])
           st == [n \in 1 .. N |-> [s \in Seq(Entry) |-> next(s, n)]]
           Eq(h) == h = [n \in 0 .. N |-> IF n = 0 THEN <<>>
                                          ELSE IF \E e \in ToSet(h[n - 1]) : room[e.lecture] = room[es[n].lecture]
                                          THEN h[n - 1] ELSE Append(h[n - 1], es[n])]
           kept == CHOOSE h : Eq(h)
<1>1. N \in Nat /\ \A n \in 1 .. N : es[n] \in Entry
  OBVIOUS
<1>2. \A n \in 1 .. N, s \in Seq(Entry) : next(s, n) \in Seq(Entry)
  BY <1>1, ListGrows
<1>3. st \in [1 .. N -> [Seq(Entry) -> Seq(Entry)]]
  <2> HIDE DEF next, N
  <2> QED
    BY <1>2
<1>4. PICK g : /\ g \in [0 .. N -> Seq(Entry)] /\ g[0] = <<>>
               /\ \A n \in 1 .. N : g[n] = st[n][g[n - 1]]
  <2>1. <<>> \in Seq(Entry)
    OBVIOUS
  <2> HIDE DEF st, N
  <2>2. PICK g : Stepwise(g, Seq(Entry), <<>>, N, st)
    BY <1>1, <1>3, <2>1, StepwiseThere
  <2> QED
    BY <2>2 DEF Stepwise
<1>5. \A n \in 1 .. N : g[n] = next(g[n - 1], n)
  <2> SUFFICES ASSUME NEW n \in 1 .. N PROVE g[n] = next(g[n - 1], n)
    OBVIOUS
  <2>1. g[n - 1] \in Seq(Entry)
    <3>1. n - 1 \in 0 .. N
      BY <1>1
    <3> QED
      BY <1>4, <3>1
  <2> HIDE DEF next, N
  <2> QED
    BY <1>4, <2>1
<1>6. Eq(g)
  <2>1. \A n \in 0 .. N : n # 0 => n \in 1 .. N
    BY <1>1
  <2> HIDE DEF N
  <2> QED
    BY <1>4, <1>5, <2>1
<1>7. Eq(kept)
  BY <1>6, Zenon
<1>8. OnePerClassroom(es) = kept[N]
  BY DEF OnePerClassroom
<1> HIDE DEF kept
<1> DEFINE S == {n \in Nat : n <= N => FirstOfEach(kept[n], es, n)}
<1>9. 0 \in S
  <2>1. kept[0] = <<>>
    BY <1>1, <1>7
  <2>2. FirstOfEach(<<>>, es, 0)
    BY DEF FirstOfEach, RoomsDiffer
  <2> QED
    BY <2>1, <2>2
<1>10. ASSUME NEW n \in Nat, n \in S PROVE n + 1 \in S
  <2> SUFFICES ASSUME n + 1 <= N PROVE FirstOfEach(kept[n + 1], es, n + 1)
    BY n + 1 \in Nat, Zenon
  <2>1. n + 1 \in 0 .. N /\ n + 1 # 0 /\ (n + 1) - 1 = n /\ FirstOfEach(kept[n], es, n)
    BY <1>1, <1>10
  <2>2. kept[n + 1] = next(kept[n], n + 1)
    <3> HIDE DEF N
    <3> QED
      BY <1>7, <2>1
  <2> QED
    BY <2>1, <2>2, OneMoreEntry
<1>11. N \in S
  <2> HIDE DEF S
  <2> QED
    BY <1>1, <1>9, <1>10, NumberByNumber
<1> QED
  BY <1>1, <1>8, <1>11

\* The three answers one after the other.
LEMMA ThreeAnswers ==
  ASSUME NEW a \in Seq(Entry), NEW b \in Seq(Entry), NEW c \in Seq(Entry), NEW es, es = a \o b \o c
  PROVE  /\ es \in Seq(Entry) /\ Len(es) = Len(a) + Len(b) + Len(c)
         /\ Len(a) \in Nat /\ Len(b) \in Nat /\ Len(c) \in Nat
         /\ \A i \in 1 .. Len(a) : es[i] = a[i]
         /\ \A i \in 1 .. Len(b) : es[Len(a) + i] = b[i]
         /\ \A i \in 1 .. Len(c) : es[Len(a) + Len(b) + i] = c[i]
         /\ \A i \in 1 .. Len(es) : \/ i \in 1 .. Len(a)
                                    \/ i - Len(a) \in 1 .. Len(b)
                                    \/ i - Len(a) - Len(b) \in 1 .. Len(c)
<1>1. a \o b \in Seq(Entry) /\ Len(a \o b) = Len(a) + Len(b) /\ es = (a \o b) \o c
  OBVIOUS
<1>2. \A i \in 1 .. Len(a) : (a \o b)[i] = a[i]
  OBVIOUS
<1>3. \A i \in 1 .. Len(b) : (a \o b)[Len(a) + i] = b[i]
  OBVIOUS
<1>4. es \in Seq(Entry) /\ Len(es) = Len(a \o b) + Len(c)
  BY <1>1
<1>5. \A i \in 1 .. Len(a \o b) : es[i] = (a \o b)[i]
  BY <1>1
<1>6. \A i \in 1 .. Len(c) : es[Len(a \o b) + i] = c[i]
  BY <1>1
<1>7. Len(a) \in Nat /\ Len(b) \in Nat /\ Len(c) \in Nat
  OBVIOUS
<1>8. \A i \in 1 .. Len(a) : es[i] = a[i]
  <2>1. \A i \in 1 .. Len(a) : i \in 1 .. Len(a \o b)
    BY <1>1, <1>7
  <2> QED
    BY <1>2, <1>5, <2>1
<1>9. \A i \in 1 .. Len(b) : es[Len(a) + i] = b[i]
  <2>1. \A i \in 1 .. Len(b) : Len(a) + i \in 1 .. Len(a \o b)
    BY <1>1, <1>7
  <2> QED
    BY <1>3, <1>5, <2>1
<1>10. \A i \in 1 .. Len(c) : es[Len(a) + Len(b) + i] = c[i]
  BY <1>1, <1>6
<1>11. Len(es) = Len(a) + Len(b) + Len(c)
  BY <1>1, <1>4
<1>12. \A i \in 1 .. Len(es) : \/ i \in 1 .. Len(a)
                               \/ i - Len(a) \in 1 .. Len(b)
                               \/ i - Len(a) - Len(b) \in 1 .. Len(c)
  BY <1>7, <1>11
<1> QED
  BY <1>4, <1>7, <1>8, <1>9, <1>10, <1>11, <1>12

LEMMA OpenedEntries ==
  ASSUME NEW got \in [Query -> Seq(Entry)], NEW st, \A q \in Query : OpenedSaid(got[q], st)
  PROVE  /\ Entries(got) \in Seq(Entry) /\ RoomsDiffer(Entries(got), room)
         /\ OpenedSaid(Entries(got), st)
<1> DEFINE a == got["open"]
           b == got["scheduled"]
           c == got["closed"]
           es == a \o b \o c
           ks == OnePerClassroom(es)
<1>1. a \in Seq(Entry) /\ b \in Seq(Entry) /\ c \in Seq(Entry)
  BY DEF Query
<1>2. OpenedSaid(a, st) /\ OpenedSaid(b, st) /\ OpenedSaid(c, st)
  BY DEF Query
<1>3. Entries(got) = ks
  BY DEF Entries
<1>4. /\ es \in Seq(Entry) /\ Len(es) = Len(a) + Len(b) + Len(c)
      /\ Len(a) \in Nat /\ Len(b) \in Nat /\ Len(c) \in Nat
      /\ \A i \in 1 .. Len(a) : es[i] = a[i]
      /\ \A i \in 1 .. Len(b) : es[Len(a) + i] = b[i]
      /\ \A i \in 1 .. Len(c) : es[Len(a) + Len(b) + i] = c[i]
      /\ \A i \in 1 .. Len(es) : \/ i \in 1 .. Len(a)
                                 \/ i - Len(a) \in 1 .. Len(b)
                                 \/ i - Len(a) - Len(b) \in 1 .. Len(c)
  <2> HIDE DEF a, b, c
  <2> QED
    BY <1>1, ThreeAnswers
<1>5. FirstOfEach(ks, es, Len(es))
  BY <1>4, OneOfEach
<1> HIDE DEF es, ks, a, b, c
<1>6. ASSUME NEW i \in 1 .. Len(es), es[i].status = "open" PROVE WasOpened(es[i].lecture, st)
  <2>1. CASE i \in 1 .. Len(a)
    <3>1. es[i] = a[i]
      BY <1>4, <2>1
    <3> QED
      BY <1>1, <1>2, <1>6, <2>1, <3>1 DEF OpenedSaid
  <2>2. CASE i - Len(a) \in 1 .. Len(b)
    <3>1. es[i] = b[i - Len(a)]
      <4>1. Len(a) + (i - Len(a)) = i
        BY <1>4
      <4> QED
        BY <1>4, <2>2, <4>1
    <3> QED
      BY <1>1, <1>2, <1>6, <2>2, <3>1 DEF OpenedSaid
  <2>3. CASE i - Len(a) - Len(b) \in 1 .. Len(c)
    <3>1. es[i] = c[i - Len(a) - Len(b)]
      <4>1. Len(a) + Len(b) + (i - Len(a) - Len(b)) = i
        BY <1>4
      <4> QED
        BY <1>4, <2>3, <4>1
    <3> QED
      BY <1>1, <1>2, <1>6, <2>3, <3>1 DEF OpenedSaid
  <2> QED
    BY <1>4, <2>1, <2>2, <2>3
<1>7. OpenedSaid(ks, st)
  <2> SUFFICES ASSUME NEW i \in DOMAIN ks, ks[i].status = "open" PROVE WasOpened(ks[i].lecture, st)
    BY DEF OpenedSaid
  <2>1. PICK j \in 1 .. Len(es) : ks[i] = es[j]
    BY <1>5 DEF FirstOfEach
  <2> QED
    BY <1>6, <2>1
<1> QED
  BY <1>3, <1>5, <1>7 DEF FirstOfEach

\* Every lecture at rest is listed, or another one of its classroom; an open
\* one gives way only to an open one, because the open ones come first.
LEMMA RestingEntries ==
  ASSUME NEW got \in [Query -> Seq(Entry)], NEW resting, NEW st,
         \A q \in Query : Answering(got[q], q, resting, st, room)
  PROVE  \A l \in resting : st[l] \in Query => Listing(Entries(got), l, st, room)
<1> DEFINE a == got["open"]
           b == got["scheduled"]
           c == got["closed"]
           es == a \o b \o c
           ks == OnePerClassroom(es)
<1>1. a \in Seq(Entry) /\ b \in Seq(Entry) /\ c \in Seq(Entry)
  BY DEF Query
<1>2. /\ Answering(a, "open", resting, st, room)
      /\ Answering(b, "scheduled", resting, st, room)
      /\ Answering(c, "closed", resting, st, room)
  BY DEF Query
<1>3. Entries(got) = ks
  BY DEF Entries
<1>4. /\ es \in Seq(Entry) /\ Len(es) = Len(a) + Len(b) + Len(c)
      /\ Len(a) \in Nat /\ Len(b) \in Nat /\ Len(c) \in Nat
      /\ \A i \in 1 .. Len(a) : es[i] = a[i]
      /\ \A i \in 1 .. Len(b) : es[Len(a) + i] = b[i]
      /\ \A i \in 1 .. Len(c) : es[Len(a) + Len(b) + i] = c[i]
  <2> HIDE DEF a, b, c
  <2> QED
    BY <1>1, ThreeAnswers
<1>5. FirstOfEach(ks, es, Len(es))
  BY <1>4, OneOfEach
<1> HIDE DEF es, ks, a, b, c
<1>6. DOMAIN a = 1 .. Len(a) /\ DOMAIN b = 1 .. Len(b) /\ DOMAIN c = 1 .. Len(c)
  BY <1>1
<1> SUFFICES ASSUME NEW l \in resting, st[l] \in Query PROVE Listing(ks, l, st, room)
  BY <1>3
\* A place in the three answers, among the open ones if the lecture is open.
<1>7. \E k \in 1 .. Len(es) : /\ room[es[k].lecture] = room[l]
                              /\ st[l] = "open" => k <= Len(a)
  <2>1. CASE st[l] = "open"
    <3>1. PICK i \in 1 .. Len(a) : room[a[i].lecture] = room[l]
      BY <1>2, <1>6, <2>1 DEF Answering
    <3>2. i \in 1 .. Len(es) /\ i <= Len(a)
      BY <1>4
    <3> QED
      BY <1>4, <3>1, <3>2
  <2>2. CASE st[l] = "scheduled"
    <3>1. PICK i \in 1 .. Len(b) : room[b[i].lecture] = room[l]
      BY <1>2, <1>6, <2>2 DEF Answering
    <3>2. Len(a) + i \in 1 .. Len(es)
      BY <1>4
    <3> QED
      BY <1>4, <2>2, <3>1, <3>2
  <2>3. CASE st[l] = "closed"
    <3>1. PICK i \in 1 .. Len(c) : room[c[i].lecture] = room[l]
      BY <1>2, <1>6, <2>3 DEF Answering
    <3>2. Len(a) + Len(b) + i \in 1 .. Len(es)
      BY <1>4
    <3> QED
      BY <1>4, <2>3, <3>1, <3>2
  <2> QED
    BY <2>1, <2>2, <2>3 DEF Query
<1>8. PICK k \in 1 .. Len(es) : /\ room[es[k].lecture] = room[l]
                                /\ st[l] = "open" => k <= Len(a)
  BY <1>7
<1>9. PICK i \in DOMAIN ks : \E j \in 1 .. k : ks[i] = es[j] /\ room[es[j].lecture] = room[es[k].lecture]
  BY <1>5 DEF FirstOfEach
<1>10. PICK j \in 1 .. k : ks[i] = es[j] /\ room[es[j].lecture] = room[es[k].lecture]
  BY <1>9
<1>11. st[l] = "open" => ks[i].status = "open"
  <2> SUFFICES ASSUME st[l] = "open" PROVE es[j].status = "open"
    BY <1>10
  <2>1. k <= Len(a) /\ Len(a) \in Nat /\ Len(es) \in Nat
    BY <1>4, <1>8
  <2>2. j \in 1 .. Len(a)
    <3>1. j \in 1 .. k /\ k \in 1 .. Len(es)
      BY <1>8, <1>10
    <3> QED
      BY <2>1, <3>1
  <2> QED
    BY <1>2, <1>4, <1>6, <2>2, SMTT(60) DEF Answering
<1>12. ks[i] \in ToSet(ks)
  BY <1>9 DEF ToSet
<1>13. room[ks[i].lecture] = room[l]
  BY <1>8, <1>10
<1> QED
  BY <1>11, <1>12, <1>13 DEF Listing

-----------------------------------------------------------------------------
(* The answers of the server.                                              *)

\* A set in some order has each of its elements in one place.
LEMMA OrderedOnce ==
  ASSUME NEW S, IsFiniteSet(S), NEW s \in SetToSeqs(S)
  PROVE  /\ s \in Seq(S) /\ ToSet(s) = S
         /\ \A i, j \in DOMAIN s : s[i] = s[j] => i = j
<1> DEFINE n == Cardinality(S)
<1>1. n \in Nat /\ IsFiniteSet(1 .. n) /\ Cardinality(1 .. n) = n
  <2>1. n \in Nat
    BY FS_CardinalityType
  <2> QED
    BY <2>1, FS_Interval
<1>2. s \in [1 .. n -> S] /\ \A i, j \in 1 .. n : i # j => s[i] # s[j]
  BY DEF SetToSeqs
<1> HIDE DEF n
<1>3. s \in Injection(1 .. n, S)
  BY <1>2 DEF Injection, IsInjective
<1>4. s \in Surjection(1 .. n, S)
  <2>1. Cardinality(1 .. n) = Cardinality(S)
    BY <1>1 DEF n
  <2> QED
    BY <1>3, <2>1, FS_Injection
<1>5. \A x \in S : \E i \in 1 .. n : s[i] = x
  BY <1>4 DEF Surjection
<1>6. ToSet(s) = S
  BY <1>2, <1>5 DEF ToSet
<1>7. s \in Seq(S)
  BY <1>1, <1>2
<1> QED
  BY <1>2, <1>6, <1>7

LEMMA DescendingThere ==
  ASSUME NEW S \in SUBSET Nat, IsFiniteSet(S)
  PROVE  \E s \in SetToSeqs(S) : \A i, j \in DOMAIN s : i < j => s[i] > s[j]
<1> DEFINE Falls(s, k, R) == s \in [1 .. k -> R] /\ \A i, j \in 1 .. k : i < j => s[i] > s[j]
           T == {k \in Nat : \A R \in SUBSET Nat :
                   IsFiniteSet(R) /\ Cardinality(R) = k => \E s : Falls(s, k, R)}
<1>1. 0 \in T
  <2> SUFFICES ASSUME NEW R \in SUBSET Nat PROVE \E s : Falls(s, 0, R)
    OBVIOUS
  <2>1. Falls(<<>>, 0, R)
    OBVIOUS
  <2> QED
    BY <2>1
<1>2. ASSUME NEW k \in Nat, k \in T PROVE k + 1 \in T
  <2> SUFFICES ASSUME NEW R \in SUBSET Nat, IsFiniteSet(R), Cardinality(R) = k + 1
               PROVE  \E s : Falls(s, k + 1, R)
    BY k + 1 \in Nat, Zenon
  <2>1. R # {}
    BY FS_EmptySet
  <2>2. PICK m \in R : \A x \in R : m <= x
    BY <2>1, LeastNumber
  <2>3. R \ {m} \in SUBSET Nat /\ IsFiniteSet(R \ {m}) /\ Cardinality(R \ {m}) = k
    <3>1. IsFiniteSet(R \ {m}) /\ Cardinality(R \ {m}) = Cardinality(R) - 1
      BY <2>2, FS_RemoveElement
    <3> QED
      BY <3>1
  <2>4. PICK g : Falls(g, k, R \ {m})
    <3>1. \A Q \in SUBSET Nat : IsFiniteSet(Q) /\ Cardinality(Q) = k => \E s : Falls(s, k, Q)
      BY <1>2
    <3> HIDE DEF Falls
    <3> QED
      BY <2>3, <3>1
  <2> DEFINE h == [i \in 1 .. k + 1 |-> IF i = k + 1 THEN m ELSE g[i]]
  <2>5. \A i \in 1 .. k + 1 : i = k + 1 \/ i \in 1 .. k
    OBVIOUS
  <2>6. h \in [1 .. k + 1 -> R]
    BY <2>2, <2>4, <2>5
  <2>7. ASSUME NEW i \in 1 .. k + 1, NEW j \in 1 .. k + 1, i < j PROVE h[i] > h[j]
    <3>1. i \in 1 .. k /\ i # k + 1 /\ h[i] = g[i] /\ g[i] \in R \ {m}
      BY <2>4, <2>7
    <3>2. CASE j = k + 1
      <4>1. h[j] = m
        BY <3>2
      <4>2. m <= g[i] /\ m # g[i] /\ m \in Nat /\ g[i] \in Nat
        BY <2>2, <3>1
      <4> QED
        BY <3>1, <4>1, <4>2
    <3>3. CASE j \in 1 .. k
      <4>1. h[j] = g[j] /\ g[i] > g[j]
        BY <2>4, <2>7, <3>1, <3>3
      <4> QED
        BY <3>1, <4>1
    <3> QED
      BY <2>5, <3>2, <3>3
  <2> HIDE DEF h
  <2>8. Falls(h, k + 1, R)
    BY <2>6, <2>7
  <2> QED
    BY <2>8
<1>3. Cardinality(S) \in T
  <2>1. Cardinality(S) \in Nat
    BY FS_CardinalityType
  <2> HIDE DEF T
  <2> QED
    BY <1>1, <1>2, <2>1, NumberByNumber
<1>4. PICK s : Falls(s, Cardinality(S), S)
  BY <1>3
<1>5. Cardinality(S) \in Nat
  BY FS_CardinalityType
<1>6. s \in SetToSeqs(S)
  <2>1. \A i, j \in 1 .. Cardinality(S) : i # j => s[i] # s[j]
    <3> SUFFICES ASSUME NEW i \in 1 .. Cardinality(S), NEW j \in 1 .. Cardinality(S), i # j
                 PROVE  s[i] # s[j]
      OBVIOUS
    <3>1. s[i] \in Nat /\ s[j] \in Nat /\ (i < j \/ j < i)
      <4>1. s[i] \in S /\ s[j] \in S
        BY <1>4
      <4>2. i \in Int /\ j \in Int
        BY <1>5
      <4>3. i < j \/ j < i
        BY <4>2
      <4>4. \A x \in S : x \in Nat
        OBVIOUS
      <4> QED
        BY <4>1, <4>3, <4>4
    <3>2. s[i] > s[j] \/ s[j] > s[i]
      BY <1>4, <3>1
    <3> QED
      BY <3>1, <3>2
  <2> QED
    BY <1>4, <2>1 DEF SetToSeqs
<1> QED
  BY <1>4, <1>6

LEMMA ListedOnce ==
  ASSUME status \in [Lecture -> Status], NEW st \in Status
  PROVE  /\ ListLectures(st) \in Seq(Entry)
         /\ \A i \in DOMAIN ListLectures(st) :
              /\ ListLectures(st)[i].status = st
              /\ status[ListLectures(st)[i].lecture] = st
         /\ \A l \in Lecture : status[l] = st =>
              \E i \in DOMAIN ListLectures(st) : ListLectures(st)[i].lecture = l
<1> DEFINE S == {l \in Lecture : status[l] = st}
           Falling(s) == \A i, j \in DOMAIN s : i < j => s[i] > s[j]
           ls == CHOOSE s \in SetToSeqs(S) : Falling(s)
           es == [i \in DOMAIN ls |-> [lecture |-> ls[i], status |-> st]]
<1>1. S \in SUBSET Nat /\ S \subseteq Lecture /\ IsFiniteSet(S)
  <2>1. S \subseteq Lecture /\ IsFiniteSet(Lecture) /\ Lecture \subseteq Nat
    BY PageAssumption
  <2> QED
    BY <2>1, FS_Subset
<1>2. ls \in SetToSeqs(S)
  <2>1. \E s \in SetToSeqs(S) : Falling(s)
    <3> HIDE DEF S
    <3> QED
      BY <1>1, DescendingThere
  <2> HIDE DEF S, Falling
  <2> QED
    BY <2>1
<1> HIDE DEF ls
<1>3. ls \in Seq(S) /\ ToSet(ls) = S
  <2> HIDE DEF S
  <2> QED
    BY <1>1, <1>2, OrderedOnce
<1>4. ListLectures(st) = es
  BY DEF ListLectures, ls
<1>5. DOMAIN ls = 1 .. Len(ls) /\ Len(ls) \in Nat /\ \A i \in 1 .. Len(ls) : ls[i] \in S
  <2> HIDE DEF S
  <2> QED
    BY <1>3
<1>6. es \in Seq(Entry)
  BY <1>5 DEF Entry
<1>7. \A l \in S : \E i \in DOMAIN ls : ls[i] = l
  BY <1>3 DEF ToSet
<1> QED
  BY <1>4, <1>5, <1>6, <1>7

LEMMA ActiveOnce ==
  ASSUME status \in [Lecture -> Status], StartsFit(starts, status)
  PROVE  /\ ActiveByClassroom \in Seq(Entry)
         /\ \A i \in DOMAIN ActiveByClassroom :
              /\ ActiveByClassroom[i].status = "open"
              /\ status[ActiveByClassroom[i].lecture] = "open"
         /\ \A l \in Lecture : status[l] = "open" =>
              \E i \in DOMAIN ActiveByClassroom : room[ActiveByClassroom[i].lecture] = room[l]
<1> DEFINE es == [i \in DOMAIN starts |-> [lecture |-> starts[i], status |-> "open"]]
           ks == OnePerClassroom(es)
<1>1. DOMAIN starts = 1 .. Len(starts) /\ Len(starts) \in Nat /\ \A i \in 1 .. Len(starts) : starts[i] \in Lecture
  BY DEF StartsFit
<1>2. \A i \in 1 .. Len(starts) : status[starts[i]] = "open"
  BY <1>1 DEF StartsFit, ToSet
<1>3. es \in Seq(Entry) /\ Len(es) = Len(starts)
  BY <1>1 DEF Entry, Status
<1>4. FirstOfEach(ks, es, Len(es))
  BY <1>3, OneOfEach
<1>5. ActiveByClassroom = ks
  BY DEF ActiveByClassroom
<1> HIDE DEF ks
<1>6. \A i \in DOMAIN ks : ks[i].status = "open" /\ status[ks[i].lecture] = "open"
  <2> SUFFICES ASSUME NEW i \in DOMAIN ks
               PROVE  ks[i].status = "open" /\ status[ks[i].lecture] = "open"
    OBVIOUS
  <2>1. PICK j \in 1 .. Len(es) : ks[i] = es[j]
    BY <1>4 DEF FirstOfEach
  <2>2. es[j].status = "open" /\ es[j].lecture = starts[j] /\ status[starts[j]] = "open"
    BY <1>1, <1>2, <1>3
  <2> QED
    BY <2>1, <2>2
<1>7. \A l \in Lecture : status[l] = "open" => \E i \in DOMAIN ks : room[ks[i].lecture] = room[l]
  <2> SUFFICES ASSUME NEW l \in Lecture, status[l] = "open"
               PROVE  \E i \in DOMAIN ks : room[ks[i].lecture] = room[l]
    OBVIOUS
  <2>1. PICK k \in 1 .. Len(starts) : starts[k] = l
    <3>1. l \in ToSet(starts)
      BY DEF StartsFit
    <3> QED
      BY <1>1, <3>1 DEF ToSet
  <2>2. k \in 1 .. Len(es) /\ es[k].lecture = l
    BY <1>1, <1>3, <2>1
  <2>3. PICK i \in DOMAIN ks : \E j \in 1 .. k : ks[i] = es[j] /\ room[es[j].lecture] = room[es[k].lecture]
    BY <1>4, <2>2 DEF FirstOfEach
  <2> QED
    BY <2>2, <2>3
<1> QED
  BY <1>4, <1>5, <1>6, <1>7 DEF FirstOfEach

LEMMA AnswerFits ==
  ASSUME status \in [Lecture -> Status], StartsFit(starts, status), NEW q \in Query
  PROVE  /\ Answer(q) \in Seq(Entry) /\ OpenedSaid(Answer(q), status)
         /\ Answering(Answer(q), q, Lecture, status, room)
<1>1. CASE q = "open"
  <2>1. Answer(q) = ActiveByClassroom
    BY <1>1 DEF Answer
  <2> QED
    BY <1>1, <2>1, ActiveOnce DEF OpenedSaid, Answering, WasOpened
<1>2. CASE q # "open"
  <2>1. Answer(q) = ListLectures(q) /\ q \in Status
    BY <1>2 DEF Answer, Query, Status
  <2>2. /\ ListLectures(q) \in Seq(Entry)
        /\ \A i \in DOMAIN ListLectures(q) : ListLectures(q)[i].status = q
        /\ \A l \in Lecture : status[l] = q =>
             \E i \in DOMAIN ListLectures(q) : ListLectures(q)[i].lecture = l
    BY <2>1, ListedOnce
  <2> QED
    BY <1>2, <2>1, <2>2 DEF OpenedSaid, Answering
<1> QED
  BY <1>1, <1>2

LEMMA WithoutOne ==
  ASSUME NEW ss \in Seq(Lecture), \A i, j \in DOMAIN ss : ss[i] = ss[j] => i = j, NEW l \in Lecture
  PROVE  /\ Without(ss, l) \in Seq(Lecture)
         /\ \A i, j \in DOMAIN Without(ss, l) : Without(ss, l)[i] = Without(ss, l)[j] => i = j
         /\ ToSet(Without(ss, l)) = ToSet(ss) \ {l}
<1>1. CASE l \notin ToSet(ss)
  BY <1>1 DEF Without
<1>2. CASE l \in ToSet(ss)
  <2> DEFINE n == Len(ss)
             c == CHOOSE i \in DOMAIN ss : ss[i] = l
             w == RemoveAt(ss, c)
  <2>1. n \in Nat /\ DOMAIN ss = 1 .. n /\ \A i \in 1 .. n : ss[i] \in Lecture
    OBVIOUS
  <2>2. c \in 1 .. n /\ ss[c] = l
    BY <1>2, <2>1 DEF ToSet
  <2>3. Without(ss, l) = w
    BY <1>2 DEF Without
  <2> HIDE DEF c, n
  <2>4. /\ w \in Seq(Lecture) /\ DOMAIN w = 1 .. n - 1
        /\ \A i \in 1 .. n - 1 : w[i] = IF i < c THEN ss[i] ELSE ss[i + 1]
    <3> DEFINE a == SubSeq(ss, 1, c - 1)
               b == SubSeq(ss, c + 1, n)
    <3>1. w = a \o b
      BY DEF RemoveAt, n
    <3>2. a \in Seq(Lecture) /\ Len(a) = c - 1 /\ \A i \in 1 .. c - 1 : a[i] = ss[i]
      BY <2>1, <2>2
    <3>3. b \in Seq(Lecture) /\ Len(b) = n - c /\ \A i \in 1 .. n - c : b[i] = ss[c + i]
      BY <2>1, <2>2
    <3> HIDE DEF a, b, w
    <3>4. w \in Seq(Lecture) /\ Len(w) = n - 1
      <4>1. w \in Seq(Lecture) /\ Len(w) = Len(a) + Len(b)
        <5>1. a \in Seq(Lecture) /\ b \in Seq(Lecture)
          BY <3>2, <3>3
        <5>2. a \o b \in Seq(Lecture) /\ Len(a \o b) = Len(a) + Len(b)
          BY <5>1
        <5> QED
          BY <3>1, <5>2
      <4>2. (c - 1) + (n - c) = n - 1
        BY <2>1, <2>2
      <4> QED
        BY <3>2, <3>3, <4>1, <4>2
    <3>5. \A i \in 1 .. n - 1 : w[i] = IF i < c THEN ss[i] ELSE ss[i + 1]
      <4> SUFFICES ASSUME NEW i \in 1 .. n - 1 PROVE w[i] = IF i < c THEN ss[i] ELSE ss[i + 1]
        OBVIOUS
      <4>1. CASE i < c
        <5>1. i \in 1 .. c - 1 /\ i \in 1 .. Len(a)
          BY <2>1, <2>2, <3>2, <4>1
        <5>2. w[i] = a[i]
          BY <3>1, <3>2, <3>3, <5>1
        <5> QED
          BY <3>2, <4>1, <5>1, <5>2
      <4>2. CASE ~(i < c)
        <5>1. i - (c - 1) \in 1 .. n - c /\ c + (i - (c - 1)) = i + 1
          BY <2>1, <2>2, <4>2
        <5>2. w[i] = b[i - (c - 1)]
          <6>1. i \in 1 .. Len(a) + Len(b) /\ i > Len(a)
            BY <2>1, <2>2, <3>2, <3>3, <4>2
          <6>2. w[i] = b[i - Len(a)]
            BY <3>1, <3>2, <3>3, <6>1
          <6> QED
            BY <3>2, <6>2
        <5> QED
          BY <3>3, <4>2, <5>1, <5>2
      <4> QED
        BY <4>1, <4>2
    <3>6. DOMAIN w = 1 .. n - 1
      BY <3>4
    <3> QED
      BY <3>4, <3>5, <3>6
  <2> HIDE DEF w
  <2>5. ASSUME NEW i \in 1 .. n - 1, NEW j \in 1 .. n - 1, w[i] = w[j] PROVE i = j
    <3>1. i \in 1 .. n /\ j \in 1 .. n /\ i + 1 \in 1 .. n /\ j + 1 \in 1 .. n
      BY <2>1
    <3>2. CASE i < c /\ j < c
      BY <2>1, <2>4, <2>5, <3>1, <3>2
    <3>3. CASE i < c /\ ~(j < c)
      <4>1. ss[i] = ss[j + 1] /\ i # j + 1
        BY <2>2, <2>4, <2>5, <3>3
      <4> QED
        BY <2>1, <3>1, <4>1
    <3>4. CASE ~(i < c) /\ j < c
      <4>1. ss[i + 1] = ss[j] /\ j # i + 1
        BY <2>2, <2>4, <2>5, <3>4
      <4> QED
        BY <2>1, <3>1, <4>1
    <3>5. CASE ~(i < c) /\ ~(j < c)
      <4>1. ss[i + 1] = ss[j + 1]
        BY <2>4, <2>5, <3>5
      <4>2. i + 1 = j + 1
        BY <2>1, <3>1, <4>1
      <4> QED
        BY <4>2
    <3> QED
      BY <3>2, <3>3, <3>4, <3>5
  <2>6. ASSUME NEW i \in 1 .. n - 1 PROVE w[i] \in ToSet(ss) \ {l}
    <3>1. i \in 1 .. n /\ i + 1 \in 1 .. n
      BY <2>1
    <3>2. CASE i < c
      <4>1. w[i] = ss[i] /\ i # c
        BY <2>2, <2>4, <3>2
      <4>2. ss[i] # ss[c]
        BY <2>1, <2>2, <3>1, <4>1
      <4> QED
        BY <2>1, <2>2, <3>1, <4>1, <4>2 DEF ToSet
    <3>3. CASE ~(i < c)
      <4>1. w[i] = ss[i + 1] /\ i + 1 # c
        BY <2>2, <2>4, <3>3
      <4>2. ss[i + 1] # ss[c]
        BY <2>1, <2>2, <3>1, <4>1
      <4> QED
        BY <2>1, <2>2, <3>1, <4>1, <4>2 DEF ToSet
    <3> QED
      BY <3>2, <3>3
  <2>7. ASSUME NEW x \in ToSet(ss) \ {l} PROVE \E i \in 1 .. n - 1 : w[i] = x
    <3>1. PICK k \in 1 .. n : ss[k] = x
      BY <2>1 DEF ToSet
    <3>2. k # c
      BY <2>2, <3>1
    <3>3. CASE k < c
      <4>1. k \in 1 .. n - 1
        BY <2>1, <2>2, <3>3
      <4> QED
        BY <2>4, <3>1, <3>3, <4>1
    <3>4. CASE ~(k < c)
      <4>1. k - 1 \in 1 .. n - 1 /\ ~(k - 1 < c) /\ (k - 1) + 1 = k
        BY <2>1, <2>2, <3>2, <3>4
      <4>2. w[k - 1] = ss[k]
        BY <2>4, <4>1
      <4> QED
        BY <3>1, <4>1, <4>2
    <3> QED
      BY <3>3, <3>4
  <2>8. ToSet(w) = ToSet(ss) \ {l}
    <3>1. ToSet(w) \subseteq ToSet(ss) \ {l}
      BY <2>4, <2>6 DEF ToSet
    <3>2. ToSet(ss) \ {l} \subseteq ToSet(w)
      <4> SUFFICES ASSUME NEW x \in ToSet(ss) \ {l} PROVE x \in ToSet(w)
        OBVIOUS
      <4>1. PICK i \in 1 .. n - 1 : w[i] = x
        BY <2>7
      <4> QED
        BY <2>4, <4>1 DEF ToSet
    <3> QED
      BY <3>1, <3>2
  <2>9. \A i, j \in DOMAIN w : w[i] = w[j] => i = j
    BY <2>4, <2>5
  <2> QED
    BY <2>3, <2>4, <2>8, <2>9
<1> QED
  BY <1>1, <1>2

-----------------------------------------------------------------------------
(* What the page does between two awaits.                                  *)

\* All of PageFits but what the evidence table shows.
FitsButShown(p, st, r) ==
  /\ p \in PageRecord
  /\ OpenedSaid(p.cards, st) /\ RoomsDiffer(p.cards, r)
  /\ p.evidence \in {NoLecture, p.records}
  /\ p.visible => p.selected # NoLecture /\ WasOpened(p.selected, st)

LEMMA EvidenceFits ==
  ASSUME NEW p, NEW st, NEW r, FitsButShown(p, st, r)
  PROVE  PageFits(renderEvidencePanel(p), st, r)
  BY DEF FitsButShown, PageFits, renderEvidencePanel, PageRecord, Shown

LEMMA ClearedFits ==
  ASSUME NEW p, NEW st, NEW r, PageFits(p, st, r)
  PROVE  PageFits(clearDetailPanels(p), st, r) /\ PageFits(clearSelectedLecture(p), st, r)
  BY DEF PageFits, clearDetailPanels, clearSelectedLecture, PageRecord, Shown

LEMMA PresenceFits ==
  ASSUME NEW p, NEW st, NEW r, PageFits(p, st, r)
  PROVE  PageFits(resetPresenceState(p), st, r) /\ PageFits([p EXCEPT !.presence = TRUE], st, r)
  BY DEF PageFits, resetPresenceState, PageRecord, Shown

LEMMA SelectedFits ==
  ASSUME NEW p, NEW st, NEW r, PageFits(p, st, r), NEW e \in Entry,
         e.status = "open" => WasOpened(e.lecture, st)
  PROVE  PageFits(selectLecture(p, e), st, r)
<1> DEFINE o == onLectureChanged(p, e.lecture)
           q == [o EXCEPT !.selected = e.lecture, !.visible = (e.status = "open")]
<1>1. e.lecture \in Lecture /\ e.lecture # NoLecture
  BY PageAssumption DEF Entry
<1>2. o \in PageRecord /\ q \in PageRecord
  BY <1>1 DEF PageFits, PageRecord, Shown, onLectureChanged, clearDetailPanels
<1>3. o.cards = p.cards /\ o.evidence \in {NoLecture, o.records}
  BY DEF PageFits, PageRecord, onLectureChanged, clearDetailPanels
<1>4. /\ q.cards = p.cards /\ q.visible = (e.status = "open") /\ q.selected = e.lecture
      /\ q.evidence \in {NoLecture, q.records}
  BY <1>2, <1>3 DEF PageRecord
<1>5. selectLecture(p, e) = IF e.status # "open" THEN clearDetailPanels(q)
                            ELSE IF q.presence THEN renderEvidencePanel(q)
                            ELSE [q EXCEPT !.shown = NoLecture]
  BY DEF selectLecture
<1> HIDE DEF o, q
<1>6. FitsButShown(q, st, r)
  BY <1>1, <1>2, <1>4 DEF PageFits, FitsButShown
<1>7. CASE e.status # "open"
  <2>1. selectLecture(p, e) = clearDetailPanels(q)
    BY <1>5, <1>7
  <2> QED
    BY <1>6, <2>1 DEF FitsButShown, PageFits, clearDetailPanels, PageRecord, Shown
<1>8. CASE e.status = "open" /\ q.presence
  BY <1>5, <1>6, <1>8, EvidenceFits
<1>9. CASE e.status = "open" /\ ~q.presence
  <2>1. selectLecture(p, e) = [q EXCEPT !.shown = NoLecture]
    BY <1>5, <1>9
  <2> QED
    BY <1>6, <2>1 DEF FitsButShown, PageFits, PageRecord, Shown
<1> QED
  BY <1>7, <1>8, <1>9

LEMMA LeastOpen ==
  ASSUME NEW es \in Seq(Entry), es # <<>>
  PROVE  \E i \in DOMAIN es : Preferred(es) = es[i]
<1> DEFINE wanted == {i \in DOMAIN es : es[i].status = "open"}
<1>1. DOMAIN es = 1 .. Len(es) /\ Len(es) \in Nat /\ 1 \in 1 .. Len(es)
  OBVIOUS
<1>2. CASE wanted = {}
  BY <1>1, <1>2 DEF Preferred
<1>3. CASE wanted # {}
  <2>1. wanted \in SUBSET Nat /\ wanted \subseteq DOMAIN es
    BY <1>1
  <2>2. Preferred(es) = es[Min(wanted)]
    BY <1>3 DEF Preferred
  <2> HIDE DEF wanted
  <2>3. Min(wanted) \in wanted
    <3>1. \E x \in wanted : \A y \in wanted : x <= y
      BY <1>3, <2>1, LeastNumber
    <3> QED
      BY <3>1 DEF Min
  <2> QED
    BY <2>1, <2>2, <2>3
<1> QED
  BY <1>2, <1>3

LEMMA OverviewFits ==
  ASSUME NEW p, NEW st, NEW r, PageFits(p, st, r),
         NEW es \in Seq(Entry), OpenedSaid(es, st), RoomsDiffer(es, r)
  PROVE  PageFits(renderOverview(p, es), st, r)
<1> DEFINE q == [p EXCEPT !.cards = es]
<1>1. PageFits(q, st, r) /\ q.selected = p.selected
  BY DEF PageFits, PageRecord
<1>2. \A e \in ToSet(es) : e \in Entry /\ (e.status = "open" => WasOpened(e.lecture, st))
  BY DEF ToSet, OpenedSaid
<1> HIDE DEF q
<1>3. CASE es = <<>> /\ p.selected = NoLecture
  <2>1. renderOverview(p, es) = [q EXCEPT !.visible = FALSE]
    BY <1>3 DEF renderOverview, q
  <2> QED
    BY <1>1, <2>1 DEF PageFits, PageRecord
<1>4. CASE es # <<>> /\ p.selected = NoLecture
  <2>1. renderOverview(p, es) = selectLecture(q, Preferred(es))
    BY <1>4 DEF renderOverview, q
  <2>2. Preferred(es) \in ToSet(es)
    BY <1>4, LeastOpen DEF ToSet
  <2> QED
    BY <1>1, <1>2, <2>1, <2>2, SelectedFits
<1>5. CASE p.selected # NoLecture
  <2>1. renderOverview(p, es) = IF CardOf(es, p.selected) = {} THEN clearSelectedLecture(q)
                                ELSE selectLecture(q, CHOOSE e \in CardOf(es, p.selected) : TRUE)
    BY <1>5 DEF renderOverview, q
  <2>2. CASE CardOf(es, p.selected) = {}
    BY <1>1, <2>1, <2>2, ClearedFits
  <2>3. CASE CardOf(es, p.selected) # {}
    <3> DEFINE e == CHOOSE x \in CardOf(es, p.selected) : TRUE
    <3>1. e \in CardOf(es, p.selected)
      BY <2>3
    <3>2. e \in ToSet(es)
      BY <3>1 DEF CardOf
    <3>3. renderOverview(p, es) = selectLecture(q, e)
      BY <2>1, <2>3
    <3> HIDE DEF e
    <3> QED
      BY <1>1, <1>2, <3>2, <3>3, SelectedFits
  <2> QED
    BY <2>2, <2>3
<1> QED
  BY <1>3, <1>4, <1>5

LEMMA DetailFits ==
  ASSUME NEW p, NEW st, NEW r, PageFits(p, st, r), NEW l \in Shown, NEW withEvidence \in BOOLEAN
  PROVE  PageFits(ShowDetail(p, l, withEvidence), st, r)
<1> DEFINE q == [p EXCEPT !.records = l, !.evidence = IF withEvidence THEN l ELSE NoLecture]
<1>1. FitsButShown(q, st, r)
  BY DEF PageFits, FitsButShown, PageRecord, Shown
<1>2. ShowDetail(p, l, withEvidence) = renderEvidencePanel(q)
  BY DEF ShowDetail
<1> HIDE DEF q
<1> QED
  BY <1>1, <1>2, EvidenceFits

-----------------------------------------------------------------------------
(* Calls.                                                                  *)

LEMMA IdleCall ==
  ASSUME NEW st, NEW r
  PROVE  CallFits(Idle, st, r)
<1>1. Idle \in CallRecord
  <2>1. [q \in Query |-> <<>>] \in [Query -> Seq(Entry)] /\ <<>> \in Seq(Entry)
    OBVIOUS
  <2> QED
    BY <2>1 DEF Idle, CallRecord, Shown
<1>2. OpenedSaid(<<>>, st)
  BY DEF OpenedSaid
<1> QED
  BY <1>1, <1>2 DEF CallFits, Idle

\* A call that has begun, or has just had its request carried out.
LEMMA BegunCall ==
  ASSUME NEW st, NEW r, NEW l \in Lecture,
         NEW pc \in {"create", "start", "close", "finalize", "finalized"},
         NEW op \in {"start", "finalize", "create"}, op = "start" => pc = "start"
  PROVE  CallFits([Idle EXCEPT !.pc = pc, !.op = op, !.lecture = l], st, r)
<1> DEFINE c == [Idle EXCEPT !.pc = pc, !.op = op, !.lecture = l]
<1>1. Idle \in CallRecord /\ CallFits(Idle, st, r)
  BY IdleCall DEF CallFits
<1>2. c \in CallRecord
  BY <1>1 DEF CallRecord, Shown
<1>3. /\ c.pc = pc /\ c.op = op /\ c.lecture = l
      /\ c.entries = Idle.entries /\ c.got = Idle.got
  BY <1>1 DEF CallRecord
<1>4. l # NoLecture
  BY PageAssumption
<1> HIDE DEF c
<1>5. CallFits(c, st, r)
  BY <1>1, <1>2, <1>3, <1>4 DEF CallFits
<1> QED
  BY <1>5 DEF c

LEMMA FetchingCall ==
  ASSUME NEW st, NEW r, NEW c, CallFits(c, st, r), c.op = "start" => WasOpened(c.lecture, st)
  PROVE  CallFits([c EXCEPT !.pc = "overview", !.todo = Query], st, r)
<1> DEFINE d == [c EXCEPT !.pc = "overview", !.todo = Query]
<1>1. d \in CallRecord
  BY DEF CallFits, CallRecord
<1>2. /\ d.pc = "overview" /\ d.op = c.op /\ d.lecture = c.lecture /\ d.todo = Query
      /\ d.entries = c.entries /\ d.got = c.got
  BY DEF CallFits, CallRecord
<1> HIDE DEF d
<1>3. CallFits(d, st, r)
  BY <1>1, <1>2 DEF CallFits
<1> QED
  BY <1>3 DEF d

LEMMA OpenedStays ==
  ASSUME NEW st, NEW st2, \A k \in Lecture : WasOpened(k, st) => WasOpened(k, st2),
         NEW es \in Seq(Entry), OpenedSaid(es, st)
  PROVE  OpenedSaid(es, st2)
<1>1. \A i \in DOMAIN es : es[i].lecture \in Lecture
  <2>1. \A i \in DOMAIN es : es[i] \in Entry
    OBVIOUS
  <2> QED
    BY <2>1 DEF Entry
<1> QED
  BY <1>1 DEF OpenedSaid

\* What is under way when lecture l changes status.
LEMMA CallGoesOn ==
  ASSUME NEW st, NEW st2, NEW r, NEW c, CallFits(c, st, r), NEW l \in Lecture,
         \A k \in Lecture : WasOpened(k, st) => WasOpened(k, st2),
         \A k \in Lecture \ {l} : st2[k] = st[k]
  PROVE  /\ CallFits([c EXCEPT !.moved = @ \cup {l}], st2, r)
         /\ c.pc \notin {"overview", "presence", "ready"} => CallFits(c, st2, r)
<1> DEFINE d == [c EXCEPT !.moved = @ \cup {l}]
<1>1. c \in CallRecord /\ d \in CallRecord
  BY DEF CallFits, CallRecord
<1>2. /\ d.pc = c.pc /\ d.op = c.op /\ d.lecture = c.lecture /\ d.todo = c.todo
      /\ d.entries = c.entries /\ d.got = c.got /\ d.moved = c.moved \cup {l}
  BY <1>1 DEF CallRecord
<1> HIDE DEF d
<1>3. \A es \in Seq(Entry) : OpenedSaid(es, st) => OpenedSaid(es, st2)
  BY OpenedStays
<1>4. c.entries \in Seq(Entry) /\ \A q \in Query : c.got[q] \in Seq(Entry)
  BY <1>1 DEF CallRecord
<1>5. OpenedSaid(c.entries, st2) /\ \A q \in Query : OpenedSaid(c.got[q], st2)
  BY <1>3, <1>4 DEF CallFits
<1>6. c.op = "start" /\ c.pc # "start" => WasOpened(c.lecture, st2)
  <2>1. c.op = "start" => c.lecture \in Lecture
    BY <1>1 DEF CallFits, CallRecord, Shown
  <2> QED
    BY <2>1 DEF CallFits
<1>7. c.pc = "overview" =>
        \A q \in Query \ c.todo : Answering(c.got[q], q, Lecture \ d.moved, st2, r)
  BY <1>2 DEF CallFits, Answering
<1>8. c.pc \in {"presence", "ready"} =>
        \A k \in Lecture \ d.moved : st2[k] \in Query => Listing(c.entries, k, st2, r)
  BY <1>2 DEF CallFits, Listing
<1>9. CallFits(d, st2, r)
  BY <1>1, <1>2, <1>5, <1>6, <1>7, <1>8 DEF CallFits
<1>10. c.pc \notin {"overview", "presence", "ready"} => CallFits(c, st2, r)
  BY <1>1, <1>5, <1>6 DEF CallFits
<1> QED
  BY <1>9, <1>10 DEF d

\* One call goes on; the database rests.
LEMMA OneCall ==
  ASSUME ServerFits, CallsFit, UNCHANGED serverVars,
         NEW t \in Task, NEW c, CallFits(c, status, room), task' = [task EXCEPT ![t] = c]
  PROVE  ServerFits' /\ CallsFit'
<1>1. c \in CallRecord
  BY DEF CallFits
<1>2. task' \in [Task -> CallRecord] /\ \A u \in Task : task'[u] = IF u = t THEN c ELSE task[u]
  BY <1>1 DEF CallsFit
<1>3. status' = status /\ starts' = starts /\ room' = room
  BY DEF serverVars
<1>4. \A u \in Task : CallFits(task'[u], status', room')
  BY <1>2, <1>3 DEF CallsFit
<1> QED
  BY <1>2, <1>3, <1>4 DEF ServerFits, CallsFit

\* No call goes on, and the database rests.
LEMMA NoCall ==
  ASSUME ServerFits, CallsFit, UNCHANGED serverVars, UNCHANGED task
  PROVE  ServerFits' /\ CallsFit'
  BY DEF ServerFits, CallsFit, serverVars

LEMMA SamePage ==
  ASSUME PageFits(page, status, room), ModalFits, UNCHANGED serverVars, UNCHANGED page, UNCHANGED modal
  PROVE  PageFits(page, status, room)' /\ ModalFits'
  BY DEF serverVars, ModalFits

-----------------------------------------------------------------------------
(* A lecture changes status.                                               *)

Ways == {<<"none", "scheduled">>, <<"scheduled", "open">>, <<"open", "closed">>, <<"closed", "finalized">>}

LEMMA StatusMoves ==
  ASSUME status \in [Lecture -> Status], NEW l \in Lecture, NEW from, NEW to,
         <<from, to>> \in Ways, status[l] = from, NEW tasks, SetStatus(l, to, tasks)
  PROVE  /\ status' \in [Lecture -> Status] /\ room' = room /\ status'[l] = to
         /\ \A k \in Lecture \ {l} : status'[k] = status[k]
         /\ \A k \in Lecture : WasOpened(k, status) => WasOpened(k, status')
<1>1. /\ \/ from = "none" /\ to = "scheduled"
         \/ from = "scheduled" /\ to = "open"
         \/ from = "open" /\ to = "closed"
         \/ from = "closed" /\ to = "finalized"
      /\ to \in Status
  BY DEF Ways, Status
<1>2. status' \in [Lecture -> Status] /\ room' = room /\ status'[l] = to
      /\ \A k \in Lecture \ {l} : status'[k] = status[k]
  BY <1>1 DEF SetStatus
<1>3. ASSUME NEW k \in Lecture, WasOpened(k, status) PROVE WasOpened(k, status')
  <2>1. CASE k = l
    BY <1>1, <1>2, <1>3, <2>1 DEF WasOpened
  <2>2. CASE k # l
    BY <1>2, <1>3, <2>2 DEF WasOpened
  <2> QED
    BY <2>1, <2>2
<1> QED
  BY <1>2, <1>3

LEMMA StatusStep ==
  ASSUME PageInv, NEW l \in Lecture, NEW from, NEW to, <<from, to>> \in Ways, status[l] = from,
         NEW tasks, SetStatus(l, to, tasks),
         \A t \in Task : \/ tasks[t] = task[t]
                         \/ /\ tasks[t].pc \notin {"presence", "ready"}
                            /\ ~Fetching(t) /\ CallFits(tasks[t], status', room),
         UNCHANGED page, UNCHANGED modal
  PROVE  PageInv'
<1>1. /\ status \in [Lecture -> Status] /\ StartsFit(starts, status)
      /\ task \in [Task -> CallRecord] /\ \A t \in Task : CallFits(task[t], status, room)
      /\ PageFits(page, status, room) /\ ModalFits
  BY DEF PageInv, ServerFits, CallsFit
<1>2. /\ \/ from = "none" /\ to = "scheduled"
         \/ from = "scheduled" /\ to = "open"
         \/ from = "open" /\ to = "closed"
         \/ from = "closed" /\ to = "finalized"
      /\ to \in Status
  BY DEF Ways, Status
<1>3. status' \in [Lecture -> Status] /\ room' = room /\ status'[l] = to
      /\ \A k \in Lecture \ {l} : status'[k] = status[k]
  BY <1>1, StatusMoves
<1>4. \A k \in Lecture : WasOpened(k, status) => WasOpened(k, status')
  BY <1>1, StatusMoves
<1>5. StartsFit(starts', status')
  <2>1. CASE to = "open"
    <3>1. starts' = <<l>> \o starts /\ status[l] # "open"
      BY <1>2, <2>1 DEF SetStatus
    <3>2. /\ starts \in Seq(Lecture) /\ \A i, j \in DOMAIN starts : starts[i] = starts[j] => i = j
          /\ ToSet(starts) = {k \in Lecture : status[k] = "open"}
      BY <1>1 DEF StartsFit
    <3>3. l \notin ToSet(starts)
      BY <3>1, <3>2
    <3>4. /\ starts' \in Seq(Lecture) /\ DOMAIN starts' = 1 .. Len(starts) + 1
          /\ starts'[1] = l /\ \A i \in 1 .. Len(starts) : starts'[i + 1] = starts[i]
      BY <3>1, <3>2
    <3>5. DOMAIN starts = 1 .. Len(starts) /\ Len(starts) \in Nat
      BY <3>2
    <3>6. \A i \in 1 .. Len(starts) + 1 : i = 1 \/ (i - 1 \in 1 .. Len(starts) /\ starts'[i] = starts[i - 1])
      <4> SUFFICES ASSUME NEW i \in 1 .. Len(starts) + 1, i # 1
                   PROVE  i - 1 \in 1 .. Len(starts) /\ starts'[i] = starts[i - 1]
        OBVIOUS
      <4>1. i - 1 \in 1 .. Len(starts) /\ (i - 1) + 1 = i
        BY <3>5
      <4> QED
        BY <3>4, <4>1
    <3>7. \A i, j \in DOMAIN starts' : starts'[i] = starts'[j] => i = j
      <4> SUFFICES ASSUME NEW i \in 1 .. Len(starts) + 1, NEW j \in 1 .. Len(starts) + 1,
                          starts'[i] = starts'[j]
                   PROVE  i = j
        BY <3>4
      <4>0. \A k \in 1 .. Len(starts) : starts[k] # l
        BY <3>3, <3>5 DEF ToSet
      <4>1. CASE i = 1 \/ j = 1
        BY <3>4, <3>6, <4>0, <4>1
      <4>2. CASE i # 1 /\ j # 1
        <5>1. i - 1 \in 1 .. Len(starts) /\ j - 1 \in 1 .. Len(starts) /\ starts[i - 1] = starts[j - 1]
          BY <3>6, <4>2
        <5>2. i - 1 = j - 1
          BY <3>2, <3>5, <5>1
        <5> QED
          BY <3>5, <5>2
      <4> QED
        BY <4>1, <4>2
    <3>8. ToSet(starts') = ToSet(starts) \cup {l}
      <4>1. ToSet(starts') \subseteq ToSet(starts) \cup {l}
        <5> SUFFICES ASSUME NEW i \in 1 .. Len(starts) + 1 PROVE starts'[i] \in ToSet(starts) \cup {l}
          BY <3>4 DEF ToSet
        <5>1. CASE i = 1
          BY <3>4, <5>1
        <5>2. CASE i # 1
          <6>1. i - 1 \in DOMAIN starts /\ starts'[i] = starts[i - 1]
            BY <3>5, <3>6, <5>2
          <6> QED
            BY <6>1 DEF ToSet
        <5> QED
          BY <5>1, <5>2
      <4>2. \A i \in 1 .. Len(starts) : i + 1 \in 1 .. Len(starts) + 1
        BY <3>5
      <4>3. ToSet(starts) \cup {l} \subseteq ToSet(starts')
        BY <3>4, <3>5, <4>2 DEF ToSet
      <4> QED
        BY <4>1, <4>3
    <3>9. ToSet(starts') = {k \in Lecture : status'[k] = "open"}
      BY <1>3, <2>1, <3>2, <3>8
    <3> QED
      BY <3>4, <3>7, <3>9 DEF StartsFit
  <2>2. CASE to # "open"
    <3>1. starts' = Without(starts, l)
      BY <2>2 DEF SetStatus
    <3>2. /\ starts' \in Seq(Lecture)
          /\ \A i, j \in DOMAIN starts' : starts'[i] = starts'[j] => i = j
          /\ ToSet(starts') = ToSet(starts) \ {l}
      BY <1>1, <3>1, WithoutOne DEF StartsFit
    <3>3. ToSet(starts') = {k \in Lecture : status'[k] = "open"}
      BY <1>1, <1>3, <2>2, <3>2 DEF StartsFit
    <3> QED
      BY <3>2, <3>3 DEF StartsFit
  <2> QED
    BY <2>1, <2>2
<1>6. ASSUME NEW t \in Task PROVE CallFits(task'[t], status', room')
  <2>1. task'[t] = IF Fetching(t) THEN [tasks[t] EXCEPT !.moved = @ \cup {l}] ELSE tasks[t]
    BY DEF SetStatus
  <2>2. CASE tasks[t] = task[t]
    <3>1. CallFits([task[t] EXCEPT !.moved = @ \cup {l}], status', room)
      BY <1>1, <1>3, <1>4, CallGoesOn
    <3>2. task[t].pc \notin {"overview", "presence", "ready"} => CallFits(task[t], status', room)
      BY <1>1, <1>3, <1>4, CallGoesOn
    <3> QED
      BY <1>3, <2>1, <2>2, <3>1, <3>2 DEF Fetching
  <2>3. CASE tasks[t] # task[t]
    BY <1>3, <2>1, <2>3
  <2> QED
    BY <2>2, <2>3
<1>7. task' \in [Task -> CallRecord]
  <2>1. task' = [t \in Task |-> IF Fetching(t) THEN [tasks[t] EXCEPT !.moved = @ \cup {l}] ELSE tasks[t]]
    BY DEF SetStatus
  <2>2. \A t \in Task : task'[t] \in CallRecord
    BY <1>6 DEF CallFits
  <2> QED
    BY <2>1, <2>2
<1>8. PageFits(page', status', room')
  <2>1. page' = page
    OBVIOUS
  <2>2. OpenedSaid(page.cards, status')
    <3>1. page.cards \in Seq(Entry) /\ OpenedSaid(page.cards, status)
      BY <1>1 DEF PageFits, PageRecord
    <3> QED
      BY <1>4, <3>1, OpenedStays
  <2>3. page.visible => WasOpened(page.selected, status')
    BY <1>1, <1>4 DEF PageFits, PageRecord, Shown
  <2> QED
    BY <1>1, <1>3, <2>1, <2>2, <2>3 DEF PageFits
<1>9. ModalFits'
  BY <1>1 DEF ModalFits
<1> QED
  BY <1>3, <1>5, <1>6, <1>7, <1>8, <1>9 DEF PageInv, ServerFits, CallsFit

\* A request: carried out, it is what then says; refused, the call ends.
LEMMA RequestStep ==
  ASSUME PageInv, NEW t \in Task, NEW pc, NEW from, NEW to, <<from, to>> \in Ways, NEW then,
         Lifecycle(t, pc, from, to, then),
         pc \in {"create", "start", "close", "finalize"}, pc = "start" => to = "open",
         \/ then = fetchOverviewData(t)
         \/ /\ pc \in {"close", "finalize"}
            /\ \E next \in {"finalize", "finalized"} : then = [task[t] EXCEPT !.pc = next]
  PROVE  PageInv'
<1> DEFINE l == task[t].lecture
<1>1. /\ status \in [Lecture -> Status] /\ task[t] \in CallRecord /\ CallFits(task[t], status, room)
      /\ ServerFits /\ CallsFit /\ PageFits(page, status, room) /\ ModalFits
  BY DEF PageInv, ServerFits, CallsFit
<1>2. task[t].pc = pc /\ l \in Lecture /\ UNCHANGED page /\ UNCHANGED modal
  BY <1>1 DEF Lifecycle, CallFits
<1>3. CASE status[l] # from
  <2>1. task' = [task EXCEPT ![t] = Idle] /\ UNCHANGED serverVars
    BY <1>3 DEF Lifecycle
  <2>2. ServerFits' /\ CallsFit'
    BY <1>1, <2>1, IdleCall, OneCall
  <2> QED
    BY <1>1, <1>2, <2>1, <2>2, SamePage DEF PageInv
<1>4. CASE status[l] = from
  <2> DEFINE tasks == [task EXCEPT ![t] = then]
  <2>1. SetStatus(l, to, tasks)
    BY <1>4 DEF Lifecycle
  <2>2. /\ status'[l] = to
        /\ \A k \in Lecture \ {l} : status'[k] = status[k]
        /\ \A k \in Lecture : WasOpened(k, status) => WasOpened(k, status')
    <3> HIDE DEF tasks, l
    <3> QED
      BY <1>1, <1>2, <1>4, <2>1, StatusMoves
  <2>3. CallFits(task[t], status', room)
    <3> HIDE DEF l
    <3> QED
      BY <1>1, <1>2, <2>2, CallGoesOn
  <2>4. then.pc \notin {"presence", "ready"} /\ CallFits(then, status', room)
    <3>1. CASE then = fetchOverviewData(t)
      <4>1. then = [task[t] EXCEPT !.pc = "overview", !.todo = Query]
        BY <3>1 DEF fetchOverviewData
      <4>2. task[t].op = "start" => WasOpened(task[t].lecture, status')
        <5>1. CASE pc = "start"
          BY <2>2, <5>1 DEF WasOpened
        <5>2. CASE pc # "start"
          BY <1>2, <2>3, <5>2 DEF CallFits
        <5> QED
          BY <5>1, <5>2
      <4>3. then.pc = "overview"
        BY <1>1, <4>1 DEF CallRecord
      <4> QED
        BY <2>3, <4>1, <4>2, <4>3, FetchingCall
    <3>2. CASE pc \in {"close", "finalize"}
               /\ \E next \in {"finalize", "finalized"} : then = [task[t] EXCEPT !.pc = next]
      <4>1. PICK next \in {"finalize", "finalized"} : then = [task[t] EXCEPT !.pc = next]
        BY <3>2
      <4>2. /\ then \in CallRecord /\ then.pc = next /\ then.op = task[t].op /\ then.lecture = l
            /\ then.entries = task[t].entries /\ then.got = task[t].got
        BY <1>1, <4>1 DEF CallRecord
      <4> QED
        BY <1>2, <2>3, <3>2, <4>2 DEF CallFits
    <3> QED
      BY <3>1, <3>2
  <2>5. \A u \in Task : \/ tasks[u] = task[u]
                        \/ /\ tasks[u].pc \notin {"presence", "ready"}
                           /\ ~Fetching(u) /\ CallFits(tasks[u], status', room)
    <3> SUFFICES ASSUME NEW u \in Task, u = t
                 PROVE  /\ tasks[u].pc \notin {"presence", "ready"}
                        /\ ~Fetching(u) /\ CallFits(tasks[u], status', room)
      BY <1>1 DEF CallsFit
    <3>1. tasks[u] = then
      BY <1>1 DEF CallsFit
    <3>2. ~Fetching(u)
      BY <1>2 DEF Fetching
    <3> QED
      BY <2>4, <3>1, <3>2
  <2> HIDE DEF tasks, l
  <2> QED
    BY <1>2, <1>4, <2>1, <2>5, StatusStep
<1> QED
  BY <1>3, <1>4

LEMMA ElsewhereStep ==
  ASSUME PageInv, NEW l \in Lecture, Elsewhere(l)
  PROVE  PageInv'
<1>1. PICK step \in Ways : status[l] = step[1] /\ SetStatus(l, step[2], task)
  BY DEF Elsewhere, Ways
<1>2. PICK from, to : <<from, to>> = step
  BY <1>1 DEF Ways
<1>3. <<from, to>> \in Ways /\ status[l] = from /\ SetStatus(l, to, task)
  BY <1>1, <1>2
<1>4. UNCHANGED page /\ UNCHANGED modal
  BY DEF Elsewhere
<1> QED
  BY <1>3, <1>4, StatusStep

-----------------------------------------------------------------------------
(* The other steps.                                                        *)

LEMMA RefreshStep ==
  ASSUME PageInv, NEW p \in Poll, refresh(p)
  PROVE  PageInv'
<1>1. /\ p \in Task /\ task[p] \in CallRecord /\ CallFits(task[p], status, room)
      /\ ServerFits /\ CallsFit /\ PageFits(page, status, room) /\ ModalFits
  BY DEF PageInv, CallsFit, Task
<1>2. /\ task' = [task EXCEPT ![p] = [task[p] EXCEPT !.pc = "overview", !.todo = Query]]
      /\ UNCHANGED serverVars /\ UNCHANGED page /\ UNCHANGED modal
  BY DEF refresh, fetchOverviewData
<1>3. CallFits([task[p] EXCEPT !.pc = "overview", !.todo = Query], status, room)
  <2>1. task[p].op = "start" => WasOpened(task[p].lecture, status)
    BY <1>1 DEF CallFits, refresh
  <2> QED
    BY <1>1, <2>1, FetchingCall
<1>4. ServerFits' /\ CallsFit'
  BY <1>1, <1>2, <1>3, OneCall
<1> QED
  BY <1>1, <1>2, <1>4, SamePage DEF PageInv

\* One answer more: of the database as it is, so of every lecture that rested.
LEMMA FetchStep ==
  ASSUME PageInv, NEW t \in Task, Fetch(t)
  PROVE  PageInv'
<1>1. /\ task[t] \in CallRecord /\ CallFits(task[t], status, room) /\ task[t].pc = "overview"
      /\ status \in [Lecture -> Status] /\ StartsFit(starts, status)
      /\ ServerFits /\ CallsFit /\ PageFits(page, status, room) /\ ModalFits
      /\ UNCHANGED serverVars /\ UNCHANGED page /\ UNCHANGED modal
  BY DEF PageInv, CallsFit, ServerFits, Fetch
<1>2. PICK q \in task[t].todo :
        task' = [task EXCEPT ![t] =
          IF task[t].todo # {q} THEN [task[t] EXCEPT !.got = [task[t].got EXCEPT ![q] = Answer(q)],
                                                     !.todo = task[t].todo \ {q}]
          ELSE [task[t] EXCEPT !.pc = IF t \in Poll THEN "presence" ELSE "ready", !.got = Idle.got,
                               !.todo = {}, !.entries = Entries([task[t].got EXCEPT ![q] = Answer(q)])]]
  BY Zenon DEF Fetch
<1> DEFINE got == [task[t].got EXCEPT ![q] = Answer(q)]
           rest == Lecture \ task[t].moved
           more == [task[t] EXCEPT !.got = got, !.todo = task[t].todo \ {q}]
           last == [task[t] EXCEPT !.pc = IF t \in Poll THEN "presence" ELSE "ready", !.got = Idle.got,
                                   !.todo = {}, !.entries = Entries(got)]
<1>3. q \in Query /\ task[t].got \in [Query -> Seq(Entry)]
  BY <1>1, <1>2 DEF CallRecord
<1>4. /\ Answer(q) \in Seq(Entry) /\ OpenedSaid(Answer(q), status)
      /\ Answering(Answer(q), q, Lecture, status, room)
  BY <1>1, <1>3, AnswerFits
<1>5. /\ got \in [Query -> Seq(Entry)] /\ got[q] = Answer(q)
      /\ \A k \in Query \ {q} : got[k] = task[t].got[k]
  BY <1>3, <1>4
<1>6. \A k \in Query : OpenedSaid(got[k], status)
  BY <1>1, <1>4, <1>5 DEF CallFits
<1>7. \A k \in Query \ (task[t].todo \ {q}) : Answering(got[k], k, rest, status, room)
  <2> SUFFICES ASSUME NEW k \in Query \ (task[t].todo \ {q})
               PROVE  Answering(got[k], k, rest, status, room)
    OBVIOUS
  <2>1. CASE k = q
    BY <1>4, <1>5, <2>1 DEF Answering
  <2>2. CASE k # q
    BY <1>1, <1>5, <2>2 DEF CallFits
  <2> QED
    BY <2>1, <2>2
<1>8. CallFits(more, status, room)
  <2>1. more \in CallRecord
    BY <1>1, <1>5 DEF CallRecord
  <2>2. /\ more.pc = task[t].pc /\ more.op = task[t].op /\ more.lecture = task[t].lecture
        /\ more.entries = task[t].entries /\ more.moved = task[t].moved
        /\ more.got = got /\ more.todo = task[t].todo \ {q}
    BY <1>1 DEF CallRecord
  <2> HIDE DEF more, got
  <2> QED
    BY <1>1, <1>6, <1>7, <2>1, <2>2 DEF CallFits
<1>9. ASSUME task[t].todo = {q} PROVE CallFits(last, status, room)
  <2>1. \A k \in Query : Answering(got[k], k, rest, status, room)
    BY <1>7, <1>9
  <2>2. /\ Entries(got) \in Seq(Entry) /\ RoomsDiffer(Entries(got), room)
        /\ OpenedSaid(Entries(got), status)
    <3> HIDE DEF got
    <3> QED
      BY <1>5, <1>6, OpenedEntries
  <2>3. \A l \in rest : status[l] \in Query => Listing(Entries(got), l, status, room)
    <3> HIDE DEF got, rest
    <3> QED
      BY <1>5, <2>1, RestingEntries
  <2>4. Idle.got \in [Query -> Seq(Entry)] /\ \A k \in Query : OpenedSaid(Idle.got[k], status)
    BY IdleCall DEF CallFits, CallRecord
  <2>5. last \in CallRecord
    <3> HIDE DEF got
    <3> QED
      BY <1>1, <2>2, <2>4 DEF CallRecord
  <2>6. /\ last.pc \in {"presence", "ready"} /\ last.op = task[t].op /\ last.lecture = task[t].lecture
        /\ last.entries = Entries(got) /\ last.moved = task[t].moved /\ last.got = Idle.got
    <3> HIDE DEF got
    <3> QED
      BY <1>1 DEF CallRecord
  <2> HIDE DEF last, got
  <2> QED
    BY <1>1, <2>2, <2>3, <2>4, <2>5, <2>6 DEF CallFits
<1>10. PICK c : c \in {more, last} /\ CallFits(c, status, room) /\ task' = [task EXCEPT ![t] = c]
  <2>1. task' = [task EXCEPT ![t] = IF task[t].todo # {q} THEN more ELSE last]
    BY <1>2
  <2> HIDE DEF more, last
  <2> QED
    BY <1>8, <1>9, <2>1
<1>11. ServerFits' /\ CallsFit'
  BY <1>1, <1>10, OneCall
<1> QED
  BY <1>1, <1>11, SamePage DEF PageInv

LEMMA SurveillanceStep ==
  ASSUME PageInv, NEW t \in Task, refreshSurveillanceGlobal(t)
  PROVE  PageInv'
<1> DEFINE c == [task[t] EXCEPT !.pc = "ready"]
<1>1. /\ task[t] \in CallRecord /\ CallFits(task[t], status, room) /\ task[t].pc = "presence"
      /\ ServerFits /\ CallsFit /\ PageFits(page, status, room) /\ ModalFits
      /\ UNCHANGED serverVars /\ UNCHANGED modal
      /\ page' \in {[page EXCEPT !.presence = TRUE], resetPresenceState(page)}
  BY DEF PageInv, CallsFit, refreshSurveillanceGlobal
<1>2. task' = [task EXCEPT ![t] = c]
  BY DEF refreshSurveillanceGlobal
<1>3. c \in CallRecord
  BY <1>1 DEF CallRecord
<1>4. /\ c.pc = "ready" /\ c.op = task[t].op /\ c.lecture = task[t].lecture
      /\ c.entries = task[t].entries /\ c.moved = task[t].moved /\ c.got = task[t].got
  BY <1>1 DEF CallRecord
<1> HIDE DEF c
<1>5. CallFits(c, status, room)
  BY <1>1, <1>3, <1>4 DEF CallFits
<1>6. ServerFits' /\ CallsFit'
  BY <1>1, <1>2, <1>5, OneCall
<1>7. PageFits(page', status, room)
  <2>1. PageFits(resetPresenceState(page), status, room) /\ PageFits([page EXCEPT !.presence = TRUE], status, room)
    BY <1>1, PresenceFits
  <2> QED
    BY <1>1, <2>1, Zenon
<1>8. PageFits(page', status', room') /\ ModalFits'
  BY <1>1, <1>7 DEF serverVars, ModalFits
<1> QED
  BY <1>6, <1>8 DEF PageInv

\* A call that started its lecture selects it when it ends.
LEMMA FinishFits ==
  ASSUME PageInv, NEW t \in Task, task[t].pc # "start", NEW p, PageFits(p, status, room)
  PROVE  PageFits(Finish(t, p), status, room)
<1>1. task[t] \in CallRecord /\ CallFits(task[t], status, room)
  BY DEF PageInv, CallsFit
<1>2. CASE task[t].op = "start"
  <2> DEFINE e == [lecture |-> task[t].lecture, status |-> "open"]
  <2>1. task[t].lecture \in Lecture /\ WasOpened(task[t].lecture, status)
    BY <1>1, <1>2 DEF CallFits, CallRecord, Shown
  <2>2. e \in Entry /\ WasOpened(e.lecture, status)
    BY <2>1 DEF Entry, Status
  <2>3. Finish(t, p) = selectLecture(p, e)
    BY <1>2 DEF Finish
  <2> HIDE DEF e
  <2> QED
    BY <2>2, <2>3, SelectedFits
<1>3. CASE task[t].op # "start"
  BY <1>3 DEF Finish
<1> QED
  BY <1>2, <1>3

LEMMA RenderStep ==
  ASSUME PageInv, NEW t \in Task, Render(t)
  PROVE  PageInv'
<1> DEFINE p == renderOverview(page, task[t].entries)
           c == [Idle EXCEPT !.pc = "detail", !.op = task[t].op, !.lecture = task[t].lecture,
                             !.detail = p.selected, !.evidence = p.presence]
<1>1. /\ task[t] \in CallRecord /\ CallFits(task[t], status, room) /\ task[t].pc = "ready"
      /\ ServerFits /\ CallsFit /\ PageFits(page, status, room) /\ ModalFits
      /\ UNCHANGED serverVars /\ UNCHANGED modal
  BY DEF PageInv, CallsFit, Render
<1>2. PageFits(p, status, room)
  <2>1. /\ task[t].entries \in Seq(Entry) /\ OpenedSaid(task[t].entries, status)
        /\ RoomsDiffer(task[t].entries, room)
    BY <1>1 DEF CallFits, CallRecord
  <2> QED
    BY <1>1, <2>1, OverviewFits
<1>3. \/ page' = p /\ task' = [task EXCEPT ![t] = c]
      \/ page' = Finish(t, clearDetailPanels(p)) /\ task' = [task EXCEPT ![t] = Idle]
  BY DEF Render
<1> HIDE DEF p
<1>4. CallFits(c, status, room)
  <2>1. Idle \in CallRecord /\ CallFits(Idle, status, room)
    BY IdleCall DEF CallFits
  <2>2. p.selected \in Shown /\ p.presence \in BOOLEAN
    BY <1>2 DEF PageFits, PageRecord
  <2>3. c \in CallRecord
    BY <1>1, <2>1, <2>2 DEF CallRecord
  <2>4. /\ c.pc = "detail" /\ c.op = task[t].op /\ c.lecture = task[t].lecture
        /\ c.entries = Idle.entries /\ c.got = Idle.got
    BY <2>1 DEF CallRecord
  <2> HIDE DEF c
  <2> QED
    BY <1>1, <2>1, <2>3, <2>4 DEF CallFits
<1> HIDE DEF c
<1>5. PageFits(page', status, room) /\ ServerFits' /\ CallsFit'
  <2>1. CASE page' = p /\ task' = [task EXCEPT ![t] = c]
    <3>1. ServerFits' /\ CallsFit'
      BY <1>1, <1>4, <2>1, OneCall
    <3> QED
      BY <1>2, <2>1, <3>1
  <2>2. CASE page' = Finish(t, clearDetailPanels(p)) /\ task' = [task EXCEPT ![t] = Idle]
    <3>1. PageFits(clearDetailPanels(p), status, room)
      BY <1>2, ClearedFits
    <3>2. PageFits(page', status, room)
      BY <1>1, <2>2, <3>1, FinishFits
    <3>3. ServerFits' /\ CallsFit'
      BY <1>1, <2>2, IdleCall, OneCall
    <3> QED
      BY <3>2, <3>3
  <2> QED
    BY <1>3, <2>1, <2>2
<1>6. PageFits(page', status', room') /\ ModalFits'
  BY <1>1, <1>5 DEF serverVars, ModalFits
<1> QED
  BY <1>5, <1>6 DEF PageInv

\* The answer for whatever lecture was selected when it was asked for.
LEMMA DetailStep ==
  ASSUME PageInv, NEW t \in Task, refreshDetail(t)
  PROVE  PageInv'
<1>1. /\ task[t] \in CallRecord /\ task[t].pc = "detail"
      /\ ServerFits /\ CallsFit /\ PageFits(page, status, room) /\ ModalFits
      /\ UNCHANGED serverVars /\ UNCHANGED modal
      /\ page' = Finish(t, ShowDetail(page, task[t].detail, task[t].evidence))
      /\ task' = [task EXCEPT ![t] = Idle]
  BY DEF PageInv, CallsFit, refreshDetail
<1>2. PageFits(ShowDetail(page, task[t].detail, task[t].evidence), status, room)
  <2>1. task[t].detail \in Shown /\ task[t].evidence \in BOOLEAN
    BY <1>1 DEF CallRecord
  <2> QED
    BY <1>1, <2>1, DetailFits
<1>3. PageFits(page', status, room)
  BY <1>1, <1>2, FinishFits
<1>4. ServerFits' /\ CallsFit'
  BY <1>1, IdleCall, OneCall
<1>5. PageFits(page', status', room') /\ ModalFits'
  BY <1>1, <1>3 DEF serverVars, ModalFits
<1> QED
  BY <1>4, <1>5 DEF PageInv

LEMMA FailStep ==
  ASSUME PageInv, NEW t \in Task, Fail(t)
  PROVE  PageInv'
<1>1. /\ ServerFits /\ CallsFit /\ PageFits(page, status, room) /\ ModalFits
      /\ UNCHANGED serverVars /\ UNCHANGED page /\ UNCHANGED modal
      /\ task' = [task EXCEPT ![t] = Idle]
  BY DEF PageInv, Fail
<1>2. ServerFits' /\ CallsFit'
  BY <1>1, IdleCall, OneCall
<1> QED
  BY <1>1, <1>2, SamePage DEF PageInv

LEMMA FinalizedStep ==
  ASSUME PageInv, Finalized
  PROVE  PageInv'
<1> DEFINE t == "action"
<1>1. /\ t \in Task /\ task[t] \in CallRecord /\ CallFits(task[t], status, room)
      /\ task[t].pc = "finalized"
      /\ ServerFits /\ CallsFit /\ PageFits(page, status, room)
      /\ UNCHANGED serverVars /\ modal' = NoModal
      /\ page' = IF page.selected = task[t].lecture THEN clearSelectedLecture(page) ELSE page
      /\ task' = [task EXCEPT ![t] = [task[t] EXCEPT !.pc = "overview", !.todo = Query]]
  BY DEF PageInv, CallsFit, Finalized, fetchOverviewData, Task
<1> HIDE DEF t
<1>2. CallFits([task[t] EXCEPT !.pc = "overview", !.todo = Query], status, room)
  <2>1. task[t].op = "start" => WasOpened(task[t].lecture, status)
    BY <1>1 DEF CallFits
  <2> QED
    BY <1>1, <2>1, FetchingCall
<1>3. ServerFits' /\ CallsFit'
  BY <1>1, <1>2, OneCall
<1>4. PageFits(page', status, room)
  <2>1. PageFits(clearSelectedLecture(page), status, room)
    BY <1>1, ClearedFits
  <2> QED
    BY <1>1, <2>1
<1>5. PageFits(page', status', room') /\ ModalFits'
  BY <1>1, <1>4 DEF serverVars, ModalFits
<1> QED
  BY <1>3, <1>5 DEF PageInv

\* A button begins a call.
LEMMA BeginStep ==
  ASSUME PageInv, NEW t \in Task, NEW l \in Lecture, NEW op, NEW pc, Begin(t, op, pc, l),
         pc \in {"create", "start", "close", "finalize"}, op \in {"start", "finalize", "create"},
         op = "start" => pc = "start",
         UNCHANGED serverVars, UNCHANGED page, UNCHANGED modal
  PROVE  PageInv'
<1> DEFINE c == [Idle EXCEPT !.pc = pc, !.op = op, !.lecture = l]
<1>1. /\ ServerFits /\ CallsFit /\ PageFits(page, status, room) /\ ModalFits
      /\ task' = [task EXCEPT ![t] = c]
  BY DEF PageInv, Begin
<1>2. CallFits(c, status, room)
  BY BegunCall
<1> HIDE DEF c
<1>3. ServerFits' /\ CallsFit'
  BY <1>1, <1>2, OneCall
<1> QED
  BY <1>1, <1>3, SamePage DEF PageInv

LEMMA CardFits ==
  ASSUME PageInv, NEW l, NEW e \in Cards(l)
  PROVE  e \in Entry /\ (e.status = "open" => WasOpened(e.lecture, status))
<1>1. page.cards \in Seq(Entry) /\ OpenedSaid(page.cards, status)
  BY DEF PageInv, PageFits, PageRecord
<1>2. PICK i \in DOMAIN page.cards : e = page.cards[i]
  BY DEF Cards, CardOf, ToSet
<1>3. page.cards[i] \in Entry
  BY <1>1
<1> QED
  BY <1>1, <1>2, <1>3 DEF OpenedSaid

LEMMA ClickStep ==
  ASSUME PageInv, NEW l \in Lecture,
         \/ ClickCard(l) \/ handleStartLecture(l) \/ openFinalizeModal(l)
         \/ handleCreateLectureSubmit(l)
  PROVE  PageInv'
<1>1. /\ ServerFits /\ CallsFit /\ PageFits(page, status, room) /\ ModalFits
      /\ "action" \in Task /\ "form" \in Task
  BY DEF PageInv, Task
<1>2. CASE ClickCard(l)
  <2>1. PICK e \in Cards(l) : page' = selectLecture(page, e)
    BY <1>2 DEF ClickCard
  <2>2. UNCHANGED serverVars /\ UNCHANGED task /\ UNCHANGED modal
    BY <1>2 DEF ClickCard
  <2>3. e \in Entry /\ (e.status = "open" => WasOpened(e.lecture, status))
    BY CardFits
  <2>4. PageFits(page', status, room)
    BY <1>1, <2>1, <2>3, SelectedFits
  <2>5. PageFits(page', status', room') /\ ModalFits'
    BY <1>1, <2>2, <2>4 DEF serverVars, ModalFits
  <2> QED
    BY <1>1, <2>2, <2>5, NoCall DEF PageInv
<1>3. CASE handleStartLecture(l)
  <2>1. /\ Begin("action", "start", "start", l)
        /\ UNCHANGED serverVars /\ UNCHANGED page /\ UNCHANGED modal
    BY <1>3 DEF handleStartLecture
  <2> QED
    BY <1>1, <2>1, BeginStep
<1>4. CASE openFinalizeModal(l)
  <2>1. PICK e \in Cards(l) : e.status \in {"open", "closed"} /\ modal' = e
    BY <1>4 DEF openFinalizeModal
  <2>2. UNCHANGED serverVars /\ UNCHANGED task /\ UNCHANGED page
    BY <1>4 DEF openFinalizeModal
  <2>3. ModalFits'
    BY <2>1, CardFits DEF ModalFits
  <2>4. PageFits(page', status', room')
    BY <1>1, <2>2 DEF serverVars
  <2> QED
    BY <1>1, <2>2, <2>3, <2>4, NoCall DEF PageInv
<1>5. CASE handleCreateLectureSubmit(l)
  <2>1. /\ Begin("form", "create", "create", l)
        /\ UNCHANGED serverVars /\ UNCHANGED page /\ UNCHANGED modal
    BY <1>5 DEF handleCreateLectureSubmit
  <2> QED
    BY <1>1, <2>1, BeginStep
<1> QED
  BY <1>2, <1>3, <1>4, <1>5

LEMMA DialogStep ==
  ASSUME PageInv, closeFinalizeModal \/ confirmFinalizeLecture
  PROVE  PageInv'
<1>1. /\ ServerFits /\ CallsFit /\ PageFits(page, status, room) /\ ModalFits
      /\ "action" \in Task
  BY DEF PageInv, Task
<1>2. CASE closeFinalizeModal
  <2>1. UNCHANGED serverVars /\ UNCHANGED task /\ UNCHANGED page /\ modal' = NoModal
    BY <1>2 DEF closeFinalizeModal
  <2>2. PageFits(page', status', room') /\ ModalFits'
    BY <1>1, <2>1 DEF serverVars, ModalFits
  <2> QED
    BY <1>1, <2>1, <2>2, NoCall DEF PageInv
<1>3. CASE confirmFinalizeLecture
  <2>1. modal \in Entry
    BY <1>1, <1>3 DEF ModalFits, confirmFinalizeLecture
  <2>2. modal.lecture \in Lecture
    BY <2>1 DEF Entry
  <2>3. \E pc \in {"close", "finalize"} : Begin("action", "finalize", pc, modal.lecture)
    BY <1>3 DEF confirmFinalizeLecture
  <2>4. UNCHANGED serverVars /\ UNCHANGED page /\ UNCHANGED modal
    BY <1>3 DEF confirmFinalizeLecture
  <2>5. PICK pc \in {"close", "finalize"} : Begin("action", "finalize", pc, modal.lecture)
    BY <2>3
  <2> QED
    BY <1>1, <2>2, <2>4, <2>5, BeginStep
<1> QED
  BY <1>2, <1>3

LEMMA AnsweredStep ==
  ASSUME PageInv, Answered
  PROVE  PageInv'
<1>1. "action" \in Task /\ "form" \in Task
  BY DEF Task
<1>2. CASE createLecture
  BY <1>1, <1>2, RequestStep DEF createLecture, Ways
<1>3. CASE startLecture
  BY <1>1, <1>3, RequestStep DEF startLecture, Ways
<1>4. CASE closeLecture
  BY <1>1, <1>4, RequestStep DEF closeLecture, Ways
<1>5. CASE finalizeLecture
  BY <1>1, <1>5, RequestStep DEF finalizeLecture, Ways
<1> QED
  BY <1>2, <1>3, <1>4, <1>5, FinalizedStep DEF Answered

LEMMA PageStep == PageInv /\ [PageNext]_pageVars => PageInv'
<1> SUFFICES ASSUME PageInv, [PageNext]_pageVars PROVE PageInv'
  OBVIOUS
<1>1. ASSUME NEW t \in Task, Step(t) PROVE PageInv'
  BY <1>1, FetchStep, SurveillanceStep, RenderStep, DetailStep DEF Step
<1>2. CASE Calm
  BY <1>1, <1>2, AnsweredStep, RefreshStep DEF Calm
<1>3. CASE Dialog
  BY <1>3, DialogStep DEF Dialog
<1>4. CASE Click
  BY <1>4, ClickStep DEF Click
<1>5. ASSUME NEW l \in Lecture, Elsewhere(l) PROVE PageInv'
  BY <1>5, ElsewhereStep
<1>6. ASSUME NEW t \in Task, Fail(t) PROVE PageInv'
  BY <1>6, FailStep
<1>7. CASE UNCHANGED pageVars
  <2>1. /\ ServerFits /\ CallsFit /\ PageFits(page, status, room) /\ ModalFits
        /\ UNCHANGED serverVars /\ UNCHANGED task /\ UNCHANGED page /\ UNCHANGED modal
    BY <1>7 DEF PageInv, pageVars
  <2> QED
    BY <2>1, NoCall, SamePage DEF PageInv
<1> QED
  BY <1>2, <1>3, <1>4, <1>5, <1>6, <1>7 DEF PageNext

LEMMA PageStart == PageInit => PageInv
<1> SUFFICES ASSUME PageInit PROVE PageInv
  OBVIOUS
<1>1. status \in [Lecture -> Status]
  BY PageAssumption DEF PageInit
<1>2. StartsFit(starts, status)
  <2> DEFINE S == {l \in Lecture : status[l] = "open"}
  <2>1. IsFiniteSet(S)
    <3>1. S \subseteq Lecture /\ IsFiniteSet(Lecture)
      BY PageAssumption
    <3> QED
      BY <3>1, FS_Subset
  <2>2. starts \in SetToSeqs(S)
    BY DEF PageInit
  <2>3. S \subseteq Lecture
    OBVIOUS
  <2> HIDE DEF S
  <2>4. /\ starts \in Seq(S) /\ ToSet(starts) = S
        /\ \A i, j \in DOMAIN starts : starts[i] = starts[j] => i = j
    BY <2>1, <2>2, OrderedOnce
  <2>5. starts \in Seq(Lecture)
    BY <2>3, <2>4
  <2> QED
    BY <2>4, <2>5 DEF StartsFit, S
<1>3. CallsFit
  <2>1. CallFits(Idle, status, room) /\ Idle \in CallRecord
    BY IdleCall DEF CallFits
  <2> QED
    BY <2>1 DEF CallsFit, PageInit
<1>4. PageFits(page, status, room)
  BY DEF PageInit, PageFits, PageRecord, Shown, OpenedSaid, RoomsDiffer
<1>5. ModalFits
  BY DEF PageInit, ModalFits
<1> QED
  BY <1>1, <1>2, <1>3, <1>4, <1>5 DEF PageInv, ServerFits

LEMMA PageSound ==
  PageInv => PageTypeOK /\ EvidenceBesideItsRecords /\ RestingLectureListed /\ DetailIsOfOpened
<1> SUFFICES ASSUME PageInv
             PROVE  PageTypeOK /\ EvidenceBesideItsRecords /\ RestingLectureListed /\ DetailIsOfOpened
  OBVIOUS
<1>1. /\ status \in [Lecture -> Status] /\ StartsFit(starts, status)
      /\ task \in [Task -> CallRecord] /\ \A t \in Task : CallFits(task[t], status, room)
      /\ PageFits(page, status, room) /\ ModalFits
  BY DEF PageInv, ServerFits, CallsFit
<1>2. PageTypeOK
  <2>1. ToSet(starts) \subseteq Lecture
    BY <1>1 DEF StartsFit
  <2>2. \A t \in Task : /\ task[t].lecture = NoLecture <=> task[t].op = "none"
                        /\ task[t].todo \subseteq Query
                        /\ task[t].detail \in Lecture \cup {NoLecture}
    BY <1>1 DEF CallFits, CallRecord, Shown
  <2>3. /\ \A i, j \in DOMAIN page.cards :
             room[page.cards[i].lecture] = room[page.cards[j].lecture] => i = j
        /\ {page.selected, page.records, page.evidence, page.shown} \subseteq Lecture \cup {NoLecture}
    BY <1>1 DEF PageFits, PageRecord, Shown, RoomsDiffer
  <2>4. modal = NoModal \/ modal.status \in {"open", "closed"}
    BY <1>1 DEF ModalFits
  <2> QED
    BY <1>1, <2>1, <2>2, <2>3, <2>4 DEF PageTypeOK
<1>3. EvidenceBesideItsRecords
  BY <1>1 DEF EvidenceBesideItsRecords, PageFits
<1>4. RestingLectureListed
  BY <1>1 DEF RestingLectureListed, CallFits, Listing
<1>5. DetailIsOfOpened
  BY <1>1 DEF DetailIsOfOpened, PageFits, WasOpened
<1> QED
  BY <1>2, <1>3, <1>4, <1>5

(***************************************************************************)
(* However polls, clicks, late answers and other users overlap, evidence   *)
(* stands beside its own records, a lecture at rest is in every overview,  *)
(* and only a lecture that was opened is shown in detail.                  *)
(***************************************************************************)
THEOREM PageNeverMixes ==
  PageBehaviour => [](PageTypeOK /\ EvidenceBesideItsRecords /\ RestingLectureListed /\ DetailIsOfOpened)
<1>1. PageInit => PageInv
  BY PageStart
<1>2. PageInv /\ [PageNext]_pageVars => PageInv'
  BY PageStep
<1>3. PageInv => PageTypeOK /\ EvidenceBesideItsRecords /\ RestingLectureListed /\ DetailIsOfOpened
  BY PageSound
<1> QED
  BY <1>1, <1>2, <1>3, PTL DEF PageBehaviour
=============================================================================
