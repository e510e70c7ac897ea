-------------------------- MODULE DecisionPipeline --------------------------
(***************************************************************************)
(* What the read-only attendance pipeline computes from recognition log    *)
(* rows and presence sessions: evidence (evidence_service.py,              *)
(* temporal_scorer.py, evidence_queries.py), eligibility                   *)
(* (eligibility_service.py), decision (decision_service.py) and derived    *)
(* state (state_service.py).                                               *)
(*                                                                         *)
(* A span is a presence session as it is when a row is correlated with it, *)
(* [camera, first, last, status]; a row is a recognition log row,          *)
(* [lecture, student, at].  Times are in whole units, so the rounding to   *)
(* seconds is left out.                                                    *)
(***************************************************************************)
EXTENDS Integers, FiniteSets, FiniteSetsExt

CONSTANTS
  RoomCameras,    \* [Lecture -> surveillance cameras of its classroom]
  Fallback,       \* evidence_presence_camera_fallback
  Explicit,       \* evidence_surveillance_camera_ids, as a set
  NoLecture,
  High, Medium,   \* the confidence steps of 30 and 120 seconds
  Window,         \* evidence_temporal_window_sec
  RatioNum, RatioDen  \* eligibility_threshold, as a fraction

ASSUME PipelineAssumption ==
  /\ Fallback \in BOOLEAN
  /\ High \in Nat /\ Medium \in Nat /\ High <= Medium
  /\ Window \in Nat
  /\ RatioNum \in Nat /\ RatioDen \in Nat \ {0} /\ RatioNum <= RatioDen

ConfidenceRank == [low |-> 0, medium |-> 1, high |-> 2]

Duration(x) == Max({0, x.last - x.first})
Delta(at, x) == IF at >= x.first THEN at - x.first ELSE x.first - at

\* TemporalEvidenceScorer.confidence_from_delta.
Confidence(delta) ==
  IF delta <= High THEN "high" ELSE IF delta <= Medium THEN "medium" ELSE "low"

\* surveillance_camera_ids_for_classroom: the registered cameras, else the
\* configured ones, else every camera that has a session.
CamerasFor(l, spans) ==
  IF RoomCameras[l] # {} THEN RoomCameras[l]
  ELSE IF ~Fallback THEN {}
  ELSE IF Explicit # {} THEN Explicit
  ELSE {x.camera : x \in spans}

\* Without a lecture the classroom plays no part: such a row ends as unknown.
Matching(l, spans) ==
  IF l = NoLecture THEN {} ELSE {x \in spans : x.camera \in CamerasFor(l, spans)}

Prefer(better, all) == IF better # {} THEN better ELSE all

\* TemporalEvidenceScorer.pick_session: sessions near the recognition before
\* others, those that contain it before others, active ones before others.
Picked(at, spans) ==
  LET windowed == Prefer({x \in spans : /\ x.first - Window <= at
                                        /\ at <= x.last + Window}, spans)
      overlapping == Prefer({x \in windowed : x.first <= at /\ at <= x.last}, windowed)
      pool == Prefer({x \in overlapping : x.status = "active"}, overlapping)
  IN  CHOOSE x \in pool : \A y \in pool :
        \/ Delta(at, x) < Delta(at, y)
        \/ Delta(at, x) = Delta(at, y) /\ Duration(x) >= Duration(y)

\* _correlate_entry.
Evidence(row, spans) ==
  LET matching == Matching(row.lecture, spans)
      pick == Picked(row.at, matching)
  IN  IF matching = {}
      THEN [student |-> row.student, lecture |-> row.lecture,
            kind |-> "recognized_only", confidence |-> "low", duration |-> 0]
      ELSE [student |-> row.student, lecture |-> row.lecture,
            kind |-> "presence_observed",
            confidence |-> Confidence(Delta(row.at, pick)),
            duration |-> Duration(pick)]

Group(e) == <<e.student, e.lecture>>
Observed(evidence) == {e \in evidence : e.kind = "presence_observed"}

\* _decide_for_student of the eligibility service, for the evidence of one
\* student in one lecture.
Eligibility(evidence, length) ==
  LET longest == Max({e.duration : e \in Observed(evidence)})
  IN  IF Observed(evidence) = {} \/ length <= 0 THEN "unknown"
      ELSE IF longest * RatioDen >= length * RatioNum THEN "eligible"
      ELSE "insufficient_presence"

\* Mutant: the best confidence of the student, whatever the lecture.
BestConfidenceAnyLecture(group, evidence) ==
  LET own == {e \in Observed(evidence) : e.student = group[1]}
  IN  IF own = {} THEN "low"
      ELSE (CHOOSE e \in own : \A f \in own :
              ConfidenceRank[f.confidence] <= ConfidenceRank[e.confidence]).confidence

\* _confidence_by_student_lecture.
BestConfidence(group, evidence) ==
  LET own == {e \in Observed(evidence) : Group(e) = group}
  IN  IF own = {} THEN "low"
      ELSE (CHOOSE e \in own : \A f \in own :
              ConfidenceRank[f.confidence] <= ConfidenceRank[e.confidence]).confidence

\* _decide of the decision service.
Decision(eligibility, confidence) ==
  CASE eligibility = "eligible" /\ confidence # "low" -> "present"
    [] eligibility = "insufficient_presence" -> "absent"
    [] OTHER -> "manual_review"

\* _map_decision_to_state.
DerivedState(decision) ==
  CASE decision = "present" -> "confirmed"
    [] decision = "absent" -> "insufficient_presence"
    [] decision = "manual_review" -> "manual_review"
    [] OTHER -> "candidate"

\* _apply_closure.
Closed(state) == IF state = "candidate" THEN "expired" ELSE state
=============================================================================
