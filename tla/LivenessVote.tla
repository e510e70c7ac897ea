---------------------------- MODULE LivenessVote ----------------------------
(***************************************************************************)
(* The vote of the liveness engine on one track                            *)
(* (edge/liveness.py, _temporal_vote), with the settings of                *)
(* config/settings.py.  What optical flow and texture say of the window of *)
(* frames is the input, as its averages; the arithmetic that turns them    *)
(* into a label, and the two streaks that make it depend on earlier votes, *)
(* are the model.  Shares are in percent, scores in ten-thousandths.       *)
(***************************************************************************)
EXTENDS Integers, FiniteSetsExt

CONSTANTS
  VoteWindow,  \* LIVENESS_WINDOW (8)
  Mag,         \* motion of a window, in hundredths
  AngleVar,    \* variance of its angles, in thousandths
  AreaVar,     \* variance of the area of the face
  Skin,        \* skin, in percent of what the light lets expect
  MaxStreak    \* bound: votes that the two streaks count

ASSUME VoteAssumption ==
  /\ VoteWindow \in Nat \ {0} /\ MaxStreak \in Nat
  /\ Mag \subseteq Nat /\ AngleVar \subseteq Nat /\ AreaVar \subseteq Nat
  /\ Skin \subseteq 0 .. 100

VARIABLES
  buffered,       \* len(history[track])
  rigid_frames,   \* frames of the window whose motion was rigid
  real_streak, planar_streak,
  label,          \* the last vote
  flat            \* history: windows of planar motion in a row, up to three

voteVars == <<buffered, rigid_frames, real_streak, planar_streak, label, flat>>

\* The window's averages; even: the size of the motion hardly varies.
WindowOf ==
  [mag : Mag, angle_var : AngleVar, even : BOOLEAN, area_var : AreaVar,
   skin : Skin, overhead : BOOLEAN]

VoteInit ==
  /\ buffered = 0 /\ rigid_frames = 0
  /\ real_streak = 0 /\ planar_streak = 0
  /\ label = "ANALYZING" /\ flat = 0

is_moving(w) == w.mag > 35
is_static_depth(w) == w.area_var < 20
Established(real) == real >= 3

\* Tier 1: nearly every frame is rigid, and the angles agree.
RigidRejects(w, rigid, real) ==
  /\ 100 * rigid >= (IF Established(real) THEN 95 ELSE 85) * VoteWindow
  /\ w.angle_var < 50

\* In tenths.
planar_evidence(w) ==
  IF ~is_moving(w) THEN 0
  ELSE (IF w.angle_var < 30 THEN 6 ELSE IF w.angle_var < 150 THEN 3 ELSE 0)
       + (IF w.even THEN 2 ELSE 0)
       + (IF is_static_depth(w) THEN 4 ELSE 0)

\* Evidence enough for the planar trap.
Planar(w) == planar_evidence(w) >= 10

PlanarStreak(w, planar) ==
  IF Planar(w) THEN planar + 1 ELSE Max({0, planar - 1})

PlanarRejects(streak, real) == streak >= (IF Established(real) THEN 3 ELSE 2)

Percent(n, of) == Min({(100 * n) \div of, 100})

\* motion_score, in thousandths.
motion_score(w) == 4 * Percent(w.mag, 150) + 6 * Percent(w.angle_var, 300)

weights(w) ==
  IF w.overhead THEN [motion |-> 3, geom |-> 5, text |-> 2]
  ELSE [motion |-> 4, geom |-> 2, text |-> 4]

rigid_penalty(rigid) == Max({0, (3000 * (2 * rigid - VoteWindow)) \div VoteWindow})

\* Mutant: no penalty.
planar_penaltyNone(w) == 0

planar_penalty(w) == 250 * Min({planar_evidence(w), 10})

final_score(w, rigid) ==
  Max({0, weights(w).motion * motion_score(w)
          + 10 * weights(w).geom * Percent(w.area_var, 100)
          + 10 * weights(w).text * w.skin
          - rigid_penalty(rigid) - planar_penalty(w)})

Vote(l, real, planar) == [label |-> l, real |-> real, planar |-> planar]

\* The verdict on a full window, and the streaks it leaves.  The first
\* rejection returns before the planar streak is touched.
temporal_vote(w, rigid, real, planar) ==
  LET streak == PlanarStreak(w, planar)
      score  == final_score(w, rigid)
  IN  IF RigidRejects(w, rigid, real) THEN Vote("SPOOF", 0, planar)
      ELSE IF PlanarRejects(streak, real) THEN Vote("SPOOF", 0, streak)
      ELSE IF is_static_depth(w) /\ ~is_moving(w) THEN Vote("SPOOF", 0, streak)
      ELSE IF score >= 7000 THEN Vote("REAL", real + 1, streak)
      ELSE IF score >= 4000 THEN Vote("UNCERTAIN", Max({0, real - 1}), streak)
      ELSE Vote("SPOOF", 0, streak)

\* Frames until the window is full.
Buffer(rigid) ==
  /\ buffered + 1 < VoteWindow
  /\ buffered' = buffered + 1
  /\ rigid_frames' = rigid_frames + rigid
  /\ label' = "ANALYZING"
  /\ UNCHANGED <<real_streak, planar_streak, flat>>

\* A frame that is voted on: one enters the window and, if it was full, one
\* leaves it.
Assess(w, rigid) ==
  /\ buffered + 1 >= VoteWindow
  /\ buffered' = VoteWindow
  /\ rigid - rigid_frames \in (IF buffered = VoteWindow THEN -1 .. 1 ELSE 0 .. 1)
  /\ rigid_frames' = rigid
  /\ LET v == temporal_vote(w, rigid, real_streak, planar_streak)
     IN  /\ v.real <= MaxStreak /\ v.planar <= MaxStreak
         /\ label' = v.label /\ real_streak' = v.real /\ planar_streak' = v.planar
  /\ flat' = IF Planar(w) THEN Min({flat + 1, 3}) ELSE 0

\* The track is lost: main.py drops the history and both streaks.
Forget ==
  /\ buffered > 0
  /\ buffered' = 0 /\ rigid_frames' = 0
  /\ real_streak' = 0 /\ planar_streak' = 0
  /\ label' = "ANALYZING" /\ flat' = 0

VoteNext ==
  \/ \E rigid \in {0, 1} : Buffer(rigid)
  \/ \E w \in WindowOf, rigid \in 0 .. VoteWindow : Assess(w, rigid)
  \/ Forget

-----------------------------------------------------------------------------
(* Properties.                                                             *)

\* Neither streak is ever negative, on any way out of the vote.
VoteTypeOK ==
  /\ buffered \in 0 .. VoteWindow /\ rigid_frames \in 0 .. buffered
  /\ real_streak \in 0 .. MaxStreak /\ planar_streak \in 0 .. MaxStreak
  /\ label \in {"ANALYZING", "REAL", "UNCERTAIN", "SPOOF"}
  /\ flat \in 0 .. 3

\* A track that was rejected is not established, whichever of the rejections
\* it was: it starts again from nothing (liveness.py:62, "Reset to 0 on every
\* SPOOF return").
SpoofForgets == label = "SPOOF" => real_streak = 0

\* What gets an established track rejected gets any other rejected too: the
\* hysteresis only ever favours a face that was found alive before.
EstablishedHarder ==
  buffered = VoteWindow => \A w \in WindowOf :
    LET verdict(real) == temporal_vote(w, rigid_frames, real, planar_streak).label
    IN  verdict(3) = "SPOOF" => verdict(0) = "SPOOF"

\* A picture that is moved about is rejected at the latest on its third window
\* of planar motion in a row, established or not, whichever way out of the vote
\* the windows before it took: not all of them count the planar streak, and
\* then the penalty has to do it (liveness.py:184-233, 282).
FlatRejected == flat >= 3 => label = "SPOOF"

\* And no such window is found alive, not even the first one.
FlatNeverAlive == flat >= 1 => label # "REAL"

\* Flat pictures are rejected and what is rejected starts again from nothing,
\* while a face that was found alive is only ever favoured.
FlatFacesRejected ==
  VoteTypeOK /\ SpoofForgets /\ EstablishedHarder /\ FlatRejected /\ FlatNeverAlive
=============================================================================
