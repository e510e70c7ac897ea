---------------------------- MODULE FaceFilters ----------------------------
(***************************************************************************)
(* What smooths the measurements of one track from frame to frame: the     *)
(* majority vote on its pose (edge/orientation.py) and the moving averages *)
(* of its similarity and of its box (edge/stabilization.py), as the frame  *)
(* loop uses them (edge/main.py).  The averages are weighted one half, and *)
(* kept times Scale: a multiple of 2^MaxFrames keeps them exact for        *)
(* MaxFrames frames.                                                       *)
(***************************************************************************)
EXTENDS Integers, Sequences, FiniteSetsExt, Functions

CONSTANTS
  Identity,     \* whom a face may be most like
  Similarity,   \* how much
  Threshold,    \* th_high
  Side,         \* lengths a side of the box may have
  PoseWindow,   \* ORIENTATION_SMOOTHING_WINDOW (5)
  Scale,        \* the fixed point of the averages
  MaxFrames     \* bound: frames of a track between two losses

ASSUME FiltersAssumption ==
  /\ Similarity \subseteq Nat /\ Side \subseteq Nat /\ Threshold \in Nat
  /\ {PoseWindow, Scale, MaxFrames} \subseteq Nat \ {0}
  /\ Scale % (2 ^ MaxFrames) = 0

Pose == {"FRONTAL", "TILTED", "OVERHEAD"}

VARIABLES
  mode_history,  \* raw poses, oldest first
  mode,          \* estimate_mode's answer
  sim_ema,       \* SimEMASmoother._state, times Scale; -1 for no entry
  box_ema,       \* BBoxEMASmoother._state, one side, times Scale; -1
  matched,       \* whom the last frame matched, or "nobody"
  sims,          \* history: identity -> its best similarity since the loss
  sides,         \* history: the sides seen since the loss
  frames         \* frames since the loss

filterVars == <<mode_history, mode, sim_ema, box_ema, matched, sims, sides, frames>>

FiltersInit ==
  /\ mode_history = <<>> /\ mode = "NA"
  /\ sim_ema = -1 /\ box_ema = -1
  /\ matched = "nobody"
  /\ sims = [i \in Identity |-> 0]
  /\ sides = {}
  /\ frames = 0

\* BBoxEMASmoother.smooth, SimEMASmoother.smooth: the first value of a track
\* is taken as it is.
smooth(prev, v) == IF prev = -1 THEN Scale * v ELSE (Scale * v + prev) \div 2

\* int(round(...)): to the nearest.
Rounded(s) == (2 * s + Scale) \div (2 * Scale)

Count(s, p) == Cardinality({i \in DOMAIN s : s[i] = p})

\* max(set(hist), key=hist.count): one of the most frequent.
Majority(h) == {p \in Range(h) : \A q \in Range(h) : Count(h, p) >= Count(h, q)}

\* A frame in which the track has a face: its raw pose, whom it is like and
\* how much, and its box.
Observe(pose, who, sim, side) ==
  /\ frames < MaxFrames /\ frames' = frames + 1
  /\ mode_history' = LET h == Append(mode_history, pose)
                     IN  IF Len(h) > PoseWindow THEN Tail(h) ELSE h
  /\ mode' \in Majority(mode_history')
  /\ box_ema' = smooth(box_ema, side)
  /\ sim_ema' = smooth(sim_ema, sim)
  /\ matched' = IF sim_ema' >= Threshold * Scale THEN who ELSE "nobody"
  /\ sims' = [sims EXCEPT ![who] = Max({@, sim})]
  /\ sides' = sides \cup {side}

\* Mutant: the similarity's average survives the loss.
DropKeepsSim ==
  /\ frames > 0
  /\ sim_ema' = sim_ema /\ box_ema' = -1 /\ matched' = "nobody"
  /\ sims' = [i \in Identity |-> 0] /\ sides' = {} /\ frames' = 0
  /\ UNCHANGED <<mode_history, mode>>

\* NO_MATCH: the averages are reset, the poses are not.
DropFilters ==
  /\ frames > 0
  /\ sim_ema' = -1 /\ box_ema' = -1 /\ matched' = "nobody"
  /\ sims' = [i \in Identity |-> 0] /\ sides' = {} /\ frames' = 0
  /\ UNCHANGED <<mode_history, mode>>

FiltersNext ==
  \/ \E p \in Pose, who \in Identity, s \in Similarity, b \in Side : Observe(p, who, s, b)
  \/ DropFilters

-----------------------------------------------------------------------------
(* Properties.                                                             *)

\* A smoothed box lies within the boxes the track was seen in since it was
\* found, also after it was rounded: a crop is never larger than the largest.
BoxWithinSeen ==
  box_ema # -1 =>
    /\ Rounded(box_ema) >= Min(sides)
    /\ Rounded(box_ema) <= Max(sides)

\* A match on a smoothed similarity has a frame behind it, since the track
\* was found, that was similar enough by itself.  It need not have been
\* similar to the same person: the average is of the track, not of the
\* identity (main.py:1000).
MatchHasPeak ==
  matched # "nobody" => \E i \in Identity : sims[i] >= Threshold

\* One odd frame does not change the pose of a face that had the same pose in
\* all others of the window.
OddFrameIgnored ==
  [][\A p \in Pose :
       (mode = p /\ mode_history = [i \in 1 .. PoseWindow |-> p]) =>
         (mode_history' # mode_history => mode' = p)]_filterVars

\* Smoothing invents nothing: no box beyond those seen, no match without a
\* frame that was similar enough by itself, no pose from a single odd frame.
FiltersInventNothing == [](BoxWithinSeen /\ MatchHasPeak) /\ OddFrameIgnored
=============================================================================
