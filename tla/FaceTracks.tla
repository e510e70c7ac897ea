----------------------------- MODULE FaceTracks -----------------------------
(***************************************************************************)
(* The face tracker of the Raspberry Pi (edge/tracker.py) between the      *)
(* detector and the per-track dictionaries of the loop (edge/main.py).     *)
(* Every face gets an id that follows it from frame to frame; what the     *)
(* loop gathers under an id - liveness history, embeddings, streaks - is   *)
(* dropped when no detection lies on the id's box.  The liveness history   *)
(* stands for all of it here, as the sequence of people it is about.       *)
(*                                                                         *)
(* Faces stand in a row: a box is an interval, all boxes are equally high. *)
(***************************************************************************)
EXTENDS Integers, FiniteSets, SequencesExt

CONSTANTS
  Visitor,     \* people who may be in front of the camera
  Box,         \* boxes the detector can return: records [x, w]
  SizeInRange, \* widths of a box whose face is neither too near nor too far
  Reach,       \* a face moves at most this far between frames (80 px)
  MaxGone,     \* max_disappeared (10)
  BufferLen,   \* LIVENESS_WINDOW
  MaxId        \* bound: ids given out in a behaviour

ASSUME TracksAssumption ==
  /\ IsFiniteSet(Visitor)
  /\ {MaxGone, BufferLen, MaxId} \subseteq Nat \ {0}
  /\ Reach \in Nat
  /\ \A b \in Box : b.x \in Int /\ b.w \in Nat \ {0}

VARIABLES
  next_object_id,
  objects,      \* id -> the box it was last seen in
  disappeared,  \* id -> frames it has been missing from
  buffers,      \* id -> whom its liveness history is of, oldest first
  faces,        \* the valid detections of the last frame
  quiet         \* history: frames without a face, in a row

tracksVars == <<next_object_id, objects, disappeared, buffers, faces, quiet>>

None == [x \in {} |-> 0]

TracksInit ==
  /\ next_object_id = 0
  /\ objects = None /\ disappeared = None /\ buffers = None
  /\ faces = <<>>
  /\ quiet = 0

-----------------------------------------------------------------------------
(* Boxes.                                                                  *)

Overlap(a, b) ==
  Max({0, Min({a.x + a.w, b.x + b.w}) - Max({a.x, b.x})})

Union(a, b) == a.w + b.w - Overlap(a, b)

\* bb_iou, calculate_iou: at least 0.3.
On(a, b) == 10 * Overlap(a, b) >= 3 * Union(a, b)

\* Twice the distance between the centroids.
Apart(a, b) ==
  LET d == (2 * a.x + a.w) - (2 * b.x + b.w) IN IF d < 0 THEN -d ELSE d

\* A detection lies over one already kept: IoU above 0.45, or 0.70 of the
\* smaller box.
Covers(k, f) ==
  \/ 100 * Overlap(k, f) > 45 * Union(k, f)
  \/ 10 * Overlap(k, f) > 7 * Min({k.w, f.w})

\* suppress_overlapping: by descending score, each face that no kept one
\* covers.
suppress_overlapping(detected) ==
  LET kept[n \in 0 .. Len(detected)] ==
        IF n = 0 THEN <<>>
        ELSE IF \E k \in ToSet(kept[n - 1]) : Covers(k.box, detected[n].box) THEN kept[n - 1]
        ELSE Append(kept[n - 1], detected[n])
  IN  kept[Len(detected)]

\* find_best_face_match: the detection that lies best on a track's box.
Candidates(box, found) == {i \in DOMAIN found : On(box, found[i].box)}

BestFace(box, found) ==
  found[CHOOSE i \in Candidates(box, found) :
          \A j \in Candidates(box, found) :
            LET oi == Overlap(box, found[i].box) * Union(box, found[j].box)
                oj == Overlap(box, found[j].box) * Union(box, found[i].box)
            IN  oi > oj \/ (oi = oj /\ i <= j)]

-----------------------------------------------------------------------------
(* HybridTracker.update.                                                   *)

\* Mutant: the first detection that overlaps, not the closest.
NearestFirst(box, found) ==
  CHOOSE c \in DOMAIN found :
    \A d \in DOMAIN found :
      \/ On(box, found[c].box) /\ ~On(box, found[d].box)
      \/ (On(box, found[c].box) <=> On(box, found[d].box)) /\ c <= d

\* The detection closest to a track, the first of several.
Nearest(box, found) ==
  CHOOSE c \in DOMAIN found :
    \A d \in DOMAIN found :
      \/ Apart(box, found[c].box) < Apart(box, found[d].box)
      \/ Apart(box, found[c].box) = Apart(box, found[d].box) /\ c <= d

Gap(id, found) ==
  Apart(objects[id], found[Nearest(objects[id], found)].box)

\* A track takes the detection closest to it if it lies on its box and is not
\* too far.
Eligible(id, found) ==
  LET at == found[Nearest(objects[id], found)].box
  IN  On(objects[id], at) /\ Apart(objects[id], at) <= 2 * Reach

\* Tracks choose in the order of their distances, then of their ids.
ChoosesBefore(i, j, found) ==
  Gap(i, found) < Gap(j, found) \/ (Gap(i, found) = Gap(j, found) /\ i < j)

\* Of the tracks that would take a detection the first does, and the others
\* none: a function from tracks to detections.
Taken(found) ==
  LET aim(id) == Nearest(objects[id], found)
      rivals(id) == {other \in DOMAIN objects \ {id} :
                       Eligible(other, found) /\ aim(other) = aim(id)}
  IN  [id \in {i \in DOMAIN objects : /\ Eligible(i, found)
                                     /\ \A r \in rivals(i) : ChoosesBefore(i, r, found)}
         |-> aim(id)]

\* The detections no track took, each of which starts one.
Unclaimed(found, taken) ==
  {c \in DOMAIN found : \A id \in DOMAIN taken : taken[id] # c}

\* Frames with a face: tracks that took a detection move there, and the
\* counters of the others stay as they are.
Follow(found) ==
  \E taken \in {Taken(found)} : \E new \in {Unclaimed(found, taken)} :
  LET idOf(c) == next_object_id + Cardinality({d \in new : d < c})
      fresh == {idOf(c) : c \in new}
      at(id) == CHOOSE c \in new : idOf(c) = id
  IN  /\ next_object_id + Cardinality(new) <= MaxId
      /\ next_object_id' = next_object_id + Cardinality(new)
      /\ objects' = [id \in DOMAIN objects \cup fresh |->
                       IF id \in fresh THEN found[at(id)].box
                       ELSE IF id \in DOMAIN taken THEN found[taken[id]].box
                       ELSE objects[id]]
      /\ disappeared' = [id \in DOMAIN objects' |->
                           IF id \in fresh \cup DOMAIN taken THEN 0
                           ELSE disappeared[id]]

\* Frames without one: every track is missing once more.
Fade ==
  LET left == {id \in DOMAIN objects : disappeared[id] + 1 <= MaxGone}
  IN  /\ objects' = Restrict(objects, left)
      /\ disappeared' = [id \in left |-> disappeared[id] + 1]
      /\ UNCHANGED next_object_id

\* MIN_DISTANCE < distance < MAX_DISTANCE; without smoothing of the box, the
\* default, the distance is a matter of the box alone.
InRange(box) == box.w \in SizeInRange

Newest(s) == IF Len(s) > BufferLen THEN Tail(s) ELSE s

Gathered(id) == IF id \in DOMAIN buffers THEN buffers[id] ELSE <<>>

\* The loop over the tracks: NO_MATCH drops what was gathered under an id,
\* OUT_OF_RANGE leaves it as it is, any other outcome adds this frame's face.
Gather(found) ==
  LET matched == {id \in DOMAIN objects' : Candidates(objects'[id], found) # {}}
      ready(id) == InRange(objects'[id])
  IN  [id \in {i \in matched : ready(i) \/ i \in DOMAIN buffers} |->
         IF ready(id) THEN Newest(Append(Gathered(id), BestFace(objects'[id], found).who))
         ELSE Gathered(id)]

\* One frame of the loop that detects: what the detector finds, by score.
Look(detected) ==
  \E found \in {suppress_overlapping(detected)} :
    /\ IF found = <<>> THEN Fade ELSE Follow(found)
    /\ buffers' = Gather(found)
    /\ faces' = found
    /\ quiet' = IF found = <<>> THEN Min({quiet + 1, MaxGone + 1}) ELSE 0

Detections ==
  UNION {{[i \in DOMAIN who |-> [who |-> who[i], box |-> at[i]]] :
            at \in [DOMAIN who -> Box]} :
          who \in UNION {SetToSeqs(S) : S \in SUBSET Visitor}}

TracksNext == \E detected \in Detections : Look(detected)

-----------------------------------------------------------------------------
(* Properties.                                                             *)

\* Ids are given out in order; every dictionary is about ids that were.
TracksTypeOK ==
  /\ next_object_id \in 0 .. MaxId
  /\ DOMAIN disappeared = DOMAIN objects
  /\ \A id \in DOMAIN objects :
       id < next_object_id /\ objects[id] \in Box /\ disappeared[id] \in 0 .. MaxGone
  /\ \A id \in DOMAIN buffers : Len(buffers[id]) \in 1 .. BufferLen
  /\ quiet \in 0 .. MaxGone + 1

\* Whatever is kept under an id has a face on the id's box, also while that
\* face is too near or too far to be looked at: ids that were left behind, which
\* the tracker keeps while anybody is in view, and ids it has given up, hold
\* nothing (main.py:876-908: NO_MATCH is the only exit that drops it, and sees
\* only ids still tracked).
NothingLeftBehind ==
  \A id \in DOMAIN buffers :
    id \in DOMAIN objects /\ Candidates(objects[id], faces) # {}

\* An id's history comes from faces within the overlap of the place it was
\* seen in: between two frames it never jumps to a face elsewhere.
StaysOnFace ==
  [][\A id \in DOMAIN buffers \cap DOMAIN buffers' :
       On(objects[id], objects'[id])]_tracksVars

\* A face that is found in the place of a track goes into that track's history,
\* or leaves it as it was where it is too near or too far, and the track stays:
\* whatever other tracks are there, or were left there, and whatever other faces
\* overlap it.
StandingFaceKeepsTrack ==
  [][\A id \in DOMAIN buffers, f \in ToSet(faces') :
       f.box = objects[id] =>
         /\ id \in DOMAIN buffers' /\ objects'[id] = objects[id]
         /\ IF InRange(f.box) THEN Last(buffers'[id]) = f.who
            ELSE buffers'[id] = buffers[id]]_tracksVars

\* Two tracks never move to the same face in one frame (tracker.py:50, :59).
NoFaceTwice ==
  [][\A i, j \in DOMAIN objects \cap DOMAIN objects' :
       i # j /\ objects'[i] # objects[i] /\ objects'[j] # objects[j] =>
         objects'[i] # objects'[j]]_tracksVars

\* When the room has been empty for longer than max_disappeared, no id is
\* left, also none of those that were left behind earlier.
EmptyRoomClears == quiet > MaxGone => objects = None

\* Every face in view has an id that is followed with a counter of zero, and a
\* history under it if the face is in range.
FacesAreTracked ==
  \A f \in ToSet(faces) :
    \E id \in DOMAIN objects :
      /\ objects[id] = f.box /\ disappeared[id] = 0
      /\ InRange(f.box) => id \in DOMAIN buffers

\* Every face keeps the track it is on and every history its face, with ghosts
\* of those who left standing between them; and an empty room forgets them.
FacesKeepTracks ==
  /\ [](TracksTypeOK /\ NothingLeftBehind /\ EmptyRoomClears /\ FacesAreTracked)
  /\ StaysOnFace /\ StandingFaceKeepsTrack /\ NoFaceTwice
=============================================================================
