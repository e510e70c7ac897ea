----------------------------- MODULE DebugFrames -----------------------------
(***************************************************************************)
(* The pictures the frame loop keeps for debugging (edge/telemetry.py,     *)
(* DebugFrameWriter and classify_debug_events; edge/main.py): what a frame *)
(* gives occasion for, in the order it is asked for, the writer's limit in *)
(* time and number, and a file name that is a second, a rule and a track.  *)
(***************************************************************************)
EXTENDS Integers, SequencesExt

CONSTANTS
  Decisions,    \* decisions the rules tell apart, and one they do not
  MinInterval,  \* DEBUG_FRAMES_MIN_INTERVAL_S, in frames
  PerSecond,    \* frames in a second
  MaxKept,      \* DEBUG_FRAMES_MAX_PER_RUN
  SampleEvery,  \* DEBUG_SAMPLE_EVERY_N
  LastFrame     \* bound: frames

ASSUME DebugAssumption ==
  /\ {PerSecond, MaxKept, SampleEvery} \subseteq Nat \ {0}
  /\ MinInterval \in Nat /\ LastFrame \in Nat /\ MinInterval <= LastFrame

VARIABLES
  frameAt,   \* the frame, and the time since boot
  saves,     \* _count
  lastSave,  \* _last_mono
  pictures,  \* the files
  kept,      \* history: pictures written
  raised     \* history: writing one raised

debugVars == <<frameAt, saves, lastSave, pictures, kept, raised>>

DebugInit ==
  /\ frameAt = MinInterval /\ saves = 0 /\ lastSave = 0
  /\ pictures = {} /\ kept = 0 /\ raised = FALSE

-----------------------------------------------------------------------------
\* What the loop knows of a track: decision, label, and a detection score
\* below DEBUG_YUNET_SCORE_TH.
TrackSeen == [track : {1, 2}, decision : Decisions, spoof : BOOLEAN, low : BOOLEAN]

Occasion(applies, folder, tag, t) ==
  IF applies THEN <<[folder |-> folder, tag |-> tag, track |-> t.track, spoof |-> t.spoof]>>
  ELSE <<>>

\* classify_debug_events, in the order of its rules.
classify_debug_events(t) ==
  Occasion(t.spoof, "spoof_cases", "SPOOF", t)
  \o Occasion(t.decision = "REJECTED_LIVENESS" \/ t.spoof, "liveness_failures", t.decision, t)
  \o Occasion(t.decision \in {"BELOW_THRESHOLD", "OFFLOAD_TO_CLOUD"},
              "borderline_recognition", t.decision, t)
  \o Occasion(t.low /\ t.decision # "NO_MATCH", "low_detection_conf", "yunet_low", t)

\* _allowed.
Allowed(w) == w.saves < MaxKept /\ frameAt - w.lastSave >= MinInterval

\* The file: a later one of the same name replaces it.
FileOf(event) ==
  [folder |-> event.folder, tag |-> event.tag, track |-> event.track, spoof |-> event.spoof,
   second |-> frameAt \div PerSecond]

\* Mutant: the time of a picture is not kept.
SaveForgets(w, event, write) ==
  IF ~Allowed(w) \/ write = "raises" THEN w
  ELSE [saves    |-> w.saves + 1,
        lastSave |-> w.lastSave,
        pictures |-> IF write = "works" THEN w.pictures \cup {FileOf(event)} ELSE w.pictures,
        kept     |-> IF write = "works" THEN w.kept + 1 ELSE w.kept]

\* save.  A write that fails without raising counts like a picture.
Save(w, event, write) ==
  IF ~Allowed(w) \/ write = "raises" THEN w
  ELSE [saves    |-> w.saves + 1,
        lastSave |-> frameAt,
        pictures |-> IF write = "works" THEN w.pictures \cup {FileOf(event)} ELSE w.pictures,
        kept     |-> IF write = "works" THEN w.kept + 1 ELSE w.kept]

SaveAll(events, writes) ==
  LET w[n \in 0 .. Len(events)] ==
        IF n = 0 THEN [saves |-> saves, lastSave |-> lastSave, pictures |-> pictures, kept |-> kept]
        ELSE Save(w[n - 1], events[n], writes[n])
  IN  w[Len(events)]

\* Every so many frames one is kept whatever it shows.
Sampled ==
  IF frameAt % SampleEvery = 0
  THEN <<[folder |-> "sampled", tag |-> "every_n", track |-> frameAt, spoof |-> FALSE]>>
  ELSE <<>>

\* Writing may raise once, and then works, or fails without raising.
Writes(events) ==
  {[i \in DOMAIN events |-> IF i <= n THEN "raises" ELSE rest] :
     n \in {0, 1} \cap (0 .. Len(events)), rest \in {"works", "fails"}}

\* A frame: first what its tracks give occasion for, then the sample; a frame
\* without a face or a track gives none.
DebugFrame(tracks) ==
  LET events == IF tracks = <<>> THEN <<>>
                ELSE FlattenSeq([i \in DOMAIN tracks |-> classify_debug_events(tracks[i])])
                     \o Sampled
  IN  \E writes \in Writes(events) : \E w \in {SaveAll(events, writes)} :
        /\ saves' = w.saves /\ lastSave' = w.lastSave
        /\ pictures' = w.pictures /\ kept' = w.kept
        /\ raised' = (raised \/ "raises" \in ToSet(writes))
  /\ frameAt < LastFrame /\ frameAt' = frameAt + 1

DebugNext ==
  \E tracks \in {<<>>} \cup {<<t>> : t \in TrackSeen}
                      \cup {<<t, u>> : t \in {x \in TrackSeen : x.track = 1},
                                       u \in {x \in TrackSeen : x.track = 2}} :
    DebugFrame(tracks)

-----------------------------------------------------------------------------
(* Properties.                                                             *)

DebugTypeOK ==
  /\ frameAt \in MinInterval .. LastFrame /\ saves \in 0 .. MaxKept /\ lastSave \in 0 .. frameAt
  /\ Cardinality(pictures) <= kept /\ kept <= saves
  /\ raised \in BOOLEAN

\* No picture takes the place of an earlier one, though a name has no more than
\* a second in it and tracks and rules come back: a limit of a second or more
\* between two pictures is what keeps the names apart.
NoPictureReplaced == MinInterval >= PerSecond => Cardinality(pictures) = kept

\* A frame is kept once at most, for the first of its tracks' occasions that
\* could be written; so what the second rule says of spoofs
\* (telemetry.py:235-236) has no effect unless writing raises: no picture of
\* one is ever with the liveness failures.
OnePerFrame == [][kept' <= kept + 1]_debugVars

SpoofsInOneFolder ==
  \/ raised
  \/ \A p \in pictures : p.spoof => p.folder = "spoof_cases"

\* The debug pictures are few, one of a frame, each with a name of its own, and
\* in the folder of the first thing that is wrong with them.
PicturesAreKept == [](DebugTypeOK /\ NoPictureReplaced /\ SpoofsInOneFolder) /\ OnePerFrame
=============================================================================
