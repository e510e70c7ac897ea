---------------------------- MODULE EdgePipeline ----------------------------
(***************************************************************************)
(* The frame loop of the Raspberry Pi (edge/main.py): detection on every   *)
(* YunetN-th frame, and for each tracked face the liveness verdict, the    *)
(* buffer of embeddings, the match, and what follows from it: a post to    *)
(* the attendance backend, or a request to the cloud verifier              *)
(* (edge/cloud_client.py).  The smoothers are those of                     *)
(* edge/stabilization.py.                                                  *)
(*                                                                         *)
(* What a network says of a picture is an input: the face in view, the     *)
(* liveness vote, the identity and how similar it is.  The loop is one     *)
(* thread; a frame is one step, and each of its tracks another.            *)
(***************************************************************************)
EXTENDS Naturals, FiniteSetsExt

CONSTANTS
  Track,          \* faces followed at a time
  Person,         \* the gallery's identities
  Nobody,
  Window,         \* LIVENESS_WINDOW (8), of votes and of embeddings
  YunetN,         \* YUNET_CADENCE_N
  EmbedN,         \* EMBED_CADENCE_N
  PersistN,       \* MATCH_PERSISTENCE_FRAMES
  SpoofN,         \* PAD_SPOOF_STREAK_REQUIRED
  IngestCooldown  \* ATTENDANCE_INGEST_COOLDOWN_S, in frames

ASSUME EdgeAssumption ==
  /\ Nobody \notin Person
  /\ {Window, YunetN, EmbedN, PersistN, SpoofN, IngestCooldown} \subseteq Nat \ {0}

\* Frames after which both cadences start over.
Cycle == YunetN * EmbedN

VARIABLES
  count,      \* _frame_count, modulo Cycle
  skipped,    \* _detection_skipped
  view,       \* where the cached detections have each track's face
  todo,       \* the tracks this frame has not come to yet
  track,      \* the per-track dictionaries of the loop
  age,        \* time since each identity's _attendance_ingest_cooldowns entry
  failures,   \* CloudVerificationClient._consecutive_failures
  reachable,  \* CloudVerificationClient._server_reachable
  serverUp,   \* the verifier answers in time
  seen        \* history of each track, for the properties

vars == <<count, skipped, view, todo, track, age, failures, reachable,
          serverUp, seen>>
cloudVars == <<failures, reachable, serverUp>>

\* What the loop keeps of a track: the length of liveness.history, the entry
\* of _last_liveness, the spoof streak, the length of the embedding buffer
\* and the run of matches.  Streaks and runs stop counting where the
\* comparison with their limit is decided.
Fresh ==
  [votes |-> 0, last |-> "none", streak |-> 0, buffer |-> 0,
   run |-> [who |-> Nobody, n |-> 0]]

\* History: frames since the face was lost or rejected, frames with a full
\* buffer since the last embedding, and the spoof votes in a row.
Unseen == [clean |-> 0, stale |-> 0, spoofs |-> 0]

Capped(n, cap) == Min({n, cap})

Init ==
  /\ count = 0
  /\ skipped = FALSE
  /\ view = [t \in Track |-> "none"]
  /\ todo = {}
  /\ track = [t \in Track |-> Fresh]
  /\ age = [p \in Person |-> IngestCooldown]
  /\ failures = 0 /\ reachable = TRUE /\ serverUp = TRUE
  /\ seen = [t \in Track |-> Unseen]

\* A new frame: the detector runs on every YunetN-th, and the others keep its
\* result.  The counter goes on before the tracks are looked at.
Frame(v) ==
  /\ todo = {}
  /\ skipped' = (count % YunetN # 0)
  /\ view' = IF skipped' THEN view ELSE v
  /\ count' = (count + 1) % Cycle
  /\ todo' = Track
  /\ age' = [p \in Person |-> Capped(age[p] + 1, IngestCooldown)]
  /\ UNCHANGED <<track, cloudVars, seen>>

\* The loop is done with a track in this frame.
Done(t, x, h) ==
  /\ todo' = todo \ {t}
  /\ track' = [track EXCEPT ![t] = x]
  /\ seen' = [seen EXCEPT ![t] = h]
  /\ UNCHANGED <<count, skipped, view, serverUp>>

\* NO_MATCH: no detection at the track's box, everything is dropped.
Lose(t) ==
  /\ t \in todo /\ view[t] = "none"
  /\ Done(t, Fresh, Unseen)
  /\ UNCHANGED <<age, failures, reachable>>

\* The face is still there, but the frame is not a match.
Unmatched(h) == [h EXCEPT !.clean = Capped(@ + 1, Window), !.stale = 0]

\* OUT_OF_RANGE.
Distant(t) ==
  /\ t \in todo /\ view[t] = "far"
  /\ Done(t, track[t], Unmatched(seen[t]))
  /\ UNCHANGED <<age, failures, reachable>>

\* What the liveness engine may say: it votes once its history is full; on a
\* skipped frame its last word stands.
RawLabels(t) ==
  IF skipped THEN {IF track[t].last = "none" THEN "ANALYZING" ELSE track[t].last}
  ELSE IF track[t].votes + 1 < Window THEN {"ANALYZING"}
  ELSE {"REAL", "UNCERTAIN", "SPOOF"}

Voted(x, raw) ==
  [x EXCEPT !.votes = IF skipped THEN @ ELSE Capped(@ + 1, Window),
            !.last = IF skipped THEN @ ELSE raw,
            !.streak = IF raw = "SPOOF" THEN Capped(@ + 1, SpoofN) ELSE 0]

\* Mutant: the streak is one short.
SmoothedEarly(raw, streak) ==
  IF raw = "SPOOF" /\ streak + 1 < SpoofN THEN "UNCERTAIN" ELSE raw

\* PADSpoofStreakSmoother.smooth.
Smoothed(raw, streak) ==
  IF raw = "SPOOF" /\ streak < SpoofN THEN "UNCERTAIN" ELSE raw

\* The verdicts a near face can get in this frame, with what is kept of them.
Verdicts(t) ==
  IF t \notin todo \/ view[t] # "near" THEN {}
  ELSE {LET x == Voted(track[t], raw)
        IN  [label |-> Smoothed(raw, x.streak), kept |-> x,
             history |-> IF skipped THEN seen[t]
                         ELSE [seen[t] EXCEPT !.spoofs =
                                 IF raw = "SPOOF" THEN Capped(@ + 1, SpoofN) ELSE 0]] :
          raw \in RawLabels(t)}

\* Mutant: a spoof keeps the embeddings.
RejectKeepsBuffer(t) ==
  \E v \in Verdicts(t) :
    /\ v.label = "SPOOF"
    /\ Done(t, v.kept, [Unmatched(v.history) EXCEPT !.clean = 0])
    /\ UNCHANGED <<age, failures, reachable>>

\* REJECTED_LIVENESS: the embeddings are dropped.
Reject(t) ==
  \E v \in Verdicts(t) :
    /\ v.label = "SPOOF"
    /\ Done(t, [v.kept EXCEPT !.buffer = 0],
            [Unmatched(v.history) EXCEPT !.clean = 0])
    /\ UNCHANGED <<age, failures, reachable>>

\* ANALYZING, UNCERTAIN: nothing is decided.
Hold(t) ==
  \E v \in Verdicts(t) :
    /\ v.label \notin {"REAL", "SPOOF"}
    /\ Done(t, v.kept, Unmatched(v.history))
    /\ UNCHANGED <<age, failures, reachable>>

\* _do_embed: until the buffer is full, then on every EmbedN-th frame.
Embeds(x) == ~skipped /\ (x.buffer < Window \/ count % EmbedN = 0)

Embedded(x) ==
  IF Embeds(x) THEN [x EXCEPT !.buffer = Capped(@ + 1, Window)] ELSE x

\* A REAL face whose buffer is full, this frame's embedding included.
Matchable(t) ==
  {[kept |-> Embedded(v.kept), cropped |-> Embeds(v.kept),
    history |-> [v.history EXCEPT !.clean = Capped(@ + 1, Window),
                   !.stale = IF Embeds(v.kept) THEN 0 ELSE Capped(@ + 1, Cycle)]] :
     v \in {w \in Verdicts(t) : /\ w.label = "REAL"
                                /\ Embedded(w.kept).buffer >= Window}}

\* BUFFERING.
Buffering(t) ==
  \E v \in Verdicts(t) :
    /\ v.label = "REAL"
    /\ Embedded(v.kept).buffer < Window
    /\ Done(t, Embedded(v.kept), Unmatched(v.history))
    /\ UNCHANGED <<age, failures, reachable>>

\* Mutant: every frame starts a new run.
ObservedAnew(run, p, cap) == [who |-> p, n |-> 1]

\* MatchPersistenceCounter.observe.
Observed(run, p, cap) ==
  [who |-> p, n |-> IF run.who = p THEN Capped(run.n + 1, cap) ELSE 1]

\* _try_emit_attendance: one post per identity and cooldown, whatever becomes
\* of it.
Emit(p) ==
  age' = IF age[p] < IngestCooldown THEN age ELSE [age EXCEPT ![p] = 0]

\* MATCHED on the edge: sim >= th_high.
Match(t, p) ==
  \E m \in Matchable(t) :
    LET run == Observed(m.kept.run, p, PersistN)
    IN  /\ Done(t, [m.kept EXCEPT !.run = run], m.history)
        /\ IF run.n >= PersistN THEN Emit(p) ELSE UNCHANGED age
        /\ UNCHANGED <<failures, reachable>>

NoRun(x) == [x EXCEPT !.run = Fresh.run]

\* is_healthy.
Healthy == reachable /\ failures < 5

\* Mutant: two failures are enough.
UnreachableAfterTwo(n) == n >= 2

\* _update_health_tracking after a failure.
Unreachable(n) == n >= 3

\* OFFLOAD_TO_CLOUD, and the router wants the cloud: CloudVerificationClient.
\* verify, which succeeds when the server answers; it may confirm somebody.
\* Its own breaker (_should_skip_due_to_failures) opens at five failures,
\* which Healthy excludes here.
Verify(t, who) ==
  \E m \in Matchable(t) :
    /\ m.cropped /\ Healthy
    /\ Done(t, NoRun(m.kept), m.history)
    /\ IF serverUp
       THEN /\ failures' = 0
            /\ reachable' = TRUE
            /\ IF who = Nobody THEN UNCHANGED age ELSE Emit(who)
       ELSE /\ failures' = failures + 1
            /\ reachable' = (reachable /\ ~Unreachable(failures + 1))
            /\ UNCHANGED age

\* The same, but the breaker keeps the loop from asking.
SkipVerify(t) ==
  \E m \in Matchable(t) :
    /\ m.cropped /\ ~Healthy
    /\ Done(t, NoRun(m.kept), m.history)
    /\ UNCHANGED <<age, failures, reachable>>

\* Not similar enough, or good enough for the router, or no crop to send.
Leave(t) ==
  \E m \in Matchable(t) :
    /\ Done(t, NoRun(m.kept), m.history)
    /\ UNCHANGED <<age, failures, reachable>>

\* The verifier stops answering, or answers again.
Toggle ==
  /\ serverUp' = ~serverUp
  /\ UNCHANGED <<count, skipped, view, todo, track, age, failures, reachable, seen>>

Process(t) ==
  \/ Lose(t)
  \/ Distant(t)
  \/ Reject(t)
  \/ Hold(t)
  \/ Buffering(t)
  \/ \E p \in Person : Match(t, p)
  \/ \E who \in Person \cup {Nobody} : Verify(t, who)
  \/ SkipVerify(t)
  \/ Leave(t)

Loop ==
  \/ \E v \in [Track -> {"none", "far", "near"}] : Frame(v)
  \/ \E t \in Track : Process(t)

Next == Loop \/ Toggle

Spec == Init /\ [][Next]_vars

\* The loop waits for nothing but posts and requests, all of which time out.
FairSpec == Spec /\ WF_vars(Loop)

-----------------------------------------------------------------------------
(* Properties.                                                             *)

Run == [who : Person \cup {Nobody}, n : 0 .. PersistN]
Label == {"REAL", "UNCERTAIN", "SPOOF", "ANALYZING"}

\* The dictionaries, the counters and the client keep their types: no window,
\* streak or run outgrows its limit.
TypeOK ==
  /\ count \in 0 .. Cycle - 1
  /\ skipped \in BOOLEAN
  /\ view \in [Track -> {"none", "far", "near"}]
  /\ todo \subseteq Track
  /\ track \in [Track -> [votes : 0 .. Window, last : Label \cup {"none"},
                          streak : 0 .. SpoofN, buffer : 0 .. Window, run : Run]]
  /\ age \in [Person -> 0 .. IngestCooldown]
  /\ failures \in Nat /\ reachable \in BOOLEAN /\ serverUp \in BOOLEAN
  /\ seen \in [Track -> [clean : 0 .. Window, stale : 0 .. Cycle,
                         spoofs : 0 .. SpoofN]]

Posts(p) == age[p] # 0 /\ age'[p] = 0

\* Nobody is posted on account of a face that was rejected as a spoof, or
\* lost, less than a window of frames ago, on the edge's word or on the
\* cloud's: old embeddings never survive (main.py:877, 948).
SpoofBlocks ==
  [][\A p \in Person : Posts(p) =>
       \E t \in todo \ todo' : seen'[t].clean >= Window]_vars

\* The verifier is given up on after three failures in a row and never before
\* (cloud_client.py:339-347).
GivenUpAfterThree == ~reachable => failures >= 3

\* A track holds no more embeddings than frames have passed since its face was
\* last rejected, or lost: what the mean of main.py:987 goes over was gathered
\* after that, on whichever exits the frames since then left the loop.
BufferIsRecent == \A t \in Track : track[t].buffer <= seen[t].clean

\* While a face stays REAL and is being matched, its mean embedding is never
\* older than one round of both cadences, if these have no common divisor.
\* (settings.py:297 promises EmbedN frames, which holds for YunetN = 1 only.)
EmbeddingFresh == \A t \in Track : seen[t].stale < Cycle

\* A face is rejected only on spoof votes in a row that, with the frames they
\* are carried over, make SpoofN frames: no earlier vote of another kind, and
\* no lost track, ever counts.  (docs/STABILIZATION_KNOBS.md:94 promises
\* SpoofN votes, which holds for YunetN = 1 only.)
Rejects(t) == track[t].buffer > 0 /\ track'[t].buffer = 0 /\ view[t] = "near"

SpoofStreak ==
  [][\A t \in Track :
       Rejects(t) => seen'[t].spoofs * YunetN >= SpoofN]_vars

\* A person who stays in front of the camera, is found alive and matched in
\* every frame, is posted again and again, whatever the cadences.
Steady(t, p) ==
  t \in todo \ todo' => Buffering(t) \/ Match(t, p)

SteadyFaceReported ==
  \A t \in Track, p \in Person :
    <>[][Steady(t, p)]_vars => []<><<Posts(p)>>_vars

\* The counters of the loop stay within their windows, no embedding outlives a
\* rejection or a lost face, and the verifier is not given up too early.
LoopSound == TypeOK /\ BufferIsRecent /\ GivenUpAfterThree

\* A verifier that answers again is asked again: cloud_client.py:334 says
\* "attempting reset after backoff window", of faces that go on asking for one
\* and are turned away by is_healthy (main.py:1042).
AskedAgain ==
  <>[]serverUp /\ []<><<\E t \in Track : SkipVerify(t)>>_vars
    => []<><<\E t \in Track, who \in Person \cup {Nobody} : Verify(t, who)>>_vars

\* The two cadences, of detection and of embedding, meet: a face that stays is
\* embedded in every round of both, and labels that are carried over frames
\* without detection add up to no rejection of their own.
CadencesMeet == []EmbeddingFresh /\ SpoofStreak
=============================================================================
