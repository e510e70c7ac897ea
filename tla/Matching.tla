------------------------------- MODULE Matching -------------------------------
(***************************************************************************)
(* Who a track is taken for: the mean of its last embeddings against the   *)
(* gallery's pools (edge/pipeline_controller.py, edge/main.py:955-1106),   *)
(* in the view the last frames make it out to be (edge/orientation.py), or *)
(* what the cloud takes the last picture for, and the post that follows    *)
(* (edge/attendance_client.py).                                            *)
(*                                                                         *)
(* An embedding is a person seen in a view.  The cosine of two, in tenths, *)
(* depends only on whether the persons, or the views, differ.  The tracker *)
(* may go on with a track when another face has come to its place: then    *)
(* the buffer holds embeddings of both.                                    *)
(***************************************************************************)
EXTENDS Integers, FiniteSets, SequencesExt

CONSTANTS
  Seen,           \* persons before the camera, enrolled or not, numbered
  OtherView, OtherPerson,  \* the cosine of two embeddings, in tenths
  Galleries,      \* of each enrolled person, the two pools
  LIVENESS_WINDOW, ORIENTATION_SMOOTHING_WINDOW,
  MATCH_HIGH_BASE, MATCH_MID_BASE,  \* in hundredths
  CloudSays,      \* whom the cloud may take a person's picture for
  PostAnswer      \* what can become of a post

Angles == {"front", "side"}

\* The similarities are those of vectors of length one, and the backend answers
\* with 2xx only after it has stored the event (recognition.py commits first).
ASSUME MatchAssumption ==
  /\ OtherPerson \in 0 .. OtherView /\ OtherView \in 0 .. 10
  /\ {LIVENESS_WINDOW, ORIENTATION_SMOOTHING_WINDOW} \subseteq Nat \ {0}
  /\ CloudSays \in [Seen -> SUBSET (Nat \ {0})]
  /\ MATCH_HIGH_BASE \in 2 .. 100 /\ MATCH_MID_BASE \in 0 .. 100
  /\ \A gallery \in Galleries :
       /\ gallery \in Seq([frontal : Seq([who : DOMAIN gallery, view : Angles]),
                           angled : Seq([who : DOMAIN gallery, view : Angles])])
       /\ \A n \in DOMAIN gallery :
            \A pool \in {gallery[n].frontal, gallery[n].angled} :
              \A i \in DOMAIN pool : pool[i].who = n
       /\ \E n \in DOMAIN gallery : gallery[n].frontal # <<>>
  /\ PostAnswer \subseteq [kind : {"2xx", "4xx", "5xx", "no JSON", "timeout", "refused"},
                            stored : BOOLEAN]
  /\ \A answer \in PostAnswer : answer.kind = "2xx" => answer.stored

VARIABLES
  db,         \* the gallery: name -> frontal, angled
  face,       \* the face at the track's place, [who, view]
  votes,      \* mode_history[track_id]
  embeddings, \* embedding_buffers[track_id]
  ofPresent,      \* history: embeddings of face.who since it took the track over
  verdict,    \* what the last frame was decided to be
  post        \* the last post, and whether the backend stored it

matchVars == <<db, face, votes, embeddings, ofPresent, verdict, post>>

NoVerdict == [decision |-> "none", mode |-> "NA", candidate |-> 0, pool_used |-> "NA",
              identity |-> 0, by |-> "edge"]
NoPost == [outcome |-> "none", sent |-> FALSE, stored |-> FALSE]

MatchInit ==
  /\ db \in Galleries
  /\ face \in [who : Seen, view : Angles]
  /\ votes = <<>> /\ embeddings = <<>> /\ ofPresent = 0
  /\ verdict = NoVerdict /\ post = NoPost

-----------------------------------------------------------------------------
(* estimate_mode.                                                          *)

\* One raw mode more: the oldest leaves a full history.
Polled(view) ==
  IF Len(votes) = ORIENTATION_SMOOTHING_WINDOW THEN Append(Tail(votes), view)
  ELSE Append(votes, view)

VotesFor(mode, history) == Cardinality({i \in DOMAIN history : history[i] = mode})

\* The majority; of a tie, whichever the set of strings yields first.
MajorityOf(history) ==
  {mode \in Angles : \A other \in Angles : VotesFor(other, history) <= VotesFor(mode, history)}

-----------------------------------------------------------------------------
(* pose_aware_match.                                                       *)

\* The pool of a person that a face in this mode is compared with.
PoolOf(name, view) ==
  IF view = "front" THEN [kind |-> "frontal", of |-> db[name].frontal]
  ELSE IF db[name].angled = <<>> THEN [kind |-> "frontal_fallback", of |-> db[name].frontal]
  ELSE [kind |-> "angled", of |-> db[name].angled]

\* The dot product of the buffer's sum with a vector, and of the sum with
\* itself: dot / sqrt(norm) is the cosine of the mean.
DotOfSum(buffer, v) ==
  LET person == Cardinality({i \in DOMAIN buffer : buffer[i].who = v.who})
      same == Cardinality({i \in DOMAIN buffer : buffer[i] = v})
  IN  10 * same + OtherView * (person - same) + OtherPerson * (Len(buffer) - person)

Norm(buffer) ==
  LET upTo[n \in 0 .. Len(buffer)] ==
        IF n = 0 THEN 0 ELSE upTo[n - 1] + DotOfSum(buffer, buffer[n])
  IN  upTo[Len(buffer)]

\* The similarity of the mean to v is at least th hundredths.
Reaches(buffer, v, th) ==
  DotOfSum(buffer, v) >= 0 /\ 1000 * DotOfSum(buffer, v) * DotOfSum(buffer, v) >= th * th * Norm(buffer)

\* Every vector of every pool in turn; a later one has to be more similar.  (A
\* gallery without any vector, which leaves UNKNOWN, is left out.)
pose_aware_match(buffer, view) ==
  LET all == FlattenSeq([n \in DOMAIN db |->
               [i \in DOMAIN PoolOf(n, view).of |->
                  [identity |-> n, pool_used |-> PoolOf(n, view).kind, v |-> PoolOf(n, view).of[i]]]])
      best[n \in 1 .. Len(all)] ==
        IF n > 1 /\ DotOfSum(buffer, best[n - 1].v) >= DotOfSum(buffer, all[n].v)
        THEN best[n - 1] ELSE all[n]
  IN  best[Len(all)]

\* get_adaptive_threshold, in hundredths.
get_adaptive_threshold(dark, far, overhead) ==
  [high |-> MATCH_HIGH_BASE + (IF dark THEN 5 ELSE 0) + (IF far THEN 3 ELSE 0)
                            - (IF overhead THEN 2 ELSE 0),
   mid |-> MATCH_MID_BASE]

-----------------------------------------------------------------------------
(* emit.                                                                   *)

OutcomeOf(kind) ==
  CASE kind = "2xx" -> "sent"
    [] kind = "4xx" -> "client_error"
    [] kind \in {"5xx", "no JSON"} -> "server_error"
    [] kind = "timeout" -> "timeout"
    [] kind = "refused" -> "connection_error"

\* What the client makes of an answer, or of none.  It never tries again.
emit(answer) ==
  [outcome |-> OutcomeOf(answer.kind), sent |-> OutcomeOf(answer.kind) = "sent",
   stored |-> answer.stored]

-----------------------------------------------------------------------------
(* The frames of the track.                                                *)

\* The person turns, or another comes to the track's place.
FaceMoves(f) ==
  /\ f # face /\ face' = f
  /\ ofPresent' = IF f.who = face.who THEN ofPresent ELSE 0
  /\ verdict' = NoVerdict /\ post' = NoPost
  /\ UNCHANGED <<db, votes, embeddings>>

\* NO_MATCH or REJECTED_LIVENESS: the buffer is dropped, the votes are not.  A
\* face near the box may have had its vote before NO_MATCH.
DropBuffer ==
  /\ votes' \in {votes} \cup {Polled(view) : view \in Angles}
  /\ embeddings' = <<>> /\ ofPresent' = 0
  /\ verdict' = NoVerdict /\ post' = NoPost
  /\ UNCHANGED <<db, face>>

\* OUT_OF_RANGE, or a label that is neither REAL nor SPOOF.
PassOver ==
  /\ votes' = Polled(face.view)
  /\ verdict' = NoVerdict /\ post' = NoPost
  /\ UNCHANGED <<db, face, embeddings, ofPresent>>

\* Mutant: the buffer has no bound.
AppendedUnbounded(e) == Append(embeddings, e)

\* embedding_buffers[track_id].append: the oldest leaves a full buffer.
Appended(e) ==
  IF Len(embeddings) = LIVENESS_WINDOW THEN Append(Tail(embeddings), e) ELSE Append(embeddings, e)

Decision(buffer, v, th) ==
  IF Reaches(buffer, v, th.high) THEN "MATCHED"
  ELSE IF Reaches(buffer, v, th.mid) THEN "OFFLOAD_TO_CLOUD" ELSE "BELOW_THRESHOLD"

\* What light, distance and angle can make of the thresholds.
MatchThresholds(view) ==
  {get_adaptive_threshold(dark, far, overhead) :
     dark \in BOOLEAN, far \in BOOLEAN, overhead \in {FALSE, view = "side"}}

\* Of the edge alone.
EdgeVerdicts(buffer, mode) ==
  LET best == pose_aware_match(buffer, mode)
  IN  {[decision |-> Decision(buffer, best.v, th), mode |-> mode, candidate |-> best.identity,
        pool_used |-> best.pool_used, identity |-> best.identity, by |-> "edge"] :
         th \in MatchThresholds(mode)}

\* The cloud's identity replaces the edge's; what pool the edge's came from
\* stays in the row.
ByCloud(v, n) == [v EXCEPT !.decision = "MATCHED", !.identity = n, !.by = "cloud"]

\* Where the cloud is asked and knows the picture.
CloudVerdicts(asked) ==
  LET doubtful == {v \in asked : v.decision = "OFFLOAD_TO_CLOUD"}
  IN  {ByCloud(v, n) : v \in doubtful, n \in CloudSays[face.who]}

\* What a frame may decide about the buffer.  Only a frame with a picture of its
\* own is sent; the router, the client and the cloud may each leave it at that.
VerdictsOn(buffer, history, embeds) ==
  IF Len(buffer) < LIVENESS_WINDOW THEN {[NoVerdict EXCEPT !.decision = "BUFFERING"]}
  ELSE UNION {EdgeVerdicts(buffer, mode)
                \cup (IF embeds THEN CloudVerdicts(EdgeVerdicts(buffer, mode)) ELSE {}) :
              mode \in MajorityOf(history)}

\* A frame with a REAL verdict: with or without a new embedding, and once the
\* buffer is full with a match and, if it is one and the persistence and the
\* cooldown let it through, a post.  A frame on which the detector rests has the
\* landmarks of the frame before.
MatchFrame(embeds) ==
  /\ \/ votes' = Polled(face.view)
     \/ ~embeds /\ votes # <<>> /\ votes' = Polled(Last(votes))
  /\ embeddings' = IF embeds THEN Appended(face) ELSE embeddings
  /\ ofPresent' = IF embeds THEN Min({ofPresent + 1, LIVENESS_WINDOW}) ELSE ofPresent
  /\ verdict' \in VerdictsOn(embeddings', votes', embeds)
  /\ post' \in {NoPost} \cup (IF verdict'.decision = "MATCHED"
                                THEN {emit(answer) : answer \in PostAnswer} ELSE {})
  /\ UNCHANGED <<db, face>>

MatchNext ==
  \/ \E f \in [who : Seen, view : Angles] : FaceMoves(f)
  \/ DropBuffer \/ PassOver
  \/ \E embeds \in BOOLEAN : MatchFrame(embeds)

-----------------------------------------------------------------------------
(* Properties.                                                             *)

\* A person who is gone, and whose track another face goes on with, is matched
\* by the edge at most until half a window of the other's embeddings has come in,
\* whatever the views, modes, pools and thresholds: the buffer is not dropped
\* when the face changes without a frame in between (main.py:955, :977,
\* :987-1015).
FormerFaceFades ==
  verdict.decision = "MATCHED" /\ verdict.by = "edge" /\ verdict.identity # face.who =>
    2 * ofPresent <= LIVENESS_WINDOW

\* The cloud is asked about the newest embedding's picture, and that is of who
\* is there now, however old the rest of the buffer is that made the edge
\* doubt: its word is never about a face that is gone (main.py:968-977, :1042).
CloudSeesThePresent ==
  verdict.by = "cloud" =>
    /\ verdict.identity \in CloudSays[face.who]
    /\ embeddings # <<>> /\ Last(embeddings) = face /\ ofPresent >= 1

\* The pool that is logged is the one of the edge's candidate in the mode that
\* was voted, although the others' pools are looked at before and after it, also
\* where the cloud then names another (pipeline_controller.py:60-100).
PoolOfTheMatched ==
  /\ verdict.pool_used = "frontal_fallback" =>
       db[verdict.candidate].angled = <<>> /\ verdict.mode = "side"
  /\ verdict.pool_used = "angled" =>
       db[verdict.candidate].angled # <<>> /\ verdict.mode = "side"

\* A post counts as sent only when the backend has stored the event; of one
\* that does not count nothing is known (attendance_client.py:119-227).
SentIsStored == post.sent => post.stored

\* A sighting that is posted is of the person in front of the camera, or on the
\* edge's word of one who has just left it, with the pool it was found in, and
\* counts as sent only when it was stored.
SightingsExplained ==
  FormerFaceFades /\ CloudSeesThePresent /\ PoolOfTheMatched /\ SentIsStored
=============================================================================
