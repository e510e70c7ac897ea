------------------------------ MODULE EdgeLogs ------------------------------
(***************************************************************************)
(* What the frame loop of the Raspberry Pi writes down (edge/main.py,      *)
(* edge/observability.py): a diagnostic row for every track of every       *)
(* frame, an attendance row for a track that came to be compared with the  *)
(* gallery, and a telemetry row for the frame, which ends with what the    *)
(* observer has gathered of its tracks and of the posts so far.            *)
(*                                                                         *)
(* How a track's turn ends is an input; EdgePipeline has what decides it.  *)
(* Similarities and thresholds are ten-thousandths where the loop compares *)
(* them and thousandths in the files.  Absent cells are "", as csv writes  *)
(* None.                                                                   *)
(***************************************************************************)
EXTENDS Integers, Sequences, FiniteSetsExt, TLC

CONSTANTS
  Seat,        \* track ids
  Named,       \* the gallery's identities
  Doubtful,    \* those of them a face may be half like
  Scene,        \* what a frame looks like: mode, blur, th_high, slow, and how
                \* alike a face is that is half like somebody
  ThMid,       \* MATCH_MID_BASE, in ten-thousandths as the look's th
  Failures,    \* outcomes of a call to the verifier that got no answer
  Reply,       \* answers of the attendance backend
  DiagEvery,   \* DIAG_LOG_EVERY_N
  FramesEvery, \* TELEMETRY_LOG_EVERY_N
  Views,       \* the sets of tracks a frame may have
  Budget       \* bound: rows, frames, posts and polls together

ASSUME LogsAssumption ==
  /\ Seat \subseteq Nat /\ \A view \in Views : view \subseteq Seat /\ IsFiniteSet(view)
  /\ Doubtful \subseteq Named /\ "NA" \notin Named
  /\ ThMid \in Nat \ {0}
  /\ Failures \subseteq {"timeout", "connection_error", "server_error", "encode_failed"}
  /\ \A look \in Scene :
       look.th \in Nat /\ look.th > ThMid /\ look.blur \in Nat /\ look.half \subseteq Nat
  /\ \A reply \in Reply : reply.lecture \in BOOLEAN
  /\ {DiagEvery, FramesEvery} \subseteq Nat \ {0} /\ Budget \in Nat

VARIABLES
  frame_count,     \* _frame_count
  busy,       \* the frame's look while its tracks have their turns
  objects_left,  \* the tracks that have not had theirs
  observed,   \* FrameObservability: source, reason, transition
  context,    \* ExperimentObservability: lecture, present, state, transition
  diagnostic, attendance, telemetry,   \* the rows of the three files
  posts, polls

logsVars == <<frame_count, busy, objects_left, observed, context, diagnostic, attendance,
              telemetry, posts, polls>>

NoScene == [mode |-> "NA", blur |-> 0, th |-> 0, slow |-> FALSE, half |-> {}]

\* What of the bound is used up; a finished frame without rows counts as one.
Finished == IF busy = NoScene THEN frame_count ELSE frame_count - 1
Empties == Cardinality({n \in 1 .. Finished : \A i \in DOMAIN diagnostic : diagnostic[i].at # n})
Spent == Len(diagnostic) + Empties + Cardinality(objects_left) + posts + polls

NothingObserved == [source |-> "none", reason |-> "none", transition |-> "none"]

LogsInit ==
  /\ frame_count = 0 /\ busy = NoScene /\ objects_left = {}
  /\ observed = NothingObserved
  /\ context = [lecture |-> FALSE, present |-> FALSE,
                state |-> "undetected", transition |-> "none"]
  /\ diagnostic = <<>> /\ attendance = <<>> /\ telemetry = <<>>
  /\ posts = 0 /\ polls = 0

-----------------------------------------------------------------------------
(* The observer.                                                           *)

\* map_offload_reason, of the threshold router: asked when its reason is that
\* the similarity is below the threshold.
map_offload_reason(asked, outcome, slow) ==
  IF outcome = "timeout" \/ slow THEN "high_latency"
  ELSE IF asked THEN "low_confidence"
  ELSE "policy"

\* Mutant: the last match says where the frame's recognition came from.
observe_trackLast(row, asked, slow) ==
  [observed EXCEPT
     !.source = IF row.decision # "MATCHED" THEN @
                ELSE IF row.verified = "True" THEN "cloud" ELSE "local",
     !.reason = IF row.outcome = "" THEN @ ELSE map_offload_reason(asked, row.outcome, slow)]

\* observe_track: a cloud match outweighs a local one; the last track that
\* was to be offloaded says why.
observe_track(row, asked, slow) ==
  [observed EXCEPT
     !.source = IF row.decision # "MATCHED" THEN @
                ELSE IF row.verified = "True" THEN "cloud"
                ELSE IF @ = "cloud" THEN @ ELSE "local",
     !.reason = IF row.outcome = "" THEN @ ELSE map_offload_reason(asked, row.outcome, slow)]

\* map_attendance_transition.
Transition(from, to) ==
  IF <<from, to>> \in {<<"undetected", "candidate">>, <<"candidate", "initialized">>,
                       <<"initialized", "confirmed">>, <<"initialized", "expired">>}
  THEN <<from, to>> ELSE "none"

\* normalize_attendance_state.  A text that is not the name of a state, such
\* as an error's, means undetected.
Normalized(text) ==
  IF text = "initialized" THEN "candidate"
  ELSE IF text \in {"undetected", "candidate", "confirmed", "manual_review", "expired",
                    "insufficient_presence"} THEN text
  ELSE "undetected"

\* apply_attendance_ingest on the context.
Applied(reply) ==
  LET ts == IF reply.to # "" THEN reply.to ELSE reply.from
      moved == Transition(reply.from, reply.to)
  IN  [context EXCEPT
         !.lecture = @ \/ reply.lecture,
         !.state = IF ts # "" THEN Normalized(ts)
                   ELSE IF reply.detail # "" THEN Normalized(reply.detail) ELSE @,
         !.transition = IF moved = "none" THEN @ ELSE moved]

\* maybe_poll_cloud_presence: the cloud has presence sessions, or has none.
Poll ==
  /\ busy = NoScene /\ Spent < Budget
  /\ context' = [context EXCEPT !.present = ~@]
  /\ polls' = polls + 1
  /\ UNCHANGED <<frame_count, busy, objects_left, observed, diagnostic, attendance, telemetry,
                 posts>>

-----------------------------------------------------------------------------
(* The loop.                                                               *)

\* A frame with its tracks: reset_frame, and the counter.
StartFrame(look, tracks) ==
  /\ busy = NoScene /\ Spent + Max({1, Cardinality(tracks)}) <= Budget
  /\ busy' = look /\ objects_left' = tracks
  /\ frame_count' = frame_count + 1
  /\ observed' = NothingObserved
  /\ UNCHANGED <<context, diagnostic, attendance, telemetry, posts, polls>>

\* dbg as a track's turn begins.
Blank(t) ==
  [at |-> frame_count, track |-> t, lbl |-> "NA", decision |-> "NONE", mode |-> "NA", active |-> FALSE,
   identity |-> "NA", sim |-> 0, th |-> 0, blur |-> 0,
   outcome |-> "", verified |-> "", agree |-> "", rtt |-> FALSE]

\* dbg of a face that was found, labelled, and compared with the gallery.
Found(t) == [Blank(t) EXCEPT !.mode = busy.mode, !.active = TRUE]
Labelled(t, lbl) == [Found(t) EXCEPT !.lbl = lbl, !.blur = busy.blur]

\* round(x, 3), which both logs keep of what was compared.
Logged(x) == (x + 5) \div 10

Compared(t, who, sim) ==
  [Labelled(t, "REAL") EXCEPT !.identity = who, !.sim = Logged(sim), !.th = Logged(busy.th)]

\* observe_track and _write_diag, which every turn ends with.
Finally(row, asked) ==
  /\ objects_left' = objects_left \ {row.track}
  /\ observed' = observe_track(row, asked, busy.slow)
  /\ diagnostic' = IF frame_count % DiagEvery = 0 THEN Append(diagnostic, row) ELSE diagnostic
  /\ UNCHANGED <<frame_count, busy, telemetry, polls>>

\* csv_writer.writerow, for what comes to the end of the loop's body.
AttendanceRow(row) ==
  [at |-> row.at, track |-> row.track, mode |-> row.mode, sim |-> row.sim, identity |-> row.identity]

LogAttendance(row) == attendance' = Append(attendance, AttendanceRow(row))

\* Turns that end early: NO_MATCH, OUT_OF_RANGE, REJECTED_LIVENESS, the label,
\* BUFFERING.
EarlyRows(t) ==
  {[Blank(t) EXCEPT !.decision = "NO_MATCH"], [Found(t) EXCEPT !.decision = "OUT_OF_RANGE"],
   [Labelled(t, "SPOOF") EXCEPT !.decision = "REJECTED_LIVENESS"],
   [Labelled(t, "UNCERTAIN") EXCEPT !.decision = "UNCERTAIN"],
   [Labelled(t, "REAL") EXCEPT !.decision = "BUFFERING"]}

Leave_early(t) ==
  \E row \in EarlyRows(t) :
    /\ Finally(row, FALSE)
    /\ UNCHANGED <<context, attendance, posts>>

\* A post, if the persistence and the cooldown let it through.
PostOrNot ==
  \/ UNCHANGED <<context, posts>>
  \/ /\ Spent < Budget
     /\ posts' = posts + 1
     /\ \E reply \in Reply : context' = Applied(reply)

\* sim >= th_high.
LogMatched(t, who, sim) ==
  LET row == [Compared(t, who, sim) EXCEPT !.decision = "MATCHED"]
  IN  /\ sim >= busy.th
      /\ Finally(row, FALSE) /\ LogAttendance(row) /\ PostOrNot

\* sim >= th_mid: what becomes of a face that is half like somebody, with
\* whether the router asked for the cloud.  A call that failed took its time,
\* an answer that verifies nobody may still agree, and the last is the cloud's
\* match.
Offloaded(t, who, sim) ==
  LET sent == [Compared(t, who, sim) EXCEPT !.decision = "OFFLOAD_TO_CLOUD"]
      answered == [sent EXCEPT !.outcome = "success", !.rtt = TRUE]
  IN  {[row |-> [sent EXCEPT !.outcome = o], asked |-> FALSE] :
         o \in {"skipped_router", "skipped_no_crop", "skipped_circuit_breaker"}}
      \cup {[row |-> [sent EXCEPT !.outcome = o], asked |-> TRUE] :
              o \in {"skipped_no_crop", "skipped_circuit_breaker"}}
      \cup {[row |-> [sent EXCEPT !.outcome = o, !.rtt = TRUE], asked |-> TRUE] : o \in Failures}
      \cup {[row |-> [answered EXCEPT !.verified = "False", !.agree = a], asked |-> TRUE] :
              a \in {"", "True", "False"}}
      \cup {[row |-> [answered EXCEPT !.verified = "True", !.decision = "MATCHED",
                                      !.identity = n,
                                      !.agree = IF n = who THEN "True" ELSE "False"],
             asked |-> TRUE] : n \in Named}

LogOffloaded(t, who, sim) ==
  /\ sim >= ThMid /\ sim < busy.th
  /\ \E r \in Offloaded(t, who, sim) :
       /\ Finally(r.row, r.asked) /\ LogAttendance(r.row)
       /\ IF r.row.decision = "MATCHED" THEN PostOrNot ELSE UNCHANGED <<context, posts>>

LogBelow(t, who, sim) ==
  LET row == [Compared(t, who, sim) EXCEPT !.decision = "BELOW_THRESHOLD"]
  IN  /\ sim < ThMid
      /\ Finally(row, FALSE) /\ LogAttendance(row)
      /\ UNCHANGED <<context, posts>>

\* Each comparison at the edges of its band.
TakeTurn(t) ==
  \/ Leave_early(t)
  \/ \E who \in Named : LogMatched(t, who, busy.th)
  \/ \E who \in Doubtful, sim \in busy.half : LogOffloaded(t, who, sim)
  \/ \E who \in Doubtful : LogBelow(t, who, ThMid - 1)

\* frame_row_values: a transition is repeated until there is another.
frame_row_values ==
  <<observed.source, observed.reason, context.transition,
    IF context.present THEN "true" ELSE "false",
    IF context.lecture THEN "true" ELSE "false",
    context.state>>

\* TELEMETRY_CSV_COLUMNS from fan_state on.
Columns ==
  <<"fan_state", "recognition_source", "offload_reason", "attendance_transition",
    "surveillance_present", "lecture_active", "attendance_state",
    "num_tracks", "num_faces_valid", "yunet_raw", "yunet_kept", "max_live_conf", "max_sim">>

OfFrame(n) == {i \in DOMAIN diagnostic : diagnostic[i].at = n}

\* The telemetry row: the fan, four counts, the best liveness and similarity,
\* and then the observer's values.
EndFrame ==
  LET rows == OfFrame(frame_count)
      count == ToString(Cardinality(rows))
      best == ToString(Max({0} \cup {diagnostic[i].sim : i \in rows}))
  IN  /\ busy # NoScene /\ objects_left = {}
      /\ telemetry' = IF frame_count % FramesEvery # 0 THEN telemetry
                      ELSE Append(telemetry, <<"LOW", count, count, count, count, "1", best>>
                                               \o frame_row_values)
      /\ busy' = NoScene
      /\ UNCHANGED <<frame_count, objects_left, observed, context, diagnostic, attendance, posts, polls>>

LogsNext ==
  \/ Poll
  \/ \E look \in Scene, tracks \in Views : StartFrame(look, tracks)
  \/ /\ busy # NoScene /\ objects_left # {}
     /\ TakeTurn(Min(objects_left))
  \/ EndFrame

-----------------------------------------------------------------------------
(* Properties.                                                             *)

LogsTypeOK ==
  /\ frame_count \in 0 .. Budget /\ objects_left \subseteq Seat
  /\ busy \in Scene \cup {NoScene}
  /\ observed.source \in {"none", "local", "cloud"}
  /\ observed.reason \in {"none", "high_latency", "low_confidence", "policy"}
  /\ context.state \in {"undetected", "candidate", "confirmed", "manual_review", "expired",
                        "insufficient_presence"}
  /\ \A i \in DOMAIN telemetry : Len(telemetry[i]) = Len(Columns)

\* The attendance log is the diagnostic log without the turns that ended early,
\* in the same order and with the identity that was decided on, whoever decided
\* (main.py:1071, 1113, 1151).
ComparedInBoth ==
  LET compared == {i \in DOMAIN diagnostic : diagnostic[i].identity # "NA"}
      Rank(i) == Cardinality({j \in compared : j <= i})
  IN  DiagEvery = 1 =>
        /\ Len(attendance) = Cardinality(compared)
        /\ \A i \in compared : attendance[Rank(i)] = AttendanceRow(diagnostic[i])

\* A frame's row says cloud exactly when one of its tracks was matched on the
\* cloud's word, local when only the edge matched, and has a reason for
\* offloading exactly when some track was half like somebody: one track does
\* not hide another (observability.py:139-150).
SourceOfFrame(row) == row[8]
ReasonOfFrame(row) == row[9]

\* Offloaded, or made a match by the cloud's word.
HalfLike(row) == row.decision = "OFFLOAD_TO_CLOUD" \/ row.verified = "True"

FrameExplained ==
  DiagEvery = 1 /\ FramesEvery = 1 =>
    \A i \in DOMAIN telemetry :
      LET matches == {j \in OfFrame(i) : diagnostic[j].decision = "MATCHED"}
          cloud == {j \in matches : diagnostic[j].verified = "True"}
      IN  /\ SourceOfFrame(telemetry[i]) =
               (IF cloud # {} THEN "cloud" ELSE IF matches # {} THEN "local" ELSE "none")
          /\ (ReasonOfFrame(telemetry[i]) # "none") <=> (\E j \in OfFrame(i) : HalfLike(diagnostic[j]))

\* What the loop did with a face, and on whose word, can be told from the rows
\* it left in the three logs.
LogsExplainFrames == LogsTypeOK /\ ComparedInBoth /\ FrameExplained
=============================================================================
