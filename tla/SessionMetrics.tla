--------------------------- MODULE SessionMetrics ---------------------------
(***************************************************************************)
(* The metrics of a session, computed three times over: offline from the   *)
(* edge's files, by the uploader for the session's end, and by the cloud   *)
(* and its page from the uploaded events.  EdgeLogs writes the files;      *)
(* here they become events (edge/telemetry_uploader.py), and the numbers   *)
(* are held against each other and against what the edge decided.          *)
(***************************************************************************)
EXTENDS EdgeLogs

Cloud == INSTANCE CloudMetrics
Offline == INSTANCE SessionAnalysis
LOCAL INSTANCE Tallies

-----------------------------------------------------------------------------
(* From rows to events: _row_to_event leaves empty cells out.              *)

DiagnosticEvent(r) ==
  LET all == [lbl |-> r.lbl, decision |-> r.decision, mode |-> r.mode, mode_raw |-> r.mode,
              identity |-> r.identity, sim |-> r.sim, avg_blur |-> r.blur,
              cloud_outcome |-> r.outcome, cloud_verified |-> r.verified,
              edge_cloud_agree |-> r.agree, cloud_rtt_ms |-> r.rtt]
      empty == {k \in {"cloud_outcome", "cloud_verified", "edge_cloud_agree"} : all[k] = ""}
               \cup (IF r.rtt THEN {} ELSE {"cloud_rtt_ms"})
  IN  [type |-> "diagnostic", track |-> r.track, fields |-> [k \in DOMAIN all \ empty |-> all[k]]]

AttendanceEvent(r) ==
  [type |-> "attendance", track |-> r.track,
   fields |-> [name |-> r.identity, confidence |-> r.sim, liveness_label |-> "REAL",
              mode |-> r.mode]]

FrameEvent(cells) ==
  [type |-> "frame_telemetry", track |-> 0,
   fields |-> [c \in {Columns[i] : i \in DOMAIN Columns} |->
                 cells[CHOOSE i \in DOMAIN Columns : Columns[i] = c]]]

\* The rows of frames a to b, as if they were a session's files, and its events.
Of(rows, a, b) == SelectSeq(rows, LAMBDA r : a <= r.at /\ r.at <= b)

Events(a, b) ==
  LET d == Of(diagnostic, a, b)
      t == Of(attendance, a, b)
      f == [i \in DOMAIN telemetry |-> [at |-> i * FramesEvery, cells |-> telemetry[i]]]
      g == Of(f, a, b)
  IN  [i \in DOMAIN d |-> DiagnosticEvent(d[i])] \o [i \in DOMAIN g |-> FrameEvent(g[i].cells)]
      \o [i \in DOMAIN t |-> AttendanceEvent(t[i])]

Uploaded == Events(0, frame_count)

\* The files are read between frames, once there has been one.
AtRest == busy = NoScene /\ frame_count > 0

Df == Offline!load_diagnostic(diagnostic)

-----------------------------------------------------------------------------
(* The telemetry file, read back by column name (edge/observability.py).   *)

Cells(name) ==
  LET i == CHOOSE j \in DOMAIN Columns : Columns[j] = name
  IN  [n \in DOMAIN telemetry |-> telemetry[n][i]]

summarize_telemetry_columns ==
  [recognition_local_count |-> Times(Cells("recognition_source"), "local"),
   recognition_offload_count |-> Times(Cells("recognition_source"), "cloud"),
   attendance_confirmed |-> Times(Cells("attendance_state"), "confirmed"),
   attendance_insufficient |-> Times(Cells("attendance_state"), "insufficient_presence"),
   surveillance_presence_ratio |->
     RateOrZero(Times(Cells("surveillance_present"), "true"), Len(telemetry)),
   fan_switch_count |-> Flips(Cells("fan_state"))]

-----------------------------------------------------------------------------
(* Properties.                                                             *)

\* Every row that was half like somebody is in the cloud's distribution with
\* one of the known outcomes; only answered ones, and those only where somebody
\* was to be compared with, say whether edge and cloud agree; the answered ones
\* and the failed calls, but no skipped one, have a round trip; and the
\* uploader's offload_total falls short of the attempts by exactly the rows the
\* cloud's word made matches of (main.py:1031-1106).
AttemptsAccounted ==
  AtRest =>
    LET events == Uploaded
        efficiency == Cloud!offload_efficiency(events)
        outcomes == Cloud!offload_outcome_distribution(events)
        tried == {i \in DOMAIN diagnostic : HalfLike(diagnostic[i])}
        won == {i \in tried : diagnostic[i].decision = "MATCHED"}
        said == {i \in tried : diagnostic[i].agree # ""}
        skipped == {"skipped_router", "skipped_no_crop", "skipped_circuit_breaker"}
    IN  /\ efficiency.n_offloads = Cardinality(tried)
        /\ efficiency.n_offloads = Total(outcomes)
        /\ Cardinality(won) <= efficiency.agreement_n /\ efficiency.agreement_n <= outcomes["success"]
        /\ efficiency.agreement_n = Cardinality(said)
        /\ efficiency.rtt_n = Total([o \in DOMAIN outcomes \ skipped |-> outcomes[o]])
        /\ Cloud!agreement_rate(events).no_signal = Len(events) - Cardinality(said)
        /\ Offline!build_session_summary(diagnostic).offload_total = Cardinality(tried \ won)

\* The uploader's summary, the report on the Raspberry Pi, the offline
\* stabilization, the cloud and the page count the same labels, offloads,
\* successes and agreements, whatever other events the cloud has
\* (telemetry_uploader.py:279, dashboard/api.py:143, app.js:1037).
CountsAgree ==
  AtRest =>
    LET events == Uploaded
        df == Df
        summary == Offline!build_session_summary(diagnostic)
        report == Offline!generate_experiment_report(df)
        trigger == Offline!offload_trigger_summary(df)
        missed == Offline!missed_detection_diagnostics(df)
        labels == Cloud!pad_confusion_matrix(events)
        agreement == Cloud!agreement_rate(events)
        page == Cloud!computeMetricsFromEvents(events)
    IN  /\ {trigger.count, report.offload_rows} = {summary.offload_total}
        /\ SameRate(Cloud!offload_rate(events), trigger.rate)
        /\ SameRate(page.offloadPct, trigger.rate)
        /\ labels["SPOOF"] = summary.spoof_total /\ labels["SPOOF"] = report.spoof_rows
        /\ labels["REAL"] = report.real_rows
        /\ Cloud!offload_efficiency(events).success_count = summary.offload_success_total
        /\ {agreement.n, report.agreement_n} = {trigger.agreement_n}
        /\ SameRate(agreement.rate, trigger.agreement_rate)
        /\ agreement.n > 0 => SameRate(agreement.rate, report.agreement_rate)
        /\ Total(Offline!detection_persistence(df).frames_active) + missed.no_match
             = summary.frames_total
        /\ Total(missed.distribution) = summary.frames_total

\* The cloud raises the gates the offline tool raises, with the same severity,
\* and cutting the log in two, a comparison of the halves counts the same
\* change of tags; for the gates modelled here, which are six of twelve
\* (quality.py:4, quality_gates.py:105, dashboard/api.py:410).
GatesMirrored ==
  AtRest =>
    /\ Cloud!per_session_metric_row(Uploaded).quality_tags = Offline!evaluate_metrics(Df)
    /\ \A n \in 1 .. frame_count - 1 :
         LET a == Offline!load_diagnostic(Of(diagnostic, 0, n))
             b == Offline!load_diagnostic(Of(diagnostic, n + 1, frame_count))
             offline == Offline!compare(a, b)
         IN  /\ Cloud!compare_sessions(Events(0, n), Events(n + 1, frame_count)).tag_count
                  = offline.tag_count
             /\ offline.tag_count = Cardinality(offline.only_in_b) - Cardinality(offline.only_in_a)

\* The share of each label, of all rows and of each track's, and the rate of
\* their flips are the same in the cloud and offline, where NA is read as a
\* missing value and comes back as the label nan (stabilization.py:144 and
\* :230, quality.py:94, runtime_diagnostics.py:280).
LabelsMirrored ==
  AtRest =>
    LET events == Uploaded
        df == Df
        cloud == Cloud!pad_temporal(events)
        offline == Offline!pad_temporal_summary(df)
        flips == Cloud!pad_flip_rate(events)
    IN  /\ diagnostic # <<>> => cloud = offline
        /\ flips[1] = Offline!spoof_transitions(df)
        /\ HasRate(flips) => SameRate(flips, Offline!pad_hysteresis(df))
        /\ ~HasRate(flips) => Offline!pad_hysteresis(df)[1] = 0

\* A sweep of the threshold gives the same in the cloud and offline; it never
\* matches more at a higher threshold; and at the threshold the log was made
\* with, it repeats what the edge decided: its matches without the cloud's, its
\* offloads whatever became of them, and below that the rest, in which the rows
\* that were never compared are counted too.  It errs only upwards, and only by
\* the rows whose similarity fell short of a threshold by less than the logs
\* keep of it (main.py:608, 1015-1111, calibration.py:66, threshold_sweep.py:39).
SweepReplays ==
  AtRest =>
    LET events == Uploaded
        df == Df
        Used == {Logged(l.th) : l \in Scene}
        mid == Logged(ThMid)
        Sweep(th, offset) == Cloud!threshold_sweep(events, th, offset)
        compared == {i \in DOMAIN diagnostic : diagnostic[i].th > 0}
        edge == {i \in compared : diagnostic[i].decision = "MATCHED" /\ diagnostic[i].verified = ""}
        offloads == {i \in compared : diagnostic[i].outcome # ""}
        RoundedUp(rows, th) == Cardinality({i \in rows : diagnostic[i].sim = th})
    IN  /\ \A th \in Used \cup {mid} : \A offset \in {0, th - mid} :
             Sweep(th, offset) = Offline!match_threshold_sweep(df, th, offset)
        /\ \A low, high \in Used : low <= high => Sweep(high, 0).matched <= Sweep(low, 0).matched
        /\ \A th \in Used :
             (\A i \in compared : diagnostic[i].th = th) =>
               LET point == Sweep(th, th - mid)
                   above == RoundedUp(offloads, th)
                   among == RoundedUp(compared \ (edge \cup offloads), mid)
               IN  /\ point.matched = Cardinality(edge) + above
                   /\ point.offload = Cardinality(offloads) - above + among
                   /\ point.below = Len(diagnostic) - Cardinality(edge) - Cardinality(offloads) - among
        /\ diagnostic # <<>> =>
             Cloud!confidence_distribution(events) = Offline!confidence_distribution(df)

\* Frames without a pose are a mode of their own in the cloud, NA, and are
\* left out offline: a track's mode flips at least as often in the cloud, and
\* as often where it has no such frame; the other modes have the same mean
\* similarity (analytics/stabilization.py:57, research stabilization.py:64,
\* evaluation.py:96, runtime_diagnostics.py:164).
OrientationBounds ==
  AtRest =>
    LET events == Uploaded
        df == Df
        cloud == Cloud!orientation_stability(events)
        offline == Offline!orientation_stability(df)
        Gaps(t) == \E i \in DOMAIN diagnostic : diagnostic[i].track = t /\ diagnostic[i].mode = "NA"
        perMode == Cloud!orientation_robustness(events)
        sims == Offline!confidence_stability(df)
        known == Cloud!confidence_stability(events)
    IN  /\ DOMAIN cloud.flips = DOMAIN offline.flips
        /\ \A t \in DOMAIN cloud.flips :
             /\ offline.flips[t] <= cloud.flips[t]
             /\ ~Gaps(t) => offline.flips[t] = cloud.flips[t]
        /\ diagnostic # <<>> /\ (\A t \in DOMAIN cloud.flips : ~Gaps(t)) =>
             SameRate(cloud.mode_flip_rate_mean, offline.mode_flip_rate_mean)
        /\ Offline!orientation_vs_confidence(df) = [m \in DOMAIN perMode \ {"NA"} |-> perMode[m]]
        /\ \A t \in DOMAIN known : known[t] = sims[t]

\* The sessions of an experiment are read one after the other and a track is
\* its number: where both have one, the last frame of the first and the first
\* of the second become neighbours, and that alone is added to the flips of the
\* sessions (dashboard/api.py:143, calibration.py:104).
MergedFlips ==
  AtRest =>
    \A n \in 1 .. frame_count - 1 :
      LET df == Df
          one == Events(0, n)
          two == Events(n + 1, frame_count)
          In(events) == Cloud!hysteresis_count(events).flips
          merged == Total(In(Cloud!collect_events(<<one, two>>)))
          apart == Total(In(one)) + Total(In(two))
          whole == Offline!hysteresis_diagnostics(df)
      IN  /\ apart <= merged
          /\ merged <= apart + Cardinality(DOMAIN In(one) \cap DOMAIN In(two))
          /\ merged = Total(whole.flips)
          /\ SameRate(whole.overall_flip_rate,
                      Cloud!hysteresis_count(Cloud!collect_events(<<one, two>>)).overall_flip_rate)

\* The stability score lies between the worst and the best of the signals the
\* session has: what is missing, such as a success rate without an offload,
\* pulls it nowhere (stability_score.py:97, 118).
ScoreAmongSignals ==
  AtRest =>
    LET df == Df
        signals == Offline!Signals(df)
        there == {s \in DOMAIN signals : HasRate(signals[s])}
        score == Offline!Score(signals)
    IN  diagnostic # <<>> =>
        /\ \E s \in there : ~Below(score, signals[s])
        /\ \E s \in there : ~Above(score, signals[s])

\* The edge, the offline tools and the cloud compute the same of one session,
\* and where they do not, the difference is the one that is stated.
MetricsAgree ==
  /\ AttemptsAccounted /\ CountsAgree /\ GatesMirrored /\ LabelsMirrored /\ SweepReplays
  /\ OrientationBounds /\ MergedFlips /\ ScoreAmongSignals

\* The report's counts of local and cloud recognitions are those of the frames
\* that were observed as such.
SourcesSummarised ==
  LET Sources == [i \in DOMAIN telemetry |-> SourceOfFrame(telemetry[i])]
  IN  /\ summarize_telemetry_columns.recognition_local_count = Times(Sources, "local")
      /\ summarize_telemetry_columns.recognition_offload_count = Times(Sources, "cloud")
=============================================================================
