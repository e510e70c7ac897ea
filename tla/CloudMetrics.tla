---------------------------- MODULE CloudMetrics ----------------------------
(***************************************************************************)
(* What the cloud and its page compute from a session's events             *)
(* (cloud_backend/analytics, dashboard/api.py, static/attendance/app.js).  *)
(*                                                                         *)
(* An event has a type, a track (0 for a frame's) and the fields that were *)
(* not empty in the edge's file.  Standard deviations, percentiles other   *)
(* than the median, histograms, temperatures and boxes are left out.       *)
(***************************************************************************)
LOCAL INSTANCE Integers
LOCAL INSTANCE Sequences
LOCAL INSTANCE SequencesExt
LOCAL INSTANCE Tallies

Has(e, key) == key \in DOMAIN e.fields
Values(events, key) ==
  LET with == SelectSeq(events, LAMBDA e : Has(e, key))
  IN  [i \in DOMAIN with |-> with[i].fields[key]]

Diagnostics(events) == SelectSeq(events, LAMBDA e : e.type = "diagnostic")

\* The helpers' dictionaries: the values of a field per track, in order.
PerTrack(events, key) ==
  LET with == SelectSeq(Diagnostics(events), LAMBDA e : Has(e, key))
  IN  [t \in {with[i].track : i \in DOMAIN with} |->
         Values(SelectSeq(with, LAMBDA e : e.track = t), key)]

OverTracks(f, Op(_)) == [t \in DOMAIN f |-> Op(f[t])]

-----------------------------------------------------------------------------
(* analytics/stabilization.py                                              *)

orientation_stability(events) ==
  LET modes == PerTrack(events, "mode_raw")
      FlipRate(s) == Rate(Flips(s), OneAtLeast(Steps(s)))
  IN  [flips |-> OverTracks(modes, Flips),
       mode_flip_rate_mean |-> MeanOrZero(OverTracks(modes, FlipRate))]

\* The tracks with two values at least.
confidence_stability(events) ==
  LET sims == PerTrack(events, "sim")
  IN  [t \in {u \in DOMAIN sims : Len(sims[u]) > 1} |-> Mean(sims[t])]

Fractions(labels) ==
  [l \in {"REAL", "SPOOF", "UNCERTAIN"} |-> RateOrZero(Times(labels, l), Len(labels))]

pad_temporal(events) ==
  [n |-> Len(Values(Diagnostics(events), "lbl")),
   overall |-> Fractions(Values(Diagnostics(events), "lbl")),
   per_track |-> OverTracks(PerTrack(events, "lbl"), Fractions)]

-----------------------------------------------------------------------------
(* analytics/quality.py                                                    *)

blur_p50(events) == Median(Values(events, "avg_blur"))

identity_max_distinct(events) ==
  LET Known(s) == SelectSeq(s, LAMBDA x : x # "NA")
      Number(s) == Len(SetToSeq(Distinct(Known(s))))
      named == OverTracks(PerTrack(events, "identity"), Number)
  IN  Rate(Largest(named), IF \E t \in DOMAIN named : named[t] > 0 THEN 1 ELSE 0)

\* Mutant: neighbours of different tracks.
pad_flip_rateMixed(events) ==
  LET labels == Values(Diagnostics(events), "lbl") IN Rate(Flips(labels), Steps(labels))

pad_flip_rate(events) ==
  LET labels == PerTrack(events, "lbl")
  IN  Rate(Total(OverTracks(labels, Flips)), Total(OverTracks(labels, Steps)))

offload_rate(events) ==
  Rate(Times(Values(Diagnostics(events), "decision"), "OFFLOAD_TO_CLOUD"),
       Len(Diagnostics(events)))

offload_failure_rate(events) ==
  LET outcomes == Values(events, "cloud_outcome")
  IN  Rate(Len(outcomes) - Times(outcomes, "success"), Len(outcomes))

active_fraction_mean(events) ==
  LET Active(s) == Rate(Len(s) - Times(s, "NO_MATCH"), Len(s))
  IN  MeanRate(OverTracks(PerTrack(events, "decision"), Active))

\* evaluate: the gates whose inputs are modelled, with the defaults of
\* shared/contracts.py.
evaluate(events) ==
  [excessive_blur |-> SmallerWorse(blur_p50(events), <<80, 1>>, <<40, 1>>),
   unstable_tracking |-> SmallerWorse(active_fraction_mean(events), <<70, 100>>, <<40, 100>>),
   frequent_spoof_flips |-> LargerWorse(pad_flip_rate(events), <<5, 100>>, <<15, 100>>),
   excessive_offload |-> LargerWorse(offload_rate(events), <<20, 100>>, <<40, 100>>),
   identity_flicker |-> LargerWorse(identity_max_distinct(events), <<2, 1>>, <<4, 1>>),
   high_offload_failure |-> LargerWorse(offload_failure_rate(events), <<20, 100>>, <<50, 100>>)]

-----------------------------------------------------------------------------
(* analytics/metrics.py, analytics/evaluation.py                           *)

agreement_rate(events) ==
  LET said == Values(events, "edge_cloud_agree")
  IN  [n |-> Len(said), agree |-> Times(said, "True"),
       rate |-> RateOrZero(Times(said, "True"), Len(said)),
       no_signal |-> Len(events) - Len(said)]

\* OffloadOutcome, and the loop's own.
Outcomes == {"success", "timeout", "connection_error", "server_error", "encode_failed", "fallback",
             "skipped_router", "skipped_no_crop", "skipped_circuit_breaker"}

offload_outcome_distribution(events) ==
  LET outcomes == Values(events, "cloud_outcome")
  IN  [o \in Outcomes |-> Times(outcomes, o)]

offload_efficiency(events) ==
  LET outcomes == Values(events, "cloud_outcome")
  IN  [n_offloads |-> Len(outcomes), success_count |-> Times(outcomes, "success"),
       agreement_n |-> agreement_rate(events).n, agreement |-> agreement_rate(events).rate,
       rtt_n |-> Len(Values(events, "cloud_rtt_ms"))]

\* A row for one attack type: how many frames had which label.
pad_confusion_matrix(events) ==
  LET labels == Values(Diagnostics(events), "lbl")
  IN  [l \in {"REAL", "SPOOF", "UNCERTAIN"} |-> Times(labels, l)]

\* The mean similarity per mode.
orientation_robustness(events) ==
  LET rows == Diagnostics(events)
  IN  [m \in Distinct(Values(rows, "mode")) |->
         Mean(Values(SelectSeq(rows, LAMBDA e : e.fields.mode = m), "sim"))]

-----------------------------------------------------------------------------
(* analytics/calibration.py                                                *)

\* What would be decided with th_high and with th_mid below it by the offset.
threshold_sweep(events, th_high, mid_offset) ==
  LET sims == Values(events, "sim")
      th_mid == IF th_high > mid_offset THEN th_high - mid_offset ELSE 0
      matched == HowMany(sims, LAMBDA s : s >= th_high)
      offload == HowMany(sims, LAMBDA s : s >= th_mid /\ s < th_high)
  IN  [n |-> Len(sims), matched |-> matched, offload |-> offload,
       below |-> Len(sims) - matched - offload]

confidence_distribution(events) ==
  LET sims == Values(events, "sim")
  IN  [n |-> Len(sims), mean |-> Mean(sims), p50 |-> Median(sims)]

hysteresis_count(events) ==
  LET decisions == PerTrack(events, "decision")
      transitions == Total(OverTracks(decisions, Steps))
  IN  [flips |-> OverTracks(decisions, Flips),
       overall_flip_rate |-> Rate(Total(OverTracks(decisions, Flips)),
                                  OneAtLeast(transitions))]

-----------------------------------------------------------------------------
(* dashboard/api.py and the page's edge card                               *)

\* _collect_events for an experiment: its sessions, one after the other.
collect_events(sessions) == FlattenSeq(sessions)

\* _per_session_metric_row.
per_session_metric_row(events) ==
  [event_count |-> Len(events), quality_tags |-> evaluate(events),
   orientation |-> orientation_stability(events), pad |-> pad_temporal(events),
   confidence |-> confidence_stability(events)]

\* compare_sessions_route.
compare_sessions(a, b) ==
  LET TagCount(events) ==
        LET tags == evaluate(events) IN Len(SetToSeq({g \in DOMAIN tags : tags[g] # "none"}))
  IN  [event_count |-> Len(b) - Len(a), tag_count |-> TagCount(b) - TagCount(a)]

\* mapRecognitionMode.
mapRecognitionMode(cloud, all, offloads, rows) ==
  LET Grade(n, d, heavy) == IF 100 * n >= heavy * d THEN "cloud-heavy"
                            ELSE IF 100 * n >= 15 * d THEN "hybrid" ELSE "local"
  IN  IF all > 0 THEN Grade(cloud, all, 55)
      ELSE IF rows > 0 THEN Grade(offloads, rows, 50)
      ELSE "hybrid"

\* computeMetricsFromEvents.  Percents are rounded there before they are
\* compared; here they are not.
computeMetricsFromEvents(events) ==
  LET sources == Values(SelectSeq(events, LAMBDA e : e.type = "frame_telemetry"),
                        "recognition_source")
      rows == Diagnostics(events)
      offloads == Times(Values(rows, "decision"), "OFFLOAD_TO_CLOUD")
      cloud == Times(sources, "cloud")
  IN  [offloadPct |-> Rate(offloads, Len(rows)),
       recognitionMode |-> mapRecognitionMode(cloud, cloud + Times(sources, "local"),
                                              offloads, Len(rows))]
=============================================================================
