--------------------------- MODULE SessionAnalysis ---------------------------
(***************************************************************************)
(* What the offline tools compute from a session's diagnostic rows         *)
(* (research/analysis, edge/experiment_report.py and the summary that      *)
(* edge/telemetry_uploader.py sends with a session's end).                 *)
(*                                                                         *)
(* A data frame is the sequence of EdgeLogs' rows.  Plots, standard        *)
(* deviations, percentiles but the median, the longest runs, temperatures, *)
(* distances and boxes are left out.                                       *)
(***************************************************************************)
LOCAL INSTANCE Integers
LOCAL INSTANCE Sequences
LOCAL INSTANCE FiniteSets
LOCAL INSTANCE SequencesExt
LOCAL INSTANCE Tallies

\* load_diagnostic: pandas reads NA as a missing value, which as a string is
\* nan.  Mode and identity are only looked at where there are some.
load_diagnostic(rows) ==
  LET Missing(x) == IF x = "NA" THEN "" ELSE x
  IN  [i \in DOMAIN rows |->
         [rows[i] EXCEPT !.lbl = IF @ = "NA" THEN "nan" ELSE @,
                         !.mode = Missing(@), !.identity = Missing(@)]]

Column(df, key) == SelectSeq([i \in DOMAIN df |-> df[i][key]], LAMBDA x : x # "")
Numbers(df, key) == [i \in DOMAIN df |-> df[i][key]]

\* groupby("track_id").
ByTrack(df, Of(_)) ==
  [t \in {df[i].track : i \in DOMAIN df} |-> Of(SelectSeq(df, LAMBDA r : r.track = t))]

-----------------------------------------------------------------------------
(* stabilization.py                                                        *)

orientation_stability(df) ==
  LET FlipsOf(g) == Flips(Column(g, "mode"))
      RateOf(g) == Rate(FlipsOf(g), OneAtLeast(Steps(Column(g, "mode"))))
  IN  [flips |-> ByTrack(df, FlipsOf), mode_flip_rate_mean |-> MeanRate(ByTrack(df, RateOf))]

confidence_stability(df) == ByTrack(df, LAMBDA g : Mean(Numbers(g, "sim")))

Active(r) == r.decision # "NO_MATCH"

detection_persistence(df) ==
  LET Fraction(g) == Rate(HowMany(g, Active), Len(g))
  IN  [frames_active |-> ByTrack(df, LAMBDA g : HowMany(g, Active)),
       mean_active_fraction |-> MeanRate(ByTrack(df, Fraction))]

blur_p50(df) == Median(Numbers(df, "blur"))

LabelFractions(df) ==
  [l \in {"REAL", "SPOOF", "UNCERTAIN"} |-> RateOrZero(Times(Numbers(df, "lbl"), l), Len(df))]

pad_temporal_summary(df) ==
  [n |-> Len(df), overall |-> LabelFractions(df), per_track |-> ByTrack(df, LabelFractions)]

offload_trigger_summary(df) ==
  LET agree == Column(df, "agree")
  IN  [count |-> Times(Numbers(df, "decision"), "OFFLOAD_TO_CLOUD"),
       rate |-> Rate(Times(Numbers(df, "decision"), "OFFLOAD_TO_CLOUD"), Len(df)),
       outcomes |-> Column(df, "outcome"),
       agreement_n |-> Len(agree),
       agreement_rate |-> RateOrZero(Times(agree, "True"), Len(agree))]

-----------------------------------------------------------------------------
(* runtime_diagnostics.py                                                  *)

missed_detection_diagnostics(df) ==
  LET decisions == Numbers(df, "decision")
  IN  [no_match |-> Times(decisions, "NO_MATCH"), out_of_range |-> Times(decisions, "OUT_OF_RANGE"),
       distribution |-> [d \in Distinct(decisions) |-> Times(decisions, d)]]

\* The largest number of identities a track had.
identity_flicker(df) ==
  Largest(ByTrack(df, LAMBDA g : Cardinality(Distinct(Column(g, "identity")))))

orientation_vs_confidence(df) ==
  [m \in Distinct(Column(df, "mode")) |->
     Mean(Numbers(SelectSeq(df, LAMBDA r : r.mode = m), "sim"))]

FlipsOfLabels(g) == Flips(Numbers(g, "lbl"))

spoof_transitions(df) == Total(ByTrack(df, FlipsOfLabels))

pad_hysteresis(df) ==
  Rate(Total(ByTrack(df, FlipsOfLabels)), OneAtLeast(Total(ByTrack(df, Steps))))

-----------------------------------------------------------------------------
(* quality_gates.py                                                        *)

offload_failure_rate(df) ==
  LET outcomes == offload_trigger_summary(df).outcomes
  IN  Rate(Len(outcomes) - Times(outcomes, "success"), Len(outcomes))

evaluate_metrics(df) ==
  [excessive_blur |-> SmallerWorse(blur_p50(df), <<80, 1>>, <<40, 1>>),
   unstable_tracking |->
     SmallerWorse(detection_persistence(df).mean_active_fraction, <<70, 100>>, <<40, 100>>),
   frequent_spoof_flips |-> LargerWorse(pad_hysteresis(df), <<5, 100>>, <<15, 100>>),
   excessive_offload |-> LargerWorse(offload_trigger_summary(df).rate, <<20, 100>>, <<40, 100>>),
   identity_flicker |-> LargerWorse(<<identity_flicker(df), 1>>, <<2, 1>>, <<4, 1>>),
   high_offload_failure |-> LargerWorse(offload_failure_rate(df), <<20, 100>>, <<50, 100>>)]

\* The tags that are raised.
Raised(tags) == {g \in DOMAIN tags : tags[g] # "none"}

-----------------------------------------------------------------------------
(* threshold_sweep.py, calibration.py                                      *)

match_threshold_sweep(df, th_high, mid_offset) ==
  LET sims == Numbers(df, "sim")
      th_mid == IF th_high > mid_offset THEN th_high - mid_offset ELSE 0
  IN  [n |-> Len(sims),
       matched |-> HowMany(sims, LAMBDA s : s >= th_high),
       offload |-> HowMany(sims, LAMBDA s : s >= th_mid /\ s < th_high),
       below |-> HowMany(sims, LAMBDA s : s < th_mid)]

hysteresis_diagnostics(df) ==
  LET FlipsOf(g) == Flips(Numbers(g, "decision"))
      tracks == Cardinality({df[i].track : i \in DOMAIN df})
  IN  [flips |-> ByTrack(df, FlipsOf),
       overall_flip_rate |-> Rate(Total(ByTrack(df, FlipsOf)), OneAtLeast(Len(df) - tracks))]

confidence_distribution(df) ==
  [n |-> Len(df), mean |-> Mean(Numbers(df, "sim")), p50 |-> Median(Numbers(df, "sim"))]

-----------------------------------------------------------------------------
(* stability_score.py                                                      *)

\* The signals that need no standard deviation and no temperature, with their
\* weights in percent; no offload, no signal.
Signals(df) ==
  [active_fraction |-> detection_persistence(df).mean_active_fraction,
   mode_flip_rate_inv |-> OneLess(orientation_stability(df).mode_flip_rate_mean),
   pad_flip_rate_inv |-> OneLess(pad_hysteresis(df)),
   identity_distinct_inv |-> Rate(1, OneAtLeast(identity_flicker(df))),
   offload_success_rate |->
     IF HasRate(offload_failure_rate(df)) THEN OneLess(offload_failure_rate(df)) ELSE NoRate]

Weight == [active_fraction |-> 25, mode_flip_rate_inv |-> 15, pad_flip_rate_inv |-> 15,
           identity_distinct_inv |-> 10, offload_success_rate |-> 10]

\* compute_score: the weighted mean of the signals there are.
Score(signals) ==
  LET there == {s \in DOMAIN signals : HasRate(signals[s])}
      sum == FoldRates([s \in there |-> <<Weight[s] * signals[s][1], signals[s][2]>>])
  IN  RateOrZero(sum[1], sum[2] * Total([s \in there |-> Weight[s]]))

-----------------------------------------------------------------------------
(* session_comparison.py                                                   *)

compare(a, b) ==
  LET ta == evaluate_metrics(a)
      tb == evaluate_metrics(b)
  IN  [tag_count |-> Cardinality(Raised(tb)) - Cardinality(Raised(ta)),
       only_in_a |-> Raised(ta) \ Raised(tb), only_in_b |-> Raised(tb) \ Raised(ta),
       in_both |-> Raised(ta) \cap Raised(tb)]

-----------------------------------------------------------------------------
(* experiment_report.py, telemetry_uploader.py                             *)

\* The counters of the report.  A turn that ended before the comparison has
\* similarity and threshold 0, and counts as above it.
Crossings(g) == Flips([i \in DOMAIN g |-> g[i].sim >= g[i].th])

LabelRows(df, l) == Times(Numbers(df, "lbl"), l)
OrientationActive(df) == HowMany(df, LAMBDA r : r.active)

generate_experiment_report(df) ==
  LET Share(n) == Rate(n, OneAtLeast(Len(df)))
      agree == Column(df, "agree")
  IN  [real_rows |-> LabelRows(df, "REAL"),
       spoof_rows |-> LabelRows(df, "SPOOF"),
       orientation_active |-> OrientationActive(df),
       offload_rows |-> Times(Numbers(df, "decision"), "OFFLOAD_TO_CLOUD"),
       offload_rate |-> Share(Times(Numbers(df, "decision"), "OFFLOAD_TO_CLOUD")),
       agreement_n |-> Len(agree), agreement_rate |-> Rate(Times(agree, "True"), Len(agree)),
       rtt_n |-> HowMany(df, LAMBDA r : r.rtt),
       threshold_crossings |-> Total(ByTrack(df, Crossings))]

\* A success counts also where the cloud's word has made a match of the row.
build_session_summary(rows) ==
  [frames_total |-> Len(rows), matched_total |-> Times(Numbers(rows, "decision"), "MATCHED"),
   spoof_total |-> Times(Numbers(rows, "lbl"), "SPOOF"),
   offload_total |-> Times(Numbers(rows, "decision"), "OFFLOAD_TO_CLOUD"),
   offload_success_total |-> Times(Numbers(rows, "outcome"), "success")]
==============================================================================
