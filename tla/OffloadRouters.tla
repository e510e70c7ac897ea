--------------------------- MODULE OffloadRouters ---------------------------
(***************************************************************************)
(* The routing strategies of edge/offload_router.py, each given the same   *)
(* similarities: which faces to send to the cloud verifier.  Similarities  *)
(* and the static thresholds are in percent, the adaptive threshold in     *)
(* hundredths of a percent.                                                *)
(***************************************************************************)
EXTENDS Integers, Sequences, FiniteSets

CONSTANTS
  Confidence,   \* similarities the edge may report
  WindowSize,   \* window_size (50)
  MinSamples,   \* decisions before the threshold adapts (10)
  Agreements,   \* length of the agreement window (20)
  MinAgreements \* answers of the cloud before they count (5)

ASSUME RouterAssumption ==
  /\ Confidence \subseteq 0 .. 100
  /\ {WindowSize, MinSamples, Agreements, MinAgreements} \subseteq Nat \ {0}

VARIABLES
  last_decision,      \* HysteresisRouter: offload?
  entered,            \* history: the similarity that decision was first made on
  confidence_window,  \* AdaptiveRouter
  agreement_window,
  threshold,
  answered            \* the last face sent has been answered

routerVars == <<last_decision, entered, confidence_window, agreement_window,
                threshold, answered>>

RouterInit ==
  /\ last_decision = FALSE /\ entered = 100
  /\ confidence_window = <<>> /\ agreement_window = <<>>
  /\ threshold = 6500
  /\ answered = TRUE

-----------------------------------------------------------------------------
\* ThresholdRouter: forced to the edge, forced to the cloud, or by similarity.
ThresholdDecides(c, force_edge, force_offload) ==
  ~force_edge /\ (force_offload \/ c < 65)

\* HysteresisRouter: between 60 and 72 the last decision stands.
HysteresisDecides(c, last) == c < 60 \/ (c <= 72 /\ last)

-----------------------------------------------------------------------------
(* AdaptiveRouter.                                                         *)

Recent(s, size) == IF Len(s) > size THEN Tail(s) ELSE s

SumOf(s) ==
  LET sum[i \in 0 .. Len(s)] == IF i = 0 THEN 0 ELSE sum[i - 1] + s[i]
  IN  sum[Len(s)]

Squares(s) == SumOf([i \in 1 .. Len(s) |-> s[i] * s[i]])

\* The root of a number up to the largest variance the window can have.
Root(n) ==
  CHOOSE r \in 0 .. 100 * WindowSize : r * r <= n /\ n < (r + 1) * (r + 1)

\* Mutant: mean + std.
BasePlus(s) ==
  (100 * (SumOf(s) + Root(Len(s) * Squares(s) - SumOf(s) * SumOf(s)))) \div Len(s)

\* mean - std of the window.
Base(s) ==
  (100 * (SumOf(s) - Root(Len(s) * Squares(s) - SumOf(s) * SumOf(s)))) \div Len(s)

Agreed(s) == Cardinality({i \in DOMAIN s : s[i]})

\* The answers of the cloud: nearly always the same as the edge's, or often
\* another.
Adjusted(base, agreements) ==
  IF Len(agreements) < MinAgreements THEN base
  ELSE IF 10 * Agreed(agreements) > 9 * Len(agreements) THEN (95 * base) \div 100
  ELSE IF 10 * Agreed(agreements) < 6 * Len(agreements) THEN (108 * base) \div 100
  ELSE base

Clip(x, low, high) == IF x < low THEN low ELSE IF x > high THEN high ELSE x

\* _recompute_threshold.
Recomputed(confidences, agreements) ==
  Clip(Adjusted(Base(confidences), agreements), 4000, 8500)

\* One face, as every strategy sees it.  The adaptive one counts it into its
\* window first, and sends it if it is below the threshold.
decide(c) ==
  /\ answered
  /\ last_decision' = HysteresisDecides(c, last_decision)
  /\ entered' = IF last_decision' = last_decision THEN entered ELSE c
  /\ confidence_window' = Recent(Append(confidence_window, c), WindowSize)
  /\ threshold' = IF Len(confidence_window') >= MinSamples
                  THEN Recomputed(confidence_window', agreement_window)
                  ELSE threshold
  /\ answered' = ~(100 * c < threshold')
  /\ UNCHANGED agreement_window

\* feedback: the verifier answered for the face that was sent.
feedback(agreed) ==
  /\ ~answered
  /\ answered' = TRUE
  /\ agreement_window' = Recent(Append(agreement_window, agreed), Agreements)
  /\ threshold' = Recomputed(confidence_window, agreement_window')
  /\ UNCHANGED <<last_decision, entered, confidence_window>>

\* The verifier did not answer: there is no feedback.
NoAnswer ==
  /\ ~answered
  /\ answered' = TRUE
  /\ UNCHANGED <<last_decision, entered, confidence_window, agreement_window,
                 threshold>>

RouterNext ==
  \/ \E c \in Confidence : decide(c)
  \/ \E agreed \in BOOLEAN : feedback(agreed)
  \/ NoAnswer

-----------------------------------------------------------------------------
(* Properties.                                                             *)

\* However the similarities spread and whatever the cloud answers, the
\* adaptive threshold stays between min_threshold and max_threshold.
RouterTypeOK ==
  /\ last_decision \in BOOLEAN /\ answered \in BOOLEAN
  /\ Len(confidence_window) <= WindowSize
  /\ Len(agreement_window) <= Agreements
  /\ threshold \in 4000 .. 8500

\* The hysteresis router changes its mind only for a similarity that lies the
\* whole band away from the one it decided on before.
DeadBandCrossed ==
  [][last_decision' # last_decision =>
       LET d == entered' - entered IN d > 12 \/ d < -12]_routerVars

\* As long as the verifier's answers are few, or neither nearly all the same as
\* the edge's nor often others, the adaptive router sends only a face that is
\* less like anybody than the average of its window, or below min_threshold:
\* where similarities do not differ nobody is sent (offload_router.py:225-243,
\* 313-330).  In which direction other answers move the threshold is left
\* open: the comments and the factors differ on it.
Undisputed(s) ==
  \/ Len(s) < MinAgreements
  \/ 10 * Agreed(s) <= 9 * Len(s) /\ 10 * Agreed(s) >= 6 * Len(s)

SentBelowAverage ==
  [][LET s == confidence_window'
     IN  answered /\ ~answered' /\ Len(s) >= MinSamples /\ Undisputed(agreement_window)
           => s[Len(s)] < 40 \/ Len(s) * s[Len(s)] < SumOf(s)]_routerVars

\* The strategies agree outside the band: below it both static ones send a
\* face, above it neither does, unless they are forced.
StaticStrategiesAgree ==
  \A c \in Confidence :
    c < 60 \/ c > 72 =>
      (ThresholdDecides(c, FALSE, FALSE) <=> HysteresisDecides(c, last_decision))

\* The strategies send the faces they are doubtful of: the adaptive threshold
\* stays in its range and below the average, and the hysteresis takes the whole
\* band to change its mind.
RoutersConsistent ==
  /\ [](RouterTypeOK /\ StaticStrategiesAgree)
  /\ DeadBandCrossed /\ SentBelowAverage
=============================================================================
