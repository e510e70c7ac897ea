--------------------------- MODULE EdgePartsProofs ---------------------------
(***************************************************************************)
(* Theorems about the parts of the edge device that keep their own state:  *)
(* the client of the cloud verifier, the fan, the liveness vote, the       *)
(* filters between the frames and the decision, the routers that ask the   *)
(* cloud or do not, the writer of debug pictures, the files of a run, the  *)
(* rows the frame loop writes, and the match of a face with the enrolled.  *)
(* They share nothing, and each is proved for itself, for every value of   *)
(* its constants.                                                          *)
(***************************************************************************)
EXTENDS CloudClient, FanControl, LivenessVote, FaceFilters, OffloadRouters,
        DebugFrames, RunFiles, EdgeLogs, Matching, FiniteSetTheorems, SequenceTheorems,
        WellFoundedInduction, TLAPS

(***************************************************************************)
(* CloudClient, for every number of retries: what bounds one verify, and   *)
(* what the client's flags can be blamed on.                               *)
(*                                                                         *)
(* TriesBounded is not inductive: WithinTries ties the tries made so far   *)
(* to the attempt and to what urllib3 has left of it.  GivenUpForAReason   *)
(* needs Armed: a verify only begins below the breaker's threshold, so     *)
(* that the failure it may end in is within the five the history counts.   *)
(***************************************************************************)
ClientSpec == ClientInit /\ [][ClientNext]_clientVars

\* What attempts before the a-th may have taken.
MadeBefore(a) == (a - 1) * (MaxRetries + 1)

Calls == [attempt : 0 .. MaxRetries + 1, left : 0 .. MaxRetries, tries : Nat]

\* A verify under way has made no more tries than its attempts allow.
WithinTries(c) ==
  /\ c.attempt >= 1
  /\ c.tries <= MadeBefore(c.attempt) + (MaxRetries - c.left)

Armed == call # Idle => WithinTries(call) /\ failing < Threshold5

ClientInv == ClientTypeOK /\ call \in Calls /\ Armed /\ GivenUpForAReason

-----------------------------------------------------------------------------
(* Arithmetic.                                                             *)

\* One more attempt costs at most all of urllib3's tries.
LEMMA SpentStep ==
  ASSUME NEW a \in Nat \ {0}
  PROVE  MadeBefore(a) \in Nat /\ MadeBefore(a + 1) = MadeBefore(a) + (MaxRetries + 1)
<1> DEFINE n == MaxRetries + 1
<1>1. n \in Nat /\ a - 1 \in Nat
  BY RetriesAssumption
<1>2. \A x, y \in Nat : x * y \in Nat /\ (x + 1) * y = x * y + y
  OBVIOUS
<1>3. (a - 1) * n \in Nat /\ ((a - 1) + 1) * n = (a - 1) * n + n
  BY <1>1, <1>2
<1>4. (a - 1) + 1 = (a + 1) - 1
  OBVIOUS
<1> QED
  BY <1>3, <1>4 DEF MadeBefore

\* The attempts that are allowed leave one attempt of the square.
LEMMA SpentBound ==
  ASSUME NEW a \in 1 .. MaxRetries + 1
  PROVE  MadeBefore(a) + (MaxRetries + 1) <= (MaxRetries + 1) * (MaxRetries + 1)
<1> DEFINE n == MaxRetries + 1
<1>1. n \in Nat /\ a \in Nat /\ a - 1 \in Nat /\ a <= n
  BY RetriesAssumption
<1>2. \A x, y, z \in Nat : x <= y => x * z <= y * z
  OBVIOUS
<1>3. a * n <= n * n
  BY <1>1, <1>2
<1>4. (a - 1) * n + n = a * n
  <2>1. \A x, y \in Nat : (x + 1) * y = x * y + y
    OBVIOUS
  <2> QED
    BY <1>1, <2>1, (a - 1) + 1 = a
<1> QED
  BY <1>3, <1>4 DEF MadeBefore

\* Min of two numbers is the cap or the number.
LEMMA CappedAt5 ==
  ASSUME NEW k \in Nat
  PROVE  Min({k, Threshold5}) = IF k <= 5 THEN k ELSE 5
<1> DEFINE S == {k, Threshold5}
           m == IF k <= 5 THEN k ELSE 5
<1>1. m \in S /\ \A y \in S : m =< y
  BY DEF Threshold5
<1>2. \A x \in S : (\A y \in S : x =< y) => x = m
  BY DEF Threshold5
<1>3. Min(S) \in S /\ \A y \in S : Min(S) =< y
  <2>1. PICK x \in S : \A y \in S : x =< y
    BY <1>1
  <2> QED
    BY <2>1 DEF Min
<1> QED
  BY <1>2, <1>3

-----------------------------------------------------------------------------
(* The steps of the client.                                                *)

\* The client starts idle and with nothing to blame.
LEMMA ClientStarts == ClientInit => ClientInv
<1> SUFFICES ASSUME ClientInit PROVE ClientInv
  OBVIOUS
<1>1. {serverOk, ailing} \subseteq BOOLEAN /\ serverOk
  BY Zenon DEF ClientInit
<1>2. call \in Calls /\ call.attempt = 0 /\ call.left = 0
  BY RetriesAssumption DEF ClientInit, Calls, Idle
<1>3. failing = 0 /\ lost = 0 /\ checked = "never" /\ outcome = "none" /\ call = Idle
  BY DEF ClientInit
<1> QED
  BY <1>1, <1>2, <1>3, RetriesAssumption
  DEF ClientInv, ClientTypeOK, Armed, GivenUpForAReason, Threshold5

\* A verify is skipped, or begins with the whole budget before it.
LEMMA EntryInv ==
  ASSUME ClientInv, Skip \/ Begin
  PROVE  ClientInv'
<1> USE RetriesAssumption DEF ClientInv, ClientTypeOK, GivenUpForAReason, Threshold5
<1>1. CASE Skip
  BY <1>1 DEF Skip, healthVars, Armed, WithinTries, MadeBefore
<1>2. CASE Begin
  <2>1. failing' \in 0 .. 4 /\ failing' <= lost
    BY <1>2 DEF Begin
  <2>2. call' \in Calls /\ (call' # Idle => WithinTries(call'))
    BY <1>2 DEF Begin, Calls, Idle, WithinTries, MadeBefore
  <2> QED
    BY <1>2, <2>1, <2>2 DEF Begin, Armed, Calls
<1> QED
  BY <1>1, <1>2

\* The end of a verify, successful or not.
LEMMA FinishInv ==
  ASSUME ClientInv, call # Idle, NEW result, Finish(result),
         result \in {"success", "timeout", "connection_error", "server_error"}
  PROVE  ClientInv'
<1>1. failing \in 0 .. 4 /\ lost \in 0 .. 5 /\ failing <= lost
  BY DEF ClientInv, Armed, GivenUpForAReason, ClientTypeOK, Threshold5
<1>2. lost' = IF result = "success" THEN 0 ELSE IF lost + 1 <= 5 THEN lost + 1 ELSE 5
  BY <1>1, CappedAt5, lost + 1 \in Nat DEF Finish
<1>3. failing' = IF result = "success" THEN 0 ELSE failing + 1
  BY DEF Finish, Tracked
<1>4. call' = Idle /\ Idle \in Calls
  BY RetriesAssumption DEF Finish, Idle, Calls
<1>5. ClientTypeOK'
  <2>1. {serverOk', ailing'} \subseteq BOOLEAN
    BY Zenon DEF Finish, Tracked, ClientInv, ClientTypeOK
  <2>2. checked' = checked /\ outcome' = result
    BY DEF Finish
  <2>3. failing' \in 0 .. 5 /\ lost' \in 0 .. 5
    BY <1>1, <1>2, <1>3
  <2> QED
    BY <1>4, <2>1, <2>2, <2>3, RetriesAssumption
    DEF ClientInv, ClientTypeOK, Threshold5, Idle
<1>6. failing' <= lost'
  BY <1>1, <1>2, <1>3
<1>7. ~serverOk' => lost' >= 3 \/ ailing'
  <2>1. CASE result = "success"
    BY <2>1, Zenon DEF Finish, Tracked
  <2>2. CASE result # "success" /\ failing + 1 >= 3
    BY <1>1, <1>2, <2>2
  <2>3. CASE result # "success" /\ ~(failing + 1 >= 3)
    <3>1. failing + 1 < 3
      BY <1>1, <2>3
    <3>2. serverOk' = serverOk /\ (ailing => ailing')
      BY <2>3, <3>1, Zenon DEF Finish, Tracked, ClientInv, ClientTypeOK
    <3>3. lost >= 3 => lost' >= 3
      BY <1>1, <1>2, <2>3
    <3> QED
      BY <3>2, <3>3, Zenon DEF ClientInv, GivenUpForAReason
  <2> QED
    BY <1>1, <2>1, <2>2, <2>3
<1> QED
  BY <1>4, <1>5, <1>6, <1>7 DEF ClientInv, Armed, GivenUpForAReason

\* A try that ends nothing: urllib3 repeats it, or the client's loop goes on.
LEMMA GoesOn ==
  ASSUME ClientInv, call # Idle, NEW c, c = [call EXCEPT !.tries = @ + 1],
         \/ c.left > 0 /\ call' = [c EXCEPT !.left = @ - 1]
         \/ \E r \in Wire : c.attempt <= MaxRetries /\ call' = Further(c, r),
         UNCHANGED <<outcome, checked, healthVars>>
  PROVE  ClientInv'
<1> USE RetriesAssumption
<1>1. /\ call \in Calls /\ WithinTries(call)
      /\ call.attempt \in Nat \ {0} /\ call.attempt <= MaxRetries + 1
      /\ call.left \in 0 .. MaxRetries /\ call.tries \in Nat
  BY DEF ClientInv, Armed, WithinTries, Calls
<1>2. c \in Calls /\ c.attempt = call.attempt /\ c.left = call.left
                  /\ c.tries = call.tries + 1
  BY <1>1 DEF Calls
<1>3. MadeBefore(call.attempt) \in Nat
      /\ MadeBefore(call.attempt + 1) = MadeBefore(call.attempt) + (MaxRetries + 1)
  BY <1>1, SpentStep
<1>4. call' \in Calls /\ WithinTries(call')
  <2>1. CASE c.left > 0 /\ call' = [c EXCEPT !.left = @ - 1]
    <3>1. /\ call' \in Calls /\ call'.attempt = call.attempt
          /\ call'.left = call.left - 1 /\ call'.tries = call.tries + 1
      <4>1. call' = [c EXCEPT !.left = c.left - 1]
        BY <2>1
      <4>2. c.left - 1 \in 0 .. MaxRetries
        BY <1>1, <1>2, <2>1
      <4> QED
        BY <1>2, <4>1, <4>2 DEF Calls
    <3>2. call.tries <= MadeBefore(call.attempt) + (MaxRetries - call.left)
      BY <1>1 DEF WithinTries
    <3>3. call'.tries <= MadeBefore(call'.attempt) + (MaxRetries - call'.left)
      BY <1>1, <1>3, <3>1, <3>2
    <3> QED
      BY <1>1, <3>1, <3>3 DEF WithinTries
  <2>2. CASE \E r \in Wire : c.attempt <= MaxRetries /\ call' = Further(c, r)
    <3>1. /\ call' \in Calls /\ call'.attempt = call.attempt + 1
          /\ call'.left = MaxRetries /\ call'.tries = call.tries + 1
      <4>1. call' = [c EXCEPT !.attempt = c.attempt + 1, !.left = MaxRetries]
        BY <2>2 DEF Further
      <4>2. c.attempt + 1 \in 0 .. MaxRetries + 1 /\ MaxRetries \in 0 .. MaxRetries
        BY <1>1, <1>2, <2>2
      <4> QED
        BY <1>2, <4>1, <4>2 DEF Calls
    <3>2. call.tries <= MadeBefore(call.attempt) + (MaxRetries - call.left)
      BY <1>1 DEF WithinTries
    <3>3. call'.tries <= MadeBefore(call.attempt + 1) + (MaxRetries - call'.left)
      BY <1>1, <1>3, <3>1, <3>2
    <3> QED
      BY <1>1, <3>1, <3>3 DEF WithinTries
  <2> QED
    BY <2>1, <2>2
<1>5. UNCHANGED <<failing, serverOk, checked, outcome, lost, ailing>>
  BY DEF healthVars
<1>6. ClientTypeOK'
  BY <1>4, <1>5 DEF ClientInv, ClientTypeOK, Calls
<1> QED
  BY <1>4, <1>5, <1>6 DEF ClientInv, Armed, GivenUpForAReason

\* One try, whatever it meets.
LEMMA TryInv ==
  ASSUME ClientInv, NEW r \in Wire, Try(r)
  PROVE  ClientInv'
<1> DEFINE c == [call EXCEPT !.tries = @ + 1]
<1>1. call # Idle
  BY DEF Try
<1>2. CASE r \in Repeated /\ c.left > 0
  BY <1>1, <1>2, GoesOn DEF Try
<1>3. CASE ~(r \in Repeated /\ c.left > 0)
  <2>1. CASE r = "answer"
    <3>1. Finish("success")
      BY <1>3, <2>1 DEF Try
    <3> QED
      BY <1>1, <3>1, FinishInv
  <2>2. CASE r = "no_connect"
    <3>1. Finish("timeout")
      BY <1>3, <2>2 DEF Try
    <3> QED
      BY <1>1, <3>1, FinishInv
  <2>3. CASE r \notin {"answer", "no_connect"} /\ c.attempt <= MaxRetries
    <3>1. call' = Further(c, r) /\ UNCHANGED <<outcome, checked, healthVars>>
      BY <1>3, <2>3 DEF Try
    <3> QED
      BY <1>1, <2>3, <3>1, GoesOn
  <2>4. CASE r \notin {"answer", "no_connect"} /\ ~(c.attempt <= MaxRetries)
    <3>1. Finish(LastError(r))
      BY <1>3, <2>4 DEF Try
    <3>2. LastError(r) \in {"success", "timeout", "connection_error", "server_error"}
      BY DEF LastError
    <3> QED
      BY <1>1, <3>1, <3>2, FinishInv
  <2> QED
    BY <2>1, <2>2, <2>3, <2>4
<1> QED
  BY <1>2, <1>3

\* A health check that finds nothing is a reason of its own.
LEMMA CheckInv ==
  ASSUME ClientInv, Window30 \/ \E r \in Wire : HealthCheck(r)
  PROVE  ClientInv'
<1> USE RetriesAssumption DEF ClientInv, ClientTypeOK, GivenUpForAReason
<1>1. CASE Window30
  BY <1>1 DEF Window30, healthVars, Armed, WithinTries, MadeBefore
<1>2. CASE \E r \in Wire : HealthCheck(r)
  BY <1>2 DEF HealthCheck, Armed, Idle
<1> QED
  BY <1>1, <1>2

\* ClientInv is inductive.
LEMMA ClientInvariance == ClientInv /\ [ClientNext]_clientVars => ClientInv'
<1> SUFFICES ASSUME ClientInv, [ClientNext]_clientVars PROVE ClientInv'
  OBVIOUS
<1>1. CASE Skip \/ Begin
  BY <1>1, EntryInv
<1>2. CASE \E r \in Wire : Try(r)
  BY <1>2, TryInv
<1>3. CASE Window30 \/ \E r \in Wire : HealthCheck(r)
  BY <1>3, CheckInv
<1>4. CASE UNCHANGED clientVars
  BY <1>4 DEF clientVars, ClientInv, ClientTypeOK, GivenUpForAReason, Armed, WithinTries, MadeBefore
<1> QED
  BY <1>1, <1>2, <1>3, <1>4 DEF ClientNext

\* The strengthened invariant holds throughout.
LEMMA ClientAlways == ClientSpec => []ClientInv
BY ClientStarts, ClientInvariance, PTL DEF ClientSpec

-----------------------------------------------------------------------------
(* What follows.                                                           *)

\* The client's fields keep their types, and its streak of failures never
\* passes the breaker's threshold (edge/cloud_client.py:328-347).
THEOREM ClientTypeCorrect == ClientSpec => []ClientTypeOK
BY ClientAlways, PTL DEF ClientInv

\* One verify makes at most (MaxRetries + 1)^2 tries, for every number of
\* retries (edge/cloud_client.py:267-326, 350-361).
THEOREM VerifyIsBounded == ClientSpec => []TriesBounded
<1>1. ClientInv => TriesBounded
  <2> SUFFICES ASSUME ClientInv PROVE TriesBounded
    OBVIOUS
  <2> USE RetriesAssumption
  <2>1. CASE call = Idle
    <3>1. \A x, y \in Nat : (x + 1) * (y + 1) > 0
      OBVIOUS
    <3> QED
      BY <2>1, <3>1 DEF TriesBounded, Idle
  <2>2. CASE call # Idle
    <3>1. /\ call.attempt \in 1 .. MaxRetries + 1 /\ call.left \in 0 .. MaxRetries
          /\ call.tries \in Nat
          /\ call.tries <= MadeBefore(call.attempt) + (MaxRetries - call.left)
      BY <2>2 DEF ClientInv, Armed, WithinTries, Calls
    <3>2. MadeBefore(call.attempt) \in Nat
      BY <3>1, SpentStep, call.attempt \in Nat \ {0}
    <3>3. MadeBefore(call.attempt) + (MaxRetries + 1) <= (MaxRetries + 1) * (MaxRetries + 1)
      BY <3>1, SpentBound
    <3> DEFINE square == (MaxRetries + 1) * (MaxRetries + 1)
    <3>4. square \in Nat
      OBVIOUS
    <3>5. call.tries < square
      <4> HIDE DEF square
      <4> QED
        BY <3>1, <3>2, <3>3, <3>4 DEF square
    <3> QED
      BY <3>5 DEF TriesBounded
  <2> QED
    BY <2>1, <2>2
<1> QED
  BY <1>1, ClientAlways, PTL

\* The flags that keep the loop from asking are set by real failures since the
\* last success (edge/cloud_client.py:225-236, 328-347).
THEOREM FlagsHaveAReason == ClientSpec => []GivenUpForAReason
BY ClientAlways, PTL DEF ClientInv

\* A verify is only skipped after five real failures and soon after a health
\* check that was answered (edge/cloud_client.py:328-337).
THEOREM SkipIsRare == ClientSpec => SkipsPass
<1> DEFINE Few == outcome' = "fallback" /\ outcome # "fallback" =>
                    lost >= Threshold5 /\ checked = "recent"
<1>1. ClientInv /\ [ClientNext]_clientVars => [Few]_clientVars
  <2> SUFFICES ASSUME ClientInv, ClientNext, outcome' = "fallback", outcome # "fallback"
               PROVE  lost >= Threshold5 /\ checked = "recent"
    BY Zenon
  <2>1. ASSUME NEW r \in Wire, Try(r) PROVE outcome' # "fallback"
    BY <2>1 DEF Try, Finish, LastError, healthVars
  <2>2. Skip
    BY <2>1 DEF ClientNext, Begin, HealthCheck, Window30, healthVars
  <2>3. failing >= Threshold5 /\ checked = "recent"
    BY <2>2 DEF Skip, Skips
  <2>4. failing <= lost /\ failing \in Nat /\ lost \in Nat
    BY DEF ClientInv, GivenUpForAReason, ClientTypeOK, Threshold5
  <2> QED
    BY <2>3, <2>4 DEF Threshold5
<1> QED
  BY <1>1, ClientAlways, PTL DEF ClientSpec, SkipsPass

\* So what an outage costs is bounded, for every number of retries, and ends
\* with its reason.
THEOREM OutagesAreContained == ClientSpec => OutageContained
BY ClientTypeCorrect, VerifyIsBounded, FlagsHaveAReason, SkipIsRare, PTL
DEF OutageContained

-----------------------------------------------------------------------------
(***************************************************************************)
(* FanControl, for every set of temperatures a sensor may report: however  *)
(* far a reading jumps, the mode fits it, and the fan does not follow a    *)
(* wobble.                                                                 *)
(*                                                                         *)
(* NoFlapping is about a step and needs Turn, which ties the last change   *)
(* of the mode to the mode it led to.                                      *)
(***************************************************************************)
FanSpec == FanInit /\ [][FanNext]_fanVars

\* A temperature t has not reached the mode after i, or has not fallen two
\* degrees short of i.
Below(i, t) == i < 3 => t < Up[i + 1]
Above(i, t) == i > 0 => t >= Down(i)

FanTypeOK ==
  /\ fan \in 0 .. 3
  /\ reading \in Temp \cup {NoTemp}
  /\ turned.up \in BOOLEAN

\* The last change was up, and its temperature had reached the mode it led to,
\* or down, and it was two degrees short of the mode above.
Turn ==
  turned.at # NoTemp =>
    /\ turned.at \in Temp
    /\ turned.up => fan > 0 /\ turned.at >= Up[fan]
    /\ ~turned.up => fan < 3 /\ turned.at < Down(fan + 1)

FanInv == FanTypeOK /\ ModeFits /\ PinFollowsMode /\ Turn

-----------------------------------------------------------------------------
(* The hysteresis.                                                         *)

LEMMA Thresholds ==
  /\ Up[1] = 55 /\ Up[2] = 65 /\ Up[3] = 72
  /\ Down(1) = 53 /\ Down(2) = 63 /\ Down(3) = 70
BY DEF Up, Down

LEMMA ThresholdsInt == \A k \in 1 .. 3 : Up[k] \in Int /\ Down(k) \in Int
<1> SUFFICES ASSUME NEW k \in 1 .. 3 PROVE Up[k] \in Int /\ Down(k) \in Int
  OBVIOUS
<1>1. k = 1 \/ k = 2 \/ k = 3
  OBVIOUS
<1> QED
  BY <1>1, Thresholds

\* Where _apply_hysteresis comes to rest, and which way it went.
LEMMA SettleFits ==
  ASSUME NEW i \in 0 .. 3, NEW t \in Int
  PROVE  LET j == Settle(i, t)
         IN  /\ j \in 0 .. 3 /\ Below(j, t) /\ Above(j, t)
             /\ j > i => t >= Up[j] /\ t >= Up[i + 1]
             /\ j < i => t < Down(j + 1) /\ t < Down(i)
<1> DEFINE ups == {j \in i .. 3 : \A k \in i + 1 .. j : t >= Up[k]}
           top == CHOOSE j \in ups : \A k \in ups : k <= j
           downs == {j \in 0 .. top : \A k \in j + 1 .. top : t < Down(k)}
           low == CHOOSE j \in downs : \A k \in downs : j <= k
<1>1. top \in ups /\ \A k \in ups : k <= top
  <2>1. i \in ups
    OBVIOUS
  <2>2. \E j \in ups : \A k \in ups : k <= j
    <3>1. ups \subseteq 0 .. 3
      OBVIOUS
    <3> HIDE DEF ups
    <3> QED
      BY <2>1, <3>1
  <2> QED
    BY <2>2
<1>2. top \in i .. 3 /\ (\A k \in i + 1 .. top : t >= Up[k]) /\ Below(top, t)
  <2>1. top \in i .. 3 /\ \A k \in i + 1 .. top : t >= Up[k]
    BY <1>1
  <2>2. ASSUME top < 3, t >= Up[top + 1] PROVE FALSE
    <3>1. top + 1 \in ups
      BY <2>1, <2>2
    <3> QED
      BY <1>1, <2>1, <3>1
  <2> HIDE DEF top, ups
  <2>3. top < 3 => Up[top + 1] \in Int
    <3>1. top < 3 => top + 1 \in 1 .. 3
      BY <2>1
    <3> QED
      BY <3>1, ThresholdsInt
  <2> QED
    BY <2>1, <2>2, <2>3 DEF Below
<1>3. low \in downs /\ \A k \in downs : low <= k
  <2>1. top \in downs
    BY <1>2
  <2>2. downs \subseteq 0 .. 3
    BY <1>2
  <2>3. \E j \in downs : \A k \in downs : j <= k
    <3> HIDE DEF downs
    <3> QED
      BY <2>1, <2>2, SMTT(60)
  <2> QED
    BY <2>3
<1>4. low \in 0 .. top /\ (\A k \in low + 1 .. top : t < Down(k)) /\ Above(low, t)
  <2>1. low \in 0 .. top /\ \A k \in low + 1 .. top : t < Down(k)
    BY <1>3
  <2> HIDE DEF low, top
  <2>2. ASSUME low > 0, t < Down(low) PROVE FALSE
    <3>1. low - 1 \in 0 .. top /\ low \in Nat /\ top \in Nat
      BY <1>2, <2>1, <2>2
    <3>2. \A k \in (low - 1) + 1 .. top : k = low \/ k \in low + 1 .. top
      BY <3>1
    <3>3. low - 1 \in downs
      BY <2>1, <2>2, <3>1, <3>2
    <3>4. low <= low - 1
      BY <1>3, <3>3
    <3> QED
      BY <3>1, <3>4
  <2> HIDE DEF downs
  <2>3. low > 0 => Down(low) \in Int
    <3>1. low > 0 => low \in 1 .. 3
      BY <1>2, <2>1
    <3> QED
      BY <3>1, ThresholdsInt
  <2> QED
    BY <1>2, <2>1, <2>2, <2>3 DEF Above
<1>5. low = Settle(i, t)
  BY DEF Settle
<1> HIDE DEF low, downs, top, ups
<1>6. low \in 0 .. 3 /\ top \in 0 .. 3
  BY <1>2, <1>4
<1>7. Below(low, t)
  <2>1. CASE low = top
    BY <1>2, <2>1
  <2>2. CASE low < top
    <3>1. t < Down(low + 1) /\ low + 1 \in 1 .. 3
      BY <1>4, <1>6, <2>2
    <3> QED
      BY <1>6, <3>1, Thresholds DEF Below
  <2> QED
    BY <1>4, <1>6, <2>1, <2>2
<1>8. low > i => t >= Up[low] /\ t >= Up[i + 1]
  BY <1>2, <1>4, <1>6
<1>9. low < i => t < Down(low + 1) /\ t < Down(i)
  BY <1>2, <1>4, <1>6
<1> QED
  BY <1>4, <1>5, <1>6, <1>7, <1>8, <1>9

-----------------------------------------------------------------------------
(* The controller.                                                         *)

\* A pin that is written for a mode is on exactly if the mode is not OFF.
LEMMA OutputFits ==
  ASSUME NEW i \in 0 .. 3
  PROVE  Output(i) > 0 <=> i > 0
<1>1. i = 0 \/ i = 1 \/ i = 2 \/ i = 3
  OBVIOUS
<1>2. Duty[1] = 0 /\ Duty[2] = 40 /\ Duty[3] = 70 /\ Duty[4] = 100
  BY DEF Duty
<1> QED
  BY <1>1, <1>2 DEF Output

LEMMA FanInitInv == FanInit => FanInv
BY DEF FanInit, FanInv, FanTypeOK, ModeFits, PinFollowsMode, Turn

\* What one update does to the mode.
LEMMA ModeStep ==
  ASSUME FanInv, NEW t \in Temp \cup {NoTemp}, NEW ok \in BOOLEAN, update(t, ok)
  PROVE  /\ FanTypeOK' /\ ModeFits'
         /\ fan' # fan =>
              /\ t \in Temp /\ turned' = [at |-> t, up |-> fan' > fan]
              /\ fan' > fan => t >= Up[fan'] /\ t >= Up[fan + 1]
              /\ fan' < fan => t < Down(fan' + 1) /\ t < Down(fan)
<1>1. CASE t = NoTemp
  BY <1>1 DEF update, FanInv, FanTypeOK, ModeFits
<1>2. CASE t # NoTemp
  <2>1. t \in Temp /\ t \in Int /\ fan \in 0 .. 3
    BY <1>2, FanAssumption DEF FanInv, FanTypeOK
  <2>2. fan' = Settle(fan, t) /\ reading' = t
    BY <1>2 DEF update
  <2>3. /\ fan' \in 0 .. 3 /\ Below(fan', t) /\ Above(fan', t)
        /\ fan' > fan => t >= Up[fan'] /\ t >= Up[fan + 1]
        /\ fan' < fan => t < Down(fan' + 1) /\ t < Down(fan)
    BY <2>1, <2>2, SettleFits
  <2>4. turned' = IF fan' = fan THEN turned ELSE [at |-> t, up |-> fan' > fan]
    BY DEF update
  <2>5. turned'.up \in BOOLEAN
    <3>1. CASE fan' = fan
      BY <2>4, <3>1, Zenon DEF FanInv, FanTypeOK
    <3>2. CASE fan' # fan
      <4>1. turned'.up = (fan' > fan)
        BY <2>4, <3>2
      <4>2. (fan' > fan) \in BOOLEAN
        BY <2>1, <2>3
      <4> QED
        BY <4>1, <4>2, Zenon
    <3> QED
      BY <3>1, <3>2
  <2> QED
    BY <2>1, <2>2, <2>3, <2>4, <2>5 DEF FanTypeOK, ModeFits, Below, Above
<1> QED
  BY <1>1, <1>2

LEMMA UpdateInv ==
  ASSUME FanInv, NEW t \in Temp \cup {NoTemp}, NEW ok \in BOOLEAN, update(t, ok)
  PROVE  FanInv'
<1>1. FanTypeOK' /\ ModeFits'
  BY ModeStep
<1>2. PinFollowsMode'
  <2>1. gpio' = gpio /\ fresh' = ok
    BY DEF update
  <2>2. CASE gpio # "none" /\ ok
    <3>1. pin' = Output(fan') /\ fan' \in 0 .. 3
      BY <1>1, <2>2 DEF update, FanTypeOK
    <3> QED
      BY <3>1, OutputFits DEF PinFollowsMode
  <2>3. CASE ~(gpio # "none" /\ ok)
    BY <2>1, <2>3, Zenon DEF PinFollowsMode
  <2> QED
    BY <2>2, <2>3
<1>3. Turn'
  <2>1. CASE fan' = fan
    BY <2>1 DEF update, FanInv, Turn
  <2>2. CASE fan' # fan
    <3>1. /\ t \in Temp /\ turned'.at = t /\ turned'.up = (fan' > fan)
          /\ fan \in 0 .. 3 /\ fan' \in 0 .. 3
          /\ fan' > fan => t >= Up[fan'] /\ t >= Up[fan + 1]
          /\ fan' < fan => t < Down(fan' + 1) /\ t < Down(fan)
      BY <1>1, <2>2, ModeStep DEF FanInv, FanTypeOK
    <3>2. CASE fan' > fan
      <4>1. fan' > 0
        BY <3>1, <3>2
      <4> QED
        BY <3>1, <3>2, <4>1, Zenon DEF Turn
    <3>3. CASE fan' < fan
      <4>1. ~(fan' > fan) /\ fan' < 3
        BY <3>1, <3>3
      <4> QED
        BY <3>1, <3>3, <4>1, Zenon DEF Turn
    <3> QED
      BY <2>2, <3>1, <3>2, <3>3
  <2> QED
    BY <2>1, <2>2
<1> QED
  BY <1>1, <1>2, <1>3 DEF FanInv

LEMMA FanInvariance == FanInv /\ [FanNext]_fanVars => FanInv'
<1> SUFFICES ASSUME FanInv, [FanNext]_fanVars PROVE FanInv'
  OBVIOUS
<1>1. CASE \E t \in Temp \cup {NoTemp}, ok \in BOOLEAN : update(t, ok)
  BY <1>1, UpdateInv
<1>2. CASE cleanup
  BY <1>2 DEF cleanup, FanInv, FanTypeOK, ModeFits, PinFollowsMode, Turn
<1>3. CASE UNCHANGED fanVars
  BY <1>3 DEF fanVars, FanInv, FanTypeOK, ModeFits, PinFollowsMode, Turn
<1> QED
  BY <1>1, <1>2, <1>3 DEF FanNext

LEMMA FanAlways == FanSpec => []FanInv
BY FanInitInv, FanInvariance, PTL DEF FanSpec

\* The mode fits the last temperature read, for every jump of the sensor
\* (edge/thermal/fan_controller.py, _apply_hysteresis).
THEOREM ModeAlwaysFits == FanSpec => []ModeFits
BY FanAlways, PTL DEF FanInv

\* A fan that can be reached runs exactly when its mode is not OFF
\* (edge/thermal/fan_controller.py, _apply_hardware).
THEOREM PinAlwaysFollows == FanSpec => []PinFollowsMode
BY FanAlways, PTL DEF FanInv

\* Between a change up and the next one down, or the other way round, the
\* temperature has moved by more than two degrees.
THEOREM FanDoesNotFlap == FanSpec => NoFlapping
<1> DEFINE Moved == turned.at # NoTemp /\ turned'.up # turned.up =>
                      LET d == turned'.at - turned.at IN d > 2 \/ d < -2
<1>1. FanInv /\ [FanNext]_fanVars => [Moved]_fanVars
  <2> SUFFICES ASSUME FanInv, FanNext, turned.at # NoTemp, turned'.up # turned.up
               PROVE  LET d == turned'.at - turned.at IN d > 2 \/ d < -2
    BY Zenon
  <2>1. PICK t \in Temp \cup {NoTemp}, ok \in BOOLEAN : update(t, ok)
    BY DEF FanNext, cleanup
  <2>2. fan' # fan
    BY <2>1 DEF update
  <2>3. /\ t \in Temp /\ turned'.at = t /\ turned'.up = (fan' > fan)
        /\ fan' > fan => t >= Up[fan + 1]
        /\ fan' < fan => t < Down(fan)
    BY <2>1, <2>2, ModeStep
  <2>4. /\ turned.at \in Temp
        /\ turned.up => fan > 0 /\ turned.at >= Up[fan]
        /\ ~turned.up => fan < 3 /\ turned.at < Down(fan + 1)
    BY DEF FanInv, Turn
  <2>5. fan \in 0 .. 3 /\ fan' \in 0 .. 3 /\ t \in Int /\ turned.at \in Int
    BY <2>1, <2>3, <2>4, ModeStep, FanAssumption DEF FanInv, FanTypeOK
  <2>6. CASE fan' > fan
    <3>1. ~turned.up
      BY <2>3, <2>6, Zenon DEF FanInv, FanTypeOK
    <3>2. t >= Up[fan + 1] /\ turned.at < Up[fan + 1] - 2 /\ Up[fan + 1] \in Int
      <4>1. fan + 1 \in 1 .. 3
        BY <2>4, <2>5, <3>1
      <4> QED
        BY <2>3, <2>4, <2>6, <3>1, <4>1, ThresholdsInt DEF Down
    <3> QED
      BY <2>3, <2>5, <3>2
  <2>7. CASE fan' < fan
    <3>1. turned.up
      <4>1. ~(fan' > fan)
        BY <2>5, <2>7
      <4>2. (fan' > fan) = FALSE
        BY <2>5, <4>1
      <4>3. turned'.up = FALSE
        BY <2>3, <4>2, Zenon
      <4> QED
        BY <4>3, Zenon DEF FanInv, FanTypeOK
    <3>2. t < Up[fan] - 2 /\ turned.at >= Up[fan] /\ Up[fan] \in Int
      <4>1. fan \in 1 .. 3
        BY <2>4, <2>5, <3>1
      <4> QED
        BY <2>3, <2>4, <2>7, <3>1, <4>1, ThresholdsInt DEF Down
    <3> QED
      BY <2>3, <2>5, <3>2
  <2> QED
    BY <2>2, <2>5, <2>6, <2>7
<1> QED
  BY <1>1, FanAlways, PTL DEF FanSpec, NoFlapping

\* Together: the fan follows the temperature, its jumps and not its wobbles,
\* whatever a sensor may report.
THEOREM FanAlwaysFollows == FanSpec => FanFollowsHeat
BY ModeAlwaysFits, PinAlwaysFollows, FanDoesNotFlap, PTL DEF FanFollowsHeat

-----------------------------------------------------------------------------
(***************************************************************************)
(* LivenessVote, for every window length and whatever averages optical     *)
(* flow and texture come out with: TLC looks at a few of each, and the     *)
(* arithmetic of the score is where a value between them could decide.     *)
(***************************************************************************)
VoteSpec == VoteInit /\ [][VoteNext]_voteVars

\* What one window may be, whatever the sensors' ranges are.
LEMMA WindowFields ==
  ASSUME NEW w \in WindowOf
  PROVE  /\ w.mag \in Nat /\ w.angle_var \in Nat /\ w.area_var \in Nat
         /\ w.skin \in 0 .. 100
BY VoteAssumption DEF WindowOf

-----------------------------------------------------------------------------
(* The community module's Min and Max, of two numbers.                     *)

LEMMA MaxOfTwo ==
  ASSUME NEW a \in Int, NEW b \in Int
  PROVE  Max({a, b}) = IF a >= b THEN a ELSE b
<1> DEFINE S == {a, b}
           m == IF a >= b THEN a ELSE b
<1>1. m \in S /\ \A y \in S : m >= y
  OBVIOUS
<1>2. \A x \in S : (\A y \in S : x >= y) => x = m
  OBVIOUS
<1>3. Max(S) \in S /\ \A y \in S : Max(S) >= y
  <2>1. PICK x \in S : \A y \in S : x >= y
    BY <1>1
  <2> QED
    BY <2>1 DEF Max
<1> QED
  BY <1>2, <1>3

LEMMA MinOfTwo ==
  ASSUME NEW a \in Int, NEW b \in Int
  PROVE  Min({a, b}) = IF a <= b THEN a ELSE b
<1> DEFINE S == {a, b}
           m == IF a <= b THEN a ELSE b
<1>1. m \in S /\ \A y \in S : m =< y
  OBVIOUS
<1>2. \A x \in S : (\A y \in S : x =< y) => x = m
  OBVIOUS
<1>3. Min(S) \in S /\ \A y \in S : Min(S) =< y
  <2>1. PICK x \in S : \A y \in S : x =< y
    BY <1>1
  <2> QED
    BY <2>1 DEF Min
<1> QED
  BY <1>2, <1>3

\* A share is a share, and a small part a small one.
LEMMA PercentRange ==
  ASSUME NEW n \in Nat, NEW of \in {100, 150, 300}
  PROVE  /\ Percent(n, of) \in 0 .. 100
         /\ of = 100 => Percent(n, of) <= n
         /\ of = 300 /\ n < 30 => Percent(n, of) <= 9
<1> DEFINE q == (100 * n) \div of
<1>1. /\ q \in Nat
      /\ of = 100 => q <= n
      /\ of = 300 /\ n < 30 => q <= 9
  <2>1. CASE of = 100
    BY <2>1
  <2>2. CASE of = 150
    BY <2>2
  <2>3. CASE of = 300
    BY <2>3
  <2> QED
    BY <2>1, <2>2, <2>3
<1>2. Percent(n, of) = IF q <= 100 THEN q ELSE 100
  BY <1>1, MinOfTwo DEF Percent
<1> HIDE DEF q
<1> QED
  BY <1>1, <1>2

-----------------------------------------------------------------------------
(* One vote.                                                               *)

\* The streaks a vote leaves are counts.
LEMMA VoteFields ==
  ASSUME NEW w, NEW rigid \in Nat, NEW real \in Nat, NEW planar \in Nat
  PROVE  LET v == temporal_vote(w, rigid, real, planar)
         IN  /\ v.real \in Nat /\ v.planar \in Nat
             /\ v.label \in {"REAL", "UNCERTAIN", "SPOOF"}
             /\ v.label = "SPOOF" => v.real = 0
<1>1. PlanarStreak(w, planar) \in Nat
  BY MaxOfTwo, planar - 1 \in Int DEF PlanarStreak
<1>2. Max({0, real - 1}) \in Nat
  BY MaxOfTwo, real - 1 \in Int
<1>3. \A s \in Nat : s + 1 \in Nat
  OBVIOUS
<1> QED
  BY <1>1, <1>2, <1>3 DEF temporal_vote, Vote

\* A window that rejects an established track rejects a new one.
LEMMA NewIsNoBetter ==
  ASSUME NEW w, NEW rigid \in Nat, NEW planar \in Nat,
         temporal_vote(w, rigid, 3, planar).label = "SPOOF"
  PROVE  temporal_vote(w, rigid, 0, planar).label = "SPOOF"
<1>1. RigidRejects(w, rigid, 3) => RigidRejects(w, rigid, 0)
  <2>1. 100 * rigid >= 95 * VoteWindow => 100 * rigid >= 85 * VoteWindow
    BY VoteAssumption
  <2> QED
    BY <2>1 DEF RigidRejects, Established
<1>2. ASSUME NEW streak \in Nat, PlanarRejects(streak, 3)
      PROVE  PlanarRejects(streak, 0)
  BY <1>2 DEF PlanarRejects, Established
<1>3. PlanarStreak(w, planar) \in Nat
  BY MaxOfTwo, planar - 1 \in Int DEF PlanarStreak
<1> QED
  BY <1>1, <1>2, <1>3 DEF temporal_vote, Vote

\* Planar motion leaves less than what UNCERTAIN takes: the angles hardly vary
\* and the area does not, so that even full motion and skin stay below it.
LEMMA PlanarScore ==
  ASSUME NEW w \in WindowOf, NEW rigid \in Nat, Planar(w)
  PROVE  final_score(w, rigid) \in Int /\ final_score(w, rigid) < 4000
<1>1. is_moving(w) /\ w.angle_var < 30 /\ w.area_var < 20
  BY WindowFields DEF Planar, planar_evidence, is_static_depth
<1>2. planar_penalty(w) = 2500
  <2>1. planar_evidence(w) \in Int /\ planar_evidence(w) >= 10
    BY DEF Planar, planar_evidence
  <2> QED
    BY <2>1, MinOfTwo DEF planar_penalty
<1>3. motion_score(w) \in Nat /\ motion_score(w) <= 454
  <2>1. w.mag \in Nat /\ w.angle_var \in Nat
    BY WindowFields
  <2>2. Percent(w.mag, 150) \in 0 .. 100
    BY <2>1, PercentRange, 150 \in {100, 150, 300}
  <2>3. Percent(w.angle_var, 300) \in 0 .. 100 /\ Percent(w.angle_var, 300) <= 9
    <3>1. w.angle_var \in Nat /\ w.angle_var < 30
      BY <1>1, <2>1
    <3> QED
      BY <3>1, PercentRange, 300 \in {100, 150, 300}
  <2> QED
    BY <2>2, <2>3 DEF motion_score
<1>4. Percent(w.area_var, 100) \in Nat /\ Percent(w.area_var, 100) <= 19
  <2>1. w.area_var \in 0 .. 19
    BY <1>1, WindowFields
  <2>2. Percent(w.area_var, 100) \in 0 .. 100 /\ Percent(w.area_var, 100) <= w.area_var
    BY <2>1, PercentRange, 100 \in {100, 150, 300}
  <2> QED
    BY <2>1, <2>2
<1>5. rigid_penalty(rigid) \in Nat
  <2> DEFINE q == (3000 * (2 * rigid - VoteWindow)) \div VoteWindow
  <2>1. \A a \in Int, b \in Nat \ {0} : a \div b \in Int
    OBVIOUS
  <2>2. 3000 * (2 * rigid - VoteWindow) \in Int /\ VoteWindow \in Nat \ {0}
    BY VoteAssumption
  <2>3. q \in Int
    BY <2>1, <2>2
  <2>4. rigid_penalty(rigid) = Max({0, q})
    BY DEF rigid_penalty
  <2> HIDE DEF q
  <2> QED
    BY <2>3, <2>4, MaxOfTwo
<1> DEFINE total == weights(w).motion * motion_score(w)
                      + 10 * weights(w).geom * Percent(w.area_var, 100)
                      + 10 * weights(w).text * w.skin
                      - rigid_penalty(rigid) - planar_penalty(w)
<1>6. total \in Int /\ total < 4000
  <2>1. \/ weights(w) = [motion |-> 3, geom |-> 5, text |-> 2]
        \/ weights(w) = [motion |-> 4, geom |-> 2, text |-> 4]
    BY Zenon DEF weights
  <2>2. w.skin \in 0 .. 100
    BY WindowFields
  <2>3. CASE weights(w) = [motion |-> 3, geom |-> 5, text |-> 2]
    BY <2>2, <2>3, <1>2, <1>3, <1>4, <1>5
  <2>4. CASE weights(w) = [motion |-> 4, geom |-> 2, text |-> 4]
    BY <2>2, <2>4, <1>2, <1>3, <1>4, <1>5
  <2> QED
    BY <2>1, <2>3, <2>4
<1>7. final_score(w, rigid) = Max({0, total})
  BY DEF final_score
<1> HIDE DEF total
<1> QED
  BY <1>6, <1>7, MaxOfTwo

\* So the vote on such a window is SPOOF, by a trap or by the score.
LEMMA PlanarIsSpoof ==
  ASSUME NEW w \in WindowOf, NEW rigid \in Nat, NEW real, NEW planar, Planar(w)
  PROVE  temporal_vote(w, rigid, real, planar).label = "SPOOF"
<1>1. final_score(w, rigid) < 4000 /\ final_score(w, rigid) \in Int
  BY PlanarScore
<1>2. ~(final_score(w, rigid) >= 7000) /\ ~(final_score(w, rigid) >= 4000)
  BY <1>1
<1> QED
  BY <1>2 DEF temporal_vote, Vote

-----------------------------------------------------------------------------
(* The engine.                                                             *)

\* A vote on a window of planar motion is a rejection, and only full windows
\* are voted on.
FlatIsSpoof == flat >= 1 => label = "SPOOF" /\ buffered = VoteWindow

\* Streaks and window, and what a rejection leaves.
VoteInv == VoteTypeOK /\ SpoofForgets /\ FlatIsSpoof

LEMMA VoteInitInv == VoteInit => VoteInv
BY VoteAssumption DEF VoteInit, VoteInv, VoteTypeOK, SpoofForgets, FlatIsSpoof

LEMMA AssessInv ==
  ASSUME VoteInv, NEW w \in WindowOf, NEW rigid \in 0 .. VoteWindow, Assess(w, rigid)
  PROVE  VoteInv'
<1> DEFINE v == temporal_vote(w, rigid, real_streak, planar_streak)
<1>1. real_streak \in Nat /\ planar_streak \in Nat /\ rigid \in Nat
  BY VoteAssumption DEF VoteInv, VoteTypeOK
<1>2. /\ v.real \in Nat /\ v.planar \in Nat
      /\ v.label \in {"REAL", "UNCERTAIN", "SPOOF"}
      /\ v.label = "SPOOF" => v.real = 0
  BY <1>1, VoteFields
<1>3. /\ v.real <= MaxStreak /\ v.planar <= MaxStreak
      /\ label' = v.label /\ real_streak' = v.real /\ planar_streak' = v.planar
      /\ buffered' = VoteWindow /\ rigid_frames' = rigid
  BY DEF Assess
<1>4. Planar(w) => v.label = "SPOOF"
  BY <1>1, PlanarIsSpoof
<1>5. flat' = IF Planar(w) THEN Min({flat + 1, 3}) ELSE 0
  BY DEF Assess
<1>6. flat' \in 0 .. 3 /\ FlatIsSpoof'
  <2>1. flat \in 0 .. 3
    BY DEF VoteInv, VoteTypeOK
  <2>2. CASE Planar(w)
    <3>1. flat' \in 0 .. 3
      BY <2>1, <2>2, <1>5, MinOfTwo, flat + 1 \in Int
    <3> QED
      BY <3>1, <2>2, <1>3, <1>4 DEF FlatIsSpoof
  <2>3. CASE ~Planar(w)
    BY <2>3, <1>5 DEF FlatIsSpoof
  <2> QED
    BY <2>2, <2>3
<1> HIDE DEF v
<1> QED
  BY <1>2, <1>3, <1>6, VoteAssumption DEF VoteInv, VoteTypeOK, SpoofForgets

LEMMA VoteInvariance == VoteInv /\ [VoteNext]_voteVars => VoteInv'
<1> SUFFICES ASSUME VoteInv, [VoteNext]_voteVars PROVE VoteInv'
  OBVIOUS
<1> USE VoteAssumption
<1>1. CASE \E rigid \in {0, 1} : Buffer(rigid)
  <2>1. PICK rigid \in {0, 1} : Buffer(rigid)
    BY <1>1
  <2>2. ~(flat >= 1)
    BY <2>1 DEF Buffer, VoteInv, VoteTypeOK, FlatIsSpoof
  <2> QED
    BY <2>1, <2>2 DEF Buffer, VoteInv, VoteTypeOK, SpoofForgets, FlatIsSpoof
<1>2. CASE \E w \in WindowOf, rigid \in 0 .. VoteWindow : Assess(w, rigid)
  BY <1>2, AssessInv
<1>3. CASE Forget
  BY <1>3 DEF Forget, VoteInv, VoteTypeOK, SpoofForgets, FlatIsSpoof
<1>4. CASE UNCHANGED voteVars
  BY <1>4 DEF voteVars, VoteInv, VoteTypeOK, SpoofForgets, FlatIsSpoof
<1> QED
  BY <1>1, <1>2, <1>3, <1>4 DEF VoteNext

LEMMA VoteAlways == VoteSpec => []VoteInv
BY VoteInitInv, VoteInvariance, PTL DEF VoteSpec

\* Neither streak is ever negative, on any way out of the vote
\* (edge/liveness.py, _temporal_vote).
THEOREM VoteTypeCorrect == VoteSpec => []VoteTypeOK
BY VoteAlways, PTL DEF VoteInv

\* A rejected track is not established, whichever of the four rejections it
\* was (edge/liveness.py:62).
THEOREM RejectionForgets == VoteSpec => []SpoofForgets
BY VoteAlways, PTL DEF VoteInv

\* The hysteresis only favours: for every window and every history of planar
\* motion, what rejects an established track rejects a new one.
THEOREM HysteresisFavours == VoteSpec => []EstablishedHarder
<1>1. VoteInv => EstablishedHarder
  <2> SUFFICES ASSUME VoteInv, NEW w \in WindowOf,
                      temporal_vote(w, rigid_frames, 3, planar_streak).label = "SPOOF"
               PROVE  temporal_vote(w, rigid_frames, 0, planar_streak).label = "SPOOF"
    BY DEF EstablishedHarder
  <2>1. rigid_frames \in Nat /\ planar_streak \in Nat
    BY VoteAssumption DEF VoteInv, VoteTypeOK
  <2> QED
    BY <2>1, NewIsNoBetter
<1> QED
  BY <1>1, VoteAlways, PTL

\* Three windows of planar motion in a row end in a rejection, and none of
\* them is found alive, whatever their averages and whatever went before.
THEOREM PlanarRejected == VoteSpec => [](FlatRejected /\ FlatNeverAlive)
<1>1. VoteInv => FlatRejected /\ FlatNeverAlive
  BY DEF VoteInv, VoteTypeOK, FlatIsSpoof, FlatRejected, FlatNeverAlive
<1> QED
  BY <1>1, VoteAlways, PTL

\* Together: flat pictures are rejected, and what was rejected starts again
\* from nothing, for every length of the window and all averages.
THEOREM FlatAlwaysRejected == VoteSpec => []FlatFacesRejected
BY VoteTypeCorrect, RejectionForgets, HysteresisFavours, PlanarRejected, PTL
DEF FlatFacesRejected

-----------------------------------------------------------------------------
(***************************************************************************)
(* FaceFilters.                                                            *)
(***************************************************************************)
FiltersSpec == FiltersInit /\ [][FiltersNext]_filterVars

\* The box's average lies between two sides that were seen, a smallest and a
\* largest.
BoxBetween ==
  IF box_ema = -1 THEN sides = {}
  ELSE \E lo, hi \in sides :
         /\ \A y \in sides : lo <= y /\ y <= hi
         /\ lo * Scale <= box_ema /\ box_ema <= hi * Scale

\* The similarity's average is not above every similarity seen.
SimBelow ==
  /\ sim_ema # -1 => \E i \in Identity : sim_ema <= sims[i] * Scale
  /\ matched # "nobody" => sim_ema # -1 /\ sim_ema >= Threshold * Scale

FiltersTypeOK ==
  /\ mode_history \in Seq(Pose)
  /\ sim_ema \in Nat \cup {-1} /\ box_ema \in Nat \cup {-1}
  /\ sims \in [Identity -> Nat] /\ sides \subseteq Nat

FiltersInv == FiltersTypeOK /\ BoxBetween /\ SimBelow

LEMMA ScaleMonotone ==
  ASSUME NEW x \in Nat, NEW y \in Nat
  PROVE  /\ x * Scale \in Nat /\ Scale * x = x * Scale
         /\ x <= y => x * Scale <= y * Scale
         /\ x * Scale <= y * Scale => x <= y
<1>1. Scale \in Nat \ {0}
  BY FiltersAssumption
<1>2. x <= y => x * Scale <= y * Scale
  <2> SUFFICES ASSUME x <= y PROVE x * Scale <= y * Scale
    OBVIOUS
  <2>1. PICK d \in Nat : y = x + d
    BY y - x \in Nat
  <2>2. y * Scale = x * Scale + d * Scale /\ d * Scale \in Nat /\ x * Scale \in Nat
    BY <1>1, <2>1
  <2> QED
    BY <2>2
<1>3. ASSUME x > y PROVE x * Scale > y * Scale
  <2>1. PICK d \in Nat : x = y + 1 + d
    BY <1>3, x - y - 1 \in Nat
  <2>2. /\ x * Scale = y * Scale + Scale + d * Scale
        /\ d * Scale \in Nat /\ y * Scale \in Nat
    BY <1>1, <2>1
  <2> QED
    BY <1>1, <2>2
<1> QED
  BY <1>1, <1>2, <1>3

\* The average of two numbers lies between their bounds.
LEMMA SmoothBetween ==
  ASSUME NEW prev \in Nat, NEW v \in Nat
  PROVE  /\ smooth(prev, v) \in Nat
         /\ \A lo \in Nat : lo <= v /\ lo * Scale <= prev => lo * Scale <= smooth(prev, v)
         /\ \A hi \in Nat : v <= hi /\ prev <= hi * Scale => smooth(prev, v) <= hi * Scale
<1> DEFINE a == v * Scale
<1>1. a \in Nat /\ smooth(prev, v) = (a + prev) \div 2
  BY ScaleMonotone DEF smooth
<1>2. \A lo \in Nat : lo <= v => lo * Scale <= a /\ lo * Scale \in Nat
  BY ScaleMonotone
<1>3. \A hi \in Nat : v <= hi => a <= hi * Scale /\ hi * Scale \in Nat
  BY ScaleMonotone
<1> HIDE DEF a
<1> QED
  BY <1>1, <1>2, <1>3

LEMMA SmoothFirst ==
  ASSUME NEW v \in Nat
  PROVE  smooth(-1, v) = v * Scale /\ v * Scale \in Nat
BY ScaleMonotone DEF smooth

LEMMA Quotient ==
  ASSUME NEW n \in Nat, NEW d \in Nat \ {0}
  PROVE  \E q \in Nat : q = n \div d /\ q * d <= n /\ n < q * d + d
<1> DEFINE q == n \div d
           r == n % d
<1>1. q \in Nat /\ r \in 0 .. d - 1
  OBVIOUS
<1>2. n = q * d + r
  OBVIOUS
<1> HIDE DEF q, r
<1>3. q * d \in Nat
  BY <1>1
<1>4. q * d <= n /\ n < q * d + d
  BY <1>1, <1>2, <1>3
<1> QED
  BY <1>1, <1>4 DEF q

\* Rounding does not leave the bounds either.
LEMMA RoundedBetween ==
  ASSUME NEW s \in Nat, NEW lo \in Nat, NEW hi \in Nat,
         lo * Scale <= s, s <= hi * Scale
  PROVE  lo <= Rounded(s) /\ Rounded(s) <= hi
<1>1. Scale \in Nat \ {0}
  BY FiltersAssumption
<1>2. PICK n, d \in Nat : n = 2 * s + Scale /\ d = 2 * Scale /\ d # 0
  BY <1>1
<1>3. PICK q \in Nat : q = n \div d /\ q * d <= n /\ n < q * d + d
  BY <1>2, Quotient
<1>4. q * d = 2 * (q * Scale) /\ q * Scale \in Nat
  BY <1>1, <1>2, <1>3
<1>5. lo * Scale \in Nat /\ hi * Scale \in Nat
      /\ (q + 1) * Scale = q * Scale + Scale /\ (hi + 1) * Scale = hi * Scale + Scale
  BY <1>1, <1>3
<1>6. lo < q + 1
  <2>1. lo * Scale < (q + 1) * Scale
    BY <1>1, <1>2, <1>3, <1>4, <1>5
  <2>2. ~((q + 1) <= lo)
    BY <1>3, <2>1, <1>5, q + 1 \in Nat, ScaleMonotone
  <2> QED
    BY <1>3, <2>2
<1>7. q < hi + 1
  <2>1. q * Scale < (hi + 1) * Scale
    BY <1>1, <1>2, <1>3, <1>4, <1>5
  <2>2. ~(hi + 1 <= q)
    BY <1>3, <1>4, <2>1, <1>5, hi + 1 \in Nat, ScaleMonotone
  <2> QED
    BY <1>3, <2>2
<1>8. Rounded(s) = q
  BY <1>2, <1>3 DEF Rounded
<1> QED
  BY <1>3, <1>6, <1>7, <1>8

LEMMA FiltersStart == FiltersInit => FiltersInv
BY DEF FiltersInit, FiltersInv, FiltersTypeOK, BoxBetween, SimBelow

LEMMA BoxObserved ==
  ASSUME FiltersInv, NEW side \in Side, box_ema' = smooth(box_ema, side),
         sides' = sides \cup {side}
  PROVE  box_ema' \in Nat /\ sides' \subseteq Nat /\ BoxBetween'
<1>1. side \in Nat /\ sides \subseteq Nat /\ box_ema \in Nat \cup {-1}
  BY FiltersAssumption DEF FiltersInv, FiltersTypeOK
<1>2. CASE box_ema = -1
  <2>1. sides' = {side} /\ box_ema' = side * Scale /\ side * Scale \in Nat
    BY <1>1, <1>2, SmoothFirst DEF FiltersInv, BoxBetween
  <2>2. side \in sides' /\ \A y \in sides' : side <= y /\ y <= side
    BY <1>1, <2>1
  <2>3. side * Scale <= box_ema' /\ box_ema' <= side * Scale
    BY <2>1
  <2>4. box_ema' # -1
    BY <2>1
  <2> QED
    BY <1>1, <2>1, <2>2, <2>3, <2>4 DEF BoxBetween
<1>3. CASE box_ema # -1
  <2>1. PICK lo, hi \in sides :
          /\ \A y \in sides : lo <= y /\ y <= hi
          /\ lo * Scale <= box_ema /\ box_ema <= hi * Scale
    BY <1>3 DEF FiltersInv, BoxBetween
  <2>2. PICK a \in sides' : a <= lo /\ a <= side /\ \A y \in sides' : a <= y
    <3>1. CASE side <= lo
      BY <1>1, <2>1, <3>1
    <3>2. CASE ~(side <= lo)
      BY <1>1, <2>1, <3>2
    <3> QED
      BY <3>1, <3>2
  <2>3. PICK b \in sides' : hi <= b /\ side <= b /\ \A y \in sides' : y <= b
    <3>1. CASE hi <= side
      BY <1>1, <2>1, <3>1
    <3>2. CASE ~(hi <= side)
      BY <1>1, <2>1, <3>2
    <3> QED
      BY <3>1, <3>2
  <2>4. a \in Nat /\ b \in Nat /\ lo \in Nat /\ hi \in Nat /\ box_ema \in Nat
    BY <1>1, <1>3, <2>1, <2>2, <2>3
  <2>5. a * Scale <= box_ema
    <3>1. a * Scale <= lo * Scale /\ a * Scale \in Nat /\ lo * Scale \in Nat
      BY <2>2, <2>4, ScaleMonotone
    <3> QED
      BY <2>1, <2>4, <3>1
  <2>6. box_ema <= b * Scale
    <3>1. hi * Scale <= b * Scale /\ b * Scale \in Nat /\ hi * Scale \in Nat
      BY <2>3, <2>4, ScaleMonotone
    <3> QED
      BY <2>1, <2>4, <3>1
  <2>7. /\ smooth(box_ema, side) \in Nat
        /\ a * Scale <= smooth(box_ema, side) /\ smooth(box_ema, side) <= b * Scale
    BY <1>1, <2>2, <2>3, <2>4, <2>5, <2>6, SmoothBetween
  <2>8. box_ema' \in Nat /\ a * Scale <= box_ema' /\ box_ema' <= b * Scale
    BY <2>7
  <2>9. \A y \in sides' : a <= y /\ y <= b
    BY <2>2, <2>3
  <2>10. BoxBetween'
    BY <2>2, <2>3, <2>8, <2>9 DEF BoxBetween
  <2> QED
    BY <1>1, <2>8, <2>10
<1> QED
  BY <1>2, <1>3

LEMMA SimObserved ==
  ASSUME FiltersInv, NEW who \in Identity, NEW sim \in Similarity,
         sim_ema' = smooth(sim_ema, sim),
         matched' = IF sim_ema' >= Threshold * Scale THEN who ELSE "nobody",
         sims' = [sims EXCEPT ![who] = Max({@, sim})]
  PROVE  sim_ema' \in Nat /\ sims' \in [Identity -> Nat] /\ SimBelow'
<1>1. sim \in Nat /\ sims \in [Identity -> Nat] /\ sim_ema \in Nat \cup {-1}
  BY FiltersAssumption DEF FiltersInv, FiltersTypeOK
<1> DEFINE m == Max({sims[who], sim})
<1>2. m \in Nat /\ m >= sims[who] /\ m >= sim
  <2> DEFINE S == {sims[who], sim}
             z == IF sims[who] >= sim THEN sims[who] ELSE sim
  <2>1. z \in S /\ \A y \in S : z >= y
    BY <1>1
  <2>2. Max(S) \in S /\ \A y \in S : Max(S) >= y
    <3>1. PICK x \in S : \A y \in S : x >= y
      BY <2>1
    <3> QED
      BY <3>1 DEF Max
  <2> QED
    BY <1>1, <2>2
<1> HIDE DEF m
<1>3. sims' = [sims EXCEPT ![who] = m]
  BY Zenon DEF m
<1>4. sims' \in [Identity -> Nat] /\ sims'[who] = m
      /\ \A i \in Identity : sims'[i] >= sims[i]
  <2>1. sims' \in [Identity -> Nat] /\ sims'[who] = m
    BY <1>1, <1>2, <1>3
  <2>2. \A i \in Identity : i # who => sims'[i] = sims[i]
    BY <1>1, <1>3
  <2>3. \A i \in Identity : sims[i] \in Nat
    BY <1>1
  <2> QED
    BY <1>2, <2>1, <2>2, <2>3
<1>5. sim * Scale <= m * Scale /\ m * Scale \in Nat /\ sim * Scale \in Nat
  BY <1>1, <1>2, ScaleMonotone
<1>6. sim_ema' \in Nat /\ \E i \in Identity : sim_ema' <= sims'[i] * Scale
  <2>1. CASE sim_ema = -1
    <3>1. sim_ema' = sim * Scale /\ sim * Scale \in Nat
      BY <1>1, <2>1, SmoothFirst
    <3>2. sim_ema' <= sims'[who] * Scale
      BY <1>4, <1>5, <3>1
    <3> QED
      BY <3>1, <3>2
  <2>2. CASE sim_ema # -1
    <3>1. PICK i \in Identity : sim_ema <= sims[i] * Scale
      BY <2>2 DEF FiltersInv, SimBelow
    <3>2. sim_ema \in Nat /\ sims[i] \in Nat
      BY <1>1, <2>2
    <3>3. PICK j \in Identity : sims[i] <= sims'[j] /\ sim <= sims'[j] /\ sims'[j] \in Nat
      <4>1. sims'[i] \in Nat /\ sims[i] <= sims'[i]
        BY <1>4, <3>2
      <4>2. CASE sim <= sims[i]
        BY <1>1, <3>2, <4>1, <4>2
      <4>3. CASE ~(sim <= sims[i])
        BY <1>1, <1>2, <1>4, <3>2, <4>3
      <4> QED
        BY <4>2, <4>3
    <3>4. sims[i] * Scale <= sims'[j] * Scale /\ sims[i] * Scale \in Nat
          /\ sims'[j] * Scale \in Nat
      BY <3>2, <3>3, ScaleMonotone
    <3>5. sim_ema <= sims'[j] * Scale
      BY <3>1, <3>2, <3>4
    <3>6. smooth(sim_ema, sim) \in Nat /\ smooth(sim_ema, sim) <= sims'[j] * Scale
      BY <1>1, <3>2, <3>3, <3>5, SmoothBetween
    <3> QED
      BY <3>6
  <2> QED
    BY <2>1, <2>2
<1>7. SimBelow'
  BY <1>6 DEF SimBelow
<1> QED
  BY <1>4, <1>6, <1>7

LEMMA FiltersStep == FiltersInv /\ [FiltersNext]_filterVars => FiltersInv'
<1> SUFFICES ASSUME FiltersInv, [FiltersNext]_filterVars PROVE FiltersInv'
  OBVIOUS
<1>1. ASSUME NEW pose \in Pose, NEW who \in Identity, NEW sim \in Similarity,
             NEW side \in Side, Observe(pose, who, sim, side)
      PROVE  FiltersInv'
  <2>1. box_ema' \in Nat /\ sides' \subseteq Nat /\ BoxBetween'
    BY <1>1, BoxObserved DEF Observe
  <2>2. sim_ema' \in Nat /\ sims' \in [Identity -> Nat] /\ SimBelow'
    BY <1>1, SimObserved DEF Observe
  <2>3. mode_history' \in Seq(Pose)
    BY <1>1, FiltersAssumption, SMTT(60) DEF Observe, FiltersInv, FiltersTypeOK
  <2> QED
    BY <2>1, <2>2, <2>3 DEF FiltersInv, FiltersTypeOK
<1>2. CASE DropFilters
  BY <1>2 DEF DropFilters, FiltersInv, FiltersTypeOK, BoxBetween, SimBelow
<1>3. CASE UNCHANGED filterVars
  BY <1>3 DEF filterVars, FiltersInv, FiltersTypeOK, BoxBetween, SimBelow
<1> QED
  BY <1>1, <1>2, <1>3 DEF FiltersNext

LEMMA FiltersSafe == FiltersInv => BoxWithinSeen /\ MatchHasPeak
<1> SUFFICES ASSUME FiltersInv PROVE BoxWithinSeen /\ MatchHasPeak
  OBVIOUS
<1>1. BoxWithinSeen
  <2> SUFFICES ASSUME box_ema # -1
               PROVE  Rounded(box_ema) >= Min(sides) /\ Rounded(box_ema) <= Max(sides)
    BY DEF BoxWithinSeen
  <2>1. PICK lo, hi \in sides :
          /\ \A y \in sides : lo <= y /\ y <= hi
          /\ lo * Scale <= box_ema /\ box_ema <= hi * Scale
    BY DEF FiltersInv, BoxBetween
  <2>2. lo \in Nat /\ hi \in Nat /\ box_ema \in Nat /\ sides \subseteq Nat
    BY DEF FiltersInv, FiltersTypeOK
  <2>3. lo <= Rounded(box_ema) /\ Rounded(box_ema) <= hi
    BY <2>1, <2>2, RoundedBetween
  <2>4. Min(sides) = lo
    <3>1. \A x \in sides : (\A y \in sides : x =< y) => x = lo
      BY <2>1, <2>2
    <3>2. \A y \in sides : lo =< y
      BY <2>1
    <3> QED
      BY <3>1, <3>2 DEF Min
  <2>5. Max(sides) = hi
    <3>1. \A x \in sides : (\A y \in sides : x >= y) => x = hi
      BY <2>1, <2>2
    <3>2. \A y \in sides : hi >= y
      BY <2>1, <2>2
    <3> QED
      BY <3>1, <3>2 DEF Max
  <2> QED
    BY <2>2, <2>3, <2>4, <2>5, FiltersAssumption DEF Rounded
<1>2. MatchHasPeak
  <2> SUFFICES ASSUME matched # "nobody" PROVE \E i \in Identity : sims[i] >= Threshold
    BY DEF MatchHasPeak
  <2>1. PICK i \in Identity : sim_ema <= sims[i] * Scale
    BY DEF FiltersInv, SimBelow
  <2>2. sim_ema >= Threshold * Scale /\ sim_ema \in Nat
    BY DEF FiltersInv, SimBelow, FiltersTypeOK
  <2>3. sims[i] \in Nat /\ Threshold \in Nat
    BY FiltersAssumption DEF FiltersInv, FiltersTypeOK
  <2>4. Threshold * Scale \in Nat /\ sims[i] * Scale \in Nat
    BY <2>3, ScaleMonotone
  <2>5. Threshold * Scale <= sims[i] * Scale
    BY <2>1, <2>2, <2>4
  <2>6. Threshold <= sims[i]
    BY <2>3, <2>5, ScaleMonotone
  <2> QED
    BY <2>3, <2>6
<1> QED
  BY <1>1, <1>2

\* Of three votes or more, one is not the most frequent.
LEMMA OddVote ==
  ASSUME PoseWindow >= 3, NEW p \in Pose, NEW pose \in Pose,
         NEW h, h = Tail(Append([i \in 1 .. PoseWindow |-> p], pose)),
         NEW q \in Majority(h)
  PROVE  q = p
<1> DEFINE n == PoseWindow
<1>1. n \in Nat /\ n >= 3
  BY FiltersAssumption
<1>2. h = [i \in 1 .. n |-> IF i = n THEN pose ELSE p]
  <2>1. [i \in 1 .. n |-> p] \in Seq(Pose) /\ Len([i \in 1 .. n |-> p]) = n
    BY <1>1
  <2> DEFINE s == [i \in 1 .. n |-> p]
             r == Append(s, pose)
  <2>2. r \in Seq(Pose) /\ Len(r) = n + 1 /\ r[n + 1] = pose
        /\ \A i \in 1 .. n : r[i] = p
    BY <1>1, <2>1
  <2> HIDE DEF s, r
  <2>3. Tail(r) \in Seq(Pose) /\ Len(Tail(r)) = n /\ \A i \in 1 .. n : Tail(r)[i] = r[i + 1]
    BY <1>1, <2>2
  <2>4. \A i \in 1 .. n : i # n => i + 1 \in 1 .. n
    BY <1>1
  <2>5. \A i \in 1 .. n : Tail(r)[i] = IF i = n THEN pose ELSE p
    BY <2>2, <2>3, <2>4
  <2>6. Tail(r) = [i \in 1 .. n |-> Tail(r)[i]]
    <3>1. ASSUME NEW u \in Seq(Pose) PROVE u = [i \in 1 .. Len(u) |-> u[i]]
      OBVIOUS
    <3> QED
      BY <2>3, <3>1
  <2>7. h = Tail(r)
    BY DEF r, s
  <2> QED
    BY <2>5, <2>6, <2>7
<1>3. DOMAIN h = 1 .. n
  BY <1>2
<1> SUFFICES ASSUME q # p PROVE FALSE
  OBVIOUS
<1>4. q \in Range(h) /\ \A x \in Range(h) : Count(h, q) >= Count(h, x)
  BY DEF Majority
<1>5. q = pose
  BY <1>2, <1>4 DEF Range
<1>6. p \in Range(h)
  <2>1. 1 \in 1 .. n /\ h[1] = p
    BY <1>1, <1>2
  <2> QED
    BY <1>3, <2>1 DEF Range
<1>7. Count(h, q) = 1
  <2>1. {i \in DOMAIN h : h[i] = q} = {n}
    BY <1>1, <1>2, <1>3, <1>5
  <2> QED
    BY <2>1, FS_Singleton DEF Count
<1>8. Count(h, p) >= 2
  <2>1. {1, 2} \subseteq {i \in DOMAIN h : h[i] = p}
    BY <1>1, <1>2
  <2>2. IsFiniteSet({i \in DOMAIN h : h[i] = p})
    <3>1. IsFiniteSet(1 .. n)
      BY <1>1, FS_Interval
    <3> QED
      BY <1>3, <3>1, FS_Subset
  <2>3. Cardinality({1, 2}) = 2
    <3>1. IsFiniteSet({2}) /\ Cardinality({2}) = 1
      BY FS_Singleton
    <3>2. {1, 2} = {2} \cup {1} /\ 1 \notin {2}
      OBVIOUS
    <3>3. PICK S : S = {2}
      OBVIOUS
    <3>4. PICK T : T = {1, 2}
      OBVIOUS
    <3>5. T = S \cup {1} /\ IsFiniteSet(S) /\ 1 \notin S /\ Cardinality(S) = 1
      BY <3>1, <3>2, <3>3, <3>4
    <3>6. Cardinality(S \cup {1}) = Cardinality(S) + 1
      BY ONLY <3>5, FS_AddElement
    <3>7. Cardinality(T) = 2
      BY ONLY <3>5, <3>6
    <3> QED
      BY ONLY <3>4, <3>7
  <2> QED
    BY <2>1, <2>2, <2>3, FS_Subset, FS_CardinalityType DEF Count
<1>9. Count(h, q) >= Count(h, p)
  BY <1>4, <1>6
<1>10. Count(h, p) \in Nat
  <2>1. IsFiniteSet({i \in DOMAIN h : h[i] = p})
    <3>1. IsFiniteSet(1 .. n)
      BY <1>1, FS_Interval
    <3> QED
      BY <1>3, <3>1, FS_Subset
  <2> QED
    BY <2>1, FS_CardinalityType DEF Count
<1> QED
  BY <1>7, <1>8, <1>9, <1>10

LEMMA OddFrameStep ==
  ASSUME PoseWindow >= 3, [FiltersNext]_filterVars, NEW p \in Pose,
         mode_history = [i \in 1 .. PoseWindow |-> p], mode_history' # mode_history
  PROVE  mode' = p
<1>1. PICK pose \in Pose, who \in Identity, sim \in Similarity, side \in Side :
        Observe(pose, who, sim, side)
  BY DEF FiltersNext, DropFilters, filterVars
<1> DEFINE h == Append(mode_history, pose)
<1>2. PoseWindow \in Nat
  BY FiltersAssumption
<1>3. mode_history \in Seq(Pose) /\ Len(mode_history) = PoseWindow
  BY <1>2
<1>4. Len(h) > PoseWindow
  BY <1>2, <1>3
<1>5. mode_history' = Tail(h) /\ mode' \in Majority(mode_history')
  BY <1>1, <1>4 DEF Observe
<1>6. PICK r : r = Tail(Append([i \in 1 .. PoseWindow |-> p], pose))
  OBVIOUS
<1>7. mode_history' = r
  BY <1>5, <1>6
<1> QED
  BY <1>5, <1>6, <1>7, OddVote

\* Smoothing invents nothing, for every window of three poses or more and
\* every scale: a smoothed box stays within the boxes seen since the face was
\* found, a match has a frame behind it that was similar enough by itself, and
\* one odd frame among equal ones does not change the pose.  (With a window of
\* one or two, which ORIENTATION_SMOOTHING_WINDOW allows, the odd frame
\* decides.)
THEOREM FiltersAreTrue == FiltersSpec /\ PoseWindow >= 3 => FiltersInventNothing
<1> SUFFICES ASSUME PoseWindow >= 3 PROVE FiltersSpec => FiltersInventNothing
  OBVIOUS
<1>1. [FiltersNext]_filterVars =>
        [\A p \in Pose :
           (mode = p /\ mode_history = [i \in 1 .. PoseWindow |-> p]) =>
             (mode_history' # mode_history => mode' = p)]_filterVars
  BY OddFrameStep
<1> QED
  BY <1>1, FiltersStart, FiltersStep, FiltersSafe, PTL
     DEF FiltersSpec, FiltersInventNothing, OddFrameIgnored

-----------------------------------------------------------------------------
(***************************************************************************)
(* OffloadRouters.  The adaptive threshold is computed from a root that    *)
(* only exists because the variance of a window is never negative, which   *)
(* is the inequality of Cauchy and Schwarz, by induction over the window.  *)
(***************************************************************************)
RoutersSpec == RouterInit /\ [][RouterNext]_routerVars

-----------------------------------------------------------------------------
(* Numbers and sums.                                                       *)

\* Induction over the numbers, of a set.
LEMMA SetInduction ==
  ASSUME NEW S, 0 \in S, \A k \in Nat : k \in S => k + 1 \in S
  PROVE  \A k \in Nat : k \in S
<1> DEFINE R == OpToRel(<, Nat)
           T == Nat \ S
<1> SUFFICES ASSUME T # {} PROVE FALSE
  OBVIOUS
<1>1. IsWellFoundedOn(R, Nat)
  BY NatLessThanWellFounded
<1> HIDE DEF R
<1>2. PICK n \in T : \A m \in T : ~(<<m, n>> \in R)
  BY <1>1, WFMin
<1>3. n \in Nat /\ n # 0 /\ n - 1 \in Nat
  BY <1>2
<1>4. n - 1 \in T
  <2>1. (n - 1) + 1 = n
    BY <1>3
  <2> QED
    BY <1>2, <1>3, <2>1
<1>5. <<n - 1, n>> \in R
  BY <1>3 DEF R, OpToRel
<1> QED
  BY <1>2, <1>4, <1>5

\* Every square number's predecessors have a root.
LEMMA RootBelow ==
  ASSUME NEW b \in Nat, NEW n \in 0 .. b * b
  PROVE  \E r \in 0 .. b : r * r <= n /\ n < (r + 1) * (r + 1)
<1> DEFINE S == {c \in Nat : \A m \in Nat : m <= c * c =>
                   \E r \in 0 .. c : r * r <= m /\ m < (r + 1) * (r + 1)}
<1>1. 0 \in S
  <2> SUFFICES ASSUME NEW m \in Nat, m <= 0 * 0
               PROVE  \E r \in 0 .. 0 : r * r <= m /\ m < (r + 1) * (r + 1)
    OBVIOUS
  <2>1. m = 0 /\ 0 \in 0 .. 0
    OBVIOUS
  <2> QED
    BY <2>1
<1>2. ASSUME NEW c \in Nat, c \in S PROVE c + 1 \in S
  <2> SUFFICES ASSUME NEW m \in Nat, m <= (c + 1) * (c + 1)
               PROVE  \E r \in 0 .. c + 1 : r * r <= m /\ m < (r + 1) * (r + 1)
    OBVIOUS
  <2>1. CASE m <= c * c
    <3>1. PICK r \in 0 .. c : r * r <= m /\ m < (r + 1) * (r + 1)
      BY <1>2, <2>1
    <3> QED
      BY <3>1
  <2>2. CASE m > c * c /\ m < (c + 1) * (c + 1)
    <3>1. c \in 0 .. c + 1 /\ c * c <= m
      BY <2>2
    <3> QED
      BY <2>2, <3>1
  <2>3. CASE m = (c + 1) * (c + 1)
    <3>1. (c + 2) * (c + 2) = (c + 1) * (c + 1) + 2 * (c + 1) + 1
      OBVIOUS
    <3>2. m < ((c + 1) + 1) * ((c + 1) + 1)
      BY <2>3, <3>1
    <3> QED
      BY <2>3, <3>2, c + 1 \in 0 .. c + 1
  <2>4. c * c \in Nat /\ (c + 1) * (c + 1) \in Nat
    OBVIOUS
  <2> QED
    BY <2>1, <2>2, <2>3, <2>4
<1>3. b \in S
  <2> HIDE DEF S
  <2> QED
    BY <1>1, <1>2, SetInduction
<1>4. b * b \in Nat
  OBVIOUS
<1> QED
  BY <1>3, <1>4

\* What adds up the entries of s one by one.
IsSum(g, s) ==
  /\ g \in [0 .. Len(s) -> Nat] /\ g[0] = 0
  /\ \A i \in 1 .. Len(s) : g[i] = g[i - 1] + s[i]

LEMMA SumsExist ==
  ASSUME NEW s \in Seq(Nat)
  PROVE  \E g : IsSum(g, s)
<1> DEFINE n == Len(s)
           Upto(g, k) == /\ g \in [0 .. k -> Nat] /\ g[0] = 0
                         /\ \A i \in 1 .. k : g[i] = g[i - 1] + s[i]
           S == {k \in Nat : k <= n => \E g : Upto(g, k)}
<1>0. n \in Nat /\ \A i \in 1 .. n : s[i] \in Nat
  OBVIOUS
<1>1. 0 \in S
  <2>1. Upto([i \in 0 .. 0 |-> 0], 0)
    OBVIOUS
  <2> QED
    BY <2>1
<1>2. ASSUME NEW k \in Nat, k \in S PROVE k + 1 \in S
  <2> SUFFICES ASSUME k + 1 <= n PROVE \E g : Upto(g, k + 1)
    BY k + 1 \in Nat, Zenon
  <2>1. PICK g : Upto(g, k)
    BY <1>0, <1>2, SMTT(60)
  <2> DEFINE h == [i \in 0 .. k + 1 |-> IF i = k + 1 THEN g[k] + s[k + 1] ELSE g[i]]
  <2>2. h \in [0 .. k + 1 -> Nat] /\ h[0] = 0
    BY <1>0, <2>1
  <2>3. ASSUME NEW i \in 1 .. k + 1 PROVE h[i] = h[i - 1] + s[i]
    <3>1. CASE i = k + 1
      BY <3>1
    <3>2. CASE i # k + 1
      <4>1. i \in 1 .. k /\ i \in 0 .. k + 1 /\ i - 1 \in 0 .. k + 1 /\ i - 1 # k + 1
        BY <3>2
      <4> QED
        BY <2>1, <3>2, <4>1
    <3> QED
      BY <3>1, <3>2
  <2> HIDE DEF h
  <2>4. Upto(h, k + 1)
    BY <2>2, <2>3
  <2> QED
    BY <2>4
<1>3. n \in S
  <2> HIDE DEF S
  <2> QED
    BY <1>0, <1>1, <1>2, SetInduction
<1> QED
  BY <1>0, <1>3 DEF IsSum

\* There is one sum only, and SumOf is it.
LEMMA SumIs ==
  ASSUME NEW s \in Seq(Nat), NEW g, IsSum(g, s)
  PROVE  SumOf(s) = g[Len(s)]
<1> DEFINE n == Len(s)
           Eq(h) == h = [i \in 0 .. n |-> IF i = 0 THEN 0 ELSE h[i - 1] + s[i]]
           f == CHOOSE h : Eq(h)
<1>0. n \in Nat
  OBVIOUS
<1>1. SumOf(s) = f[n]
  BY DEF SumOf
<1>2. Eq(g)
  BY DEF IsSum
<1>3. Eq(f)
  BY <1>2, Zenon
<1> HIDE DEF f
<1> DEFINE S == {k \in Nat : k <= n => f[k] = g[k]}
<1>4. 0 \in S
  BY <1>0, <1>2, <1>3
<1>5. ASSUME NEW k \in Nat, k \in S PROVE k + 1 \in S
  <2> SUFFICES ASSUME k + 1 <= n PROVE f[k + 1] = g[k + 1]
    OBVIOUS
  <2>1. k + 1 \in 0 .. n /\ k + 1 # 0 /\ (k + 1) - 1 = k /\ f[k] = g[k]
    BY <1>0, <1>5
  <2>2. f[k + 1] = f[k] + s[k + 1]
    BY <1>3, <2>1
  <2>3. g[k + 1] = g[k] + s[k + 1]
    BY <1>2, <2>1
  <2> QED
    BY <2>1, <2>2, <2>3
<1>6. n \in S
  <2> HIDE DEF S
  <2> QED
    BY <1>0, <1>4, <1>5, SetInduction
<1> QED
  BY <1>0, <1>1, <1>6

LEMMA Entries ==
  ASSUME NEW T, NEW s \in Seq(T)
  PROVE  /\ Len(s) \in Nat /\ \A i \in 1 .. Len(s) : s[i] \in T
         /\ \A U : T \subseteq U => s \in Seq(U)
OBVIOUS

\* The variance of a window is that of a square: n times its squares is never
\* below the square of its sum, and not above the square of 100 n.
LEMMA Variance ==
  ASSUME NEW T \in SUBSET (0 .. 100), NEW s \in Seq(T)
  PROVE  /\ SumOf(s) \in Nat
         /\ Len(s) * Squares(s) - SumOf(s) * SumOf(s) \in 0 .. (100 * Len(s)) * (100 * Len(s))
<1> DEFINE n == Len(s)
           sq == [i \in 1 .. n |-> s[i] * s[i]]
<1>0. n \in Nat /\ \A i \in 1 .. n : s[i] \in Nat /\ s[i] <= 100
  <2>1. n \in Nat /\ \A i \in 1 .. n : s[i] \in T
    BY Entries
  <2>2. \A x \in T : x \in Nat /\ x <= 100
    OBVIOUS
  <2> QED
    BY <2>1, <2>2
<1>1. s \in Seq(Nat)
  <2>1. T \subseteq Nat
    OBVIOUS
  <2> QED
    BY <2>1, Entries
<1>2. sq \in Seq(Nat) /\ Len(sq) = n /\ \A i \in 1 .. n : sq[i] = s[i] * s[i]
  <2>1. ASSUME NEW i \in 1 .. n PROVE s[i] * s[i] \in Nat
    <3>1. PICK x \in Nat : x = s[i]
      BY <1>0
    <3> QED
      BY <3>1
  <2> QED
    BY <1>0, <2>1
<1> HIDE DEF sq
<1>3. PICK g : IsSum(g, s)
  BY <1>1, SumsExist
<1>4. PICK q : IsSum(q, sq)
  BY <1>2, SumsExist
<1>5. SumOf(s) = g[n] /\ Squares(s) = q[n]
  <2>1. SumOf(s) = g[n]
    BY <1>1, <1>3, SumIs
  <2>2. SumOf(sq) = q[n]
    BY <1>2, <1>4, SumIs
  <2> QED
    BY <2>1, <2>2 DEF Squares, sq
<1>6. g \in [0 .. n -> Nat] /\ g[0] = 0 /\ \A i \in 1 .. n : g[i] = g[i - 1] + s[i]
  BY <1>3 DEF IsSum
<1>7. q \in [0 .. n -> Nat] /\ q[0] = 0 /\ \A i \in 1 .. n : q[i] = q[i - 1] + s[i] * s[i]
  BY <1>2, <1>4 DEF IsSum
<1> DEFINE Bound(k) == q[k] <= 10000 * k
           Apart(k) == \A x \in Nat : 2 * (g[k] * x) <= q[k] + k * (x * x)
           Spread(k) == g[k] * g[k] <= k * q[k]
           S == {k \in Nat : k <= n => Bound(k) /\ Apart(k) /\ Spread(k)}
<1>8. 0 \in S
  BY <1>0, <1>6, <1>7
<1>9. ASSUME NEW k \in Nat, k \in S PROVE k + 1 \in S
  <2> SUFFICES ASSUME k + 1 <= n PROVE Bound(k + 1) /\ Apart(k + 1) /\ Spread(k + 1)
    OBVIOUS
  <2>1. k \in 0 .. n /\ k + 1 \in 1 .. n /\ k + 1 \in 0 .. n /\ (k + 1) - 1 = k
    BY <1>0
  <2>2. PICK a, b, x \in Nat : a = g[k] /\ b = q[k] /\ x = s[k + 1] /\ x <= 100
    <3>1. g[k] \in Nat /\ q[k] \in Nat
      BY <1>6, <1>7, <2>1
    <3>2. s[k + 1] \in Nat /\ s[k + 1] <= 100
      BY <1>0, <2>1
    <3> QED
      BY <3>1, <3>2
  <2>3. g[k + 1] = a + x /\ q[k + 1] = b + x * x
    BY <1>6, <1>7, <2>1, <2>2
  <2>4. b <= 10000 * k /\ a * a <= k * b
    BY <1>9, <2>1, <2>2
  <2>5. \A y \in Nat : 2 * (a * y) <= b + k * (y * y)
    <3>1. k <= n
      BY <1>0, <2>1
    <3>2. Apart(k)
      <4> HIDE DEF Bound, Apart, Spread
      <4> QED
        BY <1>9, <3>1
    <3> QED
      BY <2>2, <3>2, Zenon
  <2>6. Bound(k + 1)
    <3>1. x * x <= 10000 /\ x * x \in Nat
      <4>1. PICK d \in Nat : x + d = 100
        BY <2>2, 100 - x \in Nat
      <4>2. (x + d) * (x + d) = x * x + 2 * (x * d) + d * d
        OBVIOUS
      <4>3. x * x \in Nat /\ x * d \in Nat /\ d * d \in Nat
        OBVIOUS
      <4> QED
        BY <4>1, <4>2, <4>3
    <3> QED
      BY <2>2, <2>3, <2>4, <3>1
  <2>7. Apart(k + 1)
    <3> SUFFICES ASSUME NEW y \in Nat
                 PROVE  2 * ((a + x) * y) <= (b + x * x) + (k + 1) * (y * y)
      BY <2>3
    <3>1. 2 * (a * y) <= b + k * (y * y)
      BY <2>5
    <3>2. 2 * (x * y) <= x * x + y * y
      <4>1. (x - y) * (x - y) >= 0
        OBVIOUS
      <4>2. (x - y) * (x - y) = x * x + y * y - 2 * (x * y)
        OBVIOUS
      <4> QED
        BY <4>1, <4>2
    <3>3. 2 * ((a + x) * y) = 2 * (a * y) + 2 * (x * y)
      OBVIOUS
    <3>4. (k + 1) * (y * y) = k * (y * y) + y * y
      OBVIOUS
    <3>5. a * y \in Nat /\ x * y \in Nat /\ x * x \in Nat /\ y * y \in Nat /\ k * (y * y) \in Nat
      OBVIOUS
    <3> QED
      BY <3>1, <3>2, <3>3, <3>4, <3>5
  <2>8. Spread(k + 1)
    <3>1. 2 * (a * x) <= b + k * (x * x)
      BY <2>5
    <3>2. (a + x) * (a + x) = a * a + 2 * (a * x) + x * x
      OBVIOUS
    <3>3. (k + 1) * (b + x * x) = k * b + k * (x * x) + b + x * x
      OBVIOUS
    <3>4. a * a \in Nat /\ a * x \in Nat /\ x * x \in Nat /\ k * b \in Nat /\ k * (x * x) \in Nat
      OBVIOUS
    <3>5. (a + x) * (a + x) <= (k + 1) * (b + x * x)
      BY <2>4, <3>1, <3>2, <3>3, <3>4
    <3> QED
      BY <2>3, <3>5
  <2> QED
    BY <2>6, <2>7, <2>8
<1>10. n \in S
  <2> HIDE DEF S
  <2> QED
    BY <1>0, <1>8, <1>9, SetInduction
<1>11. PICK a, b \in Nat : a = g[n] /\ b = q[n]
  <2>1. n \in 0 .. n
    BY <1>0
  <2>2. g[n] \in Nat /\ q[n] \in Nat
    BY <1>6, <1>7, <2>1
  <2> QED
    BY <2>2
<1>12. b <= 10000 * n /\ a * a <= n * b
  BY <1>0, <1>10, <1>11
<1>13. n * b <= (100 * n) * (100 * n)
  <2>1. PICK d \in Nat : 10000 * n = b + d
    BY <1>0, <1>11, <1>12, 10000 * n - b \in Nat
  <2>2. n * (b + d) = n * b + n * d /\ n * d \in Nat /\ n * b \in Nat
    BY <1>0, <1>11, <2>1
  <2>3. (100 * n) * (100 * n) = n * (10000 * n)
    BY <1>0
  <2> QED
    BY <2>1, <2>2, <2>3
<1>14. a * a \in Nat /\ n * b \in Nat
  BY <1>0, <1>11
<1>15. n * b - a * a \in 0 .. (100 * n) * (100 * n)
  <2>1. (100 * n) * (100 * n) \in Nat
    BY <1>0
  <2> QED
    BY <1>12, <1>13, <1>14, <2>1
<1> QED
  BY <1>5, <1>11, <1>15

-----------------------------------------------------------------------------
(* The threshold.                                                          *)

LEMMA RouterNumbers ==
  /\ WindowSize \in Nat \ {0} /\ MinSamples \in Nat \ {0}
  /\ Agreements \in Nat \ {0} /\ MinAgreements \in Nat \ {0}
  /\ Confidence \in SUBSET (0 .. 100)
BY RouterAssumption

Windowed == confidence_window \in Seq(Confidence) /\ Len(confidence_window) <= WindowSize

\* Mean less standard deviation is a number, and no more than the mean.
LEMMA BaseIsNumber ==
  ASSUME NEW s \in Seq(Confidence), Len(s) <= WindowSize, s # <<>>
  PROVE  /\ Base(s) \in Int /\ SumOf(s) \in Nat
         /\ Len(s) * Base(s) <= 100 * SumOf(s)
<1> DEFINE n == Len(s)
           v == Len(s) * Squares(s) - SumOf(s) * SumOf(s)
           b == 100 * WindowSize
<1>1. n \in Nat \ {0}
  OBVIOUS
<1>2. SumOf(s) \in Nat /\ v \in 0 .. (100 * n) * (100 * n)
  BY Variance, RouterNumbers
<1> HIDE DEF v
<1>3. b \in Nat /\ v \in 0 .. b * b
  <2>1. PICK d \in Nat : b = 100 * n + d
    BY <1>1, RouterNumbers, b - 100 * n \in Nat
  <2>2. PICK m \in Nat : m = 100 * n
    BY <1>1
  <2>3. (m + d) * (m + d) = m * m + 2 * (m * d) + d * d
    OBVIOUS
  <2>4. m * m \in Nat /\ m * d \in Nat /\ d * d \in Nat
    OBVIOUS
  <2>5. v \in 0 .. m * m /\ b = m + d
    BY <1>2, <2>1, <2>2
  <2> HIDE DEF b
  <2> QED
    BY <2>3, <2>4, <2>5
<1>4. \E r \in 0 .. b : r * r <= v /\ v < (r + 1) * (r + 1)
  <2> HIDE DEF b
  <2> QED
    BY <1>3, RootBelow
<1>5. Root(v) \in 0 .. b
  BY <1>4 DEF Root
<1>6. Root(v) \in Nat
  BY <1>3, <1>5
<1>7. Base(s) = (100 * (SumOf(s) - Root(v))) \div n
  BY DEF Base, v
<1>8. PICK y \in Int : y = 100 * (SumOf(s) - Root(v)) /\ y <= 100 * SumOf(s)
  BY <1>2, <1>6
<1>9. y \div n \in Int /\ n * (y \div n) <= y
  BY <1>1, <1>8
<1> QED
  BY <1>1, <1>2, <1>7, <1>8, <1>9

Bounds == 4000 .. 8500

LEMMA RecomputedRange ==
  ASSUME NEW s \in Seq(Confidence), Len(s) <= WindowSize, s # <<>>, NEW a
  PROVE  Recomputed(s, a) \in Bounds
<1>1. Base(s) \in Int
  BY BaseIsNumber
<1>2. Adjusted(Base(s), a) \in Int
  <2> DEFINE b == Base(s)
  <2>1. (95 * b) \div 100 \in Int /\ (108 * b) \div 100 \in Int
    BY <1>1
  <2> QED
    BY <1>1, <2>1 DEF Adjusted
<1>3. PICK x \in Int : x = Adjusted(Base(s), a)
  BY <1>2
<1>4. Recomputed(s, a) = Clip(x, 4000, 8500)
  BY <1>3 DEF Recomputed
<1> QED
  BY <1>4 DEF Clip, Bounds

\* A similarity below the threshold that nobody's answers have moved is below
\* the average, unless it is below the least threshold.
LEMMA BelowTheAverage ==
  ASSUME NEW s \in Seq(Confidence), Len(s) <= WindowSize, s # <<>>,
         NEW a, Undisputed(a), Len(a) \in Nat, Agreed(a) \in Int,
         NEW c \in Nat, 100 * c < Recomputed(s, a)
  PROVE  c < 40 \/ Len(s) * c < SumOf(s)
<1>1. PICK b \in Int : b = Base(s) /\ Len(s) * b <= 100 * SumOf(s)
  BY BaseIsNumber
<1>2. Adjusted(b, a) = b
  <2>1. CASE Len(a) < MinAgreements
    BY <2>1 DEF Adjusted
  <2>2. CASE ~(Len(a) < MinAgreements)
    <3>1. ~(10 * Agreed(a) > 9 * Len(a)) /\ ~(10 * Agreed(a) < 6 * Len(a))
      BY <2>2 DEF Undisputed
    <3> QED
      BY <3>1 DEF Adjusted
  <2> QED
    BY <2>1, <2>2
<1>3. Recomputed(s, a) = Clip(b, 4000, 8500)
  BY <1>1, <1>2 DEF Recomputed
<1>4. c < 40 \/ 100 * c < b
  BY <1>3 DEF Clip
<1>5. Len(s) \in Nat \ {0} /\ SumOf(s) \in Nat
  BY BaseIsNumber
<1>6. ASSUME 100 * c < b PROVE Len(s) * c < SumOf(s)
  <2>1. PICK n \in Nat \ {0} : n = Len(s)
    BY <1>5
  <2>2. PICK d \in Nat \ {0} : b = 100 * c + d
    BY <1>6, b - 100 * c \in Nat \ {0}
  <2>3. n * b = 100 * (n * c) + n * d
    BY <2>2
  <2>4. n * d \in Nat /\ n * d > 0 /\ n * c \in Nat
    OBVIOUS
  <2>5. 100 * (n * c) < 100 * SumOf(s)
    BY <1>1, <1>5, <2>1, <2>3, <2>4
  <2> QED
    BY <1>5, <2>1, <2>4, <2>5
<1> QED
  BY <1>4, <1>6

-----------------------------------------------------------------------------
(* The invariant: besides the types, which side of the band the hysteresis *)
(* router decided on, and that a face was sent only if there was one.      *)

RouterInv ==
  /\ Windowed /\ RouterTypeOK
  /\ agreement_window \in Seq(BOOLEAN)
  /\ ~answered => confidence_window # <<>>
  /\ entered \in Nat
  /\ IF last_decision THEN entered < 60 ELSE entered > 72

LEMMA RouterStart == RouterInit => RouterInv
<1> SUFFICES ASSUME RouterInit PROVE RouterInv
  OBVIOUS
<1>1. \A T : <<>> \in Seq(T) /\ Len(<<>>) = 0
  OBVIOUS
<1>2. Windowed /\ agreement_window \in Seq(BOOLEAN)
  BY <1>1, RouterNumbers DEF RouterInit, Windowed
<1>3. RouterTypeOK
  <2>1. threshold \in Bounds
    BY DEF RouterInit, Bounds
  <2>2. Len(confidence_window) <= WindowSize /\ Len(agreement_window) <= Agreements
    <3>1. Len(confidence_window) = 0 /\ Len(agreement_window) = 0
      BY DEF RouterInit
    <3> QED
      BY <3>1, RouterNumbers
  <2>3. last_decision \in BOOLEAN /\ answered \in BOOLEAN
    BY DEF RouterInit
  <2> QED
    BY <2>1, <2>2, <2>3 DEF RouterTypeOK, Bounds
<1> QED
  BY <1>2, <1>3 DEF RouterInit, RouterInv

LEMMA RecentFits ==
  ASSUME NEW T, NEW s \in Seq(T), NEW x \in T, NEW size \in Nat \ {0}, Len(s) <= size
  PROVE  /\ Recent(Append(s, x), size) \in Seq(T)
         /\ Len(Recent(Append(s, x), size)) <= size
         /\ Recent(Append(s, x), size) # <<>>
<1> DEFINE r == Append(s, x)
<1>1. r \in Seq(T) /\ Len(r) = Len(s) + 1 /\ Len(s) \in Nat
  OBVIOUS
<1> HIDE DEF r
<1>2. Len(r) > size => Tail(r) \in Seq(T) /\ Len(Tail(r)) = Len(r) - 1
  BY <1>1
<1>3. \A u \in Seq(T) : Len(u) >= 1 => u # <<>>
  OBVIOUS
<1>4. CASE Len(r) > size
  <2>1. Recent(r, size) = Tail(r) /\ Len(Tail(r)) = Len(s) /\ Len(s) >= 1
    BY <1>1, <1>2, <1>4 DEF Recent
  <2> QED
    BY <1>1, <1>2, <1>3, <1>4, <2>1 DEF r
<1>5. CASE ~(Len(r) > size)
  <2>1. Recent(r, size) = r
    BY <1>5 DEF Recent
  <2> QED
    BY <1>1, <1>3, <1>5, <2>1 DEF r
<1> QED
  BY <1>4, <1>5

BandCrossed ==
  last_decision' # last_decision => LET d == entered' - entered IN d > 12 \/ d < -12

\* What is appended to a window is its last entry.
LEMMA RecentLast ==
  ASSUME NEW T, NEW s \in Seq(T), NEW x \in T, NEW size \in Nat \ {0}
  PROVE  LET r == Recent(Append(s, x), size) IN r[Len(r)] = x
<1> DEFINE r == Append(s, x)
<1>1. r \in Seq(T) /\ Len(r) = Len(s) + 1 /\ Len(s) \in Nat /\ r[Len(r)] = x
  OBVIOUS
<1> HIDE DEF r
<1>2. CASE Len(r) > size
  <2>1. Recent(r, size) = Tail(r)
    BY <1>2 DEF Recent
  <2>2. Len(r) > 1
    BY <1>1, <1>2
  <2>3. Len(Tail(r)) = Len(r) - 1 /\ Tail(r)[Len(r) - 1] = r[Len(r)]
    BY <1>1, <2>2
  <2> QED
    BY <1>1, <2>1, <2>3 DEF r
<1>3. CASE ~(Len(r) > size)
  <2>1. Recent(r, size) = r
    BY <1>3 DEF Recent
  <2> QED
    BY <1>1, <2>1 DEF r
<1> QED
  BY <1>2, <1>3

AverageCrossed ==
  LET s == confidence_window'
  IN  answered /\ ~answered' /\ Len(s) >= MinSamples /\ Undisputed(agreement_window)
        => s[Len(s)] < 40 \/ Len(s) * s[Len(s)] < SumOf(s)

\* Only a decision sends, and it has recomputed the threshold.
LEMMA SentStep ==
  ASSUME RouterInv, [RouterNext]_routerVars
  PROVE  AverageCrossed
<1> SUFFICES ASSUME answered, ~answered', Len(confidence_window') >= MinSamples,
                    Undisputed(agreement_window)
             PROVE  LET s == confidence_window'
                    IN  s[Len(s)] < 40 \/ Len(s) * s[Len(s)] < SumOf(s)
  BY Zenon DEF AverageCrossed
<1>1. PICK c \in Confidence : decide(c)
  BY DEF RouterNext, feedback, NoAnswer, routerVars
<1>2. c \in Nat
  BY RouterNumbers
<1>3. PICK s : s = confidence_window'
  OBVIOUS
<1>4. /\ s = Recent(Append(confidence_window, c), WindowSize)
      /\ threshold' = Recomputed(s, agreement_window)
      /\ answered' = ~(100 * c < threshold')
  BY <1>1, <1>3 DEF decide
<1>5. s \in Seq(Confidence) /\ Len(s) <= WindowSize /\ s # <<>> /\ s[Len(s)] = c
  <2>1. /\ confidence_window \in Seq(Confidence) /\ Len(confidence_window) <= WindowSize
        /\ WindowSize \in Nat \ {0}
    BY RouterNumbers DEF RouterInv, Windowed
  <2>2. PICK r : r = Recent(Append(confidence_window, c), WindowSize)
    OBVIOUS
  <2>3. r \in Seq(Confidence) /\ Len(r) <= WindowSize /\ r # <<>>
    BY <2>1, <2>2, RecentFits
  <2>4. r[Len(r)] = c
    BY <2>1, <2>2, RecentLast
  <2> QED
    BY <1>4, <2>2, <2>3, <2>4
<1>6. 100 * c < Recomputed(s, agreement_window)
  BY <1>4
<1>7. Len(agreement_window) \in Nat /\ Agreed(agreement_window) \in Int
  <2>1. agreement_window \in Seq(BOOLEAN)
    BY DEF RouterInv
  <2>2. PICK n \in Nat : n = Len(agreement_window) /\ DOMAIN agreement_window = 1 .. n
    BY <2>1
  <2>3. IsFiniteSet(1 .. n)
    BY FS_Interval, 1 \in Int, n \in Int
  <2>4. IsFiniteSet({i \in DOMAIN agreement_window : agreement_window[i]})
    BY <2>2, <2>3, FS_Subset
  <2> QED
    BY <2>2, <2>4, FS_CardinalityType DEF Agreed
<1>8. c < 40 \/ Len(s) * c < SumOf(s)
  BY <1>2, <1>5, <1>6, <1>7, BelowTheAverage
<1> QED
  BY <1>3, <1>5, <1>8

LEMMA RouterStep ==
  ASSUME RouterInv, [RouterNext]_routerVars
  PROVE  RouterInv' /\ BandCrossed
<1>1. ASSUME NEW c \in Confidence, decide(c)
      PROVE  RouterInv' /\ BandCrossed
  <2>1. c \in Nat
    BY RouterNumbers
  <2>2. /\ confidence_window' \in Seq(Confidence)
        /\ Len(confidence_window') <= WindowSize /\ confidence_window' # <<>>
    BY <1>1, RecentFits, RouterNumbers DEF decide, RouterInv, Windowed
  <2>3. threshold' \in Bounds
    <3>1. CASE Len(confidence_window') >= MinSamples
      <4>1. PICK s : s = confidence_window'
        OBVIOUS
      <4>2. Recomputed(s, agreement_window) \in Bounds
        BY <2>2, <4>1, RecomputedRange
      <4> QED
        BY <1>1, <3>1, <4>1, <4>2 DEF decide
    <3>2. CASE ~(Len(confidence_window') >= MinSamples)
      BY <1>1, <3>2 DEF decide, RouterInv, RouterTypeOK, Bounds
    <3> QED
      BY <3>1, <3>2
  <2>4. /\ last_decision' = HysteresisDecides(c, last_decision)
        /\ entered' = IF last_decision' = last_decision THEN entered ELSE c
        /\ last_decision \in BOOLEAN /\ entered \in Nat
        /\ IF last_decision THEN entered < 60 ELSE entered > 72
    BY <1>1 DEF decide, RouterInv, RouterTypeOK
  <2>5. /\ entered' \in Nat
        /\ IF last_decision' THEN entered' < 60 ELSE entered' > 72
        /\ last_decision' # last_decision =>
             entered' - entered > 12 \/ entered' - entered < -12
    <3>1. CASE last_decision /\ c > 72
      <4>1. ~HysteresisDecides(c, last_decision)
        BY <2>1, <3>1 DEF HysteresisDecides
      <4>2. ~last_decision' /\ last_decision' # last_decision
        BY <2>4, <3>1, <4>1
      <4>3. entered' = c /\ entered < 60
        BY <2>4, <3>1, <4>2
      <4> QED
        BY <2>1, <2>4, <3>1, <4>2, <4>3
    <3>2. CASE last_decision /\ c <= 72
      <4>1. HysteresisDecides(c, last_decision)
        BY <2>1, <3>2 DEF HysteresisDecides
      <4>2. last_decision' /\ last_decision' = last_decision
        BY <2>4, <3>2, <4>1
      <4> QED
        BY <2>4, <3>2, <4>2
    <3>3. CASE ~last_decision /\ c < 60
      <4>1. HysteresisDecides(c, last_decision)
        BY <2>1, <3>3 DEF HysteresisDecides
      <4>2. last_decision' /\ last_decision' # last_decision
        BY <2>4, <3>3, <4>1
      <4>3. entered' = c /\ entered > 72
        BY <2>4, <3>3, <4>2
      <4> QED
        BY <2>1, <2>4, <3>3, <4>2, <4>3
    <3>4. CASE ~last_decision /\ c >= 60
      <4>1. ~HysteresisDecides(c, last_decision)
        BY <2>1, <3>4 DEF HysteresisDecides
      <4>2. ~last_decision' /\ last_decision' = last_decision
        <5>1. last_decision \in BOOLEAN /\ last_decision' = HysteresisDecides(c, last_decision)
          BY <2>4
        <5>2. ~last_decision
          BY <3>4
        <5>3. last_decision = FALSE
          BY <5>1, <5>2
        <5>4. HysteresisDecides(c, last_decision) \in BOOLEAN
          BY DEF HysteresisDecides
        <5>5. HysteresisDecides(c, last_decision) = FALSE
          BY <4>1, <5>4
        <5> QED
          BY <5>1, <5>3, <5>5
      <4> QED
        BY <2>4, <3>4, <4>2
    <3> QED
      BY <2>1, <3>1, <3>2, <3>3, <3>4
  <2>6. Windowed' /\ (~answered => confidence_window # <<>>)'
    BY <2>2 DEF Windowed
  <2>7. last_decision' \in BOOLEAN /\ answered' \in BOOLEAN
    BY <1>1 DEF decide, HysteresisDecides
  <2>8. RouterTypeOK' /\ (agreement_window \in Seq(BOOLEAN))'
    <3>1. agreement_window' = agreement_window
      BY <1>1 DEF decide
    <3>2. Len(agreement_window) <= Agreements /\ agreement_window \in Seq(BOOLEAN)
      BY DEF RouterInv, RouterTypeOK
    <3>3. Len(agreement_window') <= Agreements /\ agreement_window' \in Seq(BOOLEAN)
      BY <3>1, <3>2
    <3>4. threshold' \in 4000 .. 8500
      BY <2>3 DEF Bounds
    <3>5. Len(confidence_window') <= WindowSize
      BY <2>2
    <3> QED
      BY <2>7, <3>3, <3>4, <3>5, SMTT(60) DEF RouterTypeOK
  <2>9. RouterInv'
    BY <2>5, <2>6, <2>8 DEF RouterInv
  <2> QED
    BY <2>5, <2>9 DEF BandCrossed
<1>2. ASSUME NEW agreed \in BOOLEAN, feedback(agreed)
      PROVE  RouterInv' /\ last_decision' = last_decision
  <2>1. /\ agreement_window' \in Seq(BOOLEAN)
        /\ Len(agreement_window') <= Agreements
    <3>1. PICK T : T = BOOLEAN
      OBVIOUS
    <3>2. agreement_window \in Seq(T) /\ agreed \in T /\ Len(agreement_window) <= Agreements
      BY <3>1 DEF RouterInv, RouterTypeOK
    <3>3. /\ Recent(Append(agreement_window, agreed), Agreements) \in Seq(T)
          /\ Len(Recent(Append(agreement_window, agreed), Agreements)) <= Agreements
      BY <3>2, RecentFits, RouterNumbers
    <3> QED
      BY <1>2, <3>1, <3>3 DEF feedback
  <2>2. threshold' \in Bounds
    <3>1. PICK a : a = agreement_window'
      OBVIOUS
    <3>2. /\ confidence_window \in Seq(Confidence) /\ Len(confidence_window) <= WindowSize
          /\ confidence_window # <<>>
      BY <1>2 DEF feedback, RouterInv, Windowed
    <3>3. Recomputed(confidence_window, a) \in Bounds
      BY <3>2, RecomputedRange
    <3> QED
      BY <1>2, <3>1, <3>3 DEF feedback
  <2>3. Windowed' /\ RouterTypeOK'
    BY <1>2, <2>1, <2>2 DEF feedback, RouterInv, RouterTypeOK, Windowed, Bounds
  <2> QED
    BY <1>2, <2>1, <2>3 DEF feedback, RouterInv
<1>3. ASSUME NoAnswer \/ UNCHANGED routerVars PROVE RouterInv'
  <2>1. /\ UNCHANGED <<last_decision, entered, confidence_window, agreement_window,
                       threshold>>
        /\ answered' = TRUE \/ answered' = answered
    BY <1>3 DEF NoAnswer, routerVars
  <2>2. RouterTypeOK' /\ Windowed'
    <3>1. answered \in BOOLEAN
      BY DEF RouterInv, RouterTypeOK
    <3>2. answered' \in BOOLEAN
      BY <2>1, <3>1, Zenon
    <3> QED
      BY <2>1, <3>2 DEF RouterInv, RouterTypeOK, Windowed
  <2> QED
    BY <2>1, <2>2 DEF RouterInv
<1>4. (NoAnswer \/ UNCHANGED routerVars) => last_decision' = last_decision
  BY DEF NoAnswer, routerVars
<1>5. last_decision' = last_decision => BandCrossed
  BY DEF BandCrossed
<1>6. CASE \E agreed \in BOOLEAN : feedback(agreed)
  <2>1. PICK agreed \in BOOLEAN : feedback(agreed)
    BY <1>6
  <2>2. RouterInv' /\ last_decision' = last_decision
    BY <1>2, <2>1
  <2> QED
    BY <1>5, <2>2
<1>7. CASE \E c \in Confidence : decide(c)
  BY <1>1, <1>7
<1> QED
  BY <1>3, <1>4, <1>5, <1>6, <1>7, Zenon DEF RouterNext

LEMMA RouterSafe == RouterInv => RouterTypeOK /\ StaticStrategiesAgree
<1>1. StaticStrategiesAgree
  <2> SUFFICES ASSUME NEW c \in Confidence, c < 60 \/ c > 72
               PROVE  ThresholdDecides(c, FALSE, FALSE) <=> HysteresisDecides(c, last_decision)
    BY DEF StaticStrategiesAgree
  <2>1. c \in Nat
    BY RouterNumbers
  <2> QED
    BY <2>1 DEF ThresholdDecides, HysteresisDecides
<1> QED
  BY <1>1 DEF RouterInv

\* The strategies are consistent, for every set of similarities and every
\* window: the adaptive threshold stays in its range whatever the variance of
\* the window and the cloud's answers, nobody above the average is sent unless
\* the answers moved the threshold, and the hysteresis takes the whole band to
\* change its mind.
THEOREM RoutersAreConsistent == RoutersSpec => RoutersConsistent
<1>1. RouterInv /\ [RouterNext]_routerVars =>
        /\ RouterInv'
        /\ [last_decision' # last_decision =>
              LET d == entered' - entered IN d > 12 \/ d < -12]_routerVars
        /\ [LET s == confidence_window'
            IN  answered /\ ~answered' /\ Len(s) >= MinSamples /\ Undisputed(agreement_window)
                  => s[Len(s)] < 40 \/ Len(s) * s[Len(s)] < SumOf(s)]_routerVars
  BY RouterStep, SentStep DEF BandCrossed, AverageCrossed
<1> QED
  BY <1>1, RouterStart, RouterSafe, PTL
     DEF RoutersSpec, RoutersConsistent, DeadBandCrossed, SentBelowAverage

(***************************************************************************)
(* DebugFrames, for every limit in time (but none at all) and number: what *)
(* a frame leaves is at most one picture, because the first one written    *)
(* closes the door for the rest of the frame.  Of a frame in which nothing *)
(* raises it is the first occasion, which for a spoof is its own rule.     *)
(***************************************************************************)
DebugSpec == DebugInit /\ [][DebugNext]_debugVars

\* The pictures there are, and their seconds.
DebugInv ==
  /\ DebugTypeOK /\ NoPictureReplaced /\ SpoofsInOneFolder
  /\ saves \in Nat /\ kept \in Nat /\ IsFiniteSet(pictures)
  /\ \A p \in pictures : p.second \in Int /\ p.second <= lastSave \div PerSecond

\* The writer before the frame, and after the picture it takes.
Before == [saves |-> saves, lastSave |-> lastSave, pictures |-> pictures, kept |-> kept]

After(event, write) ==
  [saves |-> saves + 1, lastSave |-> frameAt,
   pictures |-> IF write = "works" THEN pictures \cup {FileOf(event)} ELSE pictures,
   kept |-> IF write = "works" THEN kept + 1 ELSE kept]

\* Up to the k-th occasion either none was taken, or the first that did not
\* raise was.
Taken(events, writes, k, w) ==
  \/ w = Before
  \/ \E i \in 1 .. k :
       /\ Allowed(Before) /\ w = After(events[i], writes[i])
       /\ \A j \in 1 .. i - 1 : writes[j] = "raises"

LEMMA DebugNumbers ==
  /\ PerSecond \in Nat /\ PerSecond > 0 /\ MaxKept \in Nat /\ MaxKept > 0
  /\ SampleEvery \in Nat /\ SampleEvery > 0 /\ MinInterval \in Nat /\ LastFrame \in Nat /\ MinInterval <= LastFrame
BY DebugAssumption

\* What the writer does at one occasion.
LEMMA SaveTakes ==
  ASSUME MinInterval >= 1, frameAt \in Nat, NEW events, NEW writes, NEW k \in Nat,
         NEW w, Taken(events, writes, k, w),
         w = Before => \A j \in 1 .. k : Allowed(Before) => writes[j] = "raises"
  PROVE  LET v == Save(w, events[k + 1], writes[k + 1])
         IN  /\ Taken(events, writes, k + 1, v)
             /\ v = Before => \A j \in 1 .. k + 1 : Allowed(Before) => writes[j] = "raises"
<1> DEFINE v == Save(w, events[k + 1], writes[k + 1])
           e == events[k + 1]
           x == writes[k + 1]
<1>0. k + 1 \in 1 .. k + 1 /\ 1 .. (k + 1) - 1 = 1 .. k /\ 1 .. k \subseteq 1 .. k + 1
      /\ \A j \in 1 .. k + 1 : j = k + 1 \/ j \in 1 .. k
  OBVIOUS
<1>a. \A a, b : After(a, b) # Before \/ frameAt = lastSave
  BY DEF After, Before
<1>1. CASE w = Before
  <2>1. CASE ~Allowed(Before) \/ x = "raises"
    <3>1. v = Before
      BY <1>1, <2>1 DEF Save
    <3> QED
      BY <1>0, <1>1, <2>1, <3>1 DEF Taken
  <2>2. CASE Allowed(Before) /\ x # "raises"
    <3>1. v = After(e, x)
      BY <1>1, <2>2 DEF Save, After, Before
    <3>2. \A j \in 1 .. (k + 1) - 1 : writes[j] = "raises"
      BY <1>0, <1>1, <2>2
    <3>3. After(e, x) # Before
      <4>1. Before.lastSave = lastSave /\ After(e, x).saves = saves + 1 /\ Before.saves = saves
        BY DEF Before, After
      <4>2. frameAt - lastSave >= MinInterval
        BY <2>2, <4>1 DEF Allowed
      <4>3. After(e, x).lastSave = frameAt
        BY DEF After
      <4>4. frameAt # lastSave
        BY <4>2, DebugNumbers
      <4> QED
        BY <4>1, <4>3, <4>4
    <3> QED
      BY <1>0, <2>2, <3>1, <3>2, <3>3 DEF Taken
  <2> QED
    BY <2>1, <2>2
<1>2. CASE w # Before
  <2>1. PICK i \in 1 .. k : /\ Allowed(Before) /\ w = After(events[i], writes[i])
                            /\ \A j \in 1 .. i - 1 : writes[j] = "raises"
    BY <1>2 DEF Taken
  <2>2. w.lastSave = frameAt
    BY <2>1 DEF After
  <2>3. ~Allowed(w)
    BY <2>2, DebugNumbers DEF Allowed
  <2>4. v = w
    BY <2>3 DEF Save
  <2> QED
    BY <1>0, <1>2, <2>1, <2>4 DEF Taken
<1> QED
  BY <1>1, <1>2

LEMMA SaveAllTakes ==
  ASSUME MinInterval >= 1, frameAt \in Nat, NEW T, NEW events \in Seq(T), NEW writes
  PROVE  Taken(events, writes, Len(events), SaveAll(events, writes))
<1> DEFINE n == Len(events)
           Eq(h) == h = [k \in 0 .. n |->
                           IF k = 0 THEN Before ELSE Save(h[k - 1], events[k], writes[k])]
           w == CHOOSE h : Eq(h)
           Upto(h, k) == /\ DOMAIN h = 0 .. k /\ h[0] = Before
                         /\ \A i \in 1 .. k : h[i] = Save(h[i - 1], events[i], writes[i])
           D == {k \in Nat : k <= n => \E h : Upto(h, k)}
<1>0. n \in Nat
  OBVIOUS
<1>1. 0 \in D
  <2>1. Upto([i \in 0 .. 0 |-> Before], 0)
    OBVIOUS
  <2> QED
    BY <2>1
<1>2. ASSUME NEW k \in Nat, k \in D PROVE k + 1 \in D
  <2> SUFFICES ASSUME k + 1 <= n PROVE \E h : Upto(h, k + 1)
    BY k + 1 \in Nat, Zenon
  <2>1. PICK g : Upto(g, k)
    BY <1>0, <1>2
  <2> DEFINE h == [i \in 0 .. k + 1 |->
                     IF i = k + 1 THEN Save(g[k], events[k + 1], writes[k + 1]) ELSE g[i]]
  <2>2. DOMAIN h = 0 .. k + 1 /\ h[0] = Before
    BY <1>0, <2>1
  <2>3. ASSUME NEW i \in 1 .. k + 1 PROVE h[i] = Save(h[i - 1], events[i], writes[i])
    <3>1. CASE i = k + 1
      <4>1. i \in 0 .. k + 1 /\ i - 1 \in 0 .. k + 1 /\ i - 1 # k + 1 /\ i - 1 = k
        BY <3>1
      <4>2. h[i] = Save(g[k], events[k + 1], writes[k + 1]) /\ h[i - 1] = g[k]
        BY <3>1, <4>1
      <4> QED
        BY <3>1, <4>2
    <3>2. CASE i # k + 1
      <4>1. i \in 1 .. k /\ i \in 0 .. k + 1 /\ i - 1 \in 0 .. k + 1 /\ i - 1 # k + 1
        BY <3>2
      <4>2. h[i] = g[i] /\ h[i - 1] = g[i - 1]
        BY <3>2, <4>1
      <4> QED
        BY <2>1, <4>1, <4>2
    <3> QED
      BY <3>1, <3>2
  <2> HIDE DEF h
  <2>4. Upto(h, k + 1)
    BY <2>2, <2>3
  <2> QED
    BY <2>4
<1>3. n \in D
  <2> HIDE DEF D
  <2> QED
    BY <1>0, <1>1, <1>2, SetInduction
<1>4. PICK g : Upto(g, n)
  BY <1>0, <1>3
<1>5. Eq(g)
  <2> DEFINE h == [k \in 0 .. n |-> IF k = 0 THEN Before ELSE Save(g[k - 1], events[k], writes[k])]
  <2>1. DOMAIN g = DOMAIN h
    BY <1>4
  <2>2. ASSUME NEW k \in 0 .. n PROVE g[k] = h[k]
    <3>1. k = 0 \/ k \in 1 .. n
      BY <1>0
    <3> QED
      BY <1>0, <1>4, <3>1
  <2>3. g = [k \in 0 .. n |-> g[k]]
    BY <1>4
  <2> QED
    BY <2>2, <2>3
<1>6. Eq(w)
  BY <1>5, Zenon
<1>7. SaveAll(events, writes) = w[n]
  BY DEF SaveAll, Before
<1> HIDE DEF w
<1> DEFINE Fine(k) == /\ Taken(events, writes, k, w[k])
                      /\ w[k] = Before => \A j \in 1 .. k : Allowed(Before) => writes[j] = "raises"
           S == {k \in Nat : k <= n => Fine(k)}
<1>8. 0 \in S
  <2>1. w[0] = Before
    BY <1>0, <1>6
  <2> QED
    BY <2>1 DEF Taken
<1>9. ASSUME NEW k \in Nat, k \in S PROVE k + 1 \in S
  <2> SUFFICES ASSUME k + 1 <= n PROVE Fine(k + 1)
    OBVIOUS
  <2>1. Fine(k)
    BY <1>0, <1>9
  <2>2. w[k + 1] = Save(w[k], events[k + 1], writes[k + 1])
    <3>1. k + 1 \in 0 .. n /\ k + 1 # 0 /\ (k + 1) - 1 = k
      BY <1>0
    <3> QED
      BY <1>6, <3>1
  <2> QED
    BY <2>1, <2>2, SaveTakes
<1>10. n \in S
  <2> HIDE DEF S
  <2> QED
    BY <1>0, <1>8, <1>9, SetInduction
<1> QED
  BY <1>0, <1>7, <1>10

\* The first occasion for a picture of a spoof is its own rule.
Leading(events) == events # <<>> => (events[1].spoof => events[1].folder = "spoof_cases")

\* A sequence of occasions, whatever is in them.
Occasions(s) == \E T : s \in Seq(T)

LEMMA Joined ==
  ASSUME NEW s, NEW t, Occasions(s), Occasions(t)
  PROVE  /\ Occasions(s \o t)
         /\ Leading(s) /\ Leading(t) => Leading(s \o t)
<1>1. PICK T, U : s \in Seq(T) /\ t \in Seq(U)
  BY DEF Occasions
<1>2. s \in Seq(T \cup U) /\ t \in Seq(T \cup U)
  BY <1>1
<1> DEFINE V == T \cup U
<1> HIDE DEF V
<1>3. s \o t \in Seq(V) /\ Len(s) \in Nat /\ Len(t) \in Nat /\ Len(s \o t) = Len(s) + Len(t)
  BY <1>2 DEF V
<1>4. CASE s = <<>>
  <2>1. s \o t = t
    BY <1>2, <1>4
  <2> QED
    BY <1>3, <2>1 DEF Occasions
<1>5. CASE s # <<>>
  <2>1. Len(s) >= 1 /\ (s \o t)[1] = s[1]
    BY <1>2, <1>5 DEF V
  <2> QED
    BY <1>3, <1>5, <2>1 DEF Occasions, Leading
<1> QED
  BY <1>4, <1>5

LEMMA EventsLead ==
  ASSUME NEW t \in TrackSeen
  PROVE  Occasions(classify_debug_events(t)) /\ Leading(classify_debug_events(t))
<1>1. ASSUME NEW applies, NEW folder, NEW tag
      PROVE  /\ Occasions(Occasion(applies, folder, tag, t))
             /\ ~t.spoof \/ folder = "spoof_cases" => Leading(Occasion(applies, folder, tag, t))
  <2> DEFINE e == [folder |-> folder, tag |-> tag, track |-> t.track, spoof |-> t.spoof]
  <2>1. \A x : <<x>> \in Seq({x}) /\ <<x>>[1] = x
    OBVIOUS
  <2>2. <<>> \in Seq({})
    OBVIOUS
  <2>3. e.spoof = t.spoof /\ e.folder = folder
    OBVIOUS
  <2> HIDE DEF e
  <2>4. Occasion(applies, folder, tag, t) = IF applies THEN <<e>> ELSE <<>>
    BY DEF Occasion, e
  <2> QED
    BY <2>1, <2>2, <2>3, <2>4 DEF Occasions, Leading
<1> DEFINE a == Occasion(t.spoof, "spoof_cases", "SPOOF", t)
           b == Occasion(t.decision = "REJECTED_LIVENESS" \/ t.spoof, "liveness_failures",
                         t.decision, t)
           c == Occasion(t.decision \in {"BELOW_THRESHOLD", "OFFLOAD_TO_CLOUD"},
                         "borderline_recognition", t.decision, t)
           d == Occasion(t.low /\ t.decision # "NO_MATCH", "low_detection_conf", "yunet_low", t)
<1>2. Occasions(a) /\ Occasions(b) /\ Occasions(c) /\ Occasions(d)
  BY <1>1
<1>3. Leading(a)
  BY <1>1
<1>4. classify_debug_events(t) = ((a \o b) \o c) \o d
  BY DEF classify_debug_events
<1>5. CASE ~t.spoof
  <2>1. Leading(b) /\ Leading(c) /\ Leading(d)
    BY <1>1, <1>5
  <2> HIDE DEF a, b, c, d
  <2>2. Occasions(a \o b) /\ Leading(a \o b)
    BY <1>2, <1>3, <2>1, Joined
  <2>3. Occasions((a \o b) \o c) /\ Leading((a \o b) \o c)
    BY <1>2, <2>1, <2>2, Joined
  <2> QED
    BY <1>2, <1>4, <2>1, <2>3, Joined
<1>6. CASE t.spoof
  <2>1. a # <<>>
    BY <1>6 DEF Occasion
  <2>2. ASSUME NEW s, Occasions(s), s # <<>>, Leading(s), NEW u, Occasions(u)
        PROVE  Occasions(s \o u) /\ s \o u # <<>> /\ Leading(s \o u)
    <3>1. PICK T, U : s \in Seq(T) /\ u \in Seq(U)
      BY <2>2 DEF Occasions
    <3> DEFINE V == T \cup U
    <3>2. s \in Seq(V) /\ u \in Seq(V)
      BY <3>1
    <3> HIDE DEF V
    <3>3. s \o u \in Seq(V) /\ s \o u # <<>> /\ (s \o u)[1] = s[1]
      BY <2>2, <3>2
    <3> QED
      BY <2>2, <3>3 DEF Occasions, Leading
  <2> HIDE DEF a, b, c, d
  <2>3. Occasions(a \o b) /\ a \o b # <<>> /\ Leading(a \o b)
    BY <1>2, <1>3, <2>1, <2>2
  <2>4. Occasions((a \o b) \o c) /\ (a \o b) \o c # <<>> /\ Leading((a \o b) \o c)
    BY <1>2, <2>2, <2>3
  <2> QED
    BY <1>2, <1>4, <2>2, <2>4
<1> QED
  BY <1>5, <1>6

\* What a loop over one or two tracks puts together.
LEMMA FlattenedOne ==
  ASSUME NEW a
  PROVE  FlattenSeq(<<a>>) = a
<1> DEFINE Eq(h) == h = [i \in 1 .. Len(<<a>>) |-> IF i = 1 THEN <<a>>[i] ELSE h[i - 1] \o <<a>>[i]]
           f == CHOOSE h : Eq(h)
<1>0. Len(<<a>>) = 1 /\ <<a>>[1] = a /\ 1 .. 1 = {1}
  OBVIOUS
<1>1. Eq([i \in {1} |-> a])
  BY <1>0
<1>2. Eq(f)
  BY <1>1, Zenon
<1>3. FlattenSeq(<<a>>) = f[1]
  BY <1>0 DEF FlattenSeq
<1> HIDE DEF f
<1>4. f[1] = a
  BY <1>0, <1>2
<1> QED
  BY <1>3, <1>4

LEMMA FlattenedTwo ==
  ASSUME NEW a, NEW b
  PROVE  FlattenSeq(<<a, b>>) = a \o b
<1> DEFINE s == <<a, b>>
           Eq(h) == h = [i \in 1 .. Len(s) |-> IF i = 1 THEN s[i] ELSE h[i - 1] \o s[i]]
           f == CHOOSE h : Eq(h)
           g == [i \in 1 .. 2 |-> IF i = 1 THEN a ELSE a \o b]
<1>0. Len(s) = 2 /\ s[1] = a /\ s[2] = b /\ 1 .. 2 = {1, 2} /\ 2 - 1 = 1 /\ 2 # 1
  OBVIOUS
<1>1. Eq(g)
  <2>1. g[1] = a /\ g[2] = a \o b
    OBVIOUS
  <2>2. ASSUME NEW i \in 1 .. 2
        PROVE  (IF i = 1 THEN a ELSE a \o b) = IF i = 1 THEN s[i] ELSE g[i - 1] \o s[i]
    BY <1>0, <2>1
  <2> QED
    BY <1>0, <2>2
<1>2. Eq(f)
  BY <1>1, Zenon
<1>3. FlattenSeq(s) = f[2]
  BY <1>0 DEF FlattenSeq
<1> HIDE DEF f
<1>4. f[1] = a
  BY <1>0, <1>2
<1>5. f[2] = a \o b
  BY <1>0, <1>2, <1>4
<1> QED
  BY <1>3, <1>5

\* The tracks a frame may have.
TrackLists == {<<>>} \cup {<<t>> : t \in TrackSeen}
           \cup {<<t, u>> : t \in {x \in TrackSeen : x.track = 1},
                            u \in {x \in TrackSeen : x.track = 2}}

EventsOf(tracks) ==
  IF tracks = <<>> THEN <<>>
  ELSE FlattenSeq([i \in DOMAIN tracks |-> classify_debug_events(tracks[i])]) \o Sampled

LEMMA FrameLeads ==
  ASSUME NEW tracks \in TrackLists
  PROVE  Occasions(EventsOf(tracks)) /\ Leading(EventsOf(tracks))
<1>1. Occasions(<<>>) /\ Leading(<<>>)
  BY <<>> \in Seq({}) DEF Occasions, Leading
<1>2. Occasions(Sampled) /\ Leading(Sampled)
  <2> DEFINE e == [folder |-> "sampled", tag |-> "every_n", track |-> frameAt, spoof |-> FALSE]
  <2>1. e.spoof = FALSE
    OBVIOUS
  <2>2. Sampled = <<e>> \/ Sampled = <<>>
    BY DEF Sampled
  <2> HIDE DEF e
  <2>3. <<e>> \in Seq({e}) /\ <<e>>[1] = e
    OBVIOUS
  <2> QED
    BY <1>1, <2>1, <2>2, <2>3 DEF Occasions, Leading
<1>3. CASE tracks = <<>>
  BY <1>1, <1>3 DEF EventsOf
<1>4. ASSUME NEW t \in TrackSeen, tracks = <<t>>
      PROVE  Occasions(EventsOf(tracks)) /\ Leading(EventsOf(tracks))
  <2>1. tracks # <<>> /\ [i \in DOMAIN tracks |-> classify_debug_events(tracks[i])]
                           = <<classify_debug_events(t)>>
    <3> DEFINE c == [x \in {t} |-> classify_debug_events(x)]
    <3>1. [i \in DOMAIN tracks |-> c[tracks[i]]] = <<c[t]>>
      <4> HIDE DEF c
      <4> QED
        BY <1>4
    <3>2. \A i \in DOMAIN tracks : tracks[i] = t
      BY <1>4
    <3>3. c[t] = classify_debug_events(t)
      OBVIOUS
    <3> HIDE DEF c
    <3>4. [i \in DOMAIN tracks |-> classify_debug_events(tracks[i])]
             = [i \in DOMAIN tracks |-> c[tracks[i]]]
      BY <3>2, <3>3
    <3> QED
      BY <1>4, <3>1, <3>3, <3>4
  <2>2. EventsOf(tracks) = classify_debug_events(t) \o Sampled
    BY <2>1, FlattenedOne DEF EventsOf
  <2> QED
    BY <1>2, <2>2, EventsLead, Joined
<1>5. ASSUME NEW t \in TrackSeen, NEW u \in TrackSeen, tracks = <<t, u>>
      PROVE  Occasions(EventsOf(tracks)) /\ Leading(EventsOf(tracks))
  <2> DEFINE a == classify_debug_events(t)
             b == classify_debug_events(u)
  <2>1. tracks # <<>> /\ [i \in DOMAIN tracks |-> classify_debug_events(tracks[i])] = <<a, b>>
    <3>1. DOMAIN tracks = 1 .. 2 /\ tracks[1] = t /\ tracks[2] = u
      BY <1>5
    <3>2. \A i \in 1 .. 2 : i = 1 \/ i = 2
      OBVIOUS
    <3>3. ASSUME NEW i \in 1 .. 2 PROVE classify_debug_events(tracks[i]) = <<a, b>>[i]
      <4>1. CASE i = 1
        <5>1. <<a, b>>[1] = a
          OBVIOUS
        <5> QED
          BY <3>1, <4>1, <5>1
      <4>2. CASE i = 2
        <5>1. <<a, b>>[2] = b
          OBVIOUS
        <5> QED
          BY <3>1, <4>2, <5>1
      <4> QED
        BY <3>2, <4>1, <4>2
    <3> HIDE DEF a, b
    <3>4. <<a, b>> = [i \in 1 .. 2 |-> <<a, b>>[i]]
      OBVIOUS
    <3> QED
      BY <1>5, <3>1, <3>3, <3>4
  <2>2. EventsOf(tracks) = (a \o b) \o Sampled
    BY <2>1, FlattenedTwo DEF EventsOf
  <2>3. Occasions(a) /\ Leading(a) /\ Occasions(b) /\ Leading(b)
    BY EventsLead
  <2> HIDE DEF a, b
  <2>4. Occasions(a \o b) /\ Leading(a \o b)
    BY <2>3, Joined
  <2> QED
    BY <1>2, <2>2, <2>4, Joined
<1> QED
  BY <1>3, <1>4, <1>5 DEF TrackLists

\* A later frame by the limit is a later second, if the limit is as long.
LEMMA LaterSecond ==
  ASSUME NEW a \in Nat, NEW b \in Nat, a - b >= PerSecond
  PROVE  b \div PerSecond < a \div PerSecond
<1> DEFINE p == PerSecond
           q == a \div p
           r == b \div p
<1>0. p \in Nat /\ p > 0
  BY DebugNumbers
<1> HIDE DEF p
<1>1. q \in Nat /\ r \in Nat
  BY <1>0
<1>2. a < (q + 1) * p /\ r * p <= b
  <2>1. a = p * q + (a % p) /\ a % p \in 0 .. p - 1
    BY <1>0
  <2>2. b = p * r + (b % p) /\ b % p \in 0 .. p - 1
    BY <1>0
  <2> QED
    BY <1>0, <1>1, <2>1, <2>2
<1> HIDE DEF q, r
<1>3. (r + 1) * p < (q + 1) * p
  <2>1. (r + 1) * p = r * p + p
    BY <1>0, <1>1
  <2>2. r * p + p <= a
    BY <1>0, <1>1, <1>2 DEF p
  <2> QED
    BY <1>0, <1>1, <1>2, <2>1, <2>2
<1>4. ASSUME q <= r PROVE FALSE
  <2>1. PICK d \in Nat : r + 1 = (q + 1) + d
    BY <1>1, <1>4, r - q \in Nat
  <2>2. (r + 1) * p = (q + 1) * p + d * p /\ d * p \in Nat
    BY <1>0, <1>1, <2>1
  <2>3. (r + 1) * p \in Nat /\ (q + 1) * p \in Nat
    BY <1>0, <1>1
  <2> QED
    BY <1>3, <2>2, <2>3
<1>5. r < q
  BY <1>1, <1>4
<1> QED
  BY <1>5 DEF p, q, r

-----------------------------------------------------------------------------
LEMMA DebugStart == DebugInit => DebugInv
<1> SUFFICES ASSUME DebugInit PROVE DebugInv
  OBVIOUS
<1>1. IsFiniteSet(pictures) /\ Cardinality(pictures) = 0
  BY FS_EmptySet DEF DebugInit
<1>2. frameAt = MinInterval /\ saves = 0 /\ lastSave = 0 /\ pictures = {} /\ kept = 0
      /\ raised = FALSE
  BY DEF DebugInit
<1>3. DebugTypeOK
  <2>1. frameAt \in MinInterval .. LastFrame
    BY <1>2, DebugNumbers
  <2>2. saves \in 0 .. MaxKept
    BY <1>2, DebugNumbers
  <2>3. lastSave \in 0 .. frameAt
    BY <1>2, DebugNumbers
  <2>4. Cardinality(pictures) <= kept /\ kept <= saves
    BY <1>1, <1>2
  <2>5. raised \in BOOLEAN
    BY <1>2
  <2> QED
    BY <2>1, <2>2, <2>3, <2>4, <2>5, Zenon DEF DebugTypeOK
<1>4. NoPictureReplaced
  BY <1>1, <1>2 DEF NoPictureReplaced
<1>5. SpoofsInOneFolder
  BY <1>2 DEF SpoofsInOneFolder
<1> QED
  BY <1>1, <1>2, <1>3, <1>4, <1>5 DEF DebugInv

LEMMA SecondsOrdered ==
  ASSUME NEW a \in Nat, NEW b \in Nat, b <= a
  PROVE  a \div PerSecond \in Int /\ b \div PerSecond <= a \div PerSecond
<1> DEFINE p == PerSecond
           q == a \div p
           r == b \div p
<1>0. p \in Nat /\ p > 0
  BY DebugNumbers
<1> HIDE DEF p
<1>1. q \in Nat /\ r \in Nat
  BY <1>0
<1>2. a < (q + 1) * p /\ r * p <= b
  <2>1. a = p * q + (a % p) /\ a % p \in 0 .. p - 1
    BY <1>0
  <2>2. b = p * r + (b % p) /\ b % p \in 0 .. p - 1
    BY <1>0
  <2> QED
    BY <1>0, <1>1, <2>1, <2>2
<1> HIDE DEF q, r
<1>3. ASSUME q + 1 <= r PROVE FALSE
  <2>1. PICK d \in Nat : r = (q + 1) + d
    BY <1>1, <1>3, r - (q + 1) \in Nat
  <2>2. r * p = (q + 1) * p + d * p /\ d * p \in Nat /\ (q + 1) * p \in Nat
    BY <1>0, <1>1, <2>1
  <2> QED
    BY <1>2, <2>2
<1>4. r <= q
  BY <1>1, <1>3
<1> QED
  BY <1>1, <1>4 DEF p, q, r

LEMMA DebugStep ==
  ASSUME MinInterval >= 1, DebugInv, DebugNext
  PROVE  DebugInv' /\ kept' <= kept + 1
<1>1. PICK tracks \in TrackLists : DebugFrame(tracks)
  BY DEF DebugNext, TrackLists
<1> DEFINE events == EventsOf(tracks)
<1>2. PICK writes \in Writes(events) :
        \E w \in {SaveAll(events, writes)} :
          /\ saves' = w.saves /\ lastSave' = w.lastSave
          /\ pictures' = w.pictures /\ kept' = w.kept
          /\ raised' = (raised \/ "raises" \in ToSet(writes))
  BY <1>1 DEF DebugFrame, EventsOf
<1>3. frameAt < LastFrame /\ frameAt' = frameAt + 1
  BY <1>1 DEF DebugFrame
<1>4. /\ frameAt \in Nat /\ MinInterval <= frameAt /\ lastSave \in Nat /\ lastSave <= frameAt
      /\ saves \in Nat /\ saves <= MaxKept /\ kept \in Nat /\ kept <= saves
      /\ IsFiniteSet(pictures) /\ Cardinality(pictures) \in Nat /\ Cardinality(pictures) <= kept
      /\ raised \in BOOLEAN
  BY DebugNumbers, FS_CardinalityType DEF DebugInv, DebugTypeOK
<1>5. Occasions(events) /\ Leading(events)
  BY FrameLeads
<1>6. DOMAIN writes = DOMAIN events
  BY DEF Writes
<1> HIDE DEF events
<1>7. Len(events) \in Nat /\ DOMAIN events = 1 .. Len(events) /\ (events = <<>> <=> Len(events) = 0)
  BY <1>5 DEF Occasions
<1> DEFINE w == SaveAll(events, writes)
<1>8. /\ saves' = w.saves /\ lastSave' = w.lastSave /\ pictures' = w.pictures /\ kept' = w.kept
      /\ raised' = (raised \/ "raises" \in ToSet(writes))
  BY <1>2
<1>9. Taken(events, writes, Len(events), w)
  BY <1>4, <1>5, SaveAllTakes DEF Occasions
<1> HIDE DEF w
<1>10. raised' \in BOOLEAN
  BY <1>8
<1>11. \A p \in pictures : p.second \in Int /\ p.second <= lastSave \div PerSecond
  BY DEF DebugInv
<1>12. frameAt \div PerSecond \in Int /\ lastSave \div PerSecond \in Int
       /\ lastSave \div PerSecond <= frameAt \div PerSecond
  BY <1>4, SecondsOrdered
<1>13. CASE w = Before
  <2>1. saves' = saves /\ lastSave' = lastSave /\ pictures' = pictures /\ kept' = kept
    BY <1>8, <1>13 DEF Before
  <2>2. DebugTypeOK'
    BY <1>3, <1>4, <1>10, <2>1, DebugNumbers DEF DebugTypeOK
  <2>3. NoPictureReplaced'
    BY <2>1 DEF DebugInv, NoPictureReplaced
  <2>4. SpoofsInOneFolder'
    BY <1>8, <2>1 DEF DebugInv, SpoofsInOneFolder
  <2> QED
    BY <1>4, <1>11, <2>1, <2>2, <2>3, <2>4 DEF DebugInv
<1>14. ASSUME NEW i \in 1 .. Len(events), Allowed(Before), w = After(events[i], writes[i]),
              \A j \in 1 .. i - 1 : writes[j] = "raises"
       PROVE  DebugInv' /\ kept' <= kept + 1
  <2>1. saves < MaxKept /\ frameAt - lastSave >= MinInterval
    BY <1>14 DEF Allowed, Before
  <2>2. saves' = saves + 1 /\ lastSave' = frameAt
    BY <1>8, <1>14 DEF After
  <2> DEFINE p == FileOf(events[i])
  <2>3. p.second = frameAt \div PerSecond /\ p.spoof = events[i].spoof /\ p.folder = events[i].folder
    BY DEF FileOf
  <2> HIDE DEF p
  <2>4. CASE writes[i] = "works"
    <3>1. pictures' = pictures \cup {p} /\ kept' = kept + 1
      BY <1>8, <1>14, <2>4 DEF After, p
    <3>2. /\ IsFiniteSet(pictures')
          /\ Cardinality(pictures') = IF p \in pictures THEN Cardinality(pictures)
                                      ELSE Cardinality(pictures) + 1
      BY <1>4, <3>1, FS_AddElement
    <3>3. DebugTypeOK'
      BY <1>3, <1>4, <1>10, <2>1, <2>2, <3>1, <3>2, DebugNumbers DEF DebugTypeOK
    <3>4. ASSUME MinInterval >= PerSecond PROVE p \notin pictures
      <4>1. frameAt - lastSave >= PerSecond
        BY <1>4, <2>1, <3>4, DebugNumbers
      <4>2. lastSave \div PerSecond < frameAt \div PerSecond
        BY <1>4, <4>1, LaterSecond
      <4> QED
        BY <1>11, <1>12, <2>3, <4>2
    <3>5. NoPictureReplaced'
      BY <3>1, <3>2, <3>4 DEF DebugInv, NoPictureReplaced
    <3>6. ASSUME ~raised' PROVE p.spoof => p.folder = "spoof_cases"
      <4>1. i = 1
        <5> SUFFICES ASSUME i # 1 PROVE FALSE
          OBVIOUS
        <5>1. 1 \in 1 .. i - 1 /\ 1 \in DOMAIN writes
          BY <1>6, <1>7
        <5>2. "raises" \in ToSet(writes)
          BY <1>14, <5>1 DEF ToSet
        <5> QED
          BY <1>8, <3>6, <5>2
      <4>2. events # <<>>
        BY <1>7
      <4> QED
        BY <1>5, <2>3, <4>1, <4>2 DEF Leading
    <3>7. SpoofsInOneFolder'
      BY <1>8, <3>1, <3>6 DEF DebugInv, SpoofsInOneFolder
    <3>8. \A x \in pictures' : x.second \in Int /\ x.second <= lastSave' \div PerSecond
      BY <1>11, <1>12, <2>2, <2>3, <3>1
    <3> QED
      BY <1>4, <2>2, <3>1, <3>2, <3>3, <3>5, <3>7, <3>8 DEF DebugInv
  <2>5. CASE writes[i] # "works"
    <3>1. pictures' = pictures /\ kept' = kept
      BY <1>8, <1>14, <2>5 DEF After
    <3>2. DebugTypeOK'
      BY <1>3, <1>4, <1>10, <2>1, <2>2, <3>1, DebugNumbers DEF DebugTypeOK
    <3>3. NoPictureReplaced'
      BY <3>1 DEF DebugInv, NoPictureReplaced
    <3>4. SpoofsInOneFolder'
      BY <1>8, <3>1 DEF DebugInv, SpoofsInOneFolder
    <3>5. \A x \in pictures' : x.second \in Int /\ x.second <= lastSave' \div PerSecond
      BY <1>11, <1>12, <2>2, <3>1
    <3> QED
      BY <1>4, <2>2, <3>1, <3>2, <3>3, <3>4, <3>5 DEF DebugInv
  <2> QED
    BY <2>4, <2>5
<1> QED
  BY <1>9, <1>13, <1>14 DEF Taken

\* With any limit in time a frame leaves one picture at most; each has a name
\* of its own if the limit is a second or more, and where writing never raises
\* no spoof is among the liveness failures.
THEOREM PicturesAreFew == DebugSpec /\ MinInterval >= 1 => PicturesAreKept
<1> SUFFICES ASSUME MinInterval >= 1 PROVE DebugSpec => PicturesAreKept
  OBVIOUS
<1>1. DebugInv /\ [DebugNext]_debugVars => DebugInv' /\ [kept' <= kept + 1]_debugVars
  <2>1. CASE DebugNext
    BY <2>1, DebugStep
  <2>2. CASE UNCHANGED debugVars
    BY <2>2 DEF debugVars, DebugInv, DebugTypeOK, NoPictureReplaced, SpoofsInOneFolder
  <2> QED
    BY <2>1, <2>2
<1>2. DebugInv => DebugTypeOK /\ NoPictureReplaced /\ SpoofsInOneFolder
  BY DEF DebugInv
<1> QED
  BY <1>1, <1>2, DebugStart, PTL DEF DebugSpec, PicturesAreKept, OnePerFrame

-----------------------------------------------------------------------------
(***************************************************************************)
(* RunFiles, for any logs, number of runs and versions of the columns, any *)
(* interval between flushes and any number of power cuts.                  *)
(*                                                                         *)
(* None of the four invariants of RunsAreKept is inductive.  A file never  *)
(* holds two headers because HeaderedFile fixes where the only one is, and *)
(* because what waits in a buffer Fits the file it is meant for.  A report *)
(* misses one row at most because the halves a run appends stay paired     *)
(* (NotTornSince), so that only the first of them can follow a torn one,   *)
(* and that one was there before the run: then power has failed            *)
(* (TornByCuts).                                                           *)
(***************************************************************************)
FilesSpec == FilesInit /\ [][FilesNext]_filesVars

RowOfFile == Nat \X Nat
HalfRow == Nat \X Nat \X {1, 2}

FilesTypes ==
  /\ columns \in Programs /\ clock \in Second /\ stage \in Stages
  /\ runNo \in 0 .. Len(columns) /\ session \in Second
  /\ logsLeft \in Seq(Log) /\ frameNo \in 0 .. FramesOfRun /\ cuts \in 0 .. MaxCuts
  /\ buffer \in [Log -> Seq(RowOfFile)] /\ disk \in [Second \X Log -> Seq(HalfRow)]
  /\ archived \in [Second \X Log \X Second -> Seq(HalfRow)]
  /\ snapshot \in [Second -> Nat] /\ safe \in [Log -> Nat] /\ wrote \in [Log -> SUBSET RowOfFile]

\* A file begins with a header, if torn perhaps, and has no other; its rows
\* are of the header's version.
HeaderedFile(file, cols) ==
  /\ Len(file) > 0 => file[1][1] \in 1 .. Len(cols) /\ file[1][2] = 0 /\ file[1][3] = 1
  /\ Len(file) > 1 => file[2] = Append(RowAt(file, 1), 2)
  /\ \A i \in 3 .. Len(file) : /\ file[i][1] \in 1 .. Len(cols) /\ file[i][2] # 0
                               /\ cols[file[i][1]] = cols[file[1][1]]

AllHeadered ==
  /\ \A f \in Second \X Log : HeaderedFile(disk[f], columns)
  /\ \A f \in Second \X Log \X Second : HeaderedFile(archived[f], columns)

\* The first i halves do not end in the middle of a row.
LastHalf(file, i) == i > 0 => file[i][3] = 2

TornByCuts ==
  cuts = 0 => /\ \A f \in Second \X Log : LastHalf(disk[f], Len(disk[f]))
              /\ \A l \in Log : LastHalf(disk[<<session, l>>], safe[l])

\* A row that begins behind the first i halves ends there.
NotTornSince(file, i) ==
  \A k \in i + 1 .. Len(file) : file[k][3] = 1 => RowFrom(file, k)

InFile(row, file, i) == \E k \in i + 1 .. Len(file) : RowFrom(file, k) /\ RowAt(file, k) = row

\* The rows a run has for a file: a header first, if and only if there is none.
Fits(file, rows, cols, run, upTo) ==
  /\ file = <<>> => rows # <<>>
  /\ file # <<>> => Len(file) > 1 /\ cols[file[1][1]] = cols[run]
  /\ \A k \in 1 .. Len(rows) :
       /\ rows[k][1] = run
       /\ IF file = <<>> /\ k = 1 THEN rows[k][2] = 0 ELSE rows[k][2] \in 1 .. upTo

RunIsUp ==
  stage # "off" =>
    /\ runNo > 0 /\ snapshot[session] = runNo /\ report.run = 0
    /\ \A l \in Log :
         /\ NotTornSince(disk[<<session, l>>], safe[l])
         /\ \A row \in wrote[l] :
              /\ row[1] = runNo /\ row[2] \in 1 .. frameNo
              /\ row \in ToSet(buffer[l]) \/ InFile(row, disk[<<session, l>>], safe[l])

StageHolds ==
  /\ stage \in {"off", "reporting"} => buffer = Empty
  /\ stage = "off" => frameNo = 0
  /\ stage = "opening" =>
       /\ frameNo = 0
       /\ \A l \in Log :
            /\ \/ buffer[l] = <<>>
               \/ disk[<<session, l>>] = <<>> /\ buffer[l] = <<<<runNo, 0>>>>
            /\ \/ l \in ToSet(logsLeft)
               \/ Fits(disk[<<session, l>>], buffer[l], columns, runNo, frameNo)
  /\ stage \in {"running", "flushing", "closing"} =>
       \A l \in Log : Fits(disk[<<session, l>>], buffer[l], columns, runNo, frameNo)
  /\ stage = "running" =>
       \A l \in Log :
         /\ Len(buffer[l]) <= (frameNo % FlushEvery) + 1
         /\ \A k \in 1 .. Len(buffer[l]) :
              buffer[l][k][2] = 0 \/ buffer[l][k][2] > frameNo - (frameNo % FlushEvery)
  /\ stage \in {"flushing", "closing"} =>
       \A l \in Log : Len(buffer[l]) <= IF l \in ToSet(logsLeft) THEN FlushEvery + 1 ELSE 0
  /\ stage = "flushing" => frameNo % FlushEvery = 0

SafeIsThere == \A l \in Log : safe[l] <= Len(disk[<<session, l>>])

FInv ==
  /\ FilesTypes /\ AllHeadered /\ TornByCuts /\ SafeIsThere /\ RunIsUp /\ StageHolds
  /\ ReportComplete

\* Disk when the buffers of these logs have been written out.
DiskAfter(logs) ==
  [f \in Second \X Log |-> IF f[1] = session /\ f[2] \in logs
                           THEN disk[f] \o Halves(buffer[f[2]]) ELSE disk[f]]

\* What can be read from all files.
Readable == UNION {WholeRows(file) : file \in AllFiles}

-----------------------------------------------------------------------------
(* Rows and halves.                                                        *)

LEMMA AppendToPair ==
  ASSUME NEW a \in Nat, NEW b \in Nat, NEW h \in Nat
  PROVE  Append(<<a, b>>, h) = <<a, b, h>>
<1> DEFINE s == Append(<<a, b>>, h)
           t == <<a, b, h>>
<1>1. <<a, b>> \in Seq(Nat) /\ Len(<<a, b>>) = 2 /\ t \in Seq(Nat) /\ Len(t) = 3
  OBVIOUS
<1>2. s \in Seq(Nat) /\ Len(s) = 3
  BY <1>1
<1>3. s[1] = a /\ s[2] = b
  BY <1>1
<1>4. s[3] = h
  BY <1>1
<1>5. \A i \in 1 .. 3 : s[i] = t[i]
  BY <1>3, <1>4
<1>6. \A u, v \in Seq(Nat) : Len(u) = Len(v) /\ (\A i \in 1 .. Len(u) : u[i] = v[i]) => u = v
  OBVIOUS
<1> HIDE DEF s, t
<1>7. s = t
  BY <1>1, <1>2, <1>5, <1>6
<1> QED
  BY <1>7 DEF s, t

LEMMA AppendHalf ==
  ASSUME NEW row \in RowOfFile, NEW h \in {1, 2}
  PROVE  Append(row, h) = <<row[1], row[2], h>> /\ Append(row, h) \in HalfRow
<1>1. PICK a \in Nat, b \in Nat : row = <<a, b>>
  BY DEF RowOfFile
<1>2. Append(row, h) = <<a, b, h>>
  BY <1>1, AppendToPair
<1> QED
  BY <1>1, <1>2 DEF HalfRow

LEMMA RowOfHalf ==
  ASSUME NEW file \in Seq(HalfRow), NEW i \in 1 .. Len(file)
  PROVE  /\ file[i][1] \in Nat /\ file[i][2] \in Nat /\ file[i][3] \in {1, 2}
         /\ RowAt(file, i) \in RowOfFile
         /\ file[i] = Append(RowAt(file, i), file[i][3])
<1>1. file[i] \in HalfRow
  OBVIOUS
<1>2. PICK a \in Nat, b \in Nat, h \in {1, 2} : file[i] = <<a, b, h>>
  BY <1>1 DEF HalfRow
<1>3. RowAt(file, i) = <<a, b>>
  BY <1>2 DEF RowAt
<1>4. Append(<<a, b>>, h) = <<a, b, h>>
  BY AppendToPair
<1> QED
  BY <1>2, <1>3, <1>4 DEF RowOfFile

\* Each row is two halves, in the order of the rows.
LEMMA HalvesOf ==
  ASSUME NEW rows \in Seq(RowOfFile)
  PROVE  /\ Halves(rows) \in Seq(HalfRow) /\ Len(Halves(rows)) = 2 * Len(rows)
         /\ \A k \in 1 .. Len(rows) :
              /\ Halves(rows)[2 * k - 1] = Append(rows[k], 1)
              /\ Halves(rows)[2 * k] = Append(rows[k], 2)
         /\ \A i \in 1 .. 2 * Len(rows) :
              \E k \in 1 .. Len(rows) : i = 2 * k - 1 \/ i = 2 * k
<1> DEFINE m == Len(rows)
<1>1. m \in Nat /\ \A k \in 1 .. m : rows[k] \in RowOfFile
  OBVIOUS
<1>2. ASSUME NEW i \in 1 .. 2 * m
      PROVE  /\ (i + 1) \div 2 \in 1 .. m
             /\ i % 2 = 1 => i = 2 * ((i + 1) \div 2) - 1
             /\ i % 2 # 1 => i = 2 * ((i + 1) \div 2)
  BY <1>1
<1>3. ASSUME NEW k \in 1 .. m
      PROVE  /\ 2 * k - 1 \in 1 .. 2 * m /\ ((2 * k - 1) + 1) \div 2 = k /\ (2 * k - 1) % 2 = 1
             /\ 2 * k \in 1 .. 2 * m /\ (2 * k + 1) \div 2 = k /\ (2 * k) % 2 = 0
  BY <1>1
<1>4. ASSUME NEW i \in 1 .. 2 * m
      PROVE  Append(rows[(i + 1) \div 2], IF i % 2 = 1 THEN 1 ELSE 2) \in HalfRow
  <2>1. rows[(i + 1) \div 2] \in RowOfFile
    BY <1>1, <1>2
  <2>2. (IF i % 2 = 1 THEN 1 ELSE 2) \in {1, 2}
    OBVIOUS
  <2> QED
    BY <2>1, <2>2, AppendHalf
<1>5. Halves(rows) \in [1 .. 2 * m -> HalfRow]
  BY <1>4 DEF Halves
<1>6. Halves(rows) \in Seq(HalfRow) /\ Len(Halves(rows)) = 2 * m
  BY <1>1, <1>5
<1>7. ASSUME NEW k \in 1 .. m
      PROVE  /\ Halves(rows)[2 * k - 1] = Append(rows[k], 1)
             /\ Halves(rows)[2 * k] = Append(rows[k], 2)
  <2>1. Halves(rows)[2 * k - 1] = Append(rows[((2 * k - 1) + 1) \div 2],
                                         IF (2 * k - 1) % 2 = 1 THEN 1 ELSE 2)
    BY <1>3 DEF Halves
  <2>2. Halves(rows)[2 * k] = Append(rows[(2 * k + 1) \div 2], IF (2 * k) % 2 = 1 THEN 1 ELSE 2)
    BY <1>3 DEF Halves
  <2> QED
    BY <1>3, <2>1, <2>2
<1> QED
  BY <1>2, <1>6, <1>7

LEMMA FilesJoined ==
  ASSUME NEW T, NEW s \in Seq(T), NEW t \in Seq(T)
  PROVE  /\ s \o t \in Seq(T) /\ Len(s) \in Nat /\ Len(t) \in Nat /\ Len(s \o t) = Len(s) + Len(t)
         /\ \A i \in 1 .. Len(s) : (s \o t)[i] = s[i]
         /\ \A i \in 1 .. Len(t) : (s \o t)[Len(s) + i] = t[i]
         /\ \A i \in Len(s) + 1 .. Len(s) + Len(t) :
              i - Len(s) \in 1 .. Len(t) /\ (s \o t)[i] = t[i - Len(s)]
OBVIOUS

-----------------------------------------------------------------------------
(* What an append leaves of a file.                                        *)

LEMMA RowStays ==
  ASSUME NEW file \in Seq(HalfRow), NEW x \in Seq(HalfRow), NEW k \in 1 .. Len(file)
  PROVE  /\ RowAt(file \o x, k) = RowAt(file, k)
         /\ RowFrom(file, k) => RowFrom(file \o x, k)
<1>1. /\ DOMAIN file = 1 .. Len(file) /\ DOMAIN (file \o x) = 1 .. Len(file) + Len(x)
      /\ Len(file) \in Nat /\ Len(x) \in Nat
      /\ \A i \in 1 .. Len(file) : (file \o x)[i] = file[i]
  BY FilesJoined
<1>2. RowAt(file \o x, k) = RowAt(file, k)
  BY <1>1 DEF RowAt
<1> QED
  BY <1>1, <1>2 DEF RowFrom

\* An append makes no row unreadable.
LEMMA WholeRowsStay ==
  ASSUME NEW file \in Seq(HalfRow), NEW x \in Seq(HalfRow)
  PROVE  WholeRows(file) \subseteq WholeRows(file \o x)
<1> SUFFICES ASSUME NEW row \in WholeRows(file) PROVE row \in WholeRows(file \o x)
  OBVIOUS
<1>1. PICK k \in DOMAIN file : /\ RowFrom(file, k) /\ (k = 1 \/ file[k - 1][3] = 2)
                               /\ row = RowAt(file, k)
  BY DEF WholeRows
<1>2. /\ DOMAIN file = 1 .. Len(file) /\ DOMAIN (file \o x) = 1 .. Len(file) + Len(x)
      /\ Len(file) \in Nat /\ Len(x) \in Nat
      /\ \A i \in 1 .. Len(file) : (file \o x)[i] = file[i]
  BY FilesJoined
<1>3. RowFrom(file \o x, k) /\ RowAt(file \o x, k) = row
  BY <1>1, <1>2, RowStays
<1>4. k \in DOMAIN (file \o x) /\ (k = 1 \/ (file \o x)[k - 1][3] = 2)
  BY <1>1, <1>2
<1> QED
  BY <1>3, <1>4 DEF WholeRows

LEMMA RowsBehind ==
  ASSUME NEW file \in Seq(HalfRow), NEW rows \in Seq(RowOfFile), NEW k \in 1 .. Len(rows)
  PROVE  /\ RowFrom(file \o Halves(rows), Len(file) + 2 * k - 1)
         /\ RowAt(file \o Halves(rows), Len(file) + 2 * k - 1) = rows[k]
         /\ (file \o Halves(rows))[Len(file) + 2 * k - 1][3] = 1
         /\ (file \o Halves(rows))[Len(file) + 2 * k] = Append(rows[k], 2)
         /\ (file \o Halves(rows))[Len(file) + 2 * k][3] = 2
<1> DEFINE h == Halves(rows)
           g == file \o h
           n == Len(file)
<1>1. /\ h \in Seq(HalfRow) /\ Len(h) = 2 * Len(rows)
      /\ h[2 * k - 1] = Append(rows[k], 1) /\ h[2 * k] = Append(rows[k], 2)
  BY HalvesOf
<1> HIDE DEF h
<1>2. /\ n \in Nat /\ Len(rows) \in Nat /\ DOMAIN g = 1 .. n + 2 * Len(rows)
      /\ \A i \in 1 .. 2 * Len(rows) : g[n + i] = h[i]
  <2>1. g \in Seq(HalfRow) /\ n \in Nat /\ Len(g) = n + Len(h)
    <3>1. h \in Seq(HalfRow)
      BY <1>1
    <3> QED
      BY <3>1
  <2>2. \A i \in 1 .. Len(h) : g[n + i] = h[i]
    <3> HIDE DEF n
    <3> QED
      BY <1>1, FilesJoined DEF n
  <2> QED
    BY <1>1, <2>1, <2>2
<1>3. 2 * k - 1 \in 1 .. 2 * Len(rows) /\ 2 * k \in 1 .. 2 * Len(rows)
  BY <1>2
<1>4. g[n + (2 * k - 1)] = Append(rows[k], 1) /\ g[n + 2 * k] = Append(rows[k], 2)
  BY <1>1, <1>2, <1>3
<1>5. n + (2 * k - 1) = n + 2 * k - 1 /\ (n + 2 * k - 1) + 1 = n + 2 * k
  BY <1>2
<1>6. rows[k] \in RowOfFile /\ \E a, b \in Nat : rows[k] = <<a, b>>
  BY DEF RowOfFile
<1>7. /\ Append(rows[k], 1) = <<rows[k][1], rows[k][2], 1>>
      /\ Append(rows[k], 2) = <<rows[k][1], rows[k][2], 2>>
  BY <1>6, AppendHalf
<1>8. RowAt(g, n + 2 * k - 1) = rows[k]
  <2>1. g[n + 2 * k - 1] = <<rows[k][1], rows[k][2], 1>>
    BY <1>4, <1>5, <1>7
  <2>2. RowAt(g, n + 2 * k - 1) = <<rows[k][1], rows[k][2]>>
    BY <2>1 DEF RowAt
  <2> QED
    BY <1>6, <2>2
<1>9. g[n + 2 * k - 1][3] = 1 /\ g[n + 2 * k][3] = 2
  <2>1. \A a, b, c \in Nat : <<a, b, c>>[3] = c
    OBVIOUS
  <2>2. rows[k][1] \in Nat /\ rows[k][2] \in Nat
    BY <1>6
  <2>3. /\ g[n + 2 * k - 1] = <<rows[k][1], rows[k][2], 1>>
        /\ g[n + 2 * k] = <<rows[k][1], rows[k][2], 2>>
    BY <1>4, <1>5, <1>7
  <2> HIDE DEF g
  <2> QED
    BY <2>1, <2>2, <2>3
<1>10. RowFrom(g, n + 2 * k - 1)
  <2>1. n + 2 * k \in DOMAIN g
    BY <1>2, <1>3
  <2> QED
    BY <1>4, <1>5, <1>8, <1>9, <2>1 DEF RowFrom
<1> QED
  BY <1>4, <1>8, <1>9, <1>10 DEF h

LEMMA WrittenBehind ==
  ASSUME NEW file \in Seq(HalfRow), NEW rows \in Seq(RowOfFile), NEW s \in 0 .. Len(file)
  PROVE  /\ file \o Halves(rows) \in Seq(HalfRow)
         /\ Len(file) <= Len(file \o Halves(rows))
         /\ NotTornSince(file, s) => NotTornSince(file \o Halves(rows), s)
         /\ \A row : InFile(row, file, s) => InFile(row, file \o Halves(rows), s)
         /\ \A row \in ToSet(rows) : InFile(row, file \o Halves(rows), s)
         /\ LastHalf(file, s) => LastHalf(file \o Halves(rows), s)
         /\ LastHalf(file, Len(file)) =>
              LastHalf(file \o Halves(rows), Len(file \o Halves(rows)))
<1> DEFINE h == Halves(rows)
           g == file \o h
           n == Len(file)
           m == Len(rows)
<1>1. /\ h \in Seq(HalfRow) /\ Len(h) = 2 * m
      /\ \A i \in 1 .. 2 * m : \E k \in 1 .. m : i = 2 * k - 1 \/ i = 2 * k
  BY HalvesOf
<1>2. /\ n \in Nat /\ m \in Nat /\ g \in Seq(HalfRow) /\ Len(g) = n + 2 * m
      /\ \A i \in 1 .. n : g[i] = file[i]
      /\ \A i \in n + 1 .. n + 2 * m : i - n \in 1 .. 2 * m
      /\ DOMAIN rows = 1 .. m
  <2> HIDE DEF h
  <2>1. /\ g \in Seq(HalfRow) /\ n \in Nat /\ Len(g) = n + Len(h)
        /\ \A i \in 1 .. n : g[i] = file[i]
    <3>1. h \in Seq(HalfRow)
      BY <1>1
    <3> QED
      BY <3>1
  <2>2. m \in Nat /\ DOMAIN rows = 1 .. m
    OBVIOUS
  <2> QED
    BY <1>1, <2>1, <2>2
<1>3. \A k \in 1 .. m : /\ RowFrom(g, n + 2 * k - 1) /\ RowAt(g, n + 2 * k - 1) = rows[k]
                        /\ g[n + 2 * k - 1][3] = 1 /\ g[n + 2 * k][3] = 2
  BY RowsBehind
<1>4. \A k \in 1 .. n : RowAt(g, k) = RowAt(file, k) /\ (RowFrom(file, k) => RowFrom(g, k))
  BY <1>1, RowStays
<1> HIDE DEF h, g
<1>5. ASSUME NotTornSince(file, s) PROVE NotTornSince(g, s)
  <2> SUFFICES ASSUME NEW k \in s + 1 .. Len(g), g[k][3] = 1 PROVE RowFrom(g, k)
    BY DEF NotTornSince
  <2>1. CASE k <= n
    <3>1. k \in s + 1 .. Len(file) /\ k \in 1 .. n /\ file[k][3] = 1
      BY <1>2, <2>1
    <3> QED
      BY <1>4, <1>5, <3>1 DEF NotTornSince
  <2>2. CASE k > n
    <3>1. k - n \in 1 .. 2 * m
      BY <1>2, <2>2
    <3>2. PICK j \in 1 .. m : k - n = 2 * j - 1 \/ k - n = 2 * j
      BY <1>1, <3>1
    <3>3. k = n + 2 * j - 1 \/ k = n + 2 * j
      BY <1>2, <3>2
    <3> QED
      BY <1>3, <3>3
  <2> QED
    BY <1>2, <2>1, <2>2
<1>6. ASSUME NEW row, InFile(row, file, s) PROVE InFile(row, g, s)
  <2>1. PICK k \in s + 1 .. Len(file) : RowFrom(file, k) /\ RowAt(file, k) = row
    BY <1>6 DEF InFile
  <2>2. k \in 1 .. n /\ k \in s + 1 .. Len(g)
    BY <1>2, <2>1
  <2> QED
    BY <1>4, <2>1, <2>2 DEF InFile
<1>7. ASSUME NEW row \in ToSet(rows) PROVE InFile(row, g, s)
  <2>1. PICK k \in 1 .. m : row = rows[k]
    BY <1>2 DEF ToSet
  <2>2. n + 2 * k - 1 \in s + 1 .. Len(g)
    BY <1>2
  <2> QED
    BY <1>3, <2>1, <2>2 DEF InFile
<1>8. LastHalf(file, s) => LastHalf(g, s)
  BY <1>2 DEF LastHalf
<1>9. ASSUME LastHalf(file, Len(file)) PROVE LastHalf(g, Len(g))
  <2>1. CASE m = 0
    <3>1. Len(g) = n
      BY <1>2, <2>1
    <3>2. n > 0 => g[n] = file[n]
      BY <1>2
    <3> QED
      BY <1>9, <3>1, <3>2 DEF LastHalf
  <2>2. CASE m # 0
    <3>1. m \in 1 .. m /\ Len(g) = n + 2 * m
      BY <1>2, <2>2
    <3> QED
      BY <1>3, <3>1 DEF LastHalf
  <2> QED
    BY <2>1, <2>2
<1> QED
  BY <1>2, <1>5, <1>6, <1>7, <1>8, <1>9 DEF h, g

LEMMA HeaderThere ==
  ASSUME NEW file \in Seq(HalfRow), HeaderedFile(file, columns), file # <<>>,
         columns \in Seq(Nat \ {0}), runNo \in 1 .. Len(columns),
         HeaderOf(file) = columns[runNo]
  PROVE  Len(file) > 1 /\ columns[file[1][1]] = columns[runNo]
<1>1. Len(file) \in Nat /\ DOMAIN file = 1 .. Len(file)
  OBVIOUS
<1>2. columns[runNo] # 0
  OBVIOUS
<1>3. RowFrom(file, 1) /\ columns[file[1][1]] = columns[runNo]
  BY <1>2 DEF HeaderOf
<1>4. 2 \in DOMAIN file
  BY <1>3 DEF RowFrom
<1> QED
  BY <1>1, <1>3, <1>4

LEMMA HeaderIsFirst ==
  ASSUME NEW file \in Seq(HalfRow), HeaderedFile(file, columns), Len(file) > 1
  PROVE  HeaderOf(file) = columns[file[1][1]]
<1>1. Len(file) \in Nat /\ DOMAIN file = 1 .. Len(file) /\ file # <<>>
  OBVIOUS
<1>2. /\ file[1][2] = 0 /\ file[1][3] = 1 /\ file[2] = Append(RowAt(file, 1), 2)
  BY <1>1 DEF HeaderedFile
<1>3. 1 + 1 = 2 /\ 2 \in DOMAIN file
  BY <1>1
<1>4. RowFrom(file, 1)
  BY <1>2, <1>3 DEF RowFrom
<1> QED
  BY <1>1, <1>2, <1>4 DEF HeaderOf

\* Rows that fit keep the file headered.
LEMMA FitsBehind ==
  ASSUME NEW file \in Seq(HalfRow), NEW rows \in Seq(RowOfFile), NEW cols \in Seq(Nat \ {0}),
         NEW run \in 1 .. Len(cols), NEW upTo \in Nat,
         HeaderedFile(file, cols), Fits(file, rows, cols, run, upTo)
  PROVE  /\ HeaderedFile(file \o Halves(rows), cols)
         /\ Len(file \o Halves(rows)) > 1
         /\ cols[(file \o Halves(rows))[1][1]] = cols[run]
<1> DEFINE h == Halves(rows)
           g == file \o h
           n == Len(file)
           m == Len(rows)
<1>1. /\ h \in Seq(HalfRow) /\ Len(h) = 2 * m
      /\ \A i \in 1 .. 2 * m : \E k \in 1 .. m : i = 2 * k - 1 \/ i = 2 * k
  BY HalvesOf
<1>2. /\ n \in Nat /\ m \in Nat /\ g \in Seq(HalfRow) /\ Len(g) = n + 2 * m
      /\ \A i \in 1 .. n : g[i] = file[i]
      /\ \A i \in n + 1 .. n + 2 * m : i - n \in 1 .. 2 * m
  <2> HIDE DEF h
  <2>1. /\ g \in Seq(HalfRow) /\ n \in Nat /\ Len(g) = n + Len(h)
        /\ \A i \in 1 .. n : g[i] = file[i]
    <3>1. h \in Seq(HalfRow)
      BY <1>1
    <3> QED
      BY <3>1
  <2>2. m \in Nat
    OBVIOUS
  <2> QED
    BY <1>1, <2>1, <2>2
<1>3. \A k \in 1 .. m :
        /\ RowFrom(g, n + 2 * k - 1) /\ RowAt(g, n + 2 * k - 1) = rows[k]
        /\ g[n + 2 * k - 1][3] = 1 /\ g[n + 2 * k] = Append(rows[k], 2)
  BY RowsBehind
<1> HIDE DEF h, g
<1>4. \A k \in 1 .. m : rows[k] = <<g[n + 2 * k - 1][1], g[n + 2 * k - 1][2]>>
  BY <1>3 DEF RowAt
<1>5. \A k \in 1 .. m :
        /\ rows[k][1] = g[n + 2 * k - 1][1] /\ rows[k][2] = g[n + 2 * k - 1][2]
        /\ rows[k][1] = g[n + 2 * k][1] /\ rows[k][2] = g[n + 2 * k][2]
  <2> SUFFICES ASSUME NEW k \in 1 .. m
               PROVE  /\ rows[k][1] = g[n + 2 * k - 1][1] /\ rows[k][2] = g[n + 2 * k - 1][2]
                      /\ rows[k][1] = g[n + 2 * k][1] /\ rows[k][2] = g[n + 2 * k][2]
    OBVIOUS
  <2>1. rows[k] \in RowOfFile
    OBVIOUS
  <2>2. g[n + 2 * k] = <<rows[k][1], rows[k][2], 2>>
    BY <1>3, <2>1, AppendHalf
  <2> QED
    BY <1>4, <2>2
<1>6. ASSUME NEW i \in n + 1 .. n + 2 * m
      PROVE  \E k \in 1 .. m : /\ i = n + 2 * k - 1 \/ i = n + 2 * k
                               /\ g[i][1] = rows[k][1] /\ g[i][2] = rows[k][2]
  <2>1. i - n \in 1 .. 2 * m
    BY <1>2
  <2>2. PICK k \in 1 .. m : i - n = 2 * k - 1 \/ i - n = 2 * k
    BY <1>1, <2>1
  <2>3. i = n + 2 * k - 1 \/ i = n + 2 * k
    BY <1>2, <2>2
  <2> QED
    BY <1>5, <2>3
<1>7. CASE file = <<>>
  <2>1. n = 0 /\ m > 0 /\ 1 \in 1 .. m
    BY <1>2, <1>7 DEF Fits
  <2>2. rows[1][1] = run /\ rows[1][2] = 0
    BY <1>7, <2>1 DEF Fits
  <2>3. n + 2 * 1 - 1 = 1 /\ n + 2 * 1 = 2
    BY <2>1
  <2>4. /\ g[1][1] = run /\ g[1][2] = 0 /\ g[1][3] = 1 /\ RowAt(g, 1) = rows[1]
        /\ g[2] = Append(rows[1], 2) /\ RowFrom(g, 1)
    BY <1>3, <1>5, <2>1, <2>2, <2>3
  <2>5. ASSUME NEW i \in 3 .. Len(g)
        PROVE  /\ g[i][1] \in 1 .. Len(cols) /\ g[i][2] # 0 /\ cols[g[i][1]] = cols[g[1][1]]
    <3>1. i \in n + 1 .. n + 2 * m
      BY <1>2, <2>1
    <3>2. PICK k \in 1 .. m : /\ i = n + 2 * k - 1 \/ i = n + 2 * k
                              /\ g[i][1] = rows[k][1] /\ g[i][2] = rows[k][2]
      BY <1>6, <3>1
    <3>3. k # 1
      BY <2>1, <3>2
    <3>4. rows[k][1] = run /\ rows[k][2] \in 1 .. upTo
      BY <3>3 DEF Fits
    <3> QED
      BY <2>4, <3>2, <3>4
  <2>6. Len(g) > 1
    BY <1>2, <2>1
  <2> QED
    BY <2>4, <2>5, <2>6 DEF HeaderedFile, h, g
<1>8. CASE file # <<>>
  <2>1. n > 1 /\ cols[file[1][1]] = cols[run] /\ g[1] = file[1] /\ g[2] = file[2]
    BY <1>2, <1>8 DEF Fits
  <2>2. RowAt(g, 1) = RowAt(file, 1)
    BY <2>1 DEF RowAt
  <2>3. /\ file[1][1] \in 1 .. Len(cols) /\ file[1][2] = 0 /\ file[1][3] = 1
        /\ file[2] = Append(RowAt(file, 1), 2)
    BY <1>2, <2>1 DEF HeaderedFile
  <2>4. ASSUME NEW i \in 3 .. Len(g)
        PROVE  /\ g[i][1] \in 1 .. Len(cols) /\ g[i][2] # 0 /\ cols[g[i][1]] = cols[g[1][1]]
    <3>1. CASE i <= n
      <4>1. i \in 3 .. n /\ g[i] = file[i]
        BY <1>2, <3>1
      <4> QED
        BY <2>1, <4>1 DEF HeaderedFile
    <3>2. CASE i > n
      <4>1. i \in n + 1 .. n + 2 * m
        BY <1>2, <3>2
      <4>2. PICK k \in 1 .. m : g[i][1] = rows[k][1] /\ g[i][2] = rows[k][2]
        BY <1>6, <4>1
      <4>3. rows[k][1] = run /\ rows[k][2] \in 1 .. upTo
        BY <1>8 DEF Fits
      <4> QED
        BY <2>1, <4>2, <4>3
    <3> QED
      BY <1>2, <3>1, <3>2
  <2>5. Len(g) > 1
    BY <1>2, <2>1
  <2> QED
    BY <2>1, <2>2, <2>3, <2>4, <2>5 DEF HeaderedFile, h, g
<1> QED
  BY <1>7, <1>8

LEMMA HeaderedPart ==
  ASSUME NEW file \in Seq(HalfRow), NEW cols \in Seq(Nat \ {0}), HeaderedFile(file, cols),
         NEW n \in 0 .. Len(file)
  PROVE  /\ SubSeq(file, 1, n) \in Seq(HalfRow) /\ Len(SubSeq(file, 1, n)) = n
         /\ HeaderedFile(SubSeq(file, 1, n), cols)
<1> DEFINE g == SubSeq(file, 1, n)
<1>1. g \in Seq(HalfRow) /\ Len(g) = n /\ \A i \in 1 .. n : g[i] = file[i]
  OBVIOUS
<1> HIDE DEF g
<1>2. n \in Nat /\ Len(file) \in Nat /\ n <= Len(file)
  OBVIOUS
<1>3. n > 0 => RowAt(g, 1) = RowAt(file, 1) /\ g[1] = file[1]
  BY <1>1, <1>2 DEF RowAt
<1>4. n > 1 => g[2] = file[2]
  BY <1>1, <1>2
<1>5. \A i \in 3 .. n : g[i] = file[i]
  BY <1>1, <1>2
<1>6. HeaderedFile(g, cols)
  <2>1. n > 0 => g[1][1] \in 1 .. Len(cols) /\ g[1][2] = 0 /\ g[1][3] = 1
    BY <1>2, <1>3 DEF HeaderedFile
  <2>2. n > 1 => g[2] = Append(RowAt(g, 1), 2)
    BY <1>2, <1>3, <1>4 DEF HeaderedFile
  <2>3. \A i \in 3 .. n : /\ g[i][1] \in 1 .. Len(cols) /\ g[i][2] # 0
                          /\ cols[g[i][1]] = cols[g[1][1]]
    <3> SUFFICES ASSUME NEW i \in 3 .. n
                 PROVE  /\ g[i][1] \in 1 .. Len(cols) /\ g[i][2] # 0
                        /\ cols[g[i][1]] = cols[g[1][1]]
      OBVIOUS
    <3>1. i \in 3 .. Len(file) /\ g[i] = file[i] /\ g[1] = file[1]
      BY <1>2, <1>3, <1>5
    <3> QED
      BY <3>1 DEF HeaderedFile
  <2> QED
    BY <1>1, <2>1, <2>2, <2>3 DEF HeaderedFile
<1> QED
  BY <1>1, <1>6 DEF g

LEMMA FilesConstants ==
  /\ FlushEvery \in Nat \ {0} /\ FramesOfRun \in Nat /\ MaxCuts \in Nat
  /\ Second \subseteq Nat /\ 0 \in Second
  /\ LogsInOrder \in Seq(Log) /\ LogsInOrder # <<>> /\ Head(LogsInOrder) \in Log
  /\ \A versions \in Programs : versions \in Seq(Nat \ {0})
BY RunFilesAssumption

\* The frame counter, round by round.
LEMMA FlushRound ==
  ASSUME NEW n \in Nat
  PROVE  /\ n % FlushEvery \in 0 .. FlushEvery - 1
         /\ (n + 1) % FlushEvery = 0 => n % FlushEvery = FlushEvery - 1
         /\ (n + 1) % FlushEvery # 0 => (n + 1) % FlushEvery = (n % FlushEvery) + 1
<1> DEFINE f == FlushEvery
           r == n % f
           q == n \div f
<1>1. f \in Nat \ {0}
  BY FilesConstants
<1> HIDE DEF f
<1>2. r \in 0 .. f - 1 /\ q \in Nat /\ n = f * q + r
  BY <1>1
<1>3. (n + 1) % f \in 0 .. f - 1 /\ (n + 1) \div f \in Nat
      /\ n + 1 = f * ((n + 1) \div f) + ((n + 1) % f)
  BY <1>1
<1> QED
  BY <1>1, <1>2, <1>3 DEF f

LEMMA LeftAfter ==
  ASSUME NEW s \in Seq(Log), s # <<>>
  PROVE  /\ Head(s) \in Log /\ Tail(s) \in Seq(Log)
         /\ \A l \in ToSet(s) : l = Head(s) \/ l \in ToSet(Tail(s))
         /\ Len(s) = 1 => Tail(s) = <<>>
<1> DEFINE t == Tail(s)
<1>1. Len(s) \in Nat \ {0} /\ DOMAIN s = 1 .. Len(s) /\ Head(s) = s[1] /\ s[1] \in Log
  OBVIOUS
<1>2. t \in Seq(Log)
  OBVIOUS
<1>3. Len(t) = Len(s) - 1
  OBVIOUS
<1>4. \A i \in 1 .. Len(t) : t[i] = s[i + 1]
  OBVIOUS
<1> HIDE DEF t
<1>5. DOMAIN t = 1 .. Len(t) /\ (Len(t) = 0 => t = <<>>)
  BY <1>2
<1>6. ASSUME NEW l \in ToSet(s), l # Head(s) PROVE l \in ToSet(t)
  <2>1. PICK i \in 1 .. Len(s) : l = s[i]
    BY <1>1 DEF ToSet
  <2>2. i - 1 \in 1 .. Len(t) /\ (i - 1) + 1 = i
    BY <1>1, <1>3, <1>6, <2>1
  <2> QED
    BY <1>4, <1>5, <2>1, <2>2 DEF ToSet
<1> QED
  BY <1>1, <1>2, <1>3, <1>5, <1>6 DEF t

LEMMA FilesTyped ==
  ASSUME FInv
  PROVE  /\ disk \in [Second \X Log -> Seq(HalfRow)] /\ buffer \in [Log -> Seq(RowOfFile)]
         /\ archived \in [Second \X Log \X Second -> Seq(HalfRow)]
         /\ session \in Second /\ safe \in [Log -> Nat] /\ frameNo \in Nat /\ runNo \in Nat
         /\ columns \in Seq(Nat \ {0}) /\ runNo <= Len(columns) /\ Len(columns) \in Nat
         /\ \A f \in Second \X Log : disk[f] \in Seq(HalfRow) /\ Len(disk[f]) \in Nat
         /\ \A l \in Log : /\ disk[<<session, l>>] \in Seq(HalfRow)
                            /\ Len(disk[<<session, l>>]) \in Nat
                            /\ buffer[l] \in Seq(RowOfFile) /\ Len(buffer[l]) \in Nat
                            /\ safe[l] \in 0 .. Len(disk[<<session, l>>])
                            /\ <<session, l>> \in Second \X Log
<1>1. FilesTypes /\ SafeIsThere
  BY DEF FInv
<1>2. columns \in Seq(Nat \ {0})
  BY <1>1, FilesConstants DEF FilesTypes
<1>3. FramesOfRun \in Nat
  BY FilesConstants
<1>4. frameNo \in Nat /\ runNo \in Nat /\ runNo <= Len(columns) /\ Len(columns) \in Nat
  BY <1>1, <1>2, <1>3 DEF FilesTypes
<1>5. /\ disk \in [Second \X Log -> Seq(HalfRow)] /\ buffer \in [Log -> Seq(RowOfFile)]
      /\ session \in Second /\ safe \in [Log -> Nat]
      /\ archived \in [Second \X Log \X Second -> Seq(HalfRow)]
  BY <1>1 DEF FilesTypes
<1>6. \A f \in Second \X Log : disk[f] \in Seq(HalfRow) /\ Len(disk[f]) \in Nat
  <2>1. \A s \in Seq(HalfRow) : Len(s) \in Nat
    OBVIOUS
  <2> QED
    BY <1>5, <2>1
<1>7. ASSUME NEW l \in Log
      PROVE  /\ disk[<<session, l>>] \in Seq(HalfRow) /\ Len(disk[<<session, l>>]) \in Nat
             /\ buffer[l] \in Seq(RowOfFile) /\ Len(buffer[l]) \in Nat
             /\ safe[l] \in 0 .. Len(disk[<<session, l>>]) /\ <<session, l>> \in Second \X Log
  <2>1. <<session, l>> \in Second \X Log
    BY <1>5
  <2>2. disk[<<session, l>>] \in Seq(HalfRow) /\ Len(disk[<<session, l>>]) \in Nat
    BY <1>6, <2>1
  <2>3. buffer[l] \in Seq(RowOfFile) /\ Len(buffer[l]) \in Nat
    BY <1>5
  <2>4. safe[l] \in Nat /\ safe[l] <= Len(disk[<<session, l>>])
    BY <1>1, <1>5 DEF SafeIsThere
  <2> QED
    BY <2>1, <2>2, <2>3, <2>4
<1> QED
  BY <1>2, <1>4, <1>5, <1>6, <1>7

\* What is written out fits, ends whole rows and tears none.
LEMMA WriteOut ==
  ASSUME FInv, stage # "off", NEW logs \in SUBSET Log,
         \A l \in logs : Fits(disk[<<session, l>>], buffer[l], columns, runNo, frameNo)
  PROVE  /\ DiskAfter(logs) \in [Second \X Log -> Seq(HalfRow)]
         /\ \A f \in Second \X Log :
              /\ HeaderedFile(DiskAfter(logs)[f], columns)
              /\ WholeRows(disk[f]) \subseteq WholeRows(DiskAfter(logs)[f])
              /\ cuts = 0 => LastHalf(DiskAfter(logs)[f], Len(DiskAfter(logs)[f]))
         /\ \A l \in Log :
              /\ cuts = 0 => LastHalf(DiskAfter(logs)[<<session, l>>], safe[l])
              /\ safe[l] <= Len(DiskAfter(logs)[<<session, l>>])
              /\ NotTornSince(DiskAfter(logs)[<<session, l>>], safe[l])
              /\ \A row : InFile(row, disk[<<session, l>>], safe[l])
                            => InFile(row, DiskAfter(logs)[<<session, l>>], safe[l])
              /\ l \notin logs => DiskAfter(logs)[<<session, l>>] = disk[<<session, l>>]
              /\ l \in logs =>
                   /\ \A row \in ToSet(buffer[l]) :
                        InFile(row, DiskAfter(logs)[<<session, l>>], safe[l])
                   /\ Len(DiskAfter(logs)[<<session, l>>]) > 1
                   /\ columns[DiskAfter(logs)[<<session, l>>][1][1]] = columns[runNo]
<1> DEFINE d == DiskAfter(logs)
<1>1. /\ disk \in [Second \X Log -> Seq(HalfRow)] /\ buffer \in [Log -> Seq(RowOfFile)]
      /\ session \in Second /\ safe \in [Log -> Nat] /\ frameNo \in Nat
      /\ columns \in Seq(Nat \ {0}) /\ runNo \in 1 .. Len(columns)
  <2>1. runNo > 0
    BY DEF FInv, RunIsUp
  <2> QED
    BY <2>1, FilesTyped
<1>2. ASSUME NEW f \in Second \X Log
      PROVE  /\ disk[f] \in Seq(HalfRow) /\ f = <<f[1], f[2]>> /\ f[1] \in Second /\ f[2] \in Log
             /\ buffer[f[2]] \in Seq(RowOfFile) /\ HeaderedFile(disk[f], columns)
             /\ cuts = 0 => LastHalf(disk[f], Len(disk[f]))
             /\ Halves(buffer[f[2]]) \in Seq(HalfRow)
  <2>1. disk[f] \in Seq(HalfRow) /\ f = <<f[1], f[2]>> /\ f[1] \in Second /\ f[2] \in Log
    <3>1. disk[f] \in Seq(HalfRow)
      BY <1>1
    <3>2. f = <<f[1], f[2]>> /\ f[1] \in Second /\ f[2] \in Log
      OBVIOUS
    <3> QED
      BY <3>1, <3>2
  <2>2. buffer[f[2]] \in Seq(RowOfFile)
    BY <1>1, <2>1
  <2>3. HeaderedFile(disk[f], columns) /\ (cuts = 0 => LastHalf(disk[f], Len(disk[f])))
    BY DEF FInv, AllHeadered, TornByCuts
  <2> QED
    BY <2>1, <2>2, <2>3, HalvesOf
<1>3. ASSUME NEW f \in Second \X Log
      PROVE  /\ f[1] = session /\ f[2] \in logs => d[f] = disk[f] \o Halves(buffer[f[2]])
             /\ ~(f[1] = session /\ f[2] \in logs) => d[f] = disk[f]
  BY DEF DiskAfter
<1>4. ASSUME NEW l \in Log
      PROVE  /\ <<session, l>> \in Second \X Log
             /\ <<session, l>>[1] = session /\ <<session, l>>[2] = l
  BY <1>1
<1>5. ASSUME NEW f \in Second \X Log
      PROVE  /\ d[f] \in Seq(HalfRow) /\ HeaderedFile(d[f], columns)
             /\ WholeRows(disk[f]) \subseteq WholeRows(d[f])
             /\ cuts = 0 => LastHalf(d[f], Len(d[f]))
  <2>1. CASE f[1] = session /\ f[2] \in logs
    <3>1. Fits(disk[f], buffer[f[2]], columns, runNo, frameNo)
      BY <1>2, <2>1
    <3>2. d[f] = disk[f] \o Halves(buffer[f[2]])
      BY <1>3, <2>1
    <3>3. HeaderedFile(d[f], columns)
      <4> HIDE DEF d
      <4>1. HeaderedFile(disk[f] \o Halves(buffer[f[2]]), columns)
        BY <1>1, <1>2, <3>1, FitsBehind
      <4> QED
        BY <3>2, <4>1
    <3>4. WholeRows(disk[f]) \subseteq WholeRows(d[f])
      BY <1>2, <3>2, WholeRowsStay
    <3>5. 0 \in 0 .. Len(disk[f])
      <4>1. disk[f] \in Seq(HalfRow)
        BY <1>2
      <4> QED
        BY <4>1
    <3>6. d[f] \in Seq(HalfRow) /\ (LastHalf(disk[f], Len(disk[f])) => LastHalf(d[f], Len(d[f])))
      <4> DEFINE a == disk[f]
                 b == buffer[f[2]]
      <4>1. a \in Seq(HalfRow) /\ b \in Seq(RowOfFile) /\ 0 \in 0 .. Len(a)
        BY <1>2, <3>5
      <4> HIDE DEF a, b, d
      <4>2. /\ a \o Halves(b) \in Seq(HalfRow)
            /\ LastHalf(a, Len(a)) => LastHalf(a \o Halves(b), Len(a \o Halves(b)))
        BY <4>1, WrittenBehind
      <4> QED
        BY <3>2, <4>2 DEF a, b
    <3> QED
      BY <1>2, <3>3, <3>4, <3>6
  <2>2. CASE ~(f[1] = session /\ f[2] \in logs)
    <3>1. d[f] = disk[f]
      BY <1>3, <2>2
    <3> QED
      BY <1>2, <3>1
  <2> QED
    BY <2>1, <2>2
<1>6. d \in [Second \X Log -> Seq(HalfRow)]
  <2>1. d = [f \in Second \X Log |-> d[f]]
    BY DEF DiskAfter
  <2> QED
    BY <1>5, <2>1
<1>7. ASSUME NEW l \in Log
      PROVE  /\ safe[l] \in 0 .. Len(disk[<<session, l>>])
             /\ NotTornSince(disk[<<session, l>>], safe[l])
             /\ cuts = 0 => LastHalf(disk[<<session, l>>], safe[l])
  <2>1. safe[l] \in 0 .. Len(disk[<<session, l>>])
    BY FilesTyped
  <2>2. NotTornSince(disk[<<session, l>>], safe[l])
    BY DEF FInv, RunIsUp
  <2>3. cuts = 0 => LastHalf(disk[<<session, l>>], safe[l])
    BY DEF FInv, TornByCuts
  <2> QED
    BY <2>1, <2>2, <2>3
<1>8. ASSUME NEW l \in Log
      PROVE  /\ cuts = 0 => LastHalf(d[<<session, l>>], safe[l])
             /\ safe[l] <= Len(d[<<session, l>>]) /\ NotTornSince(d[<<session, l>>], safe[l])
             /\ \A row : InFile(row, disk[<<session, l>>], safe[l])
                           => InFile(row, d[<<session, l>>], safe[l])
             /\ l \notin logs => d[<<session, l>>] = disk[<<session, l>>]
             /\ l \in logs =>
                  /\ \A row \in ToSet(buffer[l]) : InFile(row, d[<<session, l>>], safe[l])
                  /\ Len(d[<<session, l>>]) > 1
                  /\ columns[d[<<session, l>>][1][1]] = columns[runNo]
  <2> DEFINE file == disk[<<session, l>>]
             rows == buffer[l]
  <2>1. /\ file \in Seq(HalfRow) /\ rows \in Seq(RowOfFile) /\ HeaderedFile(file, columns)
    BY <1>1, <1>2, <1>4
  <2>2. CASE l \in logs
    <3>1. d[<<session, l>>] = file \o Halves(rows)
      BY <1>3, <1>4, <2>2
    <3>2. Fits(file, rows, columns, runNo, frameNo)
      BY <2>2
    <3>3. Len(d[<<session, l>>]) > 1 /\ columns[d[<<session, l>>][1][1]] = columns[runNo]
      <4> HIDE DEF d, file, rows
      <4>1. /\ Len(file \o Halves(rows)) > 1
            /\ columns[(file \o Halves(rows))[1][1]] = columns[runNo]
        BY <1>1, <2>1, <3>2, FitsBehind
      <4> QED
        BY <3>1, <4>1
    <3>4. /\ file \o Halves(rows) \in Seq(HalfRow)
          /\ Len(file) <= Len(file \o Halves(rows))
          /\ NotTornSince(file, safe[l]) => NotTornSince(file \o Halves(rows), safe[l])
          /\ \A row : InFile(row, file, safe[l]) => InFile(row, file \o Halves(rows), safe[l])
          /\ \A row \in ToSet(rows) : InFile(row, file \o Halves(rows), safe[l])
          /\ LastHalf(file, safe[l]) => LastHalf(file \o Halves(rows), safe[l])
      <4>1. safe[l] \in 0 .. Len(file)
        BY <1>7
      <4> HIDE DEF file, rows
      <4> QED
        BY <2>1, <4>1, WrittenBehind
    <3>5. safe[l] <= Len(d[<<session, l>>])
      <4>1. safe[l] \in 0 .. Len(file)
        BY <1>7
      <4> HIDE DEF d, file, rows
      <4>2. Len(file) \in Nat /\ Len(file \o Halves(rows)) \in Nat
        BY <2>1, <3>4
      <4> QED
        BY <3>1, <3>4, <4>1, <4>2
    <3>6. NotTornSince(file, safe[l]) /\ (cuts = 0 => LastHalf(file, safe[l]))
      BY <1>7
    <3> HIDE DEF d, file, rows
    <3>7. /\ cuts = 0 => LastHalf(d[<<session, l>>], safe[l])
          /\ NotTornSince(d[<<session, l>>], safe[l])
          /\ \A row : InFile(row, file, safe[l]) => InFile(row, d[<<session, l>>], safe[l])
          /\ \A row \in ToSet(rows) : InFile(row, d[<<session, l>>], safe[l])
      BY <3>1, <3>4, <3>6
    <3> QED
      BY <2>2, <3>3, <3>5, <3>7 DEF file, rows
  <2>3. CASE l \notin logs
    <3>1. d[<<session, l>>] = file
      BY <1>3, <1>4, <2>3
    <3>2. safe[l] <= Len(file)
      BY <1>7, FilesTyped
    <3> HIDE DEF d
    <3> QED
      BY <1>7, <2>3, <3>1, <3>2
  <2> QED
    BY <2>2, <2>3
<1> QED
  BY <1>5, <1>6, <1>8

-----------------------------------------------------------------------------
(* The actions.                                                            *)

LEMMA FilesInitially ==
  ASSUME FilesInit
  PROVE  FInv
<1>1. FilesTypes
  <2>1. <<>> \in Seq(RowOfFile) /\ <<>> \in Seq(HalfRow) /\ <<>> \in Seq(Log)
    OBVIOUS
  <2>2. columns \in Programs /\ Len(columns) \in Nat
    BY FilesConstants DEF FilesInit
  <2>3. /\ buffer \in [Log -> Seq(RowOfFile)] /\ disk \in [Second \X Log -> Seq(HalfRow)]
        /\ archived \in [Second \X Log \X Second -> Seq(HalfRow)]
        /\ snapshot \in [Second -> Nat] /\ safe \in [Log -> Nat]
        /\ wrote \in [Log -> SUBSET RowOfFile]
    BY <2>1 DEF FilesInit, Empty
  <2> QED
    BY <2>1, <2>2, <2>3, FilesConstants DEF FilesInit, FilesTypes, Stages
<1>2. ASSUME NEW cols PROVE HeaderedFile(<<>>, cols)
  BY DEF HeaderedFile
<1>3. AllHeadered
  BY <1>2 DEF AllHeadered, FilesInit
<1>4. TornByCuts /\ SafeIsThere
  <2>1. \A f \in Second \X Log : disk[f] = <<>>
    BY DEF FilesInit
  <2>2. \A l \in Log : <<session, l>> \in Second \X Log /\ safe[l] = 0
    BY FilesConstants DEF FilesInit
  <2>3. Len(<<>>) = 0
    OBVIOUS
  <2> QED
    BY <2>1, <2>2, <2>3 DEF TornByCuts, SafeIsThere, LastHalf
<1>5. RunIsUp /\ StageHolds
  BY DEF RunIsUp, StageHolds, FilesInit
<1>6. ReportComplete
  BY DEF ReportComplete, FilesInit, NoReport
<1> QED
  BY <1>1, <1>3, <1>4, <1>5, <1>6 DEF FInv

LEMMA NotYetReported ==
  ASSUME report'.run = 0, runNo' \in Nat, runNo' > 0
  PROVE  ReportComplete'
BY DEF ReportComplete

LEMMA StartKeeps ==
  ASSUME FInv, StartRun, UNCHANGED columns
  PROVE  FInv'
<1>1. PICK second \in Second :
        /\ clock' = second /\ session' = second
        /\ snapshot' = WithSnapshot(second, runNo + 1)
        /\ safe' = [l \in Log |-> Len(disk[<<second, l>>])]
  BY DEF StartRun
<1>2. /\ stage = "off" /\ runNo < Len(columns) /\ runNo' = runNo + 1 /\ stage' = "opening"
      /\ logsLeft' = LogsInOrder /\ report' = NoReport /\ wrote' = [l \in Log |-> {}]
      /\ UNCHANGED <<frameNo, buffer, disk, archived, cuts>>
  BY DEF StartRun
<1>3. buffer = Empty /\ frameNo = 0
  BY <1>2 DEF FInv, StageHolds
<1>4. /\ FilesTypes /\ AllHeadered /\ TornByCuts
  BY DEF FInv
<1>5. ASSUME NEW l \in Log
      PROVE  /\ <<second, l>> \in Second \X Log /\ Len(disk[<<second, l>>]) \in Nat
             /\ safe'[l] = Len(disk'[<<session', l>>])
             /\ LastHalf(disk[<<second, l>>], Len(disk[<<second, l>>])) =>
                  LastHalf(disk'[<<session', l>>], safe'[l])
  <2>1. <<second, l>> \in Second \X Log
    OBVIOUS
  <2> QED
    BY <1>1, <1>2, <2>1, FilesTyped
<1>6. FilesTypes'
  <2>1. runNo' \in 0 .. Len(columns)
    BY <1>2, FilesTyped
  <2>2. safe' \in [Log -> Nat]
    BY <1>1, <1>5
  <2>3. snapshot' \in [Second -> Nat]
    BY <1>1, <1>4, FilesTyped DEF FilesTypes, WithSnapshot
  <2>4. wrote' \in [Log -> SUBSET RowOfFile]
    BY <1>2
  <2>5. logsLeft' \in Seq(Log) /\ stage' \in Stages
    BY <1>2, FilesConstants DEF Stages
  <2> QED
    BY <1>1, <1>2, <1>4, <2>1, <2>2, <2>3, <2>4, <2>5 DEF FilesTypes
<1>7. AllHeadered'
  BY <1>2, <1>4 DEF AllHeadered
<1>8. TornByCuts'
  BY <1>1, <1>2, <1>4, <1>5 DEF TornByCuts
<1>9. SafeIsThere'
  <2> SUFFICES ASSUME NEW l \in Log PROVE safe'[l] <= Len(disk'[<<session', l>>])
    BY DEF SafeIsThere
  <2> QED
    BY <1>1, <1>5
<1>10. runNo' > 0 /\ runNo' \in Nat /\ snapshot'[session'] = runNo' /\ report'.run = 0
  BY <1>1, <1>2, <1>4, FilesTyped DEF FilesTypes, WithSnapshot, NoReport
<1>11. RunIsUp'
  <2> SUFFICES ASSUME NEW l \in Log
               PROVE  NotTornSince(disk'[<<session', l>>], safe'[l]) /\ wrote'[l] = {}
    BY <1>2, <1>10 DEF RunIsUp
  <2>1. safe'[l] = Len(disk'[<<session', l>>]) /\ safe'[l] \in Nat
    BY <1>1, <1>5
  <2>2. safe'[l] + 1 .. Len(disk'[<<session', l>>]) = {}
    BY <2>1
  <2> QED
    BY <1>2, <2>2 DEF NotTornSince
<1>12. StageHolds'
  <2>1. \A l \in Log : buffer'[l] = <<>> /\ l \in ToSet(logsLeft')
    BY <1>2, <1>3 DEF Log, Empty
  <2> QED
    BY <1>2, <1>3, <2>1 DEF StageHolds
<1> QED
  BY <1>6, <1>7, <1>8, <1>9, <1>10, <1>11, <1>12, NotYetReported DEF FInv

LEMMA NothingInFile ==
  /\ \A cols : HeaderedFile(<<>>, cols)
  /\ \A i \in Nat : NotTornSince(<<>>, i)
  /\ LastHalf(<<>>, Len(<<>>)) /\ LastHalf(<<>>, 0)
  /\ \A cols, run, upTo : Fits(<<>>, <<<<run, 0>>>>, cols, run, upTo)
<1>1. Len(<<>>) = 0
  OBVIOUS
<1>2. ASSUME NEW run
      PROVE  /\ <<<<run, 0>>>> # <<>> /\ Len(<<<<run, 0>>>>) = 1
             /\ <<<<run, 0>>>>[1][1] = run /\ <<<<run, 0>>>>[1][2] = 0
  OBVIOUS
<1>3. \A cols, run, upTo : Fits(<<>>, <<<<run, 0>>>>, cols, run, upTo)
  BY <1>2 DEF Fits
<1> QED
  BY <1>1, <1>3 DEF HeaderedFile, NotTornSince, LastHalf

LEMMA OpenKeeps ==
  ASSUME FInv, OpenLog, UNCHANGED columns
  PROVE  FInv'
<1> DEFINE l == Head(logsLeft)
           file == disk[<<session, l>>]
           header == <<<<runNo, 0>>>>
<1>1. /\ stage = "opening" /\ logsLeft # <<>> /\ logsLeft' = Tail(logsLeft)
      /\ UNCHANGED <<stage, runNo, session, frameNo, snapshot, report, wrote, cuts>>
  BY DEF OpenLog
<1>2. \/ /\ rotate_if_schema_changed(file)
         /\ \E second \in Second :
              /\ clock' = second
              /\ archived' = [archived EXCEPT ![<<session, l, second>>] = file]
              /\ disk' = [disk EXCEPT ![<<session, l>>] = <<>>]
              /\ safe' = [safe EXCEPT ![l] = 0]
              /\ buffer' = [buffer EXCEPT ![l] = header]
      \/ /\ ~rotate_if_schema_changed(file)
         /\ buffer' = IF file = <<>> THEN [buffer EXCEPT ![l] = header] ELSE buffer
         /\ UNCHANGED <<clock, archived, disk, safe>>
  BY DEF OpenLog
<1>3. FilesTypes /\ AllHeadered /\ TornByCuts /\ SafeIsThere /\ RunIsUp /\ StageHolds
  BY DEF FInv
<1>4. /\ logsLeft \in Seq(Log) /\ l \in Log /\ Tail(logsLeft) \in Seq(Log)
      /\ \A k \in ToSet(logsLeft) : k = l \/ k \in ToSet(Tail(logsLeft))
  BY <1>1, <1>3, LeftAfter DEF FilesTypes
<1>5. /\ file \in Seq(HalfRow) /\ <<session, l>> \in Second \X Log
      /\ HeaderedFile(file, columns)
  BY <1>3, <1>4, FilesTyped DEF AllHeadered
<1>6. header \in Seq(RowOfFile) /\ runNo \in 1 .. Len(columns) /\ frameNo = 0
  <2>1. runNo > 0 /\ frameNo = 0
    BY <1>1, <1>3 DEF RunIsUp, StageHolds
  <2>2. <<runNo, 0>> \in RowOfFile
    BY FilesTyped DEF RowOfFile
  <2> QED
    BY <2>1, <2>2, FilesTyped
<1> HIDE DEF l, header
<1>7. \A k \in Log : wrote[k] = {}
  <2> SUFFICES ASSUME NEW k \in Log, NEW row \in wrote[k] PROVE FALSE
    OBVIOUS
  <2>1. row[2] \in 1 .. 0
    BY <1>1, <1>3, <1>6 DEF RunIsUp
  <2> QED
    BY <2>1
<1>8. ASSUME NEW k \in Log, k # l PROVE <<session, k>> # <<session, l>>
  BY <1>8
<1>9. \A k \in Log : /\ NotTornSince(disk[<<session, k>>], safe[k])
                      /\ safe[k] \in 0 .. Len(disk[<<session, k>>])
                      /\ <<session, k>> \in Second \X Log
  BY <1>1, <1>3, FilesTyped DEF RunIsUp
<1>10. ASSUME NEW k \in Log
       PROVE  /\ \/ buffer[k] = <<>>
                 \/ disk[<<session, k>>] = <<>> /\ buffer[k] = header
              /\ \/ k \in ToSet(logsLeft)
                 \/ Fits(disk[<<session, k>>], buffer[k], columns, runNo, frameNo)
  BY <1>1, <1>3 DEF StageHolds, header
<1>11. runNo' > 0 /\ runNo' \in Nat /\ report'.run = 0 /\ snapshot'[session'] = runNo'
  BY <1>1, <1>3, FilesTyped DEF RunIsUp
<1>12. CASE rotate_if_schema_changed(file)
  <2>1. PICK second \in Second :
          /\ clock' = second
          /\ archived' = [archived EXCEPT ![<<session, l, second>>] = file]
          /\ disk' = [disk EXCEPT ![<<session, l>>] = <<>>]
          /\ safe' = [safe EXCEPT ![l] = 0]
          /\ buffer' = [buffer EXCEPT ![l] = header]
    BY <1>2, <1>12
  <2>2. <<>> \in Seq(HalfRow)
    OBVIOUS
  <2>3. /\ buffer' \in [Log -> Seq(RowOfFile)] /\ disk' \in [Second \X Log -> Seq(HalfRow)]
        /\ safe' \in [Log -> Nat]
    BY <1>4, <1>5, <1>6, <2>1, <2>2, FilesTyped
  <2>4. archived' \in [Second \X Log \X Second -> Seq(HalfRow)]
    BY <1>5, <2>1, FilesTyped
  <2>5. FilesTypes'
    BY <1>1, <1>3, <1>4, <2>1, <2>3, <2>4 DEF FilesTypes
  <2>6. /\ disk'[<<session, l>>] = <<>> /\ safe'[l] = 0 /\ buffer'[l] = header
        /\ \A f \in Second \X Log : f # <<session, l>> => disk'[f] = disk[f]
        /\ \A k \in Log : k # l => safe'[k] = safe[k] /\ buffer'[k] = buffer[k]
        /\ \A f \in Second \X Log \X Second : archived'[f] = archived[f] \/ archived'[f] = file
    BY <1>4, <1>5, <2>1, FilesTyped
  <2>7. \A k \in Log : k # l => disk'[<<session, k>>] = disk[<<session, k>>]
    BY <1>8, <1>9, <2>6
  <2>8. AllHeadered'
    <3>1. \A f \in Second \X Log : disk'[f] = <<>> \/ disk'[f] = disk[f]
      BY <2>6
    <3> HIDE DEF file
    <3> QED
      BY <1>3, <1>5, <2>6, <3>1, NothingInFile DEF AllHeadered
  <2>9. TornByCuts'
    <3>1. \A f \in Second \X Log : disk'[f] = <<>> \/ disk'[f] = disk[f]
      BY <2>6
    <3>2. \A k \in Log : /\ <<session, k>> \in Second \X Log
                          /\ \/ disk'[<<session, k>>] = <<>> /\ safe'[k] = 0
                             \/ disk'[<<session, k>>] = disk[<<session, k>>] /\ safe'[k] = safe[k]
      BY <1>9, <2>6, <2>7
    <3> QED
      BY <1>1, <1>3, <3>1, <3>2, NothingInFile DEF TornByCuts
  <2>10. SafeIsThere'
    <3> SUFFICES ASSUME NEW k \in Log PROVE safe'[k] <= Len(disk'[<<session', k>>])
      BY DEF SafeIsThere
    <3>1. CASE k = l
      BY <1>1, <2>6, <3>1
    <3>2. CASE k # l
      BY <1>1, <1>9, <2>6, <2>7, <3>2, FilesTyped
    <3> QED
      BY <3>1, <3>2
  <2>11. RunIsUp'
    <3> SUFFICES ASSUME NEW k \in Log PROVE NotTornSince(disk'[<<session', k>>], safe'[k])
      BY <1>1, <1>7, <1>11 DEF RunIsUp
    <3> QED
      BY <1>1, <1>9, <2>6, <2>7, NothingInFile
  <2>12. StageHolds'
    <3> SUFFICES ASSUME NEW k \in Log
                 PROVE  /\ \/ buffer'[k] = <<>>
                           \/ disk'[<<session', k>>] = <<>> /\ buffer'[k] = <<<<runNo', 0>>>>
                        /\ \/ k \in ToSet(logsLeft')
                           \/ Fits(disk'[<<session', k>>], buffer'[k], columns', runNo', frameNo')
      BY <1>1, <1>6 DEF StageHolds
    <3>1. CASE k = l
      BY <1>1, <2>6, <3>1, NothingInFile DEF header
    <3>2. CASE k # l
      BY <1>1, <1>4, <1>10, <2>6, <2>7, <3>2 DEF header
    <3> QED
      BY <3>1, <3>2
  <2> QED
    BY <1>11, <2>5, <2>8, <2>9, <2>10, <2>11, <2>12, NotYetReported DEF FInv
<1>13. CASE ~rotate_if_schema_changed(file)
  <2>1. /\ buffer' = IF file = <<>> THEN [buffer EXCEPT ![l] = header] ELSE buffer
        /\ UNCHANGED <<clock, archived, disk, safe>>
    BY <1>2, <1>13
  <2>2. buffer' \in [Log -> Seq(RowOfFile)]
    BY <1>4, <1>6, <2>1, FilesTyped
  <2>3. FilesTypes'
    BY <1>1, <1>3, <1>4, <2>1, <2>2 DEF FilesTypes
  <2>4. AllHeadered' /\ TornByCuts' /\ SafeIsThere'
    BY <1>1, <1>3, <2>1 DEF AllHeadered, TornByCuts, SafeIsThere
  <2>5. RunIsUp'
    BY <1>1, <1>7, <1>9, <1>11, <2>1 DEF RunIsUp
  <2>6. StageHolds'
    <3> SUFFICES ASSUME NEW k \in Log
                 PROVE  /\ \/ buffer'[k] = <<>>
                           \/ disk'[<<session', k>>] = <<>> /\ buffer'[k] = <<<<runNo', 0>>>>
                        /\ \/ k \in ToSet(logsLeft')
                           \/ Fits(disk'[<<session', k>>], buffer'[k], columns', runNo', frameNo')
      BY <1>1, <1>6 DEF StageHolds
    <3>1. CASE k # l
      <4>1. buffer'[k] = buffer[k]
        BY <2>1, <3>1, FilesTyped
      <4> QED
        BY <1>1, <1>4, <1>10, <2>1, <3>1, <4>1 DEF header
    <3>2. CASE k = l /\ file = <<>>
      <4>1. buffer'[l] = header
        BY <1>4, <2>1, <3>2, FilesTyped
      <4>2. Fits(file, header, columns, runNo, frameNo)
        BY <3>2, NothingInFile DEF header
      <4> QED
        BY <1>1, <2>1, <3>2, <4>1, <4>2 DEF header
    <3>3. CASE k = l /\ file # <<>>
      <4>1. buffer'[l] = <<>>
        BY <1>4, <1>10, <2>1, <3>3
      <4>2. HeaderOf(file) = columns[runNo]
        BY <1>13, <3>3 DEF rotate_if_schema_changed
      <4>3. Len(file) > 1 /\ columns[file[1][1]] = columns[runNo]
        BY <1>5, <1>6, <3>3, <4>2, FilesTyped, HeaderThere
      <4>4. Fits(file, <<>>, columns, runNo, frameNo)
        BY <3>3, <4>3 DEF Fits
      <4> QED
        BY <1>1, <2>1, <3>3, <4>1, <4>4
    <3> QED
      BY <3>1, <3>2, <3>3
  <2> QED
    BY <1>11, <2>3, <2>4, <2>5, <2>6, NotYetReported DEF FInv
<1> QED
  BY <1>12, <1>13

LEMMA CameraKeeps ==
  ASSUME FInv, CameraOpens, UNCHANGED columns
  PROVE  FInv'
<1>1. /\ stage = "opening" /\ logsLeft = <<>> /\ stage' = "running"
      /\ UNCHANGED <<columns, clock, runNo, session, logsLeft, frameNo, buffer, disk, archived,
                     snapshot, safe, report, wrote, cuts>>
  BY DEF CameraOpens
<1>2. /\ FilesTypes /\ AllHeadered /\ TornByCuts /\ SafeIsThere /\ RunIsUp /\ StageHolds
      /\ ReportComplete
  BY DEF FInv
<1>3. frameNo = 0 /\ frameNo % FlushEvery = 0
  <2>1. frameNo = 0
    BY <1>1, <1>2 DEF StageHolds
  <2> QED
    BY <2>1, FilesConstants
<1>4. StageHolds'
  <2>1. ToSet(logsLeft) = {}
    BY <1>1 DEF ToSet
  <2>2. ASSUME NEW l \in Log
        PROVE  /\ Fits(disk[<<session, l>>], buffer[l], columns, runNo, frameNo)
               /\ Len(buffer[l]) <= (frameNo % FlushEvery) + 1
               /\ \A k \in 1 .. Len(buffer[l]) : buffer[l][k][2] = 0
    <3>1. buffer[l] = <<>> \/ buffer[l] = <<<<runNo, 0>>>>
      BY <1>1, <1>2 DEF StageHolds
    <3>2. Fits(disk[<<session, l>>], buffer[l], columns, runNo, frameNo)
      BY <1>1, <1>2, <2>1 DEF StageHolds
    <3>3. Len(<<>>) = 0 /\ Len(<<<<runNo, 0>>>>) = 1 /\ <<<<runNo, 0>>>>[1][2] = 0
      OBVIOUS
    <3>4. CASE buffer[l] = <<>>
      BY <1>3, <3>2, <3>3, <3>4
    <3>5. CASE buffer[l] = <<<<runNo, 0>>>>
      BY <1>3, <3>2, <3>3, <3>5
    <3> QED
      BY <3>1, <3>4, <3>5
  <2> QED
    BY <1>1, <2>2 DEF StageHolds
<1>5. FilesTypes'
  BY <1>1, <1>2 DEF FilesTypes, Stages
<1>6. AllHeadered' /\ TornByCuts' /\ SafeIsThere'
  BY <1>1, <1>2 DEF AllHeadered, TornByCuts, SafeIsThere
<1>7. RunIsUp'
  BY <1>1, <1>2 DEF RunIsUp
<1>8. ReportComplete'
  BY <1>1, <1>2 DEF ReportComplete
<1> QED
  BY <1>4, <1>5, <1>6, <1>7, <1>8 DEF FInv

LEMMA FrameKeeps ==
  ASSUME FInv, NEW filled \in SUBSET Log, NEW full \in SUBSET filled, LogFrame(filled, full),
         UNCHANGED columns
  PROVE  FInv'
<1> DEFINE row == <<runNo, frameNo + 1>>
           d == DiskAfter(full)
           rest(l) == IF l \in full THEN <<>> ELSE buffer[l]
           new(l) == IF l \in filled THEN <<row>> ELSE <<>>
<1>1. /\ stage = "running" /\ frameNo < FramesOfRun /\ frameNo' = frameNo + 1
      /\ disk' = [f \in DOMAIN disk |-> IF f[1] = session /\ f[2] \in full
                                       THEN disk[f] \o Halves(buffer[f[2]]) ELSE disk[f]]
      /\ buffer' = [l \in Log |-> rest(l) \o new(l)]
      /\ wrote' = [l \in Log |-> wrote[l] \cup (IF l \in filled THEN {row} ELSE {})]
      /\ UNCHANGED <<columns, clock, runNo, session, archived, snapshot, safe, report, cuts>>
  BY DEF LogFrame
<1>0. /\ session' = session /\ safe' = safe /\ columns' = columns /\ runNo' = runNo
         /\ frameNo' = frameNo + 1
  BY <1>1
<1>2. IF (frameNo + 1) % FlushEvery = 0
      THEN stage' = "flushing" /\ logsLeft' = LogsInOrder
      ELSE stage' = "running" /\ logsLeft' = logsLeft
  BY <1>1 DEF LogFrame
<1>3. /\ FilesTypes /\ AllHeadered /\ TornByCuts /\ SafeIsThere /\ RunIsUp /\ StageHolds
  BY DEF FInv
<1>4. /\ frameNo \in Nat /\ frameNo' \in 0 .. FramesOfRun /\ runNo \in Nat /\ runNo > 0
  BY <1>1, <1>3, FilesTyped, FilesConstants DEF RunIsUp
<1>5. row \in RowOfFile /\ row[1] = runNo /\ row[2] = frameNo + 1
  BY <1>4 DEF RowOfFile
<1>6. /\ full \subseteq Log
      /\ \A l \in Log : Fits(disk[<<session, l>>], buffer[l], columns, runNo, frameNo)
  BY <1>1, <1>3 DEF StageHolds
<1>7. disk' = d
  BY <1>1, <1>3 DEF FilesTypes, DiskAfter
<1>8. /\ d \in [Second \X Log -> Seq(HalfRow)]
      /\ \A f \in Second \X Log :
           /\ HeaderedFile(d[f], columns)
           /\ cuts = 0 => LastHalf(d[f], Len(d[f]))
      /\ \A l \in Log :
           /\ cuts = 0 => LastHalf(d[<<session, l>>], safe[l])
           /\ safe[l] <= Len(d[<<session, l>>])
           /\ NotTornSince(d[<<session, l>>], safe[l])
           /\ \A r : InFile(r, disk[<<session, l>>], safe[l])
                     => InFile(r, d[<<session, l>>], safe[l])
           /\ l \notin full => d[<<session, l>>] = disk[<<session, l>>]
           /\ l \in full =>
                /\ \A r \in ToSet(buffer[l]) : InFile(r, d[<<session, l>>], safe[l])
                /\ Len(d[<<session, l>>]) > 1
                /\ columns[d[<<session, l>>][1][1]] = columns[runNo]
  BY <1>1, <1>6, WriteOut
<1> HIDE DEF row, d
<1>9. ASSUME NEW l \in Log
      PROVE  /\ buffer'[l] \in Seq(RowOfFile) /\ rest(l) \in Seq(RowOfFile)
             /\ Len(rest(l)) \in Nat /\ Len(rest(l)) <= Len(buffer[l])
             /\ Len(buffer'[l]) \in Len(rest(l)) .. Len(rest(l)) + 1
             /\ l \notin full => rest(l) = buffer[l]
             /\ l \in full => rest(l) = <<>> /\ l \in filled
             /\ \A k \in 1 .. Len(rest(l)) : buffer'[l][k] = buffer[l][k]
             /\ \A k \in 1 .. Len(buffer'[l]) : k > Len(rest(l)) => buffer'[l][k] = row
             /\ \A r \in ToSet(rest(l)) : r \in ToSet(buffer'[l])
             /\ l \in filled => row \in ToSet(buffer'[l])
  <2>1. buffer[l] \in Seq(RowOfFile) /\ Len(buffer[l]) \in Nat
    BY FilesTyped
  <2>2. <<>> \in Seq(RowOfFile) /\ <<row>> \in Seq(RowOfFile) /\ Len(<<>>) = 0 /\ Len(<<row>>) = 1
        /\ <<row>>[1] = row
    BY <1>5
  <2> DEFINE k0 == rest(l)
             n0 == new(l)
  <2>3. /\ k0 \in Seq(RowOfFile) /\ n0 \in Seq(RowOfFile) /\ Len(k0) <= Len(buffer[l])
        /\ Len(k0) \in Nat /\ Len(n0) \in 0 .. 1 /\ (Len(n0) = 1 => n0[1] = row)
        /\ (l \in filled => Len(n0) = 1) /\ (l \notin full => k0 = buffer[l])
        /\ (l \in full => k0 = <<>> /\ l \in filled)
        /\ \A k \in 1 .. Len(k0) : k0[k] = buffer[l][k]
    BY <2>1, <2>2
  <2>4. buffer'[l] = k0 \o n0
    BY <1>1
  <2> HIDE DEF k0, n0
  <2>5. /\ buffer'[l] \in Seq(RowOfFile) /\ Len(buffer'[l]) = Len(k0) + Len(n0)
        /\ \A k \in 1 .. Len(k0) : buffer'[l][k] = k0[k]
        /\ \A k \in Len(k0) + 1 .. Len(k0) + Len(n0) : buffer'[l][k] = n0[k - Len(k0)]
    BY <2>3, <2>4, FilesJoined
  <2>6. \A k \in 1 .. Len(buffer'[l]) : k > Len(k0) => buffer'[l][k] = row
    BY <2>3, <2>5
  <2>7. \A r \in ToSet(k0) : r \in ToSet(buffer'[l])
    <3>1. DOMAIN k0 = 1 .. Len(k0) /\ DOMAIN buffer'[l] = 1 .. Len(buffer'[l])
      BY <2>3, <2>5
    <3> QED
      BY <2>3, <2>5, <3>1 DEF ToSet
  <2>8. l \in filled => row \in ToSet(buffer'[l])
    <3>1. DOMAIN buffer'[l] = 1 .. Len(buffer'[l])
      BY <2>5
    <3> SUFFICES ASSUME l \in filled PROVE row \in ToSet(buffer'[l])
      OBVIOUS
    <3>2. Len(n0) = 1
      BY <2>3
    <3>3. Len(k0) + 1 \in 1 .. Len(buffer'[l]) /\ Len(k0) + 1 > Len(k0)
      BY <2>3, <2>5, <3>2
    <3> QED
      BY <2>6, <3>1, <3>3 DEF ToSet
  <2>9. Len(buffer'[l]) \in Len(k0) .. Len(k0) + 1
    BY <2>3, <2>5
  <2>10. \A k \in 1 .. Len(k0) : buffer'[l][k] = buffer[l][k]
    BY <2>3, <2>5
  <2> HIDE DEF rest, new
  <2> QED
    BY <2>3, <2>5, <2>6, <2>7, <2>8, <2>9, <2>10 DEF k0
<1> HIDE DEF new
<1>10. \A l \in Log : wrote'[l] = wrote[l] \cup (IF l \in filled THEN {row} ELSE {})
  BY <1>1
<1>11. FilesTypes'
  <2>1. buffer' \in [Log -> Seq(RowOfFile)]
    <3>1. buffer' = [l \in Log |-> buffer'[l]]
      BY <1>1
    <3> QED
      BY <1>9, <3>1
  <2>2. wrote' \in [Log -> SUBSET RowOfFile]
    BY <1>1, <1>3, <1>5, <1>10 DEF FilesTypes
  <2>3. stage' \in Stages /\ logsLeft' \in Seq(Log)
    BY <1>2, <1>3, FilesConstants DEF FilesTypes, Stages
  <2> QED
    BY <1>1, <1>3, <1>4, <1>7, <1>8, <2>1, <2>2, <2>3 DEF FilesTypes
<1>12. AllHeadered' /\ TornByCuts' /\ SafeIsThere'
  BY <1>1, <1>3, <1>7, <1>8 DEF AllHeadered, TornByCuts, SafeIsThere
<1>13. runNo' > 0 /\ runNo' \in Nat /\ report'.run = 0 /\ snapshot'[session'] = runNo'
  BY <1>1, <1>3, <1>4 DEF RunIsUp
<1>14. RunIsUp'
  <2> SUFFICES ASSUME NEW l \in Log, NEW r \in wrote'[l]
               PROVE  /\ r[1] = runNo' /\ r[2] \in 1 .. frameNo'
                      /\ r \in ToSet(buffer'[l]) \/ InFile(r, disk'[<<session', l>>], safe'[l])
    BY <1>1, <1>7, <1>8, <1>13 DEF RunIsUp
  <2>1. CASE r \in wrote[l]
    <3>1. /\ r[1] = runNo /\ r[2] \in 1 .. frameNo
          /\ r \in ToSet(buffer[l]) \/ InFile(r, disk[<<session, l>>], safe[l])
      BY <1>1, <1>3, <2>1 DEF RunIsUp
    <3>2. r \in ToSet(buffer'[l]) \/ InFile(r, d[<<session, l>>], safe[l])
      BY <1>8, <1>9, <3>1
    <3>3. r[2] \in 1 .. frameNo'
      BY <1>0, <1>4, <3>1
    <3> QED
      BY <1>0, <1>7, <3>1, <3>2, <3>3
  <2>2. CASE r = row /\ l \in filled
    <3>1. r \in ToSet(buffer'[l])
      BY <1>9, <2>2
    <3>2. frameNo + 1 \in 1 .. frameNo'
      BY <1>0, <1>4
    <3> QED
      BY <1>0, <1>5, <2>2, <3>1, <3>2
  <2> QED
    BY <1>10, <2>1, <2>2
<1>15. ASSUME NEW l \in Log
       PROVE  Fits(disk'[<<session', l>>], buffer'[l], columns', runNo', frameNo')
  <2> DEFINE file == disk'[<<session', l>>]
  <2>0. file = d[<<session, l>>]
    BY <1>1, <1>7
  <2>1. CASE l \in full
    <3>1. Len(file) > 1 /\ columns[file[1][1]] = columns[runNo]
      BY <1>8, <2>0, <2>1
    <3>2. file # <<>>
      BY <3>1
    <3>3. \A k \in 1 .. Len(buffer'[l]) : buffer'[l][k] = row
      <4>1. Len(rest(l)) = 0
        BY <2>1
      <4> QED
        BY <1>9, <4>1
    <3>4. frameNo + 1 \in 1 .. frameNo'
      BY <1>0, <1>4
    <3> HIDE DEF file
    <3>5. Fits(file, buffer'[l], columns, runNo, frameNo')
      BY <1>0, <1>5, <3>1, <3>2, <3>3, <3>4 DEF Fits
    <3> QED
      BY <1>0, <3>5 DEF file
  <2>2. CASE l \notin full
    <3>1. file = disk[<<session, l>>] /\ rest(l) = buffer[l]
      BY <1>8, <2>0, <2>2
    <3>2. Fits(file, buffer[l], columns, runNo, frameNo)
      BY <1>6, <3>1
    <3> HIDE DEF file
    <3>3. file = <<>> => buffer[l] # <<>>
      BY <3>2 DEF Fits
    <3>4. file # <<>> => Len(file) > 1 /\ columns[file[1][1]] = columns[runNo]
      BY <3>2 DEF Fits
    <3>5. /\ Len(buffer[l]) \in Nat /\ Len(buffer'[l]) \in Len(buffer[l]) .. Len(buffer[l]) + 1
          /\ \A k \in 1 .. Len(buffer[l]) : buffer'[l][k] = buffer[l][k]
          /\ \A k \in 1 .. Len(buffer'[l]) : k > Len(buffer[l]) => buffer'[l][k] = row
          /\ buffer'[l] \in Seq(RowOfFile) /\ buffer[l] \in Seq(RowOfFile)
      BY <1>9, <3>1, FilesTyped
    <3>6. buffer[l] # <<>> => Len(buffer[l]) > 0 /\ buffer'[l] # <<>>
      BY <3>5
    <3>7. ASSUME NEW k \in 1 .. Len(buffer'[l])
          PROVE  /\ buffer'[l][k][1] = runNo
                 /\ IF file = <<>> /\ k = 1 THEN buffer'[l][k][2] = 0
                    ELSE buffer'[l][k][2] \in 1 .. frameNo + 1
      <4>1. CASE k <= Len(buffer[l])
        <5>1. k \in 1 .. Len(buffer[l]) /\ buffer'[l][k] = buffer[l][k]
          BY <3>5, <4>1
        <5>2. /\ buffer[l][k][1] = runNo
              /\ IF file = <<>> /\ k = 1 THEN buffer[l][k][2] = 0
                 ELSE buffer[l][k][2] \in 1 .. frameNo
          BY <3>2, <5>1 DEF Fits
        <5> QED
          BY <1>4, <5>1, <5>2
      <4>2. CASE k > Len(buffer[l])
        <5>1. buffer'[l][k] = row
          BY <3>5, <4>2
        <5>2. ~(file = <<>> /\ k = 1)
          BY <3>3, <3>5, <3>6, <4>2
        <5> QED
          BY <1>4, <1>5, <5>1, <5>2
      <4> QED
        BY <3>5, <4>1, <4>2
    <3>8. Fits(file, buffer'[l], columns, runNo, frameNo')
      BY <1>0, <3>3, <3>4, <3>6, <3>7 DEF Fits
    <3> QED
      BY <1>0, <3>8 DEF file
  <2> QED
    BY <2>1, <2>2
<1>16. ASSUME NEW l \in Log
       PROVE  /\ Len(buffer[l]) <= (frameNo % FlushEvery) + 1
              /\ \A k \in 1 .. Len(buffer[l]) :
                   buffer[l][k][2] = 0 \/ buffer[l][k][2] > frameNo - (frameNo % FlushEvery)
  BY <1>1, <1>3 DEF StageHolds
<1>17. /\ frameNo % FlushEvery \in 0 .. FlushEvery - 1
       /\ (frameNo + 1) % FlushEvery = 0 => frameNo % FlushEvery = FlushEvery - 1
       /\ (frameNo + 1) % FlushEvery # 0 =>
             (frameNo + 1) % FlushEvery = (frameNo % FlushEvery) + 1
       /\ FlushEvery \in Nat
  BY <1>4, FlushRound, FilesConstants
<1>18. ASSUME NEW l \in Log PROVE Len(buffer'[l]) <= (frameNo % FlushEvery) + 2
  <2>1. /\ Len(rest(l)) \in Nat /\ Len(rest(l)) <= Len(buffer[l]) /\ Len(buffer[l]) \in Nat
        /\ Len(buffer'[l]) \in Len(rest(l)) .. Len(rest(l)) + 1
    BY <1>9, FilesTyped
  <2>2. Len(buffer[l]) <= (frameNo % FlushEvery) + 1 /\ frameNo % FlushEvery \in Nat
    BY <1>16, <1>17
  <2> HIDE DEF rest
  <2> QED
    BY <2>1, <2>2
<1>19. CASE (frameNo + 1) % FlushEvery = 0
  <2>1. stage' = "flushing" /\ logsLeft' = LogsInOrder
    BY <1>2, <1>19
  <2>2. \A l \in Log : l \in ToSet(logsLeft') /\ Len(buffer'[l]) <= FlushEvery + 1
    <3>1. \A l \in Log : l \in ToSet(logsLeft')
      BY <2>1 DEF Log
    <3>2. (frameNo % FlushEvery) + 2 = FlushEvery + 1
      BY <1>17, <1>19
    <3> QED
      BY <1>18, <3>1, <3>2
  <2>3. StageHolds'
    BY <1>1, <1>15, <1>19, <2>1, <2>2 DEF StageHolds
  <2> QED
    BY <1>11, <1>12, <1>13, <1>14, <2>3, NotYetReported DEF FInv
<1>20. CASE (frameNo + 1) % FlushEvery # 0
  <2>1. stage' = "running" /\ frameNo' = frameNo + 1
        /\ frameNo' % FlushEvery = (frameNo % FlushEvery) + 1
    BY <1>1, <1>2, <1>17, <1>20
  <2>2. ASSUME NEW l \in Log
        PROVE  /\ Len(buffer'[l]) <= (frameNo' % FlushEvery) + 1
               /\ \A k \in 1 .. Len(buffer'[l]) :
                    \/ buffer'[l][k][2] = 0
                    \/ buffer'[l][k][2] > frameNo' - (frameNo' % FlushEvery)
    <3>1. Len(buffer'[l]) <= (frameNo' % FlushEvery) + 1
      BY <1>9, <1>17, <1>18, <2>1
    <3>2. frameNo' - (frameNo' % FlushEvery) = frameNo - (frameNo % FlushEvery)
      BY <1>4, <1>17, <2>1
    <3>3. ASSUME NEW k \in 1 .. Len(buffer'[l])
          PROVE  \/ buffer'[l][k][2] = 0
                 \/ buffer'[l][k][2] > frameNo - (frameNo % FlushEvery)
      <4>1. CASE k <= Len(rest(l))
        <5>1. k \in 1 .. Len(rest(l)) /\ k \in 1 .. Len(buffer[l]) /\ buffer'[l][k] = buffer[l][k]
          BY <1>9, <4>1, FilesTyped
        <5> QED
          BY <1>16, <5>1
      <4>2. CASE k > Len(rest(l))
        <5>1. buffer'[l][k] = row
          BY <1>9, <4>2
        <5> QED
          BY <1>4, <1>5, <1>17, <5>1
      <4> QED
        BY <1>9, <4>1, <4>2
    <3> QED
      BY <3>1, <3>2, <3>3
  <2>3. StageHolds'
    BY <1>15, <2>1, <2>2 DEF StageHolds
  <2> QED
    BY <1>11, <1>12, <1>13, <1>14, <2>3, NotYetReported DEF FInv
<1> QED
  BY <1>19, <1>20

LEMMA FlushKeeps ==
  ASSUME FInv, Flush, UNCHANGED columns
  PROVE  FInv'
<1> DEFINE l == Head(logsLeft)
           d == DiskAfter({l})
<1>1. /\ stage \in {"flushing", "closing"} /\ logsLeft # <<>> /\ logsLeft' = Tail(logsLeft)
      /\ disk' = [disk EXCEPT ![<<session, l>>] = disk[<<session, l>>] \o Halves(buffer[l])]
      /\ buffer' = [buffer EXCEPT ![l] = <<>>]
      /\ UNCHANGED <<columns, clock, runNo, session, frameNo, archived, snapshot, safe, report,
                     wrote, cuts>>
  BY DEF Flush, HandOver
<1>2. /\ Len(logsLeft) # 1 => stage' = stage
      /\ Len(logsLeft) = 1 /\ stage = "flushing" => stage' = "running"
      /\ Len(logsLeft) = 1 /\ stage = "closing" => stage' = "reporting"
  BY DEF Flush, AfterFlush
<1>3. /\ FilesTypes /\ AllHeadered /\ TornByCuts /\ SafeIsThere /\ RunIsUp /\ StageHolds
  BY DEF FInv
<1>4. /\ l \in Log /\ Tail(logsLeft) \in Seq(Log)
      /\ \A k \in ToSet(logsLeft) : k = l \/ k \in ToSet(logsLeft')
      /\ Len(logsLeft) = 1 => logsLeft' = <<>>
  BY <1>1, <1>3, LeftAfter DEF FilesTypes
<1>5. /\ \A k \in Log : Fits(disk[<<session, k>>], buffer[k], columns, runNo, frameNo)
      /\ \A k \in Log : Len(buffer[k]) <= IF k \in ToSet(logsLeft) THEN FlushEvery + 1 ELSE 0
      /\ stage = "flushing" => frameNo % FlushEvery = 0
  BY <1>1, <1>3 DEF StageHolds
<1>6. disk' = d
  <2>1. <<session, l>> \in Second \X Log
    BY <1>4, FilesTyped
  <2>2. \A f \in Second \X Log : (f[1] = session /\ f[2] \in {l}) <=> f = <<session, l>>
    OBVIOUS
  <2>3. DOMAIN disk = Second \X Log
    BY FilesTyped
  <2> HIDE DEF l
  <2> QED
    BY <1>1, <2>1, <2>2, <2>3 DEF DiskAfter
<1> HIDE DEF l
<1>7. /\ d \in [Second \X Log -> Seq(HalfRow)]
      /\ \A f \in Second \X Log :
           /\ HeaderedFile(d[f], columns)
           /\ cuts = 0 => LastHalf(d[f], Len(d[f]))
      /\ \A k \in Log :
           /\ cuts = 0 => LastHalf(d[<<session, k>>], safe[k])
           /\ safe[k] <= Len(d[<<session, k>>])
           /\ NotTornSince(d[<<session, k>>], safe[k])
           /\ \A r : InFile(r, disk[<<session, k>>], safe[k])
                     => InFile(r, d[<<session, k>>], safe[k])
           /\ k \notin {l} => d[<<session, k>>] = disk[<<session, k>>]
           /\ k \in {l} =>
                /\ \A r \in ToSet(buffer[k]) : InFile(r, d[<<session, k>>], safe[k])
                /\ Len(d[<<session, k>>]) > 1
                /\ columns[d[<<session, k>>][1][1]] = columns[runNo]
  <2>1. stage # "off" /\ {l} \in SUBSET Log
    BY <1>1, <1>4
  <2> QED
    BY <1>5, <2>1, WriteOut
<1> HIDE DEF d
<1>8. /\ buffer' \in [Log -> Seq(RowOfFile)] /\ buffer'[l] = <<>>
      /\ \A k \in Log : k # l => buffer'[k] = buffer[k]
  <2>1. <<>> \in Seq(RowOfFile)
    OBVIOUS
  <2> QED
    BY <1>1, <1>4, <2>1, FilesTyped
<1>9. stage' \in Stages /\ stage' # "off" /\ stage' # "opening"
  BY <1>1, <1>2 DEF Stages
<1>10. FilesTypes'
  BY <1>1, <1>3, <1>4, <1>6, <1>7, <1>8, <1>9 DEF FilesTypes
<1>11. AllHeadered' /\ TornByCuts' /\ SafeIsThere'
  BY <1>1, <1>3, <1>6, <1>7 DEF AllHeadered, TornByCuts, SafeIsThere
<1>12. runNo' > 0 /\ runNo' \in Nat /\ report'.run = 0 /\ snapshot'[session'] = runNo'
  BY <1>1, <1>3, FilesTyped DEF RunIsUp
<1>13. RunIsUp'
  <2> SUFFICES ASSUME NEW k \in Log, NEW r \in wrote'[k]
               PROVE  /\ r[1] = runNo' /\ r[2] \in 1 .. frameNo'
                      /\ r \in ToSet(buffer'[k]) \/ InFile(r, disk'[<<session', k>>], safe'[k])
    BY <1>1, <1>6, <1>7, <1>12 DEF RunIsUp
  <2>1. /\ r[1] = runNo /\ r[2] \in 1 .. frameNo
        /\ r \in ToSet(buffer[k]) \/ InFile(r, disk[<<session, k>>], safe[k])
    BY <1>1, <1>3 DEF RunIsUp
  <2> QED
    BY <1>1, <1>6, <1>7, <1>8, <2>1
<1>14. ASSUME NEW k \in Log
       PROVE  Fits(disk'[<<session', k>>], buffer'[k], columns', runNo', frameNo')
  <2>1. CASE k = l
    <3> DEFINE file == d[<<session, k>>]
    <3>1. Len(file) > 1 /\ columns[file[1][1]] = columns[runNo]
      BY <1>7, <2>1
    <3>2. file # <<>> /\ buffer'[k] = <<>> /\ Len(<<>>) = 0
      BY <1>8, <2>1, <3>1
    <3> HIDE DEF file
    <3>3. Fits(file, buffer'[k], columns, runNo, frameNo)
      BY <3>1, <3>2 DEF Fits
    <3> QED
      BY <1>1, <1>6, <3>3 DEF file
  <2>2. CASE k # l
    BY <1>1, <1>5, <1>6, <1>7, <1>8, <2>2
  <2> QED
    BY <2>1, <2>2
<1>15. ASSUME NEW k \in Log
       PROVE  Len(buffer'[k]) <= IF k \in ToSet(logsLeft') THEN FlushEvery + 1 ELSE 0
  <2>0. FlushEvery \in Nat
    BY FilesConstants
  <2>1. CASE k = l
    <3>1. buffer'[k] = <<>>
      BY <1>8, <2>1
    <3>2. Len(<<>>) = 0
      OBVIOUS
    <3> QED
      BY <2>0, <3>1, <3>2
  <2>2. CASE k # l
    <3>1. buffer'[k] = buffer[k] /\ Len(buffer[k]) \in Nat
      BY <1>8, <2>2, FilesTyped
    <3>2. Len(buffer[k]) <= IF k \in ToSet(logsLeft) THEN FlushEvery + 1 ELSE 0
      BY <1>5
    <3>3. k \in ToSet(logsLeft) => k \in ToSet(logsLeft')
      BY <1>4, <2>2
    <3> QED
      BY <2>0, <3>1, <3>2, <3>3
  <2> QED
    BY <2>1, <2>2
<1>16. StageHolds'
  <2>1. CASE Len(logsLeft) # 1
    BY <1>1, <1>2, <1>5, <1>14, <1>15, <2>1 DEF StageHolds
  <2>2. CASE Len(logsLeft) = 1
    <3>1. \A k \in Log : buffer'[k] = <<>>
      <4> SUFFICES ASSUME NEW k \in Log PROVE buffer'[k] = <<>>
        OBVIOUS
      <4>1. ToSet(logsLeft') = {}
        BY <1>4, <2>2 DEF ToSet
      <4>2. Len(buffer'[k]) <= 0 /\ buffer'[k] \in Seq(RowOfFile)
        BY <1>8, <1>15, <4>1
      <4> QED
        BY <4>2
    <3>2. buffer' = Empty
      BY <1>8, <3>1 DEF Empty
    <3>3. \A k \in Log : Len(buffer'[k]) = 0
      BY <3>1
    <3>4. stage = "flushing" => stage' = "running" /\ frameNo' % FlushEvery = 0
      BY <1>1, <1>2, <1>5, <2>2
    <3>5. stage = "closing" => stage' = "reporting"
      BY <1>2, <2>2
    <3>6. CASE stage = "flushing"
      BY <1>14, <3>3, <3>4, <3>6 DEF StageHolds
    <3>7. CASE stage = "closing"
      BY <3>2, <3>5, <3>7 DEF StageHolds
    <3> QED
      BY <1>1, <3>6, <3>7
  <2> QED
    BY <2>1, <2>2
<1> QED
  BY <1>10, <1>11, <1>12, <1>13, <1>16, NotYetReported DEF FInv

LEMMA StopKeeps ==
  ASSUME FInv, StopRun, UNCHANGED columns
  PROVE  FInv'
<1>1. /\ stage = "running" /\ stage' = "closing" /\ logsLeft' = LogsInOrder
      /\ UNCHANGED <<columns, clock, runNo, session, frameNo, buffer, disk, archived, snapshot,
                     safe, report, wrote, cuts>>
  BY DEF StopRun
<1>2. /\ FilesTypes /\ AllHeadered /\ TornByCuts /\ SafeIsThere /\ RunIsUp /\ StageHolds
      /\ ReportComplete
  BY DEF FInv
<1>3. FilesTypes'
  BY <1>1, <1>2, FilesConstants DEF FilesTypes, Stages
<1>4. AllHeadered' /\ TornByCuts' /\ SafeIsThere'
  BY <1>1, <1>2 DEF AllHeadered, TornByCuts, SafeIsThere
<1>5. RunIsUp'
  BY <1>1, <1>2 DEF RunIsUp
<1>6. ReportComplete'
  BY <1>1, <1>2 DEF ReportComplete
<1>7. StageHolds'
  <2>1. \A l \in Log : l \in ToSet(logsLeft') /\ Len(buffer[l]) <= (frameNo % FlushEvery) + 1
    BY <1>1, <1>2 DEF StageHolds, Log
  <2>2. frameNo % FlushEvery \in 0 .. FlushEvery - 1 /\ FlushEvery \in Nat
    BY FilesTyped, FlushRound, FilesConstants
  <2>3. \A l \in Log : Len(buffer[l]) <= FlushEvery + 1
    BY <2>1, <2>2, FilesTyped
  <2>4. \A l \in Log : Fits(disk[<<session, l>>], buffer[l], columns, runNo, frameNo)
    BY <1>1, <1>2 DEF StageHolds
  <2> QED
    BY <1>1, <2>1, <2>3, <2>4 DEF StageHolds
<1> QED
  BY <1>3, <1>4, <1>5, <1>6, <1>7 DEF FInv

\* A row a run appended can be misread only behind a torn one.
LEMMA OnlyFirstUnread ==
  ASSUME NEW file \in Seq(HalfRow), NEW s \in 0 .. Len(file), NotTornSince(file, s),
         NEW row, InFile(row, file, s), row \notin WholeRows(file)
  PROVE  row = RowAt(file, s + 1) /\ ~LastHalf(file, s)
<1>1. PICK k \in s + 1 .. Len(file) : RowFrom(file, k) /\ RowAt(file, k) = row
  BY DEF InFile
<1>2. Len(file) \in Nat /\ s \in Nat /\ k \in 1 .. Len(file) /\ DOMAIN file = 1 .. Len(file)
  OBVIOUS
<1>3. k # 1 /\ file[k - 1][3] # 2
  BY <1>1, <1>2 DEF WholeRows
<1>4. k - 1 \in 1 .. Len(file) /\ file[k - 1][3] = 1
  <2>1. k - 1 \in 1 .. Len(file)
    BY <1>2, <1>3
  <2> QED
    BY <1>3, <2>1, RowOfHalf
<1>5. k = s + 1
  <2> SUFFICES ASSUME k # s + 1 PROVE FALSE
    OBVIOUS
  <2>1. k - 1 \in s + 1 .. Len(file) /\ (k - 1) + 1 = k
    BY <1>1, <1>2
  <2>2. RowFrom(file, k - 1)
    BY <1>4, <2>1 DEF NotTornSince
  <2>3. file[k] = Append(RowAt(file, k - 1), 2)
    BY <2>1, <2>2 DEF RowFrom
  <2>4. RowAt(file, k - 1) \in RowOfFile
    BY <1>4, RowOfHalf
  <2>5. file[k] = <<RowAt(file, k - 1)[1], RowAt(file, k - 1)[2], 2>>
    BY <2>3, <2>4, AppendHalf
  <2>6. file[k][3] = 2
    BY <2>5
  <2>7. file[k][3] = 1
    BY <1>1 DEF RowFrom
  <2> QED
    BY <2>6, <2>7
<1>6. k - 1 = s /\ s > 0
  BY <1>2, <1>3, <1>5
<1> QED
  BY <1>1, <1>3, <1>5, <1>6 DEF LastHalf

LEMMA ReportKeeps ==
  ASSUME FInv, MakeReport, UNCHANGED columns
  PROVE  FInv'
<1>1. /\ stage = "reporting" /\ stage' = "off" /\ frameNo' = 0
      /\ UNCHANGED <<columns, clock, runNo, session, logsLeft, buffer, disk, archived, snapshot,
                     safe, wrote, cuts>>
  BY DEF MakeReport
<1>2. /\ FilesTypes /\ AllHeadered /\ TornByCuts /\ SafeIsThere /\ RunIsUp /\ StageHolds
      /\ ReportComplete
  BY DEF FInv
<1>3. FilesTypes'
  BY <1>1, <1>2, FilesConstants DEF FilesTypes, Stages
<1>4. AllHeadered' /\ TornByCuts' /\ SafeIsThere' /\ RunIsUp'
  BY <1>1, <1>2 DEF AllHeadered, TornByCuts, SafeIsThere, RunIsUp
<1>5. StageHolds'
  BY <1>1, <1>2 DEF StageHolds
<1>6. ASSUME UNCHANGED report PROVE ReportComplete'
  BY <1>1, <1>2, <1>6 DEF ReportComplete
<1>7. ASSUME NEW unread,
             report' = [run |-> runNo, settings |-> snapshot[session], lost |-> unread,
                        seen |-> [l \in Log |-> WholeRows(disk[<<session, l>>])]]
      PROVE  ReportComplete'
  <2> SUFFICES ASSUME NEW l \in Log \ unread
               PROVE  LET missing == wrote'[l] \ report'.seen[l]
                      IN  missing = {} \/ (cuts' > 0 /\ \E row \in wrote'[l] : missing = {row})
    BY <1>1, <1>2, <1>7 DEF ReportComplete, RunIsUp
  <2> DEFINE file == disk[<<session, l>>]
             missing == wrote[l] \ WholeRows(file)
             first == RowAt(file, safe[l] + 1)
  <2>1. wrote'[l] = wrote[l] /\ report'.seen[l] = WholeRows(file) /\ cuts' = cuts
    BY <1>1, <1>7
  <2>2. /\ file \in Seq(HalfRow) /\ safe[l] \in 0 .. Len(file) /\ NotTornSince(file, safe[l])
        /\ (cuts = 0 => LastHalf(file, safe[l])) /\ cuts \in Nat
    BY <1>1, <1>2, FilesTyped, FilesConstants, SMTT(60) DEF RunIsUp, TornByCuts, FilesTypes
  <2>3. \A row \in wrote[l] : InFile(row, file, safe[l])
    <3>1. buffer[l] = <<>>
      BY <1>1, <1>2 DEF StageHolds, Empty
    <3>2. ToSet(buffer[l]) = {}
      BY <3>1 DEF ToSet
    <3> QED
      BY <1>1, <1>2, <3>2 DEF RunIsUp
  <2> HIDE DEF file
  <2>4. ASSUME NEW row \in missing
        PROVE  row = first /\ cuts > 0 /\ row \in wrote[l]
    <3>1. row = first /\ ~LastHalf(file, safe[l])
      BY <2>2, <2>3, OnlyFirstUnread
    <3> QED
      BY <2>2, <3>1
  <2>5. missing = {} \/ (cuts > 0 /\ first \in wrote[l] /\ missing = {first})
    BY <2>4
  <2> QED
    BY <2>1, <2>5
<1>8. ReportComplete'
  <2>1. \/ \E unread \in SUBSET {l \in Log : Overfull(disk[<<session, l>>])} :
             report' = [run |-> runNo, settings |-> snapshot[session], lost |-> unread,
                        seen |-> [l \in Log |-> WholeRows(disk[<<session, l>>])]]
        \/ UNCHANGED report
    BY DEF MakeReport
  <2> QED
    BY <1>6, <1>7, <2>1
<1> QED
  BY <1>3, <1>4, <1>5, <1>8 DEF FInv

\* When a run is over nothing is asked of its process any more.
LEMMA OverKeeps ==
  ASSUME FInv, Over, UNCHANGED <<columns, runNo, session, archived, snapshot, safe, report>>,
         clock' \in Second, cuts' \in 0 .. MaxCuts, disk' \in [Second \X Log -> Seq(HalfRow)],
         \A f \in Second \X Log : HeaderedFile(disk'[f], columns),
         \A l \in Log : safe[l] <= Len(disk'[<<session, l>>]),
         TornByCuts'
  PROVE  FInv'
<1>1. /\ stage' = "off" /\ logsLeft' = <<>> /\ frameNo' = 0
      /\ buffer' = Empty /\ wrote' = [l \in Log |-> {}]
  BY DEF Over
<1>2. FilesTypes /\ AllHeadered /\ ReportComplete
  BY DEF FInv
<1>3. FilesTypes'
  <2>1. buffer' \in [Log -> Seq(RowOfFile)] /\ wrote' \in [Log -> SUBSET RowOfFile]
    <3>1. <<>> \in Seq(RowOfFile)
      OBVIOUS
    <3> QED
      BY <1>1, <3>1 DEF Empty
  <2>2. logsLeft' \in Seq(Log) /\ stage' \in Stages /\ frameNo' \in 0 .. FramesOfRun
    BY <1>1, FilesConstants DEF Stages
  <2> QED
    BY <1>2, <2>1, <2>2 DEF FilesTypes
<1>4. AllHeadered' /\ SafeIsThere'
  BY <1>2 DEF AllHeadered, SafeIsThere
<1>5. RunIsUp' /\ StageHolds'
  BY <1>1 DEF RunIsUp, StageHolds
<1>6. ReportComplete'
  <2>1. \A l \in Log : wrote'[l] = {}
    BY <1>1
  <2> QED
    BY <1>2, <2>1 DEF ReportComplete
<1> QED
  BY <1>3, <1>4, <1>5, <1>6 DEF FInv

LEMMA RaiseKeeps ==
  ASSUME FInv, RunRaises, UNCHANGED columns
  PROVE  FInv'
<1> DEFINE d == DiskAfter(Log)
<1>1. /\ stage = "running" \/ (stage = "opening" /\ logsLeft = <<>>)
      /\ Over
      /\ disk' = [f \in DOMAIN disk |->
                    IF f[1] = session THEN disk[f] \o Halves(buffer[f[2]]) ELSE disk[f]]
      /\ UNCHANGED <<columns, clock, runNo, session, archived, snapshot, safe, report, cuts>>
  BY DEF RunRaises
<1>2. FilesTypes /\ StageHolds /\ DOMAIN disk = Second \X Log
  BY FilesTyped DEF FInv
<1>3. \A l \in Log : Fits(disk[<<session, l>>], buffer[l], columns, runNo, frameNo)
  <2>1. logsLeft = <<>> => ToSet(logsLeft) = {}
    BY DEF ToSet
  <2> QED
    BY <1>1, <1>2, <2>1 DEF StageHolds
<1>4. disk' = d
  <2>1. \A f \in Second \X Log : f[2] \in Log
    OBVIOUS
  <2> QED
    BY <1>1, <1>2, <2>1 DEF DiskAfter
<1>5. /\ d \in [Second \X Log -> Seq(HalfRow)]
      /\ \A f \in Second \X Log :
           /\ HeaderedFile(d[f], columns)
           /\ cuts = 0 => LastHalf(d[f], Len(d[f]))
      /\ \A l \in Log :
           /\ cuts = 0 => LastHalf(d[<<session, l>>], safe[l])
           /\ safe[l] <= Len(d[<<session, l>>])
  BY <1>1, <1>3, WriteOut
<1> HIDE DEF d
<1>6. TornByCuts'
  BY <1>1, <1>4, <1>5 DEF TornByCuts
<1> QED
  BY <1>1, <1>2, <1>4, <1>5, <1>6, OverKeeps DEF FilesTypes

LEMMA KillKeeps ==
  ASSUME FInv, KillRun, UNCHANGED columns
  PROVE  FInv'
<1>1. /\ Over
      /\ UNCHANGED <<columns, clock, runNo, session, disk, archived, snapshot, safe, report, cuts>>
  BY DEF KillRun
<1>2. FilesTypes /\ AllHeadered /\ TornByCuts /\ SafeIsThere
  BY DEF FInv
<1>3. TornByCuts'
  BY <1>1, <1>2 DEF TornByCuts
<1> QED
  BY <1>1, <1>2, <1>3, OverKeeps DEF FilesTypes, AllHeadered, SafeIsThere

LEMMA CutKeeps ==
  ASSUME FInv, PowerCut, UNCHANGED columns
  PROVE  FInv'
<1>1. PICK left \in [Log -> 0 .. Max({Len(disk[<<session, l>>]) : l \in Log})] :
        /\ \A l \in Log : left[l] \in safe[l] .. Len(disk[<<session, l>>])
        /\ disk' = [f \in DOMAIN disk |->
                      IF f[1] = session THEN SubSeq(disk[f], 1, left[f[2]]) ELSE disk[f]]
  BY DEF PowerCut
<1>2. /\ cuts < MaxCuts /\ cuts' = cuts + 1 /\ Over /\ clock' = 0
      /\ UNCHANGED <<columns, runNo, session, archived, snapshot, safe, report>>
  BY DEF PowerCut
<1>3. FilesTypes /\ AllHeadered /\ DOMAIN disk = Second \X Log
  BY FilesTyped DEF FInv
<1>4. ASSUME NEW f \in Second \X Log
      PROVE  /\ disk'[f] \in Seq(HalfRow) /\ HeaderedFile(disk'[f], columns)
             /\ f[1] = session => Len(disk'[f]) = left[f[2]]
  <2>1. disk[f] \in Seq(HalfRow) /\ HeaderedFile(disk[f], columns) /\ columns \in Seq(Nat \ {0})
    BY <1>3, FilesTyped DEF AllHeadered
  <2>2. CASE f[1] = session
    <3>1. f[2] \in Log /\ f = <<session, f[2]>>
      BY <2>2
    <3>2. left[f[2]] \in 0 .. Len(disk[f])
      BY <1>1, <3>1, FilesTyped
    <3>3. disk'[f] = SubSeq(disk[f], 1, left[f[2]])
      BY <1>1, <1>3, <2>2
    <3> QED
      BY <2>1, <3>2, <3>3, HeaderedPart
  <2>3. CASE f[1] # session
    <3>1. disk'[f] = disk[f]
      BY <1>1, <1>3, <2>3
    <3> QED
      BY <2>1, <2>3, <3>1
  <2> QED
    BY <2>2, <2>3
<1>5. disk' \in [Second \X Log -> Seq(HalfRow)]
  <2>1. disk' = [f \in Second \X Log |-> disk'[f]]
    BY <1>1, <1>3
  <2> QED
    BY <1>4, <2>1
<1>6. ASSUME NEW l \in Log PROVE safe[l] <= Len(disk'[<<session, l>>])
  <2>1. /\ <<session, l>> \in Second \X Log /\ safe[l] \in Nat /\ Len(disk[<<session, l>>]) \in Nat
        /\ <<session, l>>[1] = session /\ <<session, l>>[2] = l
    BY FilesTyped
  <2>2. left[l] \in safe[l] .. Len(disk[<<session, l>>])
    BY <1>1
  <2>3. Len(disk'[<<session, l>>]) = left[l]
    BY <1>4, <2>1
  <2> QED
    BY <2>1, <2>2, <2>3
<1>7. cuts' \in 0 .. MaxCuts /\ cuts' # 0 /\ clock' \in Second
  BY <1>2, <1>3, FilesConstants DEF FilesTypes
<1>8. TornByCuts'
  BY <1>7 DEF TornByCuts
<1> QED
  BY <1>2, <1>4, <1>5, <1>6, <1>7, <1>8, OverKeeps

LEMMA FilesStep ==
  ASSUME FInv, [FilesNext]_filesVars
  PROVE  FInv'
<1>1. CASE UNCHANGED filesVars
  BY <1>1 DEF filesVars, FInv, FilesTypes, AllHeadered, TornByCuts, SafeIsThere, RunIsUp,
              StageHolds, ReportComplete
<1>2. CASE FilesNext
  <2>1. /\ UNCHANGED columns
        /\ \/ StartRun \/ OpenLog \/ CameraOpens
           \/ \E filled \in {Log, Log \ {Head(LogsInOrder)}} :
                \E full \in SUBSET filled : LogFrame(filled, full)
           \/ Flush \/ StopRun \/ MakeReport
           \/ RunRaises \/ KillRun \/ PowerCut
    BY <1>2 DEF FilesNext
  <2>2. ASSUME NEW filled \in {Log, Log \ {Head(LogsInOrder)}}, NEW full \in SUBSET filled,
               LogFrame(filled, full)
        PROVE  FInv'
    <3>1. filled \in SUBSET Log
      OBVIOUS
    <3> QED
      BY <2>1, <2>2, <3>1, FrameKeeps
  <2> QED
    BY <2>1, <2>2, StartKeeps, OpenKeeps, CameraKeeps, FlushKeeps, StopKeeps, ReportKeeps,
       RaiseKeeps, KillKeeps, CutKeeps
<1> QED
  BY <1>1, <1>2

LEMMA HeaderedApart ==
  ASSUME FInv, NEW file \in Seq(HalfRow), HeaderedFile(file, columns),
         NEW row \in WholeRows(file)
  PROVE  /\ HeaderOf(file) = columns[row[1]]
         /\ row[2] = 0 => row = RowAt(file, 1)
<1>1. PICK k \in DOMAIN file : RowFrom(file, k) /\ row = RowAt(file, k)
  BY DEF WholeRows
<1>2. /\ Len(file) \in Nat /\ k \in 1 .. Len(file) /\ k + 1 \in 1 .. Len(file)
      /\ DOMAIN file = 1 .. Len(file)
  BY <1>1 DEF RowFrom
<1>3. HeaderOf(file) = columns[file[1][1]] /\ Len(file) > 1
  BY <1>2, HeaderIsFirst
<1>4. row[1] = file[k][1] /\ row[2] = file[k][2]
  BY <1>1 DEF RowAt
<1>5. CASE k = 1
  BY <1>1, <1>3, <1>4, <1>5
<1>6. CASE k = 2
  <2>1. file[2] = Append(RowAt(file, 1), 2)
    BY <1>3 DEF HeaderedFile
  <2>2. RowAt(file, 1) \in RowOfFile
    BY <1>2, RowOfHalf
  <2>3. file[2] = <<RowAt(file, 1)[1], RowAt(file, 1)[2], 2>>
    BY <2>1, <2>2, AppendHalf
  <2>4. file[2][3] = 2
    BY <2>3
  <2>5. file[2][3] = 1
    BY <1>1, <1>6 DEF RowFrom
  <2> QED
    BY <2>4, <2>5
<1>7. CASE k > 2
  <2>1. k \in 3 .. Len(file)
    BY <1>2, <1>7
  <2>2. file[k][2] # 0 /\ columns[file[k][1]] = columns[file[1][1]]
    BY <2>1 DEF HeaderedFile
  <2> QED
    BY <1>3, <1>4, <2>2
<1> QED
  BY <1>2, <1>5, <1>6, <1>7

LEMMA FilesImplied ==
  ASSUME FInv
  PROVE  FilesTypeOK /\ SchemasApart /\ UnsavedAreRecent /\ ReportComplete
<1>1. /\ FilesTypes /\ AllHeadered /\ TornByCuts /\ SafeIsThere /\ RunIsUp /\ StageHolds
      /\ ReportComplete
  BY DEF FInv
<1>2. FilesTypeOK
  <2>1. ASSUME NEW l \in Log PROVE Len(buffer[l]) <= FlushEvery + 1
    <3>0. /\ FlushEvery \in Nat \ {0} /\ frameNo % FlushEvery \in 0 .. FlushEvery - 1
          /\ Len(buffer[l]) \in Nat
      BY FilesTyped, FlushRound, FilesConstants
    <3>1. CASE stage \in {"off", "reporting"}
      <4>1. buffer[l] = <<>>
        BY <1>1, <3>1 DEF StageHolds, Empty
      <4>2. Len(buffer[l]) = 0
        BY <4>1
      <4> QED
        BY <3>0, <4>2
    <3>2. CASE stage = "opening"
      <4>1. buffer[l] = <<>> \/ buffer[l] = <<<<runNo, 0>>>>
        BY <1>1, <3>2 DEF StageHolds
      <4>2. Len(<<>>) = 0 /\ Len(<<<<runNo, 0>>>>) = 1
        OBVIOUS
      <4>3. Len(buffer[l]) = 0 \/ Len(buffer[l]) = 1
        <5>1. CASE buffer[l] = <<>>
          BY <4>2, <5>1
        <5>2. CASE buffer[l] = <<<<runNo, 0>>>>
          BY <4>2, <5>2
        <5> QED
          BY <4>1, <5>1, <5>2
      <4>4. FlushEvery \in Nat
        BY <3>0
      <4> DEFINE n == Len(buffer[l])
      <4>5. n = 0 \/ n = 1
        BY <4>3
      <4> HIDE DEF n
      <4>6. n <= FlushEvery + 1
        BY <4>4, <4>5
      <4> QED
        BY <4>6 DEF n
    <3>3. CASE stage = "running"
      <4>1. Len(buffer[l]) <= (frameNo % FlushEvery) + 1
        BY <1>1, <3>3 DEF StageHolds
      <4> QED
        BY <3>0, <4>1
    <3>4. CASE stage \in {"flushing", "closing"}
      <4>1. Len(buffer[l]) <= IF l \in ToSet(logsLeft) THEN FlushEvery + 1 ELSE 0
        BY <1>1, <3>4 DEF StageHolds
      <4> QED
        BY <3>0, <4>1
    <3> QED
      BY <1>1, <3>1, <3>2, <3>3, <3>4 DEF FilesTypes, Stages
  <2>2. stage = "off" => buffer = Empty
    BY <1>1 DEF StageHolds
  <2> QED
    BY <1>1, <2>1, <2>2 DEF FilesTypeOK, FilesTypes, SafeIsThere
<1>3. SchemasApart
  <2> SUFFICES ASSUME NEW file \in AllFiles, NEW row \in WholeRows(file)
               PROVE  HeaderOf(file) = columns[row[1]] /\ (row[2] = 0 => row = RowAt(file, 1))
    BY DEF SchemasApart
  <2>1. file \in Seq(HalfRow) /\ HeaderedFile(file, columns)
    BY <1>1, FilesTyped DEF AllFiles, Range, AllHeadered
  <2> QED
    BY <2>1, HeaderedApart
<1>4. UnsavedAreRecent
  <2> SUFFICES ASSUME stage = "running", NEW l \in Log, NEW row \in wrote[l]
               PROVE  \/ Append(row, 2) \in ToSet(disk[<<session, l>>])
                      \/ row[2] > frameNo - (frameNo % FlushEvery)
    BY DEF UnsavedAreRecent
  <2>1. /\ row[2] \in 1 .. frameNo
        /\ row \in ToSet(buffer[l]) \/ InFile(row, disk[<<session, l>>], safe[l])
    BY <1>1 DEF RunIsUp
  <2>2. CASE row \in ToSet(buffer[l])
    <3>1. PICK k \in 1 .. Len(buffer[l]) : row = buffer[l][k]
      BY <2>2, FilesTyped DEF ToSet
    <3>2. row[2] = 0 \/ row[2] > frameNo - (frameNo % FlushEvery)
      BY <1>1, <3>1 DEF StageHolds
    <3> QED
      BY <2>1, <3>2
  <2>3. CASE InFile(row, disk[<<session, l>>], safe[l])
    <3> DEFINE file == disk[<<session, l>>]
    <3>1. PICK k \in safe[l] + 1 .. Len(file) : RowFrom(file, k) /\ RowAt(file, k) = row
      BY <2>3 DEF InFile
    <3>2. k + 1 \in DOMAIN file /\ file[k + 1] = Append(row, 2)
      BY <3>1 DEF RowFrom
    <3> QED
      BY <3>2 DEF ToSet
  <2> QED
    BY <2>1, <2>2, <2>3
<1> QED
  BY <1>1, <1>2, <1>3, <1>4

LEMMA RowsAfter ==
  ASSUME FInv,
         \A f \in Second \X Log :
           \A row \in WholeRows(disk[f]) :
             \/ \E e \in DOMAIN disk' : row \in WholeRows(disk'[e])
             \/ \E e \in DOMAIN archived' : row \in WholeRows(archived'[e]),
         DOMAIN archived' = DOMAIN archived
  PROVE  Readable \ UNION {WholeRows(archived[f]) :
                             f \in {a \in DOMAIN archived : archived'[a] # archived[a]}}
           \subseteq UNION {WholeRows(file) : file \in AllFiles'}
<1> SUFFICES ASSUME NEW file \in AllFiles, NEW row \in WholeRows(file),
                    \A a \in DOMAIN archived : archived'[a] # archived[a]
                                             => row \notin WholeRows(archived[a])
             PROVE  \E other \in AllFiles' : row \in WholeRows(other)
  BY DEF Readable
<1>1. CASE \E f \in DOMAIN disk : file = disk[f]
  <2>1. PICK f \in Second \X Log : file = disk[f]
    BY <1>1, FilesTyped
  <2> QED
    BY <2>1 DEF AllFiles, Range
<1>2. CASE \E a \in DOMAIN archived : file = archived[a]
  <2>1. PICK a \in DOMAIN archived : file = archived[a]
    BY <1>2
  <2>2. archived'[a] = archived[a]
    BY <2>1
  <2> QED
    BY <2>1, <2>2 DEF AllFiles, Range
<1> QED
  BY <1>1, <1>2 DEF AllFiles, Range

LEMMA RowsStayOnStep ==
  ASSUME FInv, [FilesNext]_filesVars, cuts' = cuts
  PROVE  Readable \ UNION {WholeRows(archived[f]) :
                             f \in {a \in DOMAIN archived : archived'[a] # archived[a]}}
           \subseteq UNION {WholeRows(file) : file \in AllFiles'}
<1>1. /\ disk \in [Second \X Log -> Seq(HalfRow)] /\ buffer \in [Log -> Seq(RowOfFile)]
      /\ \A f \in Second \X Log : f[2] \in Log /\ disk[f] \in Seq(HalfRow)
      /\ archived \in [Second \X Log \X Second -> Seq(HalfRow)] /\ session \in Second
  BY FilesTyped
<1>2. ASSUME UNCHANGED archived, DOMAIN disk' = DOMAIN disk,
             \A f \in Second \X Log :
               disk'[f] = disk[f] \/ disk'[f] = disk[f] \o Halves(buffer[f[2]])
      PROVE  Readable \ UNION {WholeRows(archived[f]) :
                                 f \in {a \in DOMAIN archived : archived'[a] # archived[a]}}
               \subseteq UNION {WholeRows(file) : file \in AllFiles'}
  <2>1. ASSUME NEW f \in Second \X Log, NEW row \in WholeRows(disk[f])
        PROVE  row \in WholeRows(disk'[f])
    <3>1. CASE disk'[f] = disk[f]
      BY <2>1, <3>1
    <3>2. CASE disk'[f] = disk[f] \o Halves(buffer[f[2]])
      <4>1. Halves(buffer[f[2]]) \in Seq(HalfRow)
        BY <1>1, HalvesOf
      <4>2. WholeRows(disk[f]) \subseteq WholeRows(disk'[f])
        BY <1>1, <3>2, <4>1, WholeRowsStay
      <4> QED
        BY <4>2
    <3> QED
      BY <1>2, <3>1, <3>2
  <2>2. DOMAIN disk' = Second \X Log
    BY <1>1, <1>2
  <2>3. \A f \in Second \X Log : \A row \in WholeRows(disk[f]) :
          \E e \in DOMAIN disk' : row \in WholeRows(disk'[e])
    BY <2>1, <2>2
  <2> QED
    BY <1>2, <2>3, RowsAfter
<1>3. CASE UNCHANGED <<disk, archived>>
  BY <1>2, <1>3
<1>4. CASE OpenLog
  <2> DEFINE l == Head(logsLeft)
             file == disk[<<session, l>>]
  <2>1. CASE rotate_if_schema_changed(file)
    <3>1. PICK second \in Second :
            /\ archived' = [archived EXCEPT ![<<session, l, second>>] = file]
            /\ disk' = [disk EXCEPT ![<<session, l>>] = <<>>]
      BY <1>4, <2>1 DEF OpenLog
    <3>2. l \in Log
      <4>1. logsLeft \in Seq(Log) /\ logsLeft # <<>>
        BY <1>4 DEF OpenLog, FInv, FilesTypes
      <4> QED
        BY <4>1, LeftAfter
    <3> HIDE DEF l
    <3>3. /\ DOMAIN archived' = DOMAIN archived /\ DOMAIN disk' = Second \X Log
          /\ <<session, l, second>> \in DOMAIN archived'
          /\ archived'[<<session, l, second>>] = file
          /\ \A f \in Second \X Log : f # <<session, l>> => disk'[f] = disk[f]
      BY <1>1, <3>1, <3>2
    <3>4. \A f \in Second \X Log :
            \A row \in WholeRows(disk[f]) :
              \/ \E e \in DOMAIN disk' : row \in WholeRows(disk'[e])
              \/ \E e \in DOMAIN archived' : row \in WholeRows(archived'[e])
      <4> SUFFICES ASSUME NEW f \in Second \X Log, NEW row \in WholeRows(disk[f])
                   PROVE  \/ \E e \in DOMAIN disk' : row \in WholeRows(disk'[e])
                          \/ \E e \in DOMAIN archived' : row \in WholeRows(archived'[e])
        OBVIOUS
      <4>1. CASE f = <<session, l>>
        <5>1. row \in WholeRows(archived'[<<session, l, second>>])
          BY <3>3, <4>1
        <5> QED
          BY <3>3, <5>1
      <4>2. CASE f # <<session, l>>
        <5>1. disk'[f] = disk[f]
          BY <3>3, <4>2
        <5> QED
          BY <3>3, <5>1
      <4> QED
        BY <4>1, <4>2
    <3> QED
      BY <3>3, <3>4, RowsAfter
  <2>2. CASE ~rotate_if_schema_changed(file)
    BY <1>3, <1>4, <2>2 DEF OpenLog
  <2> QED
    BY <2>1, <2>2
<1>5. ASSUME NEW filled, NEW full, LogFrame(filled, full)
      PROVE  /\ UNCHANGED archived /\ DOMAIN disk' = DOMAIN disk
             /\ \A f \in Second \X Log :
                  disk'[f] = disk[f] \/ disk'[f] = disk[f] \o Halves(buffer[f[2]])
  BY <1>1, <1>5 DEF LogFrame
<1>6. ASSUME Flush
      PROVE  /\ UNCHANGED archived /\ DOMAIN disk' = DOMAIN disk
             /\ \A f \in Second \X Log :
                  disk'[f] = disk[f] \/ disk'[f] = disk[f] \o Halves(buffer[f[2]])
  <2> DEFINE l == Head(logsLeft)
  <2>1. UNCHANGED archived
        /\ disk' = [disk EXCEPT ![<<session, l>>] = disk[<<session, l>>] \o Halves(buffer[l])]
    BY <1>6 DEF Flush, HandOver
  <2>2. ASSUME NEW f \in Second \X Log, f = <<session, l>>
        PROVE  disk'[f] = disk[f] \o Halves(buffer[f[2]])
    <3>1. f[2] = l
      BY <2>2
    <3> HIDE DEF l
    <3> QED
      BY <1>1, <2>1, <2>2, <3>1
  <2> HIDE DEF l
  <2> QED
    BY <1>1, <2>1, <2>2
<1>7. ASSUME RunRaises
      PROVE  /\ UNCHANGED archived /\ DOMAIN disk' = DOMAIN disk
             /\ \A f \in Second \X Log :
                  disk'[f] = disk[f] \/ disk'[f] = disk[f] \o Halves(buffer[f[2]])
  BY <1>1, <1>7 DEF RunRaises
<1>8. CASE StartRun \/ CameraOpens \/ StopRun \/ MakeReport \/ KillRun
  BY <1>3, <1>8 DEF StartRun, CameraOpens, StopRun, MakeReport, KillRun
<1>9. CASE PowerCut
  <2>1. cuts' = cuts + 1 /\ cuts \in Nat
    BY <1>9, FilesConstants DEF PowerCut, FInv, FilesTypes
  <2> QED
    BY <2>1
<1>10. CASE UNCHANGED filesVars
  BY <1>3, <1>10 DEF filesVars
<1>11. CASE \E filled \in {Log, Log \ {Head(LogsInOrder)}} :
              \E full \in SUBSET filled : LogFrame(filled, full)
  BY <1>2, <1>5, <1>11
<1>12. CASE Flush
  BY <1>2, <1>6, <1>12
<1>13. CASE RunRaises
  BY <1>2, <1>7, <1>13
<1> QED
  BY <1>4, <1>8, <1>9, <1>10, <1>11, <1>12, <1>13 DEF FilesNext

(* However runs, upgrades, kills, power cuts and a clock that goes back    *)
(* follow each other, no file mixes two schemas, a kill takes the rows of  *)
(* the last frames only, a report has all rows of its run but one behind a *)
(* torn row, and nothing but a power cut or a second archive in the same   *)
(* second takes a row away.                                                *)
THEOREM RunsAreKeptAlways == FilesSpec => RunsAreKept
<1>1. FilesInit => FInv
  BY FilesInitially
<1>2. FInv /\ [FilesNext]_filesVars => FInv'
  BY FilesStep
<1>3. FInv => FilesTypeOK /\ SchemasApart /\ UnsavedAreRecent /\ ReportComplete
  BY FilesImplied
<1>4. FInv /\ [FilesNext]_filesVars =>
        [LET readable  == UNION {WholeRows(file) : file \in AllFiles}
             replaced  == UNION {WholeRows(archived[f]) :
                                   f \in {a \in DOMAIN archived : archived'[a] # archived[a]}}
         IN  cuts' = cuts =>
               readable \ replaced \subseteq UNION {WholeRows(file) : file \in AllFiles'}]_filesVars
  BY RowsStayOnStep DEF Readable
<1> QED
  BY <1>1, <1>2, <1>3, <1>4, PTL DEF FilesSpec, RunsAreKept, RowsStay

(***************************************************************************)
(* EdgeLogs, for every number of tracks in a frame and every sampling of   *)
(* the two files: what the loop did with a face can be read off its rows.  *)
(*                                                                         *)
(* FrameExplained speaks of finished frames only.  ObservedSoFar says the  *)
(* same of the frame in hand and the tracks that have had their turns; a   *)
(* row is of the frame in hand when it is written, so no later turn takes  *)
(* back what a telemetry row says (UpToNow, RowPerFrame).  AttemptsTold    *)
(* ties an outcome in a row to its decision.                               *)
(***************************************************************************)
LogsBehaviour == LogsInit /\ [][LogsNext]_logsVars

Modes == {"NA"} \cup {look.mode : look \in Scene}
Labels == {"NA", "REAL", "SPOOF", "UNCERTAIN"}
Verdicts == {"NONE", "NO_MATCH", "OUT_OF_RANGE", "REJECTED_LIVENESS", "UNCERTAIN", "BUFFERING",
              "MATCHED", "OFFLOAD_TO_CLOUD", "BELOW_THRESHOLD"}
Outcomes == {"", "success", "skipped_router", "skipped_no_crop", "skipped_circuit_breaker",
             "timeout", "connection_error", "server_error", "encode_failed"}
Words == {"", "True", "False"}

Diagnosis ==
  [at : Nat, track : Nat, lbl : Labels, decision : Verdicts, mode : Modes, active : BOOLEAN,
   identity : Named \cup {"NA"}, sim : Nat, th : Nat, blur : Nat,
   outcome : Outcomes, verified : Words, agree : Words, rtt : BOOLEAN]

Attended == [at : Nat, track : Nat, mode : Modes, sim : Nat, identity : Named]

Sources == {"none", "local", "cloud"}
Reasons == {"none", "high_latency", "low_confidence", "policy"}
States == {"undetected", "candidate", "confirmed", "manual_review", "expired",
           "insufficient_presence"}
Moves == {"none", <<"undetected", "candidate">>, <<"candidate", "initialized">>,
          <<"initialized", "confirmed">>, <<"initialized", "expired">>}

\* The cells of a telemetry row: counts, a similarity, and the observer's.
Cells == {"LOW", "1", "true", "false"} \cup Sources \cup Reasons \cup States \cup Moves
         \cup {ToString(Cardinality(T)) : T \in SUBSET Nat}
         \cup {ToString(Max({0} \cup T)) : T \in SUBSET Nat}

Contexts == [lecture : BOOLEAN, present : BOOLEAN, state : States, transition : Moves]

\* What the loop and the observer hold, and what is in the files.
HeldTyped ==
  /\ frame_count \in Nat /\ objects_left \subseteq Seat
  /\ busy \in Scene \cup {NoScene} /\ (busy # NoScene => frame_count > 0)
  /\ observed \in [source : Sources, reason : Reasons, transition : {"none"}]
  /\ context \in Contexts
  /\ posts \in Nat /\ polls \in Nat /\ IsFiniteSet(objects_left)

LogsTyped ==
  /\ diagnostic \in Seq(Diagnosis) /\ attendance \in Seq(Attended)
  /\ telemetry \in Seq(Seq(Cells))
  /\ \A i \in DOMAIN telemetry : Len(telemetry[i]) = 13

\* Nothing is of a later frame.
UpToNow == \A i \in DOMAIN diagnostic : diagnostic[i].at \in 1 .. frame_count

\* Just the rows that were half like somebody say what became of asking.
AttemptsTold == \A i \in DOMAIN diagnostic : (diagnostic[i].outcome # "") <=> HalfLike(diagnostic[i])

CloudIn(n) == \E j \in OfFrame(n) : diagnostic[j].decision = "MATCHED" /\ diagnostic[j].verified = "True"
MatchIn(n) == \E j \in OfFrame(n) : diagnostic[j].decision = "MATCHED"
HalfIn(n) == \E j \in OfFrame(n) : HalfLike(diagnostic[j])

Explains(source, reason, n) ==
  /\ source = (IF CloudIn(n) THEN "cloud" ELSE IF MatchIn(n) THEN "local" ELSE "none")
  /\ (reason # "none") <=> HalfIn(n)

\* What the observer has gathered explains the rows of the frame so far.
ObservedSoFar ==
  DiagEvery = 1 /\ busy # NoScene => Explains(observed.source, observed.reason, frame_count)

\* A row for each frame that is finished, and it explains that frame.
RowPerFrame ==
  FramesEvery = 1 =>
    /\ Len(telemetry) = Finished
    /\ DiagEvery = 1 => \A i \in DOMAIN telemetry : Explains(telemetry[i][8], telemetry[i][9], i)

LogsInv ==
  /\ HeldTyped /\ LogsTyped /\ frame_count <= Budget
  /\ UpToNow /\ AttemptsTold /\ ComparedInBoth /\ ObservedSoFar /\ RowPerFrame

-----------------------------------------------------------------------------
(* The bound leaves room for a frame.                                      *)

LEMMA RoomForFrame ==
  ASSUME HeldTyped, LogsTyped, UpToNow, busy = NoScene
  PROVE  Spent \in Nat /\ frame_count <= Spent
<1> DEFINE at == [i \in DOMAIN diagnostic |-> diagnostic[i].at]
           with == {at[i] : i \in DOMAIN diagnostic}
           without == {n \in 1 .. frame_count : \A i \in DOMAIN diagnostic : diagnostic[i].at # n}
<1>1. Len(diagnostic) \in Nat /\ DOMAIN diagnostic = 1 .. Len(diagnostic)
  BY DEF LogsTyped
<1>2. IsFiniteSet(DOMAIN diagnostic) /\ Cardinality(DOMAIN diagnostic) = Len(diagnostic)
  <2>1. /\ IsFiniteSet(1 .. Len(diagnostic))
        /\ Cardinality(1 .. Len(diagnostic)) = (IF 1 > Len(diagnostic) THEN 0 ELSE Len(diagnostic) - 1 + 1)
    BY <1>1, FS_Interval
  <2> QED
    BY <1>1, <2>1
<1>3. IsFiniteSet(1 .. frame_count) /\ Cardinality(1 .. frame_count) = frame_count
  BY FS_Interval DEF HeldTyped
<1>4. IsFiniteSet(with) /\ Cardinality(with) <= Len(diagnostic)
  <2>1. at \in Surjection(DOMAIN diagnostic, with)
    BY DEF Surjection
  <2> QED
    BY <1>2, <2>1, FS_Surjection
<1>5. IsFiniteSet(without)
  BY <1>3, FS_Subset
<1>6. IsFiniteSet(with \cup without) /\ Cardinality(with \cup without) <= Cardinality(with) + Cardinality(without)
  <2>1. /\ IsFiniteSet(with \cup without)
        /\ Cardinality(with \cup without)
             = Cardinality(with) + Cardinality(without) - Cardinality(with \cap without)
    BY <1>4, <1>5, FS_Union
  <2>2. IsFiniteSet(with \cap without)
    BY <1>4, FS_Subset
  <2>3. Cardinality(with) \in Nat /\ Cardinality(without) \in Nat /\ Cardinality(with \cap without) \in Nat
    BY <1>4, <1>5, <2>2, FS_CardinalityType
  <2> HIDE DEF with, without
  <2> QED
    BY <2>1, <2>3
<1>7. frame_count <= Cardinality(with \cup without)
  <2>1. 1 .. frame_count \subseteq with \cup without
    OBVIOUS
  <2> HIDE DEF with, without
  <2>2. Cardinality(1 .. frame_count) <= Cardinality(with \cup without)
    BY <1>6, <2>1, FS_Subset
  <2> QED
    BY <1>3, <2>2
<1>8. Empties = Cardinality(without)
  BY DEF Empties, Finished
<1>9. Cardinality(with) \in Nat /\ Cardinality(without) \in Nat /\ Cardinality(objects_left) \in Nat
      /\ Cardinality(with \cup without) \in Nat
  BY <1>4, <1>5, <1>6, FS_CardinalityType DEF HeldTyped
<1> HIDE DEF with, without
<1> QED
  BY <1>1, <1>4, <1>6, <1>7, <1>8, <1>9 DEF Spent, HeldTyped

\* The larger of one and a count.
LEMMA AtLeastOne == \A c \in Nat : Max({1, c}) \in Nat /\ Max({1, c}) >= 1
<1> TAKE c \in Nat
<1>1. \E x \in {1, c} : \A y \in {1, c} : x >= y
  OBVIOUS
<1> QED
  BY <1>1 DEF Max

-----------------------------------------------------------------------------
(* A row more.                                                             *)

LEMMA RowAdded ==
  ASSUME NEW S, NEW s \in Seq(S), NEW x \in S, NEW t, t = Append(s, x)
  PROVE  /\ t \in Seq(S) /\ Len(s) \in Nat /\ Len(t) = Len(s) + 1
         /\ DOMAIN s = 1 .. Len(s) /\ DOMAIN t = (DOMAIN s) \cup {Len(s) + 1}
         /\ Len(s) + 1 \notin DOMAIN s
         /\ \A i \in DOMAIN s : t[i] = s[i]
         /\ t[Len(s) + 1] = x
<1>1. /\ t \in Seq(S) /\ Len(t) = Len(s) + 1
      /\ \A i \in 1 .. Len(s) : t[i] = s[i]
      /\ t[Len(s) + 1] = x
  BY AppendProperties
<1>2. Len(s) \in Nat /\ DOMAIN s = 1 .. Len(s) /\ DOMAIN t = 1 .. Len(t)
  BY <1>1
<1> QED
  BY <1>1, <1>2

\* What a turn that writes the row asks of it.
Plain(row, asked) ==
  /\ row \in Diagnosis /\ row.at = frame_count
  /\ (row.outcome # "") <=> HalfLike(row)
  /\ asked \in BOOLEAN

\* A matched frame stays one.
LEMMA GrownFrame ==
  ASSUME LogsTyped, NEW row \in Diagnosis, diagnostic' = Append(diagnostic, row), NEW n
  PROVE  /\ CloudIn(n)' <=> CloudIn(n) \/ (row.at = n /\ row.decision = "MATCHED" /\ row.verified = "True")
         /\ MatchIn(n)' <=> MatchIn(n) \/ (row.at = n /\ row.decision = "MATCHED")
         /\ HalfIn(n)' <=> HalfIn(n) \/ (row.at = n /\ HalfLike(row))
<1> DEFINE last == Len(diagnostic) + 1
<1>1. /\ DOMAIN diagnostic' = (DOMAIN diagnostic) \cup {last}
      /\ last \notin DOMAIN diagnostic
      /\ \A i \in DOMAIN diagnostic : diagnostic'[i] = diagnostic[i]
      /\ diagnostic'[last] = row
  BY RowAdded DEF LogsTyped
<1> HIDE DEF last
<1>2. \A j : j \in OfFrame(n)' <=> j \in OfFrame(n) \/ (j = last /\ row.at = n)
  BY <1>1 DEF OfFrame
<1>3. \A j \in OfFrame(n) : diagnostic'[j] = diagnostic[j]
  BY <1>1 DEF OfFrame
<1> QED
  BY <1>1, <1>2, <1>3 DEF CloudIn, MatchIn, HalfIn, HalfLike

\* The row is told by the observer.
LEMMA StillExplains ==
  ASSUME LogsInv, DiagEvery = 1, busy # NoScene,
         NEW row, NEW asked, Plain(row, asked),
         diagnostic' = Append(diagnostic, row), observed' = observe_track(row, asked, busy.slow),
         frame_count' = frame_count
  PROVE  Explains(observed.source, observed.reason, frame_count)'
<1>1. Explains(observed.source, observed.reason, frame_count)
  BY DEF LogsInv, ObservedSoFar
<1>2. /\ observed'.source = (IF row.decision # "MATCHED" THEN observed.source
                             ELSE IF row.verified = "True" THEN "cloud"
                             ELSE IF observed.source = "cloud" THEN "cloud" ELSE "local")
      /\ observed'.reason = (IF row.outcome = "" THEN observed.reason
                             ELSE map_offload_reason(asked, row.outcome, busy.slow))
  BY DEF observe_track, LogsInv, HeldTyped
<1>3. map_offload_reason(asked, row.outcome, busy.slow) # "none"
  BY DEF map_offload_reason
<1>4. row \in Diagnosis /\ row.at = frame_count /\ ((row.outcome # "") <=> HalfLike(row))
  BY DEF Plain
<1>5. LogsTyped
  BY DEF LogsInv
<1>6. /\ CloudIn(frame_count)' <=> CloudIn(frame_count) \/ (row.decision = "MATCHED" /\ row.verified = "True")
      /\ MatchIn(frame_count)' <=> MatchIn(frame_count) \/ row.decision = "MATCHED"
      /\ HalfIn(frame_count)' <=> HalfIn(frame_count) \/ HalfLike(row)
  BY <1>4, <1>5, GrownFrame
<1>7. CloudIn(frame_count) => MatchIn(frame_count)
  BY DEF CloudIn, MatchIn
<1>8. observed'.source = (IF CloudIn(frame_count)' THEN "cloud" ELSE IF MatchIn(frame_count)' THEN "local" ELSE "none")
  BY <1>1, <1>2, <1>6, <1>7 DEF Explains
<1>9. (observed'.reason # "none") <=> HalfIn(frame_count)'
  BY <1>1, <1>2, <1>3, <1>4, <1>6 DEF Explains
<1> QED
  BY <1>8, <1>9 DEF Explains

\* The attendance log goes on as it did.
LEMMA ComparedGoesOn ==
  ASSUME LogsTyped, ComparedInBoth, DiagEvery = 1,
         NEW row \in Diagnosis, diagnostic' = Append(diagnostic, row),
         attendance' = IF row.identity = "NA" THEN attendance
                       ELSE Append(attendance, AttendanceRow(row))
  PROVE  ComparedInBoth'
<1> DEFINE last == Len(diagnostic) + 1
           compared == {i \in DOMAIN diagnostic : diagnostic[i].identity # "NA"}
           upTo(i) == {j \in compared : j <= i}
           upToThen(i) == {j \in compared' : j <= i}
<1>1. /\ Len(diagnostic) \in Nat /\ DOMAIN diagnostic = 1 .. Len(diagnostic)
      /\ DOMAIN diagnostic' = (DOMAIN diagnostic) \cup {last}
      /\ last \notin DOMAIN diagnostic
      /\ \A i \in DOMAIN diagnostic : diagnostic'[i] = diagnostic[i]
      /\ diagnostic'[last] = row
  BY RowAdded DEF LogsTyped
<1>2. /\ Len(attendance) = Cardinality(compared)
      /\ \A i \in compared : attendance[Cardinality(upTo(i))] = AttendanceRow(diagnostic[i])
  BY DEF ComparedInBoth
<1>3. IsFiniteSet(compared)
  <2>1. IsFiniteSet(1 .. Len(diagnostic))
    BY <1>1, FS_Interval
  <2> QED
    BY <1>1, <2>1, FS_Subset
<1>4. \A i \in compared : i \in 1 .. Len(diagnostic) /\ i \in DOMAIN diagnostic /\ i # last
  BY <1>1
<1>5. \A i \in compared : Cardinality(upTo(i)) \in 1 .. Len(attendance)
  <2> SUFFICES ASSUME NEW i \in compared PROVE Cardinality(upTo(i)) \in 1 .. Len(attendance)
    OBVIOUS
  <2>1. upTo(i) \in SUBSET compared /\ i \in upTo(i)
    BY <1>4
  <2> HIDE DEF compared
  <2>2. IsFiniteSet(upTo(i)) /\ Cardinality(upTo(i)) <= Cardinality(compared)
    BY <1>3, <2>1, FS_Subset
  <2>3. Cardinality(upTo(i)) # 0
    BY <2>1, <2>2, FS_EmptySet
  <2>4. Cardinality(upTo(i)) \in Nat /\ Cardinality(compared) \in Nat
    BY <1>3, <2>2, FS_CardinalityType
  <2> QED
    BY <1>2, <2>2, <2>3, <2>4
<1>6. ComparedInBoth' <=>
        /\ Len(attendance') = Cardinality(compared')
        /\ \A i \in compared' : attendance'[Cardinality(upToThen(i))] = AttendanceRow(diagnostic'[i])
  BY DEF ComparedInBoth, AttendanceRow
<1>7. CASE row.identity = "NA"
  <2>1. compared' = compared
    BY <1>1, <1>7
  <2>2. \A i : upToThen(i) = upTo(i)
    BY <2>1
  <2>3. attendance' = attendance
    BY <1>7
  <2>4. \A i \in compared : diagnostic'[i] = diagnostic[i]
    BY <1>1
  <2> HIDE DEF compared, upTo, upToThen
  <2> QED
    BY <1>2, <1>6, <2>1, <2>2, <2>3, <2>4
<1>8. CASE row.identity # "NA"
  <2>1. compared' = compared \cup {last}
    BY <1>1, <1>8
  <2>2. \A i \in compared : upToThen(i) = upTo(i)
    BY <1>1, <1>4, <2>1
  <2>3. upToThen(last) = compared \cup {last}
    BY <1>1, <1>4, <2>1
  <2>4. last \notin compared
    BY <1>1
  <2>5. AttendanceRow(row) \in Attended /\ attendance \in Seq(Attended)
    BY <1>8 DEF AttendanceRow, Attended, Diagnosis, LogsTyped
  <2>6. attendance' = Append(attendance, AttendanceRow(row))
    BY <1>8
  <2>7. /\ Len(attendance) \in Nat /\ Len(attendance') = Len(attendance) + 1
        /\ \A i \in DOMAIN attendance : attendance'[i] = attendance[i]
        /\ DOMAIN attendance = 1 .. Len(attendance)
        /\ attendance'[Len(attendance) + 1] = AttendanceRow(row)
    BY <2>5, <2>6, RowAdded
  <2>8. \A i \in compared : diagnostic'[i] = diagnostic[i]
    BY <1>1
  <2>9. diagnostic'[last] = row
    BY <1>1
  <2> HIDE DEF compared, upTo, upToThen, last
  <2>10. Cardinality(compared') = Cardinality(compared) + 1
    BY <1>3, <2>1, <2>4, FS_AddElement
  <2>11. Cardinality(upToThen(last)) = Len(attendance) + 1
    BY <1>2, <2>1, <2>3, <2>10
  <2>12. \A i \in compared : attendance'[Cardinality(upToThen(i))] = AttendanceRow(diagnostic'[i])
    <3> TAKE i \in compared
    <3>1. attendance[Cardinality(upTo(i))] = AttendanceRow(diagnostic[i])
      BY <1>2
    <3>2. Cardinality(upTo(i)) \in DOMAIN attendance
      BY <1>5, <2>7
    <3>3. attendance'[Cardinality(upTo(i))] = attendance[Cardinality(upTo(i))]
      BY <2>7, <3>2
    <3>4. upToThen(i) = upTo(i) /\ diagnostic'[i] = diagnostic[i]
      BY <2>2, <2>8
    <3> QED
      BY <3>1, <3>3, <3>4
  <2>13. attendance'[Cardinality(upToThen(last))] = AttendanceRow(diagnostic'[last])
    BY <2>7, <2>9, <2>11
  <2> QED
    BY <1>2, <1>6, <2>1, <2>7, <2>10, <2>12, <2>13
<1> QED
  BY <1>7, <1>8

LEMMA EveryNth == \A n \in Nat : n % 1 = 0
  OBVIOUS

-----------------------------------------------------------------------------
(* A turn.                                                                 *)

LEMMA TurnKeeps ==
  ASSUME LogsInv, busy # NoScene, NEW row, NEW asked, Plain(row, asked), Finally(row, asked),
         attendance' = IF row.identity = "NA" THEN attendance
                       ELSE Append(attendance, AttendanceRow(row)),
         context' \in Contexts, posts' \in Nat
  PROVE  LogsInv'
<1>1. /\ HeldTyped /\ LogsTyped /\ UpToNow /\ AttemptsTold /\ frame_count \in Nat \ {0}
      /\ busy \in Scene
  BY DEF LogsInv, HeldTyped
<1>2. /\ row \in Diagnosis /\ row.at = frame_count /\ ((row.outcome # "") <=> HalfLike(row))
      /\ asked \in BOOLEAN
  BY DEF Plain
<1>3. /\ frame_count' = frame_count /\ busy' = busy /\ telemetry' = telemetry /\ polls' = polls
      /\ observed' = observe_track(row, asked, busy.slow)
      /\ objects_left' = objects_left \ {row.track}
      /\ diagnostic' = diagnostic \/ diagnostic' = Append(diagnostic, row)
      /\ DiagEvery = 1 => diagnostic' = Append(diagnostic, row)
  BY <1>1, EveryNth DEF Finally
<1>a. diagnostic \in Seq(Diagnosis) /\ row \in Diagnosis
  BY <1>1, <1>2 DEF LogsTyped
<1>b. row.at = frame_count /\ frame_count \in Nat \ {0}
  BY <1>1, <1>2
<1>4. HeldTyped'
  <2>1. observed' \in [source : Sources, reason : Reasons, transition : {"none"}]
    BY <1>1, <1>2, <1>3 DEF observe_track, map_offload_reason, HeldTyped, Sources, Reasons
  <2>2. IsFiniteSet(objects_left')
    BY <1>1, <1>3, FS_RemoveElement DEF HeldTyped
  <2> QED
    BY <1>1, <1>3, <2>1, <2>2 DEF HeldTyped
<1>5. LogsTyped'
  <2>1. diagnostic' \in Seq(Diagnosis)
    <3>1. Append(diagnostic, row) \in Seq(Diagnosis)
      BY <1>a, RowAdded
    <3> QED
      BY <1>a, <1>3, <3>1
  <2>2. row.identity # "NA" => AttendanceRow(row) \in Attended
    BY <1>2 DEF AttendanceRow, Attended, Diagnosis
  <2>3. attendance' \in Seq(Attended)
    BY <1>1, <2>2, RowAdded DEF LogsTyped
  <2> QED
    BY <1>1, <1>3, <2>1, <2>3 DEF LogsTyped
<1>6. UpToNow' /\ AttemptsTold'
  <2>1. CASE diagnostic' = diagnostic
    BY <1>1, <1>3, <2>1 DEF UpToNow, AttemptsTold, HalfLike
  <2>2. CASE diagnostic' = Append(diagnostic, row)
    <3>1. /\ DOMAIN diagnostic' = (DOMAIN diagnostic) \cup {Len(diagnostic) + 1}
          /\ \A i \in DOMAIN diagnostic : diagnostic'[i] = diagnostic[i]
          /\ diagnostic'[Len(diagnostic) + 1] = row
      BY <1>a, <2>2, RowAdded
    <3>2. row.at \in 1 .. frame_count
      BY <1>b
    <3> QED
      BY <1>1, <1>2, <1>3, <3>1, <3>2 DEF UpToNow, AttemptsTold, HalfLike
  <2> QED
    BY <1>3, <2>1, <2>2
<1>7. ComparedInBoth'
  <2>1. CASE DiagEvery = 1
    BY <1>1, <1>2, <1>3, <2>1, ComparedGoesOn DEF LogsInv
  <2> QED
    BY <2>1 DEF ComparedInBoth
<1>8. ObservedSoFar'
  BY <1>3, StillExplains DEF ObservedSoFar
<1>9. RowPerFrame'
  <2> SUFFICES ASSUME FramesEvery = 1
               PROVE  /\ Len(telemetry) = Finished
                      /\ DiagEvery = 1 => \A i \in DOMAIN telemetry :
                                            Explains(telemetry[i][8], telemetry[i][9], i)'
    BY <1>3 DEF RowPerFrame, Finished
  <2>1. Len(telemetry) = frame_count - 1 /\ Len(telemetry) = Finished
    BY DEF LogsInv, RowPerFrame, Finished
  <2>2. ASSUME DiagEvery = 1, NEW i \in DOMAIN telemetry
        PROVE  Explains(telemetry[i][8], telemetry[i][9], i)'
    <3>1. Explains(telemetry[i][8], telemetry[i][9], i)
      BY <2>2 DEF LogsInv, RowPerFrame
    <3>2. i # frame_count
      BY <1>1, <2>1, <2>2 DEF LogsTyped
    <3>3. /\ CloudIn(i)' <=> CloudIn(i)
          /\ MatchIn(i)' <=> MatchIn(i)
          /\ HalfIn(i)' <=> HalfIn(i)
      BY <1>1, <1>2, <1>3, <2>2, <3>2, GrownFrame
    <3> QED
      BY <1>3, <3>1, <3>3 DEF Explains
  <2> QED
    BY <2>1, <2>2
<1> QED
  BY <1>1, <1>3, <1>4, <1>5, <1>6, <1>7, <1>8, <1>9 DEF LogsInv


LEMMA LeastIn ==
  ASSUME NEW S \in SUBSET Nat, S # {}
  PROVE  Min(S) \in S
<1> DEFINE R == OpToRel(<, Nat)
<1>1. IsWellFoundedOn(R, Nat)
  BY NatLessThanWellFounded
<1> HIDE DEF R
<1>2. PICK n \in S : \A m \in S : ~(<<m, n>> \in R)
  BY <1>1, WFMin
<1>3. ASSUME NEW m \in S PROVE n <= m
  <2>1. n \in Nat /\ m \in Nat
    BY <1>2
  <2>2. m < n => <<m, n>> \in R
    BY <2>1 DEF R, OpToRel
  <2> QED
    BY <1>2, <2>1, <2>2
<1> QED
  BY <1>3 DEF Min

\* What a post's answer makes of the context.
LEMMA AppliedTyped ==
  ASSUME HeldTyped, NEW reply \in Reply
  PROVE  Applied(reply) \in Contexts
<1>1. reply.lecture \in BOOLEAN
  BY LogsAssumption
<1>2. context \in Contexts
  BY DEF HeldTyped
<1>3. \A text : Normalized(text) \in States
  BY DEF Normalized, States
<1>4. Transition(reply.from, reply.to) \in Moves
  BY DEF Transition, Moves
<1>5. /\ (context.lecture \/ reply.lecture) \in BOOLEAN
      /\ context.state \in States /\ context.transition \in Moves
  BY <1>1, <1>2 DEF Contexts
<1> QED
  BY <1>1, <1>2, <1>3, <1>4, <1>5 DEF Applied, Contexts

LEMMA PostTyped ==
  ASSUME HeldTyped, PostOrNot
  PROVE  context' \in Contexts /\ posts' \in Nat
<1>1. CASE UNCHANGED <<context, posts>>
  BY <1>1 DEF HeldTyped
<1>2. CASE posts' = posts + 1 /\ \E reply \in Reply : context' = Applied(reply)
  BY <1>2, AppliedTyped DEF HeldTyped
<1> QED
  BY <1>1, <1>2 DEF PostOrNot

\* What every row of this turn has.
Begun(row) == row \in Diagnosis /\ row.at = frame_count

Uncompared(row) == Begun(row) /\ row.identity = "NA" /\ row.outcome = "" /\ row.verified = ""

LEMMA UncomparedStays ==
  ASSUME NEW row, Uncompared(row)
  PROVE  /\ \A d \in Verdicts : Uncompared([row EXCEPT !.decision = d])
         /\ \A m \in Modes, b \in BOOLEAN : Uncompared([row EXCEPT !.mode = m, !.active = b])
         /\ \A l \in Labels, n \in Nat : Uncompared([row EXCEPT !.lbl = l, !.blur = n])
BY DEF Uncompared, Begun, Diagnosis

LEMMA RowsBegun ==
  ASSUME HeldTyped, busy # NoScene, NEW t \in Nat
  PROVE  /\ Uncompared(Blank(t)) /\ Uncompared(Found(t))
         /\ \A lbl \in Labels : Uncompared(Labelled(t, lbl))
<1>1. busy.mode \in Modes /\ busy.blur \in Nat /\ frame_count \in Nat
  BY LogsAssumption DEF HeldTyped, Modes
<1>2. Uncompared(Blank(t))
  BY <1>1 DEF Blank, Uncompared, Begun, Diagnosis, Modes, Labels, Verdicts, Outcomes, Words
<1>3. Uncompared(Found(t))
  BY <1>1, <1>2, UncomparedStays DEF Found
<1>4. ASSUME NEW lbl \in Labels PROVE Uncompared(Labelled(t, lbl))
  BY <1>1, <1>3, UncomparedStays DEF Labelled
<1> QED
  BY <1>2, <1>3, <1>4

LEMMA EarlyPlain ==
  ASSUME HeldTyped, busy # NoScene, NEW t \in Nat, NEW row \in EarlyRows(t)
  PROVE  Uncompared(row) /\ row.decision # "OFFLOAD_TO_CLOUD"
<1>1. /\ Uncompared(Blank(t)) /\ Uncompared(Found(t)) /\ Uncompared(Labelled(t, "SPOOF"))
      /\ Uncompared(Labelled(t, "UNCERTAIN")) /\ Uncompared(Labelled(t, "REAL"))
  BY RowsBegun DEF Labels
<1> DEFINE early == {"NO_MATCH", "OUT_OF_RANGE", "REJECTED_LIVENESS", "UNCERTAIN", "BUFFERING"}
<1>2. early \subseteq Verdicts /\ "OFFLOAD_TO_CLOUD" \notin early
  BY DEF Verdicts
<1>3. ASSUME NEW begun, Uncompared(begun), NEW d \in early
      PROVE  Uncompared([begun EXCEPT !.decision = d])
             /\ [begun EXCEPT !.decision = d].decision # "OFFLOAD_TO_CLOUD"
  <2>1. Uncompared([begun EXCEPT !.decision = d])
    BY <1>2, <1>3, UncomparedStays
  <2>2. [begun EXCEPT !.decision = d].decision = d
    BY <1>3 DEF Uncompared, Begun, Diagnosis
  <2> QED
    BY <1>2, <2>1, <2>2
<1> DEFINE Fine(x) == Uncompared(x) /\ x.decision # "OFFLOAD_TO_CLOUD"
<1>4. /\ Fine([Blank(t) EXCEPT !.decision = "NO_MATCH"])
      /\ Fine([Found(t) EXCEPT !.decision = "OUT_OF_RANGE"])
      /\ Fine([Labelled(t, "SPOOF") EXCEPT !.decision = "REJECTED_LIVENESS"])
      /\ Fine([Labelled(t, "UNCERTAIN") EXCEPT !.decision = "UNCERTAIN"])
      /\ Fine([Labelled(t, "REAL") EXCEPT !.decision = "BUFFERING"])
  BY <1>1, <1>3
<1> HIDE DEF Fine
<1>5. Fine(row)
  BY <1>4 DEF EarlyRows
<1> QED
  BY <1>5 DEF Fine

\* A row of a face that was compared with the gallery.
Held(row, who) == Begun(row) /\ row.identity = who

LEMMA LoggedIsNumber == \A x \in Nat : Logged(x) \in Nat
BY DEF Logged

LEMMA ComparedHeld ==
  ASSUME HeldTyped, busy # NoScene, NEW t \in Nat, NEW who \in Named, NEW sim \in Nat
  PROVE  /\ Held(Compared(t, who, sim), who)
         /\ Compared(t, who, sim).outcome = "" /\ Compared(t, who, sim).verified = ""
<1>1. Logged(busy.th) \in Nat /\ Logged(sim) \in Nat
  BY LogsAssumption, LoggedIsNumber DEF HeldTyped
<1>2. Uncompared(Labelled(t, "REAL"))
  BY RowsBegun DEF Labels
<1> QED
  BY <1>1, <1>2 DEF Compared, Held, Uncompared, Begun, Diagnosis

\* What a turn that was compared writes into its row.
RowDecided(row, d) == [row EXCEPT !.decision = d]
RowSkipped(row, o) == [row EXCEPT !.outcome = o]
RowEnded(row, o) == [row EXCEPT !.outcome = o, !.rtt = TRUE]
RowTold(row, a) == [row EXCEPT !.verified = "False", !.agree = a]
RowWon(row, n, a) ==
  [row EXCEPT !.verified = "True", !.decision = "MATCHED", !.identity = n, !.agree = a]

LEMMA RowDecidedHeld ==
  ASSUME NEW row, NEW who, Held(row, who), NEW d \in Verdicts
  PROVE  /\ Held(RowDecided(row, d), who) /\ RowDecided(row, d).decision = d
         /\ RowDecided(row, d).outcome = row.outcome /\ RowDecided(row, d).verified = row.verified
BY DEF RowDecided, Held, Begun, Diagnosis

LEMMA RowSkippedHeld ==
  ASSUME NEW row, NEW who, Held(row, who), NEW o \in Outcomes
  PROVE  /\ Held(RowSkipped(row, o), who) /\ RowSkipped(row, o).outcome = o
         /\ RowSkipped(row, o).decision = row.decision
BY DEF RowSkipped, Held, Begun, Diagnosis

LEMMA RowEndedHeld ==
  ASSUME NEW row, NEW who, Held(row, who), NEW o \in Outcomes
  PROVE  /\ Held(RowEnded(row, o), who) /\ RowEnded(row, o).outcome = o
         /\ RowEnded(row, o).decision = row.decision
BY DEF RowEnded, Held, Begun, Diagnosis

LEMMA RowToldHeld ==
  ASSUME NEW row, NEW who, Held(row, who), NEW a \in Words
  PROVE  /\ Held(RowTold(row, a), who) /\ RowTold(row, a).outcome = row.outcome
         /\ RowTold(row, a).decision = row.decision
BY DEF RowTold, Held, Begun, Diagnosis, Words

LEMMA RowWonHeld ==
  ASSUME NEW row, NEW who, Held(row, who), NEW n \in Named, NEW a \in Words
  PROVE  /\ Held(RowWon(row, n, a), n) /\ RowWon(row, n, a).outcome = row.outcome
         /\ RowWon(row, n, a).verified = "True"
BY DEF RowWon, Held, Begun, Diagnosis, Verdicts, Words

\* The outcomes of asking, or not asking, for a face that is half like somebody.
Half(row) == (\E n \in Named : Held(row, n)) /\ row.outcome # "" /\ HalfLike(row)

LEMMA OffloadedHeld ==
  ASSUME HeldTyped, busy # NoScene, NEW t \in Nat, NEW who \in Named, NEW sim \in Nat,
         NEW r \in Offloaded(t, who, sim)
  PROVE  Half(r.row) /\ r.asked \in BOOLEAN
<1> DEFINE sent == RowDecided(Compared(t, who, sim), "OFFLOAD_TO_CLOUD")
           replied == RowEnded(sent, "success")
           skipped == {"skipped_router", "skipped_no_crop", "skipped_circuit_breaker"}
<1>0. /\ {"OFFLOAD_TO_CLOUD", "MATCHED"} \subseteq Verdicts
      /\ "success" \in Outcomes /\ skipped \subseteq Outcomes /\ Failures \subseteq Outcomes
      /\ "" \notin skipped \cup Failures /\ Words = {"", "True", "False"}
  BY LogsAssumption DEF Verdicts, Outcomes, Words
<1>1. Held(sent, who) /\ sent.decision = "OFFLOAD_TO_CLOUD"
  <2>1. Held(Compared(t, who, sim), who)
    BY ComparedHeld
  <2> QED
    BY <1>0, <2>1, RowDecidedHeld
<1>2. Held(replied, who) /\ replied.outcome = "success" /\ replied.decision = "OFFLOAD_TO_CLOUD"
  <2> HIDE DEF sent
  <2> QED
    BY <1>0, <1>1, RowEndedHeld
<1>3. r \in {[row |-> RowSkipped(sent, o), asked |-> FALSE] :
              o \in {"skipped_router", "skipped_no_crop", "skipped_circuit_breaker"}}
      \cup {[row |-> RowSkipped(sent, o), asked |-> TRUE] :
              o \in {"skipped_no_crop", "skipped_circuit_breaker"}}
      \cup {[row |-> RowEnded(sent, o), asked |-> TRUE] : o \in Failures}
      \cup {[row |-> RowTold(replied, a), asked |-> TRUE] : a \in {"", "True", "False"}}
      \cup {[row |-> RowWon(replied, n, IF n = who THEN "True" ELSE "False"), asked |-> TRUE] :
              n \in Named}
  BY DEF Offloaded, RowDecided, RowSkipped, RowEnded, RowTold, RowWon
<1> HIDE DEF sent, replied
<1>4. ASSUME NEW o \in skipped PROVE Half(RowSkipped(sent, o))
  BY <1>0, <1>1, RowSkippedHeld DEF Half, HalfLike
<1>5. ASSUME NEW o \in Failures PROVE Half(RowEnded(sent, o))
  BY <1>0, <1>1, RowEndedHeld DEF Half, HalfLike
<1>6. ASSUME NEW a \in Words PROVE Half(RowTold(replied, a))
  BY <1>0, <1>2, RowToldHeld DEF Half, HalfLike
<1>7. ASSUME NEW n \in Named, NEW a \in Words PROVE Half(RowWon(replied, n, a))
  BY <1>0, <1>2, RowWonHeld DEF Half, HalfLike
<1>8. ASSUME NEW row, Half(row), NEW b \in BOOLEAN, r = [row |-> row, asked |-> b]
      PROVE  Half(r.row) /\ r.asked \in BOOLEAN
  BY <1>8
<1> QED
  <2>1. ASSUME NEW o \in {"skipped_router", "skipped_no_crop", "skipped_circuit_breaker"},
               r = [row |-> RowSkipped(sent, o), asked |-> FALSE]
        PROVE  Half(r.row) /\ r.asked \in BOOLEAN
    <3>1. Half(RowSkipped(sent, o))
      BY <1>4
    <3> QED
      BY <2>1, <3>1, <1>8
  <2>2. ASSUME NEW o \in {"skipped_no_crop", "skipped_circuit_breaker"},
               r = [row |-> RowSkipped(sent, o), asked |-> TRUE]
        PROVE  Half(r.row) /\ r.asked \in BOOLEAN
    <3>1. Half(RowSkipped(sent, o))
      BY <1>4
    <3> QED
      BY <2>2, <3>1, <1>8
  <2>3. ASSUME NEW o \in Failures, r = [row |-> RowEnded(sent, o), asked |-> TRUE]
        PROVE  Half(r.row) /\ r.asked \in BOOLEAN
    <3>1. Half(RowEnded(sent, o))
      BY <1>5
    <3> QED
      BY <2>3, <3>1, <1>8
  <2>4. ASSUME NEW a \in {"", "True", "False"}, r = [row |-> RowTold(replied, a), asked |-> TRUE]
        PROVE  Half(r.row) /\ r.asked \in BOOLEAN
    <3>1. Half(RowTold(replied, a))
      BY <1>0, <1>6
    <3> QED
      BY <2>4, <3>1, <1>8
  <2>5. ASSUME NEW n \in Named,
               r = [row |-> RowWon(replied, n, IF n = who THEN "True" ELSE "False"), asked |-> TRUE]
        PROVE  Half(r.row) /\ r.asked \in BOOLEAN
    <3>1. (IF n = who THEN "True" ELSE "False") \in Words
      BY <1>0
    <3>2. Half(RowWon(replied, n, IF n = who THEN "True" ELSE "False"))
      BY <3>1, <1>7
    <3> QED
      BY <2>5, <3>2, <1>8
  <2> QED
    BY Zenon, <1>3, <2>1, <2>2, <2>3, <2>4, <2>5

-----------------------------------------------------------------------------
(* The steps.                                                              *)

LEMMA ComparedTurn ==
  ASSUME LogsInv, busy # NoScene, NEW row, NEW asked \in BOOLEAN, NEW who \in Named,
         Held(row, who), (row.outcome # "") <=> HalfLike(row),
         Finally(row, asked), LogAttendance(row), PostOrNot \/ UNCHANGED <<context, posts>>
  PROVE  LogsInv'
<1>1. HeldTyped /\ context' \in Contexts /\ posts' \in Nat
  BY PostTyped DEF LogsInv, HeldTyped
<1>2. Plain(row, asked)
  BY DEF Held, Begun, Plain
<1>3. row.identity # "NA"
  BY LogsAssumption DEF Held
<1>4. attendance' = IF row.identity = "NA" THEN attendance
                    ELSE Append(attendance, AttendanceRow(row))
  BY <1>3 DEF LogAttendance
<1> QED
  BY <1>1, <1>2, <1>4, TurnKeeps

LEMMA EarlyTurn ==
  ASSUME LogsInv, busy # NoScene, NEW t \in Nat, Leave_early(t)
  PROVE  LogsInv'
<1>1. PICK row \in EarlyRows(t) : Finally(row, FALSE) /\ UNCHANGED <<context, attendance, posts>>
  BY DEF Leave_early
<1>2. HeldTyped /\ context' \in Contexts /\ posts' \in Nat
  BY <1>1 DEF LogsInv, HeldTyped
<1>3. Uncompared(row) /\ row.decision # "OFFLOAD_TO_CLOUD"
  BY <1>2, EarlyPlain
<1>4. Plain(row, FALSE)
  BY <1>3 DEF Uncompared, Begun, Plain, HalfLike
<1>5. attendance' = IF row.identity = "NA" THEN attendance
                    ELSE Append(attendance, AttendanceRow(row))
  BY <1>1, <1>3 DEF Uncompared
<1> QED
  BY <1>1, <1>2, <1>4, <1>5, TurnKeeps

\* A row that was decided without asking.
LEMMA DecidedHeld ==
  ASSUME HeldTyped, busy # NoScene, NEW t \in Nat, NEW who \in Named, NEW sim \in Nat,
         NEW d \in {"MATCHED", "BELOW_THRESHOLD"}
  PROVE  LET row == [Compared(t, who, sim) EXCEPT !.decision = d]
         IN  Held(row, who) /\ row.outcome = "" /\ ~HalfLike(row)
<1> DEFINE row == [Compared(t, who, sim) EXCEPT !.decision = d]
<1>1. Held(Compared(t, who, sim), who) /\ Compared(t, who, sim).outcome = ""
      /\ Compared(t, who, sim).verified = ""
  BY ComparedHeld
<1>2. d \in Verdicts
  BY DEF Verdicts
<1>3. Held(row, who) /\ row.decision = d /\ row.outcome = "" /\ row.verified = ""
  BY <1>1, <1>2 DEF Held, Begun, Diagnosis
<1> QED
  BY <1>3 DEF HalfLike

LEMMA MatchedTurn ==
  ASSUME LogsInv, busy # NoScene, NEW t \in Nat, NEW who \in Named, LogMatched(t, who, busy.th)
  PROVE  LogsInv'
<1> DEFINE row == [Compared(t, who, busy.th) EXCEPT !.decision = "MATCHED"]
<1>1. HeldTyped /\ busy.th \in Nat
  BY LogsAssumption DEF LogsInv, HeldTyped
<1>2. Held(row, who) /\ row.outcome = "" /\ ~HalfLike(row)
  BY <1>1, DecidedHeld
<1>3. Finally(row, FALSE) /\ LogAttendance(row) /\ PostOrNot
  BY DEF LogMatched
<1> HIDE DEF row
<1> QED
  BY <1>2, <1>3, ComparedTurn

LEMMA OffloadedTurn ==
  ASSUME LogsInv, busy # NoScene, NEW t \in Nat, NEW who \in Named, NEW sim \in busy.half,
         LogOffloaded(t, who, sim)
  PROVE  LogsInv'
<1>1. HeldTyped /\ sim \in Nat
  BY LogsAssumption DEF LogsInv, HeldTyped
<1>2. PICK r \in Offloaded(t, who, sim) :
        /\ Finally(r.row, r.asked) /\ LogAttendance(r.row)
        /\ PostOrNot \/ UNCHANGED <<context, posts>>
  BY DEF LogOffloaded
<1>3. (\E n \in Named : Held(r.row, n)) /\ r.row.outcome # "" /\ HalfLike(r.row) /\ r.asked \in BOOLEAN
  BY <1>1, <1>2, OffloadedHeld DEF Half
<1>4. PICK n \in Named : Held(r.row, n)
  BY <1>3
<1> QED
  BY <1>2, <1>3, <1>4, ComparedTurn

LEMMA BelowTurn ==
  ASSUME LogsInv, busy # NoScene, NEW t \in Nat, NEW who \in Named, LogBelow(t, who, ThMid - 1)
  PROVE  LogsInv'
<1> DEFINE row == [Compared(t, who, ThMid - 1) EXCEPT !.decision = "BELOW_THRESHOLD"]
<1>1. HeldTyped /\ ThMid - 1 \in Nat
  BY LogsAssumption DEF LogsInv
<1>2. Held(row, who) /\ row.outcome = "" /\ ~HalfLike(row)
  BY <1>1, DecidedHeld
<1>3. Finally(row, FALSE) /\ LogAttendance(row) /\ UNCHANGED <<context, posts>>
  BY DEF LogBelow
<1> HIDE DEF row
<1> QED
  BY <1>2, <1>3, ComparedTurn

LEMMA TakenTurn ==
  ASSUME LogsInv, busy # NoScene, objects_left # {}, TakeTurn(Min(objects_left))
  PROVE  LogsInv'
<1> DEFINE t == Min(objects_left)
<1>1. t \in Nat
  <2>1. objects_left \in SUBSET Nat
    BY LogsAssumption DEF LogsInv, HeldTyped
  <2> QED
    BY <2>1, LeastIn
<1>2. Doubtful \subseteq Named
  BY LogsAssumption
<1> HIDE DEF t
<1>3. TakeTurn(t)
  BY DEF t
<1> QED
  BY <1>1, <1>2, <1>3, EarlyTurn, MatchedTurn, OffloadedTurn, BelowTurn DEF TakeTurn

\* Nothing that is explained changes while the files of the frames stay.
LEMMA SameFiles ==
  ASSUME UNCHANGED diagnostic
  PROVE  \A n : /\ CloudIn(n)' <=> CloudIn(n)
                /\ MatchIn(n)' <=> MatchIn(n)
                /\ HalfIn(n)' <=> HalfIn(n)
BY DEF CloudIn, MatchIn, HalfIn, OfFrame, HalfLike

LEMMA PollKeeps == LogsInv /\ Poll => LogsInv'
<1> SUFFICES ASSUME LogsInv, Poll PROVE LogsInv'
  OBVIOUS
<1>1. HeldTyped'
  <2>1. HeldTyped /\ polls' = polls + 1 /\ context' = [context EXCEPT !.present = ~@]
        /\ UNCHANGED <<frame_count, busy, objects_left, observed, posts>>
    BY DEF LogsInv, Poll
  <2>2. context' \in Contexts
    BY <2>1 DEF HeldTyped, Contexts
  <2> QED
    BY <2>1, <2>2 DEF HeldTyped
<1>2. LogsTyped' /\ UpToNow' /\ AttemptsTold' /\ ComparedInBoth'
  BY DEF LogsInv, LogsTyped, UpToNow, AttemptsTold, ComparedInBoth, AttendanceRow, HalfLike, Poll
<1>3. ObservedSoFar'
  BY DEF Poll, ObservedSoFar
<1>4. RowPerFrame'
  BY SameFiles DEF LogsInv, RowPerFrame, Explains, Finished, Poll
<1> QED
  BY <1>1, <1>2, <1>3, <1>4 DEF LogsInv, Poll

LEMMA StartFrameKeeps ==
  ASSUME LogsInv, NEW look \in Scene, NEW tracks \in Views, StartFrame(look, tracks)
  PROVE  LogsInv'
<1>0. /\ HeldTyped /\ LogsTyped /\ UpToNow /\ busy = NoScene
      /\ frame_count \in Nat /\ frame_count' = frame_count + 1 /\ busy' = look
      /\ UNCHANGED <<diagnostic, telemetry, attendance, context, posts, polls>>
      /\ observed' = NothingObserved
  BY DEF LogsInv, HeldTyped, StartFrame
<1>1. look # NoScene
  BY LogsAssumption DEF NoScene
<1>2. tracks \subseteq Seat /\ IsFiniteSet(tracks)
  BY LogsAssumption
<1>3. HeldTyped'
  <2>1. observed' \in [source : Sources, reason : Reasons, transition : {"none"}]
    BY <1>0 DEF NothingObserved, Sources, Reasons
  <2>2. objects_left' = tracks
    BY DEF StartFrame
  <2>3. frame_count' \in Nat /\ frame_count' > 0
    BY <1>0
  <2>4. context' \in Contexts /\ posts' \in Nat /\ polls' \in Nat
    BY <1>0 DEF HeldTyped
  <2>5. busy' \in Scene \cup {NoScene} /\ objects_left' \subseteq Seat /\ IsFiniteSet(objects_left')
    BY <1>0, <1>2, <2>2
  <2> QED
    BY <2>1, <2>3, <2>4, <2>5 DEF HeldTyped
<1>4. frame_count' <= Budget
  <2>1. Cardinality(tracks) \in Nat
    BY <1>2, FS_CardinalityType
  <2>2. Max({1, Cardinality(tracks)}) \in Nat /\ Max({1, Cardinality(tracks)}) >= 1
    BY <2>1, AtLeastOne
  <2>3. Spent \in Nat /\ frame_count <= Spent
    BY <1>0, RoomForFrame
  <2>4. Spent + Max({1, Cardinality(tracks)}) <= Budget /\ Budget \in Nat
    BY LogsAssumption DEF StartFrame
  <2> QED
    BY <1>0, <2>2, <2>3, <2>4
<1>5. LogsTyped' /\ UpToNow' /\ AttemptsTold' /\ ComparedInBoth'
  <2>1. LogsTyped'
    BY <1>0 DEF LogsTyped
  <2>2. UpToNow'
    BY <1>0 DEF UpToNow
  <2>3. AttemptsTold' /\ ComparedInBoth'
    BY <1>0 DEF LogsInv, AttemptsTold, ComparedInBoth, AttendanceRow, HalfLike
  <2> QED
    BY <2>1, <2>2, <2>3
<1>6. ObservedSoFar'
  <2>1. OfFrame(frame_count)' = {}
    BY <1>0 DEF OfFrame, UpToNow
  <2>2. ~CloudIn(frame_count)' /\ ~MatchIn(frame_count)' /\ ~HalfIn(frame_count)'
    BY <2>1 DEF CloudIn, MatchIn, HalfIn
  <2> QED
    BY <1>0, <2>2 DEF ObservedSoFar, Explains, NothingObserved
<1>7. RowPerFrame'
  BY <1>0, <1>1, SameFiles DEF LogsInv, RowPerFrame, Explains, Finished
<1> QED
  BY <1>3, <1>4, <1>5, <1>6, <1>7 DEF LogsInv

\* The row of a frame.
FrameRow ==
  LET rows == OfFrame(frame_count)
      count == ToString(Cardinality(rows))
      best == ToString(Max({0} \cup {diagnostic[i].sim : i \in rows}))
  IN  <<"LOW", count, count, count, count, "1", best>> \o frame_row_values

LEMMA FrameRowTyped ==
  ASSUME HeldTyped, LogsTyped
  PROVE  /\ FrameRow \in Seq(Cells) /\ Len(FrameRow) = 13
         /\ FrameRow[8] = observed.source /\ FrameRow[9] = observed.reason
<1> DEFINE rows == OfFrame(frame_count)
           count == ToString(Cardinality(rows))
           best == ToString(Max({0} \cup {diagnostic[i].sim : i \in rows}))
           front == <<"LOW", count, count, count, count, "1", best>>
<1>1. rows \subseteq DOMAIN diagnostic /\ DOMAIN diagnostic = 1 .. Len(diagnostic)
      /\ Len(diagnostic) \in Nat /\ \A i \in DOMAIN diagnostic : diagnostic[i] \in Diagnosis
  BY DEF OfFrame, LogsTyped
<1>2. rows \in SUBSET Nat
  BY <1>1
<1>3. {diagnostic[i].sim : i \in rows} \in SUBSET Nat
  BY <1>1 DEF Diagnosis
<1>4. count \in Cells
  <2> HIDE DEF rows
  <2> QED
    BY <1>2 DEF Cells
<1>5. best \in Cells
  <2> DEFINE likes == {diagnostic[i].sim : i \in rows}
  <2>1. likes \in SUBSET Nat
    BY <1>3
  <2> HIDE DEF likes
  <2>2. ToString(Max({0} \cup likes)) \in Cells
    BY <2>1 DEF Cells
  <2> QED
    BY <2>2 DEF likes
<1>6. {"LOW", "1", "true", "false"} \subseteq Cells
  BY DEF Cells
<1>7. /\ observed.source \in Cells /\ observed.reason \in Cells
      /\ context.transition \in Cells /\ context.state \in Cells
  BY DEF HeldTyped, Contexts, Cells
<1>8. front \in Seq(Cells) /\ Len(front) = 7
  <2> HIDE DEF count, best
  <2> QED
    BY <1>4, <1>5, <1>6
<1>9. /\ frame_row_values \in Seq(Cells) /\ Len(frame_row_values) = 6
      /\ frame_row_values[1] = observed.source /\ frame_row_values[2] = observed.reason
  BY <1>6, <1>7 DEF frame_row_values
<1>10. FrameRow = front \o frame_row_values
  BY DEF FrameRow
<1> HIDE DEF front
<1>11. /\ FrameRow \in Seq(Cells) /\ Len(FrameRow) = Len(front) + Len(frame_row_values)
       /\ \A i \in 1 .. Len(front) + Len(frame_row_values) :
            FrameRow[i] = IF i <= Len(front) THEN front[i] ELSE frame_row_values[i - Len(front)]
  BY <1>8, <1>9, <1>10, ConcatProperties
<1> QED
  BY <1>8, <1>9, <1>11

LEMMA EndKeeps == LogsInv /\ EndFrame => LogsInv'
<1> SUFFICES ASSUME LogsInv, EndFrame PROVE LogsInv'
  OBVIOUS
<1>0. /\ HeldTyped /\ LogsTyped /\ UpToNow /\ busy # NoScene /\ busy' = NoScene
      /\ frame_count \in Nat \ {0}
      /\ UNCHANGED <<frame_count, objects_left, observed, context, diagnostic, attendance, posts, polls>>
  BY DEF LogsInv, HeldTyped, EndFrame
<1>1. telemetry' = IF frame_count % FramesEvery # 0 THEN telemetry ELSE Append(telemetry, FrameRow)
  BY DEF EndFrame, FrameRow
<1>2. /\ FrameRow \in Seq(Cells) /\ Len(FrameRow) = 13
      /\ FrameRow[8] = observed.source /\ FrameRow[9] = observed.reason
  BY <1>0, FrameRowTyped
<1>3. telemetry \in Seq(Seq(Cells)) /\ \A i \in DOMAIN telemetry : Len(telemetry[i]) = 13
  BY <1>0 DEF LogsTyped
<1>4. HeldTyped'
  BY <1>0 DEF HeldTyped
<1>5. LogsTyped'
  <2>1. CASE telemetry' = telemetry
    BY <1>0, <2>1 DEF LogsTyped
  <2>2. CASE telemetry' = Append(telemetry, FrameRow)
    <3>1. /\ telemetry' \in Seq(Seq(Cells))
          /\ DOMAIN telemetry' = (DOMAIN telemetry) \cup {Len(telemetry) + 1}
          /\ \A i \in DOMAIN telemetry : telemetry'[i] = telemetry[i]
          /\ telemetry'[Len(telemetry) + 1] = FrameRow
      BY <1>2, <1>3, <2>2, RowAdded
    <3>2. \A i \in DOMAIN telemetry' : Len(telemetry'[i]) = 13
      BY <1>2, <1>3, <3>1
    <3> QED
      BY <1>0, <3>1, <3>2 DEF LogsTyped
  <2> QED
    BY <1>1, <2>1, <2>2
<1>6. UpToNow' /\ AttemptsTold' /\ ComparedInBoth'
  BY <1>0 DEF LogsInv, UpToNow, AttemptsTold, ComparedInBoth, AttendanceRow, HalfLike
<1>7. ObservedSoFar'
  BY <1>0 DEF ObservedSoFar
<1>8. RowPerFrame'
  <2> SUFFICES ASSUME FramesEvery = 1
               PROVE  /\ Len(telemetry') = frame_count
                      /\ DiagEvery = 1 =>
                           \A i \in DOMAIN telemetry' : Explains(telemetry[i][8], telemetry[i][9], i)'
    BY <1>0 DEF RowPerFrame, Finished
  <2>1. Len(telemetry) = frame_count - 1
    BY <1>0 DEF LogsInv, RowPerFrame, Finished
  <2>2. telemetry' = Append(telemetry, FrameRow)
    BY <1>0, <1>1, EveryNth
  <2>3. /\ Len(telemetry') = Len(telemetry) + 1 /\ Len(telemetry) \in Nat
        /\ DOMAIN telemetry' = (DOMAIN telemetry) \cup {Len(telemetry) + 1}
        /\ \A i \in DOMAIN telemetry : telemetry'[i] = telemetry[i]
        /\ telemetry'[Len(telemetry) + 1] = FrameRow
    BY <1>2, <1>3, <2>2, RowAdded
  <2>4. Len(telemetry') = frame_count /\ Len(telemetry) + 1 = frame_count
    BY <1>0, <2>1, <2>3
  <2>5. ASSUME DiagEvery = 1, NEW i \in DOMAIN telemetry'
        PROVE  Explains(telemetry[i][8], telemetry[i][9], i)'
    <3>1. CASE i \in DOMAIN telemetry
      <4>1. Explains(telemetry[i][8], telemetry[i][9], i)
        BY <2>5, <3>1 DEF LogsInv, RowPerFrame
      <4>2. telemetry'[i] = telemetry[i]
        BY <2>3, <3>1
      <4> QED
        BY <1>0, <4>1, <4>2, SameFiles DEF Explains
    <3>2. CASE i = frame_count
      <4>1. Explains(observed.source, observed.reason, frame_count)
        BY <1>0, <2>5 DEF LogsInv, ObservedSoFar
      <4>2. telemetry'[i][8] = observed.source /\ telemetry'[i][9] = observed.reason
        BY <1>2, <2>3, <2>4, <3>2
      <4> QED
        BY <1>0, <3>2, <4>1, <4>2, SameFiles DEF Explains
    <3> QED
      BY <2>3, <2>4, <3>1, <3>2
  <2> QED
    BY <2>4, <2>5
<1> QED
  BY <1>0, <1>4, <1>5, <1>6, <1>7, <1>8 DEF LogsInv

LEMMA LogsInvStep == LogsInv /\ [LogsNext]_logsVars => LogsInv'
<1> SUFFICES ASSUME LogsInv, [LogsNext]_logsVars PROVE LogsInv'
  OBVIOUS
<1>1. CASE Poll
  BY <1>1, PollKeeps
<1>2. ASSUME NEW look \in Scene, NEW tracks \in Views, StartFrame(look, tracks) PROVE LogsInv'
  BY <1>2, StartFrameKeeps
<1>3. CASE busy # NoScene /\ objects_left # {} /\ TakeTurn(Min(objects_left))
  BY <1>3, TakenTurn
<1>4. CASE EndFrame
  BY <1>4, EndKeeps
<1>5. CASE UNCHANGED logsVars
  <2>1. UNCHANGED <<frame_count, busy, objects_left, observed, context, diagnostic, attendance,
              telemetry, posts, polls>>
    BY <1>5 DEF logsVars
  <2>2. HeldTyped' /\ LogsTyped' /\ UpToNow' /\ AttemptsTold' /\ ComparedInBoth'
    BY <2>1, ZenonT(60) DEF LogsInv, HeldTyped, LogsTyped, UpToNow, AttemptsTold, ComparedInBoth, AttendanceRow, HalfLike
  <2>3. ObservedSoFar'
    BY <2>1, SameFiles DEF LogsInv, ObservedSoFar, Explains
  <2>4. RowPerFrame'
    BY <2>1, SameFiles DEF LogsInv, RowPerFrame, Explains, Finished
  <2> QED
    BY <2>1, <2>2, <2>3, <2>4 DEF LogsInv
<1> QED
  BY <1>1, <1>2, <1>3, <1>4, <1>5 DEF LogsNext

LEMMA LogsInvInit == LogsInit => LogsInv
<1> SUFFICES ASSUME LogsInit PROVE LogsInv
  OBVIOUS
<1>1. HeldTyped
  BY FS_EmptySet DEF LogsInit, HeldTyped, NothingObserved, Sources, Reasons, Contexts, States, Moves
<1>2. LogsTyped /\ UpToNow /\ AttemptsTold
  BY DEF LogsInit, LogsTyped, UpToNow, AttemptsTold
<1>3. ComparedInBoth
  <2>1. {i \in DOMAIN diagnostic : diagnostic[i].identity # "NA"} = {}
    BY DEF LogsInit
  <2> QED
    BY <2>1, FS_EmptySet DEF LogsInit, ComparedInBoth
<1>4. ObservedSoFar /\ RowPerFrame
  BY DEF LogsInit, ObservedSoFar, RowPerFrame, Finished
<1> QED
  BY <1>1, <1>2, <1>3, <1>4, LogsAssumption DEF LogsInv, LogsInit

\* The invariant says it of every finished frame and every row.
LEMMA LogsInvExplains == LogsInv => LogsExplainFrames
<1> SUFFICES ASSUME LogsInv PROVE LogsExplainFrames
  OBVIOUS
<1>1. LogsTypeOK
  <2>1. Len(Columns) = 13
    BY DEF Columns
  <2> QED
    BY <2>1, LogsAssumption DEF LogsInv, HeldTyped, LogsTyped, LogsTypeOK, Sources, Reasons, States, Contexts
<1>2. FrameExplained
  <2> SUFFICES ASSUME DiagEvery = 1, FramesEvery = 1, NEW i \in DOMAIN telemetry
               PROVE  LET matches == {j \in OfFrame(i) : diagnostic[j].decision = "MATCHED"}
                          cloud == {j \in matches : diagnostic[j].verified = "True"}
                      IN  /\ telemetry[i][8] =
                               (IF cloud # {} THEN "cloud" ELSE IF matches # {} THEN "local" ELSE "none")
                          /\ (telemetry[i][9] # "none")
                               <=> (\E j \in OfFrame(i) : HalfLike(diagnostic[j]))
    BY DEF FrameExplained, SourceOfFrame, ReasonOfFrame
  <2>1. Explains(telemetry[i][8], telemetry[i][9], i)
    BY DEF LogsInv, RowPerFrame
  <2> QED
    BY <2>1 DEF Explains, CloudIn, MatchIn, HalfIn
<1> QED
  BY <1>1, <1>2 DEF LogsInv, LogsExplainFrames

\* What the loop did with a face, and on whose word, can be told from the rows
\* it left in the three logs: a cloud match is not hidden by a later local one,
\* an attempt not by the decision that overwrote it (main.py:1071,
\* observability.py:139).
THEOREM LogsAlwaysExplainFrames == LogsBehaviour => []LogsExplainFrames
<1>1. LogsInit => LogsInv
  BY LogsInvInit
<1>2. LogsInv /\ [LogsNext]_logsVars => LogsInv'
  BY LogsInvStep
<1>3. LogsInv => LogsExplainFrames
  BY LogsInvExplains
<1> QED
  BY <1>1, <1>2, <1>3, PTL DEF LogsBehaviour

(***************************************************************************)
(* Matching, for every window, gallery, set of persons and of answers, and *)
(* the thresholds and cosines that are Separated.                          *)
(*                                                                         *)
(* FormerFaceFades is about a verdict and needs NewestArePresent, which    *)
(* ties the history's number to the buffer: the last ofPresent embeddings  *)
(* are of the face that is there.  That more than half of a full buffer    *)
(* then outweighs anybody else is BelowThreshold.  It counts the buffer by *)
(* classes: of the person who is there the two views, of another the       *)
(* vector compared and the other view, and the rest.                       *)
(***************************************************************************)
MatchBehaviour == MatchInit /\ [][MatchNext]_matchVars

\* The lowest threshold of a match, in hundredths.
LowestHigh == MATCH_HIGH_BASE - 2

\* The mean of a buffer of which the larger part is one person's, and half of
\* that in each view, is below every threshold for another: at the cosines and
\* the window of the constants.
Separated ==
  \A here, gone \in 0 .. LIVENESS_WINDOW :
    here + gone = LIVENESS_WINDOW /\ gone < here =>
      20000 * ((10 * gone + OtherPerson * here) * (10 * gone + OtherPerson * here))
        < (LowestHigh * LowestHigh)
          * (10 * (10 + OtherView) * (here * here) + 40 * OtherPerson * (here * gone)
             + 200 * (gone * gone))

Sighting(W) == [who : W, view : Angles]

-----------------------------------------------------------------------------
(* Sums by class.                                                          *)

\* How many of the first k are in S.
Among(S, k) == Cardinality(S \cap (1 .. k))

LEMMA AmongCounts ==
  ASSUME NEW S, NEW k \in Nat
  PROVE  /\ Among(S, 0) = 0 /\ Among(S, k) \in Nat
         /\ Among(S, k + 1) = Among(S, k) + (IF k + 1 \in S THEN 1 ELSE 0)
<1>1. S \cap (1 .. 0) = {} /\ Cardinality({}) = 0
  BY FS_EmptySet
<1>2. IsFiniteSet(S \cap (1 .. k))
  <2>1. IsFiniteSet(1 .. k)
    BY FS_Interval
  <2>2. S \cap (1 .. k) \in SUBSET (1 .. k)
    OBVIOUS
  <2> QED
    BY <2>1, <2>2, FS_Subset
<1>3. ~(k + 1 \in S \cap (1 .. k))
  OBVIOUS
<1>4. S \cap (1 .. k + 1) = IF k + 1 \in S THEN (S \cap (1 .. k)) \cup {k + 1} ELSE S \cap (1 .. k)
  OBVIOUS
<1>5. Cardinality(S \cap (1 .. k)) \in Nat
  BY <1>2, FS_CardinalityType
<1>6. k + 1 \in S => Cardinality((S \cap (1 .. k)) \cup {k + 1}) = Cardinality(S \cap (1 .. k)) + 1
  BY <1>2, <1>3, FS_AddElement
<1> QED
  BY <1>1, <1>4, <1>5, <1>6 DEF Among

\* A sum over a buffer, as Norm has it.
Sums(g, n, f) ==
  /\ g \in [0 .. n -> Int] /\ g[0] = 0
  /\ \A k \in 1 .. n : g[k] = g[k - 1] + f[k]

\* The i-th is in one of five classes, and at least what that class gives.
Sorted(i, f, X, Y, A, B, C, cX, cY, cA, cB, cC) ==
  \/ i \in X /\ i \notin Y \cup A \cup B \cup C /\ f[i] >= cX
  \/ i \in Y /\ i \notin X \cup A \cup B \cup C /\ f[i] >= cY
  \/ i \in A /\ i \notin X \cup Y \cup B \cup C /\ f[i] >= cA
  \/ i \in B /\ i \notin X \cup Y \cup A \cup C /\ f[i] >= cB
  \/ i \in C /\ i \notin X \cup Y \cup A \cup B /\ f[i] >= cC

Classes(n, f, g, X, Y, A, B, C, cX, cY, cA, cB, cC) ==
  /\ n \in Nat /\ f \in [1 .. n -> Int] /\ Sums(g, n, f)
  /\ {cX, cY, cA, cB, cC} \subseteq Int
  /\ \A i \in 1 .. n : Sorted(i, f, X, Y, A, B, C, cX, cY, cA, cB, cC)

LEMMA SumByClass ==
  ASSUME NEW n, NEW f, NEW g, NEW X, NEW Y, NEW A, NEW B, NEW C,
         NEW cX, NEW cY, NEW cA, NEW cB, NEW cC,
         Classes(n, f, g, X, Y, A, B, C, cX, cY, cA, cB, cC)
  PROVE  /\ g[n] >= Among(X, n) * cX + Among(Y, n) * cY + Among(A, n) * cA
                    + Among(B, n) * cB + Among(C, n) * cC
         /\ Among(X, n) + Among(Y, n) + Among(A, n) + Among(B, n) + Among(C, n) = n
<1> DEFINE Bound(k) == Among(X, k) * cX + Among(Y, k) * cY + Among(A, k) * cA
                       + Among(B, k) * cB + Among(C, k) * cC
           All(k) == Among(X, k) + Among(Y, k) + Among(A, k) + Among(B, k) + Among(C, k)
           S == {k \in Nat : k <= n => g[k] >= Bound(k) /\ All(k) = k}
<1>0. /\ n \in Nat /\ f \in [1 .. n -> Int] /\ Sums(g, n, f)
      /\ cX \in Int /\ cY \in Int /\ cA \in Int /\ cB \in Int /\ cC \in Int
      /\ \A i \in 1 .. n : Sorted(i, f, X, Y, A, B, C, cX, cY, cA, cB, cC)
  BY DEF Classes
<1>1. 0 \in S
  <2>a. Among(X, 0) = 0 /\ Among(Y, 0) = 0 /\ Among(A, 0) = 0 /\ Among(B, 0) = 0 /\ Among(C, 0) = 0
    BY AmongCounts
  <2>1. Bound(0) = 0 /\ All(0) = 0
    BY <1>0, <2>a
  <2> QED
    BY <1>0, <2>1 DEF Sums
<1>2. ASSUME NEW k \in Nat, k \in S PROVE k + 1 \in S
  <2> SUFFICES ASSUME k + 1 <= n PROVE g[k + 1] >= Bound(k + 1) /\ All(k + 1) = k + 1
    OBVIOUS
  <2>1. g[k] >= Bound(k) /\ All(k) = k /\ k + 1 \in 1 .. n /\ k \in 0 .. n /\ (k + 1) - 1 = k
    BY <1>0, <1>2
  <2>2. g[k] \in Int /\ g[k + 1] = g[k] + f[k + 1] /\ f[k + 1] \in Int
    BY <1>0, <2>1 DEF Sums
  <2> DEFINE x == Among(X, k)  y == Among(Y, k)  a == Among(A, k)  b == Among(B, k)  c == Among(C, k)
  <2>3. x \in Nat /\ y \in Nat /\ a \in Nat /\ b \in Nat /\ c \in Nat
    BY AmongCounts
  <2>4. \A u \in Nat, v \in Int : u * v \in Int /\ (u + 1) * v = u * v + v /\ (u + 0) * v = u * v
    OBVIOUS
  <2>5. /\ Among(X, k + 1) = x + (IF k + 1 \in X THEN 1 ELSE 0)
        /\ Among(Y, k + 1) = y + (IF k + 1 \in Y THEN 1 ELSE 0)
        /\ Among(A, k + 1) = a + (IF k + 1 \in A THEN 1 ELSE 0)
        /\ Among(B, k + 1) = b + (IF k + 1 \in B THEN 1 ELSE 0)
        /\ Among(C, k + 1) = c + (IF k + 1 \in C THEN 1 ELSE 0)
    BY AmongCounts
  <2>a. \A u \in Nat, v \in Int, r \in BOOLEAN :
          (u + (IF r THEN 1 ELSE 0)) * v = u * v + (IF r THEN v ELSE 0)
    BY <2>4
  <2>c. ASSUME NEW Z, NEW cZ \in Int
        PROVE  Among(Z, k + 1) * cZ = Among(Z, k) * cZ + (IF k + 1 \in Z THEN cZ ELSE 0)
    <3>1. Among(Z, k) \in Nat /\ (k + 1 \in Z) \in BOOLEAN
      BY AmongCounts
    <3>2. Among(Z, k + 1) = Among(Z, k) + (IF k + 1 \in Z THEN 1 ELSE 0)
      BY AmongCounts
    <3> QED
      BY <2>a, <3>1, <3>2
  <2>6. /\ Among(X, k + 1) * cX = x * cX + (IF k + 1 \in X THEN cX ELSE 0)
        /\ Among(Y, k + 1) * cY = y * cY + (IF k + 1 \in Y THEN cY ELSE 0)
        /\ Among(A, k + 1) * cA = a * cA + (IF k + 1 \in A THEN cA ELSE 0)
        /\ Among(B, k + 1) * cB = b * cB + (IF k + 1 \in B THEN cB ELSE 0)
        /\ Among(C, k + 1) * cC = c * cC + (IF k + 1 \in C THEN cC ELSE 0)
    BY <1>0, <2>c, Zenon
  <2>7. x * cX \in Int /\ y * cY \in Int /\ a * cA \in Int /\ b * cB \in Int /\ c * cC \in Int
    BY <1>0, <2>3, <2>4
  <2>8. g[k] >= x * cX + y * cY + a * cA + b * cB + c * cC /\ x + y + a + b + c = k
    BY <2>1
  <2> HIDE DEF x, y, a, b, c
  <2>b. \/ k + 1 \in X /\ k + 1 \notin Y \cup A \cup B \cup C /\ f[k + 1] >= cX
        \/ k + 1 \in Y /\ k + 1 \notin X \cup A \cup B \cup C /\ f[k + 1] >= cY
        \/ k + 1 \in A /\ k + 1 \notin X \cup Y \cup B \cup C /\ f[k + 1] >= cA
        \/ k + 1 \in B /\ k + 1 \notin X \cup Y \cup A \cup C /\ f[k + 1] >= cB
        \/ k + 1 \in C /\ k + 1 \notin X \cup Y \cup A \cup B /\ f[k + 1] >= cC
    BY <1>0, <2>1, Zenon DEF Sorted
  <2>d. (IF k + 1 \in X THEN 1 ELSE 0) + (IF k + 1 \in Y THEN 1 ELSE 0)
         + (IF k + 1 \in A THEN 1 ELSE 0) + (IF k + 1 \in B THEN 1 ELSE 0)
         + (IF k + 1 \in C THEN 1 ELSE 0) = 1
    BY <2>b
  <2>9. All(k + 1) = k + 1
    <3> DEFINE xx == IF k + 1 \in X THEN 1 ELSE 0  yy == IF k + 1 \in Y THEN 1 ELSE 0
               aa == IF k + 1 \in A THEN 1 ELSE 0  bb == IF k + 1 \in B THEN 1 ELSE 0
               cc == IF k + 1 \in C THEN 1 ELSE 0
    <3>1. /\ xx \in Int /\ yy \in Int /\ aa \in Int /\ bb \in Int /\ cc \in Int
          /\ xx + yy + aa + bb + cc = 1
      BY <2>d
    <3>2. All(k + 1) = (x + xx) + (y + yy) + (a + aa) + (b + bb) + (c + cc)
      BY <2>5
    <3> HIDE DEF xx, yy, aa, bb, cc, All
    <3> QED
      BY <2>3, <2>8, <3>1, <3>2
  <2>10. Bound(k + 1) = x * cX + (IF k + 1 \in X THEN cX ELSE 0) + (y * cY + (IF k + 1 \in Y THEN cY ELSE 0))
                        + (a * cA + (IF k + 1 \in A THEN cA ELSE 0)) + (b * cB + (IF k + 1 \in B THEN cB ELSE 0))
                        + (c * cC + (IF k + 1 \in C THEN cC ELSE 0))
    BY <1>0, <2>6, <2>7
  <2> HIDE DEF Bound, All
  <2> DEFINE p == x * cX  q == y * cY  r == a * cA  s == b * cB  t == c * cC
  <2>12. p \in Int /\ q \in Int /\ r \in Int /\ s \in Int /\ t \in Int
    BY <2>7
  <2>13. /\ g[k] >= p + q + r + s + t
         /\ Bound(k + 1) = p + (IF k + 1 \in X THEN cX ELSE 0) + (q + (IF k + 1 \in Y THEN cY ELSE 0))
                           + (r + (IF k + 1 \in A THEN cA ELSE 0)) + (s + (IF k + 1 \in B THEN cB ELSE 0))
                           + (t + (IF k + 1 \in C THEN cC ELSE 0))
    BY <2>8, <2>10
  <2> HIDE DEF p, q, r, s, t
  <2>11. g[k + 1] >= Bound(k + 1)
    <3>1. CASE k + 1 \in X
      BY <1>0, <2>b, <2>2, <2>12, <2>13, <3>1
    <3>2. CASE k + 1 \in Y
      BY <1>0, <2>b, <2>2, <2>12, <2>13, <3>2
    <3>3. CASE k + 1 \in A
      BY <1>0, <2>b, <2>2, <2>12, <2>13, <3>3
    <3>4. CASE k + 1 \in B
      BY <1>0, <2>b, <2>2, <2>12, <2>13, <3>4
    <3>5. CASE k + 1 \in C
      BY <1>0, <2>b, <2>2, <2>12, <2>13, <3>5
    <3> QED
      BY <2>b, <3>1, <3>2, <3>3, <3>4, <3>5, Zenon
  <2> QED
    BY <2>9, <2>11
<1>3. n \in S
  <2> HIDE DEF S
  <2> QED
    BY <1>0, <1>1, <1>2, SetInduction
<1> QED
  BY <1>0, <1>3

LEMMA SumsThere ==
  ASSUME NEW n \in Nat, NEW f \in [1 .. n -> Int]
  PROVE  \E g : Sums(g, n, f)
<1> DEFINE S == {k \in Nat : k <= n => \E g : Sums(g, k, f)}
<1>1. 0 \in S
  <2>1. Sums([i \in 0 .. 0 |-> 0], 0, f)
    BY DEF Sums
  <2> QED
    BY <2>1
<1>2. ASSUME NEW k \in Nat, k \in S PROVE k + 1 \in S
  <2> SUFFICES ASSUME k + 1 <= n PROVE \E g : Sums(g, k + 1, f)
    BY k + 1 \in Nat, Zenon
  <2>1. PICK g : Sums(g, k, f)
    BY <1>2
  <2> DEFINE h == [i \in 0 .. k + 1 |-> IF i = k + 1 THEN g[k] + f[k + 1] ELSE g[i]]
  <2>2. h \in [0 .. k + 1 -> Int] /\ h[0] = 0
    BY <2>1 DEF Sums
  <2>3. ASSUME NEW i \in 1 .. k + 1 PROVE h[i] = h[i - 1] + f[i]
    <3>1. CASE i = k + 1
      BY <3>1
    <3>2. CASE i # k + 1
      <4>1. i \in 1 .. k /\ i \in 0 .. k + 1 /\ i - 1 \in 0 .. k + 1 /\ i - 1 # k + 1
        BY <3>2
      <4> QED
        BY <2>1, <3>2, <4>1 DEF Sums
    <3> QED
      BY <3>1, <3>2
  <2> HIDE DEF h
  <2>4. Sums(h, k + 1, f)
    BY <2>2, <2>3 DEF Sums
  <2> QED
    BY <2>4
<1>3. n \in S
  <2> HIDE DEF S
  <2> QED
    BY <1>1, <1>2, SetInduction
<1> QED
  BY <1>3

\* Norm adds up the products of the buffer's sum with each of its vectors.
LEMMA NormIsSum ==
  ASSUME NEW E, NEW b \in Seq(E), \A i \in 1 .. Len(b) : DotOfSum(b, b[i]) \in Int
  PROVE  \E g : Sums(g, Len(b), [i \in 1 .. Len(b) |-> DotOfSum(b, b[i])]) /\ Norm(b) = g[Len(b)]
<1> DEFINE n == Len(b)
           d == [i \in 1 .. n |-> DotOfSum(b, b[i])]
           Eq(h) == h = [k \in 0 .. n |-> IF k = 0 THEN 0 ELSE h[k - 1] + DotOfSum(b, b[k])]
           f == CHOOSE h : Eq(h)
<1>0. n \in Nat /\ d \in [1 .. n -> Int]
  OBVIOUS
<1>1. PICK g : Sums(g, n, d)
  <2> HIDE DEF d, n
  <2> QED
    BY <1>0, SumsThere
<1>2. Norm(b) = f[n]
  BY DEF Norm
<1>3. Eq(g)
  <2>1. \A k \in 1 .. n : g[k] = g[k - 1] + DotOfSum(b, b[k])
    BY <1>1 DEF Sums
  <2>2. g \in [0 .. n -> Int] /\ g[0] = 0
    BY <1>1 DEF Sums
  <2>3. \A k \in 0 .. n : k # 0 => k \in 1 .. n
    BY <1>0
  <2> HIDE DEF n
  <2> QED
    BY <2>1, <2>2, <2>3
<1>4. Eq(f)
  BY <1>3, Zenon
<1> HIDE DEF f
<1> DEFINE S == {k \in Nat : k <= n => f[k] = g[k]}
<1>5. 0 \in S
  BY <1>0, <1>3, <1>4
<1>6. ASSUME NEW k \in Nat, k \in S PROVE k + 1 \in S
  <2> SUFFICES ASSUME k + 1 <= n PROVE f[k + 1] = g[k + 1]
    OBVIOUS
  <2>1. k + 1 \in 0 .. n /\ k + 1 # 0 /\ (k + 1) - 1 = k /\ f[k] = g[k]
    BY <1>0, <1>6
  <2>2. f[k + 1] = f[k] + DotOfSum(b, b[k + 1])
    BY <1>4, <2>1
  <2>3. g[k + 1] = g[k] + DotOfSum(b, b[k + 1])
    BY <1>3, <2>1
  <2> QED
    BY <2>1, <2>2, <2>3
<1>7. n \in S
  <2> HIDE DEF S
  <2> QED
    BY <1>0, <1>5, <1>6, SetInduction
<1>8. Norm(b) = g[n]
  BY <1>0, <1>2, <1>7
<1> QED
  BY <1>1, <1>8, Zenon

\* The counts a product is made of.
LEMMA DotCounts ==
  ASSUME NEW E, NEW b \in Seq(E), NEW v,
         NEW P, NEW S, P = {i \in DOMAIN b : b[i].who = v.who}, S = {i \in DOMAIN b : b[i] = v}
  PROVE  /\ DotOfSum(b, v) = 10 * Among(S, Len(b)) + OtherView * (Among(P, Len(b)) - Among(S, Len(b)))
                             + OtherPerson * (Len(b) - Among(P, Len(b)))
         /\ Among(S, Len(b)) <= Among(P, Len(b)) /\ Among(P, Len(b)) <= Len(b)
<1>1. DOMAIN b = 1 .. Len(b) /\ Len(b) \in Nat
  OBVIOUS
<1>2. S \cap (1 .. Len(b)) = S /\ P \cap (1 .. Len(b)) = P /\ S \subseteq P /\ P \subseteq 1 .. Len(b)
  BY <1>1
<1>3. IsFiniteSet(1 .. Len(b)) /\ Cardinality(1 .. Len(b)) = Len(b)
  BY <1>1, FS_Interval
<1>4. IsFiniteSet(P) /\ Cardinality(P) <= Len(b)
  BY <1>2, <1>3, FS_Subset
<1>5. Cardinality(S) <= Cardinality(P)
  BY <1>2, <1>4, FS_Subset
<1> QED
  BY <1>2, <1>4, <1>5 DEF DotOfSum, Among

-----------------------------------------------------------------------------
(* The larger part of a mean.                                              *)

Cosines(V, P) == V \in 0 .. 10 /\ P \in 0 .. V

\* Those who are there, x in one view and y in the other.
LEMMA HerePart ==
  ASSUME NEW V \in 0 .. 10, NEW x \in Nat, NEW y \in Nat
  PROVE  20 * (x * (10 * x + V * y) + y * (10 * y + V * x)) >= 10 * (10 + V) * ((x + y) * (x + y))
<1> DEFINE d == (x - y) * (x - y)
           l == 20 * (x * (10 * x + V * y) + y * (10 * y + V * x))
           r == 10 * (10 + V) * ((x + y) * (x + y))
<1>1. l = 200 * (x * x) + 200 * (y * y) + 40 * (V * (x * y))
  OBVIOUS
<1>2. r = 100 * (x * x) + 100 * (y * y) + 200 * (x * y) + 10 * (V * (x * x)) + 10 * (V * (y * y)) + 20 * (V * (x * y))
  OBVIOUS
<1>3. (100 - 10 * V) * d = 100 * (x * x) + 100 * (y * y) - 200 * (x * y) - 10 * (V * (x * x)) - 10 * (V * (y * y)) + 20 * (V * (x * y))
  OBVIOUS
<1>4. l - r = (100 - 10 * V) * d
  <2> HIDE DEF l, r, d
  <2> QED
    BY <1>1, <1>2, <1>3
<1>5. \A u \in Int : u * u >= 0
  OBVIOUS
<1>6. d \in Nat /\ 100 - 10 * V \in Nat
  BY <1>5
<1>7. \A u, w \in Nat : u * w >= 0
  OBVIOUS
<1>8. (100 - 10 * V) * d >= 0
  <2> HIDE DEF d
  <2> QED
    BY <1>6, <1>7
<1>9. l \in Int /\ r \in Int
  OBVIOUS
<1> HIDE DEF l, r, d
<1>10. l >= r
  BY <1>4, <1>8, <1>9
<1> QED
  BY <1>10 DEF l, r

\* Those who are gone, a as the vector, c as its person otherwise, e others.
LEMMA GonePart ==
  ASSUME NEW V \in 0 .. 10, NEW P \in 0 .. V, NEW a \in Nat, NEW c \in Nat, NEW e \in Nat
  PROVE  20 * (a * (10 * a + V * c + P * e) + c * (10 * c + V * a + P * e) + e * (P * (a + c + e)))
           >= 2 * ((10 * a + V * c + P * e) * (10 * a + V * c + P * e))
<1> DEFINE l == 20 * (a * (10 * a + V * c + P * e) + c * (10 * c + V * a + P * e) + e * (P * (a + c + e)))
           r == 2 * ((10 * a + V * c + P * e) * (10 * a + V * c + P * e))
           z1 == 2 * ((100 - V * V) * (c * c))
           z2 == 4 * (P * ((10 - V) * (c * e)))
           z3 == 2 * (P * ((10 - P) * (e * e)))
<1>1. l = 200 * (a * a) + 200 * (c * c) + 40 * (V * (a * c)) + 40 * (P * (a * e)) + 40 * (P * (c * e)) + 20 * (P * (e * e))
  OBVIOUS
<1>2. r = 200 * (a * a) + 2 * ((V * V) * (c * c)) + 2 * ((P * P) * (e * e))
          + 40 * (V * (a * c)) + 40 * (P * (a * e)) + 4 * ((V * P) * (c * e))
  OBVIOUS
<1>3. /\ z1 = 200 * (c * c) - 2 * ((V * V) * (c * c))
      /\ z2 = 40 * (P * (c * e)) - 4 * ((V * P) * (c * e))
      /\ z3 = 20 * (P * (e * e)) - 2 * ((P * P) * (e * e))
  OBVIOUS
<1>4. \A u, w \in Nat : u * w \in Nat
  OBVIOUS
<1>5. z1 \in Nat
  <2>1. 100 - V * V \in Nat /\ c * c \in Nat
    OBVIOUS
  <2> QED
    BY <1>4, <2>1
<1>6. z2 \in Nat
  <2>1. 10 - V \in Nat /\ c * e \in Nat /\ P \in Nat
    OBVIOUS
  <2>2. (10 - V) * (c * e) \in Nat
    BY <1>4, <2>1
  <2>3. P * ((10 - V) * (c * e)) \in Nat
    BY <1>4, <2>1, <2>2
  <2> QED
    BY <2>3
<1>7. z3 \in Nat
  <2>1. 10 - P \in Nat /\ e * e \in Nat /\ P \in Nat
    OBVIOUS
  <2>2. (10 - P) * (e * e) \in Nat
    BY <1>4, <2>1
  <2>3. P * ((10 - P) * (e * e)) \in Nat
    BY <1>4, <2>1, <2>2
  <2> QED
    BY <2>3
<1>8. l \in Int /\ r \in Int
  OBVIOUS
<1> HIDE DEF l, r, z1, z2, z3
<1>9. l - r = z1 + z2 + z3
  <2> DEFINE m1 == a * a  m2 == c * c  m3 == V * (a * c)  m4 == P * (a * e)  m5 == P * (c * e)
             m6 == P * (e * e)  m7 == (V * V) * (c * c)  m8 == (P * P) * (e * e)  m9 == (V * P) * (c * e)
  <2>1. m1 \in Int /\ m2 \in Int /\ m3 \in Int /\ m4 \in Int /\ m5 \in Int /\ m6 \in Int
        /\ m7 \in Int /\ m8 \in Int /\ m9 \in Int
    OBVIOUS
  <2>2. l = 200 * m1 + 200 * m2 + 40 * m3 + 40 * m4 + 40 * m5 + 20 * m6
    BY <1>1
  <2>3. r = 200 * m1 + 2 * m7 + 2 * m8 + 40 * m3 + 40 * m4 + 4 * m9
    BY <1>2
  <2>4. z1 = 200 * m2 - 2 * m7 /\ z2 = 40 * m5 - 4 * m9 /\ z3 = 20 * m6 - 2 * m8
    BY <1>3
  <2> HIDE DEF m1, m2, m3, m4, m5, m6, m7, m8, m9
  <2> QED
    BY <2>1, <2>2, <2>3, <2>4
<1>10. l >= r
  BY <1>5, <1>6, <1>7, <1>8, <1>9
<1> QED
  BY <1>10 DEF l, r

-----------------------------------------------------------------------------
(* A buffer of several persons.                                            *)

LEMMA MatchNumbers ==
  /\ OtherView \in 0 .. 10 /\ OtherPerson \in 0 .. OtherView
  /\ LIVENESS_WINDOW \in Nat \ {0} /\ MATCH_HIGH_BASE \in 2 .. 100 /\ MATCH_MID_BASE \in 0 .. 100
BY MatchAssumption, Zenon

LEMMA AmongBoth ==
  ASSUME NEW S, NEW T, NEW k \in Nat, S \cap T = {}
  PROVE  Among(S \cup T, k) = Among(S, k) + Among(T, k)
<1> DEFINE s == S \cap (1 .. k)  t == T \cap (1 .. k)
<1>1. IsFiniteSet(1 .. k)
  BY FS_Interval
<1>2. IsFiniteSet(s) /\ IsFiniteSet(t)
  BY <1>1, FS_Subset
<1>3. s \cap t = {} /\ (S \cup T) \cap (1 .. k) = s \cup t
  OBVIOUS
<1>4. Cardinality(s \cup t) = Cardinality(s) + Cardinality(t) - Cardinality(s \cap t)
  <2> HIDE DEF s, t
  <2> QED
    BY <1>2, FS_Union
<1>5. Cardinality(s) \in Nat /\ Cardinality(t) \in Nat /\ Cardinality({}) = 0
  BY <1>2, FS_CardinalityType, FS_EmptySet
<1>6. Cardinality(s \cap t) = 0
  BY <1>3, <1>5
<1>7. Among(S \cup T, k) = Cardinality(s \cup t) /\ Among(S, k) = Cardinality(s) /\ Among(T, k) = Cardinality(t)
  BY <1>3 DEF Among
<1> HIDE DEF s, t
<1> QED
  BY <1>4, <1>5, <1>6, <1>7

\* The product of any vector of the buffer with all of it is at least that of
\* strangers.
LEMMA AtLeastStrangers ==
  ASSUME NEW V \in 0 .. 10, NEW P \in 0 .. V, NEW n \in Nat, NEW q \in 0 .. n, NEW r \in 0 .. q
  PROVE  10 * r + V * (q - r) + P * (n - q) >= P * n
<1>1. 10 * r + V * (q - r) + P * (n - q) - P * n = (10 - V) * r + (V - P) * q
  OBVIOUS
<1>2. \A u, w \in Nat : u * w \in Nat
  OBVIOUS
<1>3. (10 - V) * r \in Nat /\ (V - P) * q \in Nat
  <2>1. 10 - V \in Nat /\ V - P \in Nat /\ q \in Nat /\ r \in Nat
    OBVIOUS
  <2> QED
    BY <1>2, <2>1
<1>4. P * n \in Int /\ 10 * r + V * (q - r) + P * (n - q) \in Int
  OBVIOUS
<1> QED
  BY <1>1, <1>3, <1>4

\* What p vectors of one person cost the vector v of another, whose product
\* with the rest of the buffer is s.
Outweighs(b, v, p) ==
  \E s \in 0 .. 10 * (Len(b) - p) :
    /\ DotOfSum(b, v) = s + OtherPerson * p
    /\ 20 * Norm(b) >= 10 * (10 + OtherView) * (p * p) + 40 * (OtherPerson * (p * (Len(b) - p))) + 2 * (s * s)

\* Arithmetic the proof below needs, of numbers that stand for products.
LEMMA SquaresTo98 == \A x \in 0 .. 98 : x * x \in 0 .. 10000
<1>1. \A x \in 0 .. 98 : x * x >= 0 /\ x * x <= 98 * 98 /\ x * x \in Int
  OBVIOUS
<1> QED
  BY <1>1

LEMMA SquareParts ==
  ASSUME NEW s \in Nat, NEW t \in Nat, s <= t, NEW g \in Nat
  PROVE  /\ (t + g) * (t + g) = (s + g) * (s + g) + (t - s) * (t + s) + (t - s) * (2 * g)
         /\ t * t = s * s + (t - s) * (t + s)
         /\ (t - s) * (t + s) \in Nat /\ (t - s) * (2 * g) \in Nat
         /\ (s + g) * (s + g) \in Nat /\ s * s \in Nat /\ t * t \in Nat /\ (t + g) * (t + g) \in Int
<1>1. t - s \in Nat /\ t + s \in Nat /\ 2 * g \in Nat /\ s + g \in Nat
  OBVIOUS
<1>2. \A x, y \in Nat : x * y \in Nat
  OBVIOUS
<1>3. (t + g) * (t + g) = (s + g) * (s + g) + (t - s) * (t + s) + (t - s) * (2 * g)
  OBVIOUS
<1>4. t * t = s * s + (t - s) * (t + s) /\ (t + g) * (t + g) \in Int
  OBVIOUS
<1> QED
  BY <1>1, <1>2, <1>3, <1>4

LEMMA OneOfThree ==
  ASSUME NEW a \in Nat, NEW c \in Nat, NEW e \in Nat,
         NEW vc \in 0 .. 10 * c, NEW pe \in 0 .. 10 * e, NEW pp \in Int
  PROVE  10 * a + vc + (pe + pp) = (10 * a + vc + pe) + pp /\ 10 * a + vc + pe \in 0 .. 10 * (a + c + e)
OBVIOUS

\* One person's part of a buffer, beside that of others: what it costs another
\* to be the nearest.
LEMMA MixedBuffer ==
  ASSUME NEW W, NEW U, NEW b \in Seq(Sighting(W)), NEW v \in Sighting(U), NEW w, v.who # w,
         NEW H, H = {i \in DOMAIN b : b[i].who = w}
  PROVE  /\ Among(H, Len(b)) \in 0 .. Len(b) /\ Norm(b) \in Int
         /\ Outweighs(b, v, Among(H, Len(b)))
<1> DEFINE n == Len(b)
           V == OtherView
           P == OtherPerson
           X == {i \in DOMAIN b : b[i].who = w /\ b[i].view = "front"}
           Y == {i \in DOMAIN b : b[i].who = w /\ b[i].view # "front"}
           A == {i \in DOMAIN b : b[i] = v}
           B == {i \in DOMAIN b : b[i].who = v.who /\ b[i] # v}
           C == {i \in DOMAIN b : b[i].who # w /\ b[i].who # v.who}
           x == Among(X, n)  y == Among(Y, n)  a == Among(A, n)  c == Among(B, n)  e == Among(C, n)
           p == Among(H, n)
           d == [i \in 1 .. n |-> DotOfSum(b, b[i])]
<1>0. n \in Nat /\ DOMAIN b = 1 .. n /\ V \in 0 .. 10 /\ P \in 0 .. V
  <2>1. n \in Nat /\ DOMAIN b = 1 .. n
    OBVIOUS
  <2> QED
    BY <2>1, MatchNumbers
<1>1. /\ x \in Nat /\ y \in Nat /\ a \in Nat /\ c \in Nat /\ e \in Nat /\ p \in Nat
  <2> HIDE DEF X, Y, A, B, C, n
  <2> QED
    BY <1>0, AmongCounts
<1>2. ASSUME NEW i \in DOMAIN b
      PROVE  b[i].view \in Angles /\ b[i] = [who |-> b[i].who, view |-> b[i].view]
  <2>1. b[i] \in Sighting(W)
    OBVIOUS
  <2> QED
    BY <2>1 DEF Sighting
<1>3. v.view \in Angles /\ v = [who |-> v.who, view |-> v.view]
  BY DEF Sighting
<1>4. p = x + y
  <2>1. H = X \cup Y /\ X \cap Y = {}
    OBVIOUS
  <2> HIDE DEF X, Y, n
  <2> QED
    BY <1>0, <2>1, AmongBoth
<1>5. Among(A \cup B, n) = a + c
  <2>1. A \cap B = {}
    OBVIOUS
  <2> HIDE DEF A, B, n
  <2> QED
    BY <1>0, <2>1, AmongBoth
<1>6. A \cup B = {i \in DOMAIN b : b[i].who = v.who}
  OBVIOUS
<1>7. /\ DotOfSum(b, v) = 10 * a + V * c + P * (n - (a + c))
      /\ a + c <= n
  <2>1. /\ DotOfSum(b, v) = 10 * Among(A, n) + V * (Among(A \cup B, n) - Among(A, n)) + P * (n - Among(A \cup B, n))
        /\ Among(A \cup B, n) <= n
    BY <1>6, DotCounts, SMTT(60)
  <2> HIDE DEF n, A, B, V, P
  <2> QED
    BY <1>0, <1>1, <1>5, <2>1
<1>8. ASSUME NEW i \in X PROVE DotOfSum(b, b[i]) = 10 * x + V * y + P * (n - p) /\ p <= n
  <2>1. H = {j \in DOMAIN b : b[j].who = b[i].who} /\ i \in DOMAIN b
    BY <1>8
  <2>2. X = {j \in DOMAIN b : b[j] = b[i]}
    BY <1>2, <1>8
  <2>3. /\ DotOfSum(b, b[i]) = 10 * Among(X, n) + V * (Among(H, n) - Among(X, n)) + P * (n - Among(H, n))
        /\ Among(H, n) <= n
    <3> DEFINE u == b[i]
    <3>1. H = {j \in DOMAIN b : b[j].who = u.who} /\ X = {j \in DOMAIN b : b[j] = u}
      BY <2>1, <2>2
    <3> HIDE DEF X, u
    <3>2. /\ DotOfSum(b, u) = 10 * Among(X, Len(b)) + OtherView * (Among(H, Len(b)) - Among(X, Len(b)))
                              + OtherPerson * (Len(b) - Among(H, Len(b)))
          /\ Among(H, Len(b)) <= Len(b)
      BY <3>1, DotCounts
    <3> QED
      BY <3>2 DEF u
  <2> HIDE DEF X, n, V, P
  <2> QED
    BY <1>0, <1>1, <1>4, <2>3
<1>9. ASSUME NEW i \in Y PROVE DotOfSum(b, b[i]) = 10 * y + V * x + P * (n - p) /\ p <= n
  <2>1. H = {j \in DOMAIN b : b[j].who = b[i].who} /\ i \in DOMAIN b
    BY <1>9
  <2>2. Y = {j \in DOMAIN b : b[j] = b[i]}
    BY <1>2, <1>9 DEF Angles
  <2>3. /\ DotOfSum(b, b[i]) = 10 * Among(Y, n) + V * (Among(H, n) - Among(Y, n)) + P * (n - Among(H, n))
        /\ Among(H, n) <= n
    <3> DEFINE u == b[i]
    <3>1. H = {j \in DOMAIN b : b[j].who = u.who} /\ Y = {j \in DOMAIN b : b[j] = u}
      BY <2>1, <2>2
    <3> HIDE DEF Y, u
    <3>2. /\ DotOfSum(b, u) = 10 * Among(Y, Len(b)) + OtherView * (Among(H, Len(b)) - Among(Y, Len(b)))
                              + OtherPerson * (Len(b) - Among(H, Len(b)))
          /\ Among(H, Len(b)) <= Len(b)
      BY <3>1, DotCounts
    <3> QED
      BY <3>2 DEF u
  <2> HIDE DEF Y, n, V, P
  <2> QED
    BY <1>0, <1>1, <1>4, <2>3
<1>10. ASSUME NEW i \in A PROVE DotOfSum(b, b[i]) = 10 * a + V * c + P * (n - (a + c))
  BY <1>7, <1>10
<1>11. ASSUME NEW i \in B PROVE DotOfSum(b, b[i]) = 10 * c + V * a + P * (n - (a + c))
  <2>1. A \cup B = {j \in DOMAIN b : b[j].who = b[i].who} /\ i \in DOMAIN b
    BY <1>6, <1>11
  <2>2. B = {j \in DOMAIN b : b[j] = b[i]}
    BY <1>2, <1>3, <1>11 DEF Angles
  <2>3. DotOfSum(b, b[i]) = 10 * Among(B, n) + V * (Among(A \cup B, n) - Among(B, n)) + P * (n - Among(A \cup B, n))
    <3> HIDE DEF A, B
    <3> QED
      BY <2>1, <2>2, DotCounts
  <2> HIDE DEF A, B, n, V, P
  <2> QED
    BY <1>0, <1>1, <1>5, <2>3
<1>12. ASSUME NEW i \in C PROVE DotOfSum(b, b[i]) \in Int /\ DotOfSum(b, b[i]) >= P * n
  <2> DEFINE Q == {j \in DOMAIN b : b[j].who = b[i].who}
             R == {j \in DOMAIN b : b[j] = b[i]}
  <2>1. /\ DotOfSum(b, b[i]) = 10 * Among(R, n) + V * (Among(Q, n) - Among(R, n)) + P * (n - Among(Q, n))
        /\ Among(R, n) <= Among(Q, n) /\ Among(Q, n) <= n
    <3> DEFINE u == b[i]
    <3>1. Q = {j \in DOMAIN b : b[j].who = u.who} /\ R = {j \in DOMAIN b : b[j] = u}
      OBVIOUS
    <3> HIDE DEF C, Q, R, u
    <3>2. /\ DotOfSum(b, u) = 10 * Among(R, Len(b)) + OtherView * (Among(Q, Len(b)) - Among(R, Len(b)))
                              + OtherPerson * (Len(b) - Among(Q, Len(b)))
          /\ Among(R, Len(b)) <= Among(Q, Len(b)) /\ Among(Q, Len(b)) <= Len(b)
      BY <3>1, DotCounts, ZenonT(60)
    <3> QED
      BY <3>2 DEF u
  <2>2. Among(R, n) \in Nat /\ Among(Q, n) \in Nat
    <3> HIDE DEF Q, R, n
    <3> QED
      BY <1>0, AmongCounts
  <2> HIDE DEF Q, R, n, V, P
  <2>3. Among(Q, n) \in 0 .. n /\ Among(R, n) \in 0 .. Among(Q, n)
    BY <1>0, <2>1, <2>2
  <2> DEFINE rr == Among(R, n)  qq == Among(Q, n)
  <2>4. rr \in 0 .. qq /\ qq \in 0 .. n /\ DotOfSum(b, b[i]) = 10 * rr + V * (qq - rr) + P * (n - qq)
    BY <2>1, <2>3
  <2> HIDE DEF rr, qq, C
  <2>5. 10 * rr + V * (qq - rr) + P * (n - qq) >= P * n
    BY <1>0, <2>4, AtLeastStrangers
  <2>6. 10 * rr + V * (qq - rr) + P * (n - qq) \in Int
    BY <1>0, <2>4
  <2> QED
    BY <2>4, <2>5, <2>6
<1>13. \A i \in 1 .. n : DotOfSum(b, b[i]) \in Int
  <2>1. /\ 10 * x + V * y + P * (n - p) \in Int /\ 10 * y + V * x + P * (n - p) \in Int
        /\ 10 * a + V * c + P * (n - (a + c)) \in Int /\ 10 * c + V * a + P * (n - (a + c)) \in Int
    <3>1. V \in Int /\ P \in Int /\ n - p \in Int /\ n - (a + c) \in Int
      BY <1>0, <1>1
    <3> HIDE DEF V, P, n, x, y, a, c, p
    <3>2. \A u, z \in Int : u * z \in Int
      OBVIOUS
    <3>3. V * y \in Int /\ V * x \in Int /\ V * c \in Int /\ V * a \in Int /\ P * (n - p) \in Int
          /\ P * (n - (a + c)) \in Int
      BY <1>1, <3>1, <3>2
    <3> DEFINE vx == V * x  vy == V * y  va == V * a  vc == V * c  pn == P * (n - p)  pm == P * (n - (a + c))
    <3>4. vx \in Int /\ vy \in Int /\ va \in Int /\ vc \in Int /\ pn \in Int /\ pm \in Int
      BY <3>3
    <3> HIDE DEF vx, vy, va, vc, pn, pm
    <3>5. 10 * x + vy + pn \in Int /\ 10 * y + vx + pn \in Int /\ 10 * a + vc + pm \in Int /\ 10 * c + va + pm \in Int
      BY <1>1, <3>4
    <3> QED
      BY <3>5 DEF vx, vy, va, vc, pn, pm
  <2> SUFFICES ASSUME NEW i \in 1 .. n PROVE DotOfSum(b, b[i]) \in Int
    OBVIOUS
  <2>2. i \in X \/ i \in Y \/ i \in A \/ i \in B \/ i \in C
    BY <1>0
  <2> HIDE DEF V, P, n, x, y, a, c, p, X, Y, A, B, C
  <2> QED
    BY <1>8, <1>9, <1>10, <1>11, <1>12, <2>1, <2>2, Zenon
<1>14. PICK g : Sums(g, n, d) /\ Norm(b) = g[n]
  BY <1>13, NormIsSum, Zenon
<1>15. d \in [1 .. n -> Int] /\ \A i \in 1 .. n : d[i] = DotOfSum(b, b[i])
  BY <1>13
<1> DEFINE cX == 10 * x + V * y + P * (n - p)
           cY == 10 * y + V * x + P * (n - p)
           cA == 10 * a + V * c + P * (n - (a + c))
           cB == 10 * c + V * a + P * (n - (a + c))
           cC == P * n
<1>16. cX \in Int /\ cY \in Int /\ cA \in Int /\ cB \in Int /\ cC \in Int
  <2> HIDE DEF V, P, n, x, y, a, c, p
  <2> QED
    BY <1>0, <1>1
<1>17. ASSUME NEW i \in 1 .. n
       PROVE  Sorted(i, d, X, Y, A, B, C, cX, cY, cA, cB, cC)
  <2>1. \/ i \in X /\ i \notin Y \cup A \cup B \cup C
        \/ i \in Y /\ i \notin X \cup A \cup B \cup C
        \/ i \in A /\ i \notin X \cup Y \cup B \cup C
        \/ i \in B /\ i \notin X \cup Y \cup A \cup C
        \/ i \in C /\ i \notin X \cup Y \cup A \cup B
    BY <1>0
  <2>2. /\ i \in X => d[i] = cX
        /\ i \in Y => d[i] = cY
        /\ i \in A => d[i] = cA
        /\ i \in B => d[i] = cB
        /\ i \in C => d[i] >= cC
    <3> HIDE DEF X, Y, A, B, C, d
    <3> QED
      BY <1>8, <1>9, <1>10, <1>11, <1>12, <1>15, Zenon
  <2> HIDE DEF X, Y, A, B, C, d, cX, cY, cA, cB, cC
  <2>3. \A k \in Int : k >= k
    OBVIOUS
  <2> QED
    BY <1>16, <2>1, <2>2, <2>3 DEF Sorted
<1>18. /\ Norm(b) \in Int
       /\ Norm(b) >= x * cX + y * cY + a * cA + c * cB + e * cC
       /\ x + y + a + c + e = n
  <2>a. \A i \in 1 .. n : Sorted(i, d, X, Y, A, B, C, cX, cY, cA, cB, cC)
    BY <1>17
  <2> HIDE DEF n, X, Y, A, B, C, d, cX, cY, cA, cB, cC
  <2>b. Sums(g, n, d) /\ n \in Nat /\ d \in [1 .. n -> Int]
    BY <1>0, <1>14, <1>15
  <2>1. g[n] \in Int
    BY <1>0, <1>14 DEF Sums
  <2>2. /\ g[n] >= Among(X, n) * cX + Among(Y, n) * cY + Among(A, n) * cA + Among(B, n) * cB + Among(C, n) * cC
        /\ Among(X, n) + Among(Y, n) + Among(A, n) + Among(B, n) + Among(C, n) = n
    <3>1. Classes(n, d, g, X, Y, A, B, C, cX, cY, cA, cB, cC)
      BY <1>16, <2>a, <2>b DEF Classes
    <3> QED
      BY <3>1, SumByClass
  <2> QED
    BY <1>14, <2>1, <2>2
<1> DEFINE q == a + c + e
           s == 10 * a + V * c + P * e
<1>19. n - p = q /\ n - (a + c) = e + p /\ n = p + q /\ q \in Nat
  <2>1. x + y + a + c + e = n
    BY <1>18
  <2> HIDE DEF n, x, y, a, c, e, p
  <2> QED
    BY <1>0, <1>1, <1>4, <2>1, SMTT(60)
<1>20. DotOfSum(b, v) = s + P * p /\ s \in 0 .. 10 * q
  <2>1. DotOfSum(b, v) = 10 * a + V * c + P * (e + p)
    BY <1>7, <1>19
  <2> HIDE DEF n, x, y, a, c, e, p, V, P
  <2>2. V * c \in 0 .. 10 * c /\ P * e \in 0 .. 10 * e /\ P * (e + p) = P * e + P * p /\ P * p \in Int
    <3>1. V \in 0 .. 10 /\ P \in 0 .. 10
      BY <1>0
    <3>2. \A u \in 0 .. 10, z \in Nat : u * z >= 0 /\ u * z <= 10 * z /\ u * z \in Int
      OBVIOUS
    <3>3. \A u \in 0 .. 10, z, z2 \in Nat : u * (z + z2) = u * z + u * z2
      OBVIOUS
    <3> QED
      BY <1>1, <3>1, <3>2, <3>3
  <2> DEFINE vc == V * c  pe == P * e  pp == P * p
  <2>3. DotOfSum(b, v) = 10 * a + vc + (pe + pp) /\ vc \in 0 .. 10 * c /\ pe \in 0 .. 10 * e /\ pp \in Int
        /\ s = 10 * a + vc + pe
    BY <2>1, <2>2
  <2> HIDE DEF vc, pe, s
  <2>4. DotOfSum(b, v) = s + pp /\ s \in 0 .. 10 * q
    <3> HIDE DEF pp
    <3>1. a \in Nat /\ c \in Nat /\ e \in Nat
      BY <1>1
    <3> HIDE DEF a, c, e
    <3>2. 10 * a + vc + (pe + pp) = (10 * a + vc + pe) + pp /\ 10 * a + vc + pe \in 0 .. 10 * (a + c + e)
      BY <2>3, <3>1, OneOfThree
    <3> QED
      BY <2>3, <3>2, Zenon
  <2> QED
    BY <2>4
<1>21. 20 * (x * cX + y * cY + a * cA + c * cB + e * cC)
         = 20 * (x * (10 * x + V * y) + y * (10 * y + V * x))
           + 20 * (a * (10 * a + V * c + P * e) + c * (10 * c + V * a + P * e) + e * (P * (a + c + e)))
           + 40 * (P * (p * q))
  <2>1. /\ cX = 10 * x + V * y + P * q
        /\ cY = 10 * y + V * x + P * q
        /\ cA = 10 * a + V * c + P * (e + p)
        /\ cB = 10 * c + V * a + P * (e + p)
        /\ cC = P * (p + q)
    BY <1>19
  <2> HIDE DEF n, x, y, a, c, e, p, V, P, cX, cY, cA, cB, cC
  <2>2. /\ x * cX = x * (10 * x + V * y) + P * (x * q)
        /\ y * cY = y * (10 * y + V * x) + P * (y * q)
        /\ a * cA = a * (10 * a + V * c + P * e) + P * (p * a)
        /\ c * cB = c * (10 * c + V * a + P * e) + P * (p * c)
        /\ e * cC = e * (P * (a + c + e)) + P * (p * e)
    BY <1>0, <1>1, <2>1
  <2>3. P * (x * q) + P * (y * q) = P * (p * q)
    BY <1>0, <1>1, <1>4, <1>19
  <2>4. P * (p * a) + P * (p * c) + P * (p * e) = P * (p * q)
    BY <1>0, <1>1, <1>4, <1>19
  <2> DEFINE t1 == x * (10 * x + V * y)  t2 == y * (10 * y + V * x)
             t3 == a * (10 * a + V * c + P * e)  t4 == c * (10 * c + V * a + P * e)
             t5 == e * (P * (a + c + e))  t6 == P * (p * q)
             u1 == P * (x * q)  u2 == P * (y * q)  u3 == P * (p * a)  u4 == P * (p * c)  u5 == P * (p * e)
  <2>5. t1 \in Int /\ t2 \in Int /\ t3 \in Int /\ t4 \in Int /\ t5 \in Int /\ t6 \in Int
        /\ u1 \in Int /\ u2 \in Int /\ u3 \in Int /\ u4 \in Int /\ u5 \in Int
    BY <1>0, <1>1, <1>19
  <2>6. /\ x * cX = t1 + u1 /\ y * cY = t2 + u2 /\ a * cA = t3 + u3 /\ c * cB = t4 + u4 /\ e * cC = t5 + u5
        /\ u1 + u2 = t6 /\ u3 + u4 + u5 = t6
    BY <2>2, <2>3, <2>4
  <2> DEFINE l == 20 * (x * cX + y * cY + a * cA + c * cB + e * cC)
             r == 20 * (t1 + t2) + 20 * (t3 + t4 + t5) + 40 * t6
  <2>7. l = r
    <3>1. l = 20 * ((t1 + u1) + (t2 + u2) + (t3 + u3) + (t4 + u4) + (t5 + u5))
      BY <2>6
    <3> HIDE DEF t1, t2, t3, t4, t5, t6, u1, u2, u3, u4, u5, l
    <3>2. 20 * ((t1 + u1) + (t2 + u2) + (t3 + u3) + (t4 + u4) + (t5 + u5))
            = 20 * (t1 + t2) + 20 * (t3 + t4 + t5) + 40 * t6
      <4>1. u1 + u2 = t6 /\ u3 + u4 + u5 = t6
        BY <2>6, Zenon
      <4>2. (t1 + u1) + (t2 + u2) = (t1 + t2) + t6
        BY <2>5, <4>1
      <4>3. (t3 + u3) + (t4 + u4) + (t5 + u5) = (t3 + t4 + t5) + t6
        BY <2>5, <4>1
      <4>4. (t1 + u1) + (t2 + u2) + (t3 + u3) + (t4 + u4) + (t5 + u5)
              = (t1 + t2) + (t3 + t4 + t5) + (t6 + t6)
        BY <2>5, <4>2, <4>3
      <4> DEFINE f == (t1 + u1) + (t2 + u2) + (t3 + u3) + (t4 + u4) + (t5 + u5)
                 f1 == t1 + t2
                 f2 == t3 + t4 + t5
      <4>5. f \in Int /\ f1 \in Int /\ f2 \in Int /\ t6 \in Int
        BY <2>5
      <4>6. f = f1 + f2 + (t6 + t6)
        BY <4>4
      <4> HIDE DEF f, f1, f2
      <4>7. 20 * f = 20 * f1 + 20 * f2 + 40 * t6
        BY <4>5, <4>6
      <4> QED
        BY <4>7, Zenon DEF f, f1, f2
    <3> QED
      BY <3>1, <3>2, Zenon
  <2> QED
    BY <2>7
<1>22. 20 * Norm(b) >= 10 * (10 + V) * (p * p) + 40 * (P * (p * q)) + 2 * (s * s)
  <2> DEFINE m == x * cX + y * cY + a * cA + c * cB + e * cC
             h1 == 20 * (x * (10 * x + V * y) + y * (10 * y + V * x))
             h2 == 20 * (a * (10 * a + V * c + P * e) + c * (10 * c + V * a + P * e) + e * (P * (a + c + e)))
             k1 == 10 * (10 + V) * (p * p)
             k2 == 2 * (s * s)
             k3 == 40 * (P * (p * q))
             N == Norm(b)
  <2>1. 20 * m = h1 + h2 + k3 /\ N >= m /\ N \in Int
    BY <1>18, <1>21
  <2>2. h1 >= k1
    <3> HIDE DEF n, x, y, a, c, e, p, V, P
    <3> QED
      BY <1>0, <1>1, <1>4, HerePart
  <2>3. h2 >= k2
    <3> HIDE DEF n, x, y, a, c, e, p, V, P
    <3> QED
      BY <1>0, <1>1, GonePart
  <2>4. h1 \in Int /\ h2 \in Int /\ k1 \in Int /\ k2 \in Int /\ k3 \in Int /\ m \in Int
    <3> HIDE DEF n, x, y, a, c, e, p, V, P, cX, cY, cA, cB, cC
    <3> QED
      BY <1>0, <1>1, <1>16, <1>19
  <2> HIDE DEF m, h1, h2, k1, k2, k3, N
  <2>5. 20 * N >= k1 + k3 + k2
    BY <2>1, <2>2, <2>3, <2>4
  <2> QED
    BY <2>5 DEF k1, k2, k3, N
<1> HIDE DEF s, q, x, y, a, c, e, V, P
<1>23. p \in 0 .. n
  BY <1>0, <1>1, <1>19
<1>24. n - p = q
  BY <1>19
<1> HIDE DEF p, n
<1>25. DotOfSum(b, v) = s + P * p /\ s \in 0 .. 10 * (n - p)
  BY <1>20, <1>24
<1>26. 20 * Norm(b) >= 10 * (10 + V) * (p * p) + 40 * (P * (p * (n - p))) + 2 * (s * s)
  BY <1>22, <1>24
<1>27. Outweighs(b, v, p)
  BY <1>25, <1>26 DEF Outweighs, n, V, P
<1> QED
  BY <1>18, <1>23, <1>27 DEF p, n

\* With the larger part of a full buffer of one person, another is below every
\* threshold of a match.
LEMMA BelowThreshold ==
  ASSUME Separated, NEW W, NEW U, NEW b \in Seq(Sighting(W)), Len(b) = LIVENESS_WINDOW,
         NEW v \in Sighting(U), NEW w, v.who # w,
         NEW H, H = {i \in DOMAIN b : b[i].who = w}, 2 * Among(H, Len(b)) > LIVENESS_WINDOW,
         NEW th \in Nat, th >= LowestHigh
  PROVE  ~Reaches(b, v, th)
<1> DEFINE n == LIVENESS_WINDOW
           p == Among(H, n)
           q == n - p
           P == OtherPerson
           V == OtherView
           h == LowestHigh
<1>0. n \in Nat /\ V \in 0 .. 10 /\ P \in 0 .. V /\ P \in 0 .. 10 /\ h \in 0 .. 98
  BY MatchNumbers DEF LowestHigh
<1>1. p \in 0 .. n /\ Norm(b) \in Int
  BY MixedBuffer
<1>2. PICK s \in 0 .. 10 * q :
        /\ DotOfSum(b, v) = s + P * p
        /\ 20 * Norm(b) >= 10 * (10 + V) * (p * p) + 40 * (P * (p * q)) + 2 * (s * s)
  <2> DEFINE m == Len(b)
             r == Among(H, m)
  <2>1. PICK s \in 0 .. 10 * (m - r) :
          /\ DotOfSum(b, v) = s + P * r
          /\ 20 * Norm(b) >= 10 * (10 + V) * (r * r) + 40 * (P * (r * (m - r))) + 2 * (s * s)
    <3>1. Outweighs(b, v, r)
      BY MixedBuffer
    <3> HIDE DEF r
    <3> QED
      BY <3>1 DEF Outweighs
  <2>2. m = n /\ r = p
    OBVIOUS
  <2> HIDE DEF m, r
  <2> QED
    BY <2>1, <2>2
<1>3. q \in 0 .. n /\ p + q = n /\ q < p
  <2> HIDE DEF p, n
  <2>1. 2 * p > n
    BY DEF p, n
  <2> QED
    BY <1>0, <1>1, <2>1
<1> DEFINE g == P * p
           t == 10 * q
           k == 10 * (10 + V) * (p * p) + 40 * (P * (p * q))
           d == s + g
           N == Norm(b)
<1>4. 20000 * ((t + g) * (t + g)) < (h * h) * (k + 2 * (t * t))
  <2>1. 20000 * ((10 * q + P * p) * (10 * q + P * p))
          < (h * h) * (10 * (10 + V) * (p * p) + 40 * P * (p * q) + 200 * (q * q))
    BY <1>1, <1>3, SMTT(60) DEF Separated
  <2> HIDE DEF p, q, P, V, h
  <2>2. 2 * (t * t) = 200 * (q * q) /\ 40 * P * (p * q) = 40 * (P * (p * q))
    BY <1>0, <1>1, <1>3
  <2> QED
    BY <2>1, <2>2
<1>5. g \in Nat /\ t \in Nat /\ s \in 0 .. t /\ k \in Int /\ N \in Int /\ d \in Nat
  <2>1. s \in 0 .. t /\ N \in Int
    BY <1>1, <1>2
  <2> HIDE DEF p, q, P, V, h, N
  <2>2. p \in Nat /\ q \in Nat /\ P \in Nat /\ V \in Nat
    BY <1>0, <1>1, <1>3
  <2>3. g \in Nat /\ t \in Nat /\ k \in Int
    BY <2>2
  <2> QED
    BY <2>1, <2>3
<1>6. 20 * N >= k + 2 * (s * s) /\ DotOfSum(b, v) = d
  BY <1>2
<1> HIDE DEF n, p, q, P, V, g, t, k, N
<1>7. 20000 * (d * d) < (h * h) * (k + 2 * (s * s))
  <2> DEFINE u == (t - s) * (t + s)
             z == (t - s) * (2 * g)
             a1 == (t + g) * (t + g)
             hh == h * h
  <2>0. s \in Nat /\ t \in Nat /\ s <= t /\ g \in Nat
    BY <1>5
  <2>1. a1 = d * d + u + z /\ t * t = s * s + u
    BY <2>0, SquareParts
  <2>2. u \in Nat /\ z \in Nat /\ d * d \in Nat /\ s * s \in Nat /\ t * t \in Nat /\ a1 \in Int
    BY <2>0, SquareParts
  <2>3. hh \in 0 .. 10000
    BY <1>0, SquaresTo98
  <2> DEFINE l == d * d  m == s * s  tt == t * t
  <2>4. 20000 * a1 < hh * (k + 2 * tt)
    BY <1>4
  <2>5. a1 = l + u + z /\ tt = m + u /\ l \in Nat /\ m \in Nat
    BY <2>1, <2>2
  <2> HIDE DEF u, z, a1, hh, l, m, tt
  <2>6. hh * (k + 2 * tt) = hh * (k + 2 * m) + hh * (2 * u)
    BY <1>5, <2>2, <2>3, <2>5
  <2>7. hh * (2 * u) <= 10000 * (2 * u) /\ hh * (2 * u) \in Int
    <3> DEFINE u2 == 2 * u
               full == 10000
    <3>1. \A x \in 0 .. full, y \in Nat : x * y <= full * y /\ x * y \in Int
      OBVIOUS
    <3>2. u2 \in Nat /\ hh \in 0 .. full
      BY <2>2, <2>3
    <3> HIDE DEF u2, full
    <3>3. hh * u2 <= full * u2 /\ hh * u2 \in Int
      BY <3>1, <3>2, Zenon
    <3> QED
      BY <3>3 DEF u2, full
  <2> DEFINE km == hh * (k + 2 * m)  hu == hh * (2 * u)
  <2>8. 20000 * a1 < km + hu /\ hu <= 20000 * u /\ km \in Int /\ hu \in Int
    BY <1>5, <2>2, <2>3, <2>4, <2>5, <2>6, <2>7
  <2> HIDE DEF km, hu
  <2>9. 20000 * l < km
    BY <2>2, <2>5, <2>8
  <2> QED
    BY <2>9 DEF km, l, m, hh
<1>8. (h * h) * (k + 2 * (s * s)) <= (th * th) * (20 * N)
  <2> DEFINE e == k + 2 * (s * s)
             hh == h * h
             tt == th * th
  <2>1. e \in Int /\ e <= 20 * N /\ 20 * N \in Int
    BY <1>5, <1>6
  <2>2. hh <= tt /\ hh \in Nat /\ tt \in Nat
    <3>1. \A x, y \in Nat : x <= y => x * x <= y * y /\ x * x \in Nat /\ y * y \in Nat
      OBVIOUS
    <3>2. h \in Nat /\ h <= th
      BY <1>0
    <3> QED
      BY <3>1, <3>2
  <2>3. 0 < hh * e
    <3>1. d * d \in Nat
      BY <1>5
    <3> DEFINE dd == d * d
    <3>2. dd \in Nat /\ 20000 * dd < hh * e
      BY <1>7, <3>1
    <3> HIDE DEF dd, hh, e
    <3>3. hh * e \in Int
      BY <2>1, <2>2
    <3> QED
      BY <3>2, <3>3
  <2> HIDE DEF e, hh, tt
  <2>4. e > 0
    <3>1. \A x \in Nat, y \in Int : y <= 0 => x * y <= 0
      OBVIOUS
    <3> QED
      BY <2>1, <2>2, <2>3, <3>1
  <2>5. \A x, y, z, z2 \in Nat : x <= y /\ z <= z2 => x * z <= y * z2
    <3>1. \A x, y, z \in Nat : x <= y => x * z <= y * z /\ x * z \in Int /\ y * z \in Int
      OBVIOUS
    <3>2. \A y, z, z2 \in Nat : z <= z2 => y * z <= y * z2 /\ y * z2 \in Int
      OBVIOUS
    <3> SUFFICES ASSUME NEW x \in Nat, NEW y \in Nat, NEW z \in Nat, NEW w1 \in Nat, x <= y, z <= w1
                 PROVE  x * z <= y * w1
      OBVIOUS
    <3>3. x * z <= y * z /\ y * z <= y * w1 /\ x * z \in Int /\ y * z \in Int /\ y * w1 \in Int
      BY <3>1, <3>2
    <3> QED
      BY <3>3
  <2>6. e \in Nat /\ 20 * N \in Nat /\ e <= 20 * N
    BY <2>1, <2>4
  <2>7. hh * e <= tt * (20 * N)
    BY <2>2, <2>5, <2>6
  <2> QED
    BY <2>7 DEF e, hh, tt
<1>9. 1000 * (d * d) < (th * th) * N
  <2> DEFINE dd == d * d  tt == th * th
  <2>1. dd \in Nat /\ tt \in Nat
    BY <1>5
  <2>2. 20000 * dd < tt * (20 * N)
    <3> DEFINE x == (h * h) * (k + 2 * (s * s))  y == tt * (20 * N)
    <3>1. 20000 * dd < x /\ x <= y
      BY <1>7, <1>8
    <3>2. x \in Int /\ y \in Int
      BY <1>0, <1>5, <2>1
    <3> HIDE DEF x, y, dd, tt
    <3>3. 20000 * dd < y
      BY <2>1, <3>1, <3>2
    <3> QED
      BY <3>3 DEF y
  <2> HIDE DEF dd, tt
  <2>3. tt * (20 * N) = 20 * (tt * N) /\ tt * N \in Int
    BY <1>5, <2>1
  <2> DEFINE tn == tt * N
  <2>4. 20000 * dd < 20 * tn /\ tn \in Int
    BY <2>2, <2>3
  <2> HIDE DEF tn
  <2>5. 1000 * dd < tn
    BY <2>1, <2>4
  <2> QED
    BY <2>5 DEF tn, dd, tt
<1> QED
  <2>1. 1000 * d * d = 1000 * (d * d) /\ th * th * N = (th * th) * N
    BY <1>5
  <2>2. 1000 * d * d \in Int /\ th * th * N \in Int
    BY <1>5
  <2>3. 1000 * d * d < th * th * N
    BY <1>9, <2>1
  <2>4. ~(1000 * d * d >= th * th * N)
    <3> DEFINE x == 1000 * d * d  y == th * th * N
    <3>1. x < y /\ x \in Int /\ y \in Int
      BY <2>2, <2>3
    <3> HIDE DEF x, y
    <3>2. ~(x >= y)
      BY <3>1
    <3> QED
      BY <3>2 DEF x, y
  <2> QED
    BY <1>6, <2>4 DEF Reaches, N

-----------------------------------------------------------------------------
(* Who the buffer is taken for.                                            *)

\* What a loop over sequences puts together.
LEMMA FlattenedIn ==
  ASSUME NEW T, NEW ss \in Seq(Seq(T)), ss # <<>>
  PROVE  /\ FlattenSeq(ss) \in Seq(T)
         /\ \A m \in DOMAIN ss : ss[m] # <<>> => FlattenSeq(ss) # <<>>
<1> DEFINE n == Len(ss)
           Eq(h) == h = [i \in 1 .. n |-> IF i = 1 THEN ss[i] ELSE h[i - 1] \o ss[i]]
           f == CHOOSE h : Eq(h)
           Made(g, k) == /\ g \in [1 .. k -> Seq(T)]
                         /\ \A i \in 1 .. k : g[i] = IF i = 1 THEN ss[i] ELSE g[i - 1] \o ss[i]
           S == {k \in Nat : k <= n => \E g : Made(g, k)}
<1>0. n \in Nat /\ n >= 1 /\ DOMAIN ss = 1 .. n /\ \A i \in 1 .. n : ss[i] \in Seq(T)
  OBVIOUS
<1>1. 0 \in S
  <2>1. Made([i \in 1 .. 0 |-> <<>>], 0)
    OBVIOUS
  <2> QED
    BY <2>1
<1>2. ASSUME NEW k \in Nat, k \in S PROVE k + 1 \in S
  <2> SUFFICES ASSUME k + 1 <= n PROVE \E g : Made(g, k + 1)
    BY k + 1 \in Nat, Zenon
  <2>0. k <= n
    BY <1>0
  <2>1. PICK g : Made(g, k)
    BY <1>2, <2>0, Zenon
  <2> DEFINE last == IF k = 0 THEN ss[1] ELSE g[k] \o ss[k + 1]
             h == [i \in 1 .. k + 1 |-> IF i = k + 1 THEN last ELSE g[i]]
  <2>2. last \in Seq(T)
    <3>1. CASE k = 0
      BY <1>0, <3>1
    <3>2. CASE k # 0
      <4>1. g[k] \in Seq(T) /\ ss[k + 1] \in Seq(T)
        BY <1>0, <2>1, <3>2
      <4>2. g[k] \o ss[k + 1] \in Seq(T)
        BY <4>1
      <4> QED
        BY <3>2, <4>2
    <3> QED
      BY <3>1, <3>2
  <2>3. h \in [1 .. k + 1 -> Seq(T)]
    <3> HIDE DEF last
    <3> QED
      BY <2>1, <2>2
  <2>4. ASSUME NEW i \in 1 .. k + 1 PROVE h[i] = IF i = 1 THEN ss[i] ELSE h[i - 1] \o ss[i]
    <3>1. CASE i = k + 1
      <4>1. h[i] = last
        BY <3>1
      <4>2. CASE k = 0
        BY <3>1, <4>1, <4>2
      <4>3. CASE k # 0
        <5>1. i # 1 /\ i - 1 = k /\ k \in 1 .. k + 1 /\ k # k + 1
          BY <3>1, <4>3
        <5>2. h[k] = g[k]
          BY <5>1
        <5> QED
          BY <3>1, <4>1, <4>3, <5>1, <5>2
      <4> QED
        BY <4>2, <4>3
    <3>2. CASE i # k + 1
      <4>1. i \in 1 .. k /\ i # k + 1
        BY <3>2
      <4>2. h[i] = g[i] /\ (i # 1 => h[i - 1] = g[i - 1])
        BY <4>1
      <4>3. g[i] = IF i = 1 THEN ss[i] ELSE g[i - 1] \o ss[i]
        BY <2>1, <4>1
      <4> QED
        BY <4>2, <4>3
    <3> QED
      BY <3>1, <3>2
  <2> HIDE DEF h
  <2>5. Made(h, k + 1)
    BY <2>3, <2>4
  <2> QED
    BY <2>5
<1>3. n \in S
  <2> HIDE DEF S
  <2> QED
    BY <1>0, <1>1, <1>2, SetInduction
<1>4. PICK g : Made(g, n)
  BY <1>0, <1>3
<1>5. Eq(g)
  BY <1>4
<1>6. Eq(f)
  BY <1>5, Zenon
<1>7. FlattenSeq(ss) = f[n]
  BY <1>0 DEF FlattenSeq
<1> HIDE DEF f
<1> DEFINE R == {k \in Nat : k + 1 <= n =>
                   /\ f[k + 1] \in Seq(T)
                   /\ \A m \in 1 .. k + 1 : ss[m] # <<>> => f[k + 1] # <<>>}
<1>8. 0 \in R
  <2>1. f[1] = ss[1]
    BY <1>0, <1>6
  <2> QED
    BY <1>0, <2>1
<1>9. ASSUME NEW k \in Nat, k \in R PROVE k + 1 \in R
  <2> SUFFICES ASSUME (k + 1) + 1 <= n
               PROVE  /\ f[(k + 1) + 1] \in Seq(T)
                      /\ \A m \in 1 .. (k + 1) + 1 : ss[m] # <<>> => f[(k + 1) + 1] # <<>>
    OBVIOUS
  <2> DEFINE j == (k + 1) + 1
             p == f[k + 1]
             q == ss[j]
  <2>1. p \in Seq(T) /\ q \in Seq(T) /\ \A m \in 1 .. k + 1 : ss[m] # <<>> => p # <<>>
    BY <1>0, <1>9
  <2>2. f[j] = p \o q
    <3>1. j \in 1 .. n /\ j # 1 /\ j - 1 = k + 1
      BY <1>0
    <3> QED
      BY <1>6, <3>1
  <2> HIDE DEF p, q
  <2>3. p \o q \in Seq(T) /\ (p # <<>> \/ q # <<>> => p \o q # <<>>)
    BY <2>1
  <2>4. ASSUME NEW m \in 1 .. j, ss[m] # <<>> PROVE p # <<>> \/ q # <<>>
    BY <2>1, <2>4 DEF q
  <2> QED
    BY <2>2, <2>3, <2>4
<1>10. n - 1 \in R
  <2>1. n - 1 \in Nat
    BY <1>0
  <2> HIDE DEF R, n
  <2>2. \A k \in Nat : k \in R
    BY <1>8, <1>9, SetInduction
  <2> QED
    BY <2>1, <2>2
<1>11. f[n] \in Seq(T) /\ \A m \in 1 .. n : ss[m] # <<>> => f[n] # <<>>
  <2>1. (n - 1) + 1 = n
    BY <1>0
  <2> QED
    BY <1>0, <1>10, <2>1
<1> QED
  BY <1>0, <1>7, <1>11

\* A candidate of the gallery g for a face seen in this view.
CandidatesOf(g, view) ==
  {[identity |-> n, pool_used |-> IF view = "front" THEN "frontal"
                                  ELSE IF g[n].angled = <<>> THEN "frontal_fallback" ELSE "angled",
    v |-> u] : n \in DOMAIN g, u \in Sighting(DOMAIN g)}

\* The nearest is a candidate, and the vector that is near is that person's.
LEMMA BestIsCandidate ==
  ASSUME db \in Galleries, NEW view \in Angles, NEW sum
  PROVE  /\ pose_aware_match(sum, view) \in CandidatesOf(db, view)
         /\ pose_aware_match(sum, view).v.who = pose_aware_match(sum, view).identity
<1> DEFINE T == {x \in CandidatesOf(db, view) : x.v.who = x.identity}
           list(n) == [i \in DOMAIN PoolOf(n, view).of |->
                        [identity |-> n, pool_used |-> PoolOf(n, view).kind, v |-> PoolOf(n, view).of[i]]]
           ss == [n \in DOMAIN db |-> list(n)]
           all == FlattenSeq(ss)
<1>1. /\ db \in Seq([frontal : Seq(Sighting(DOMAIN db)), angled : Seq(Sighting(DOMAIN db))])
      /\ \A n \in DOMAIN db : \A pool \in {db[n].frontal, db[n].angled} :
           \A i \in DOMAIN pool : pool[i].who = n
      /\ \E n \in DOMAIN db : db[n].frontal # <<>>
  BY MatchAssumption DEF Sighting
<1>2. ASSUME NEW n \in DOMAIN db
      PROVE  /\ PoolOf(n, view).of \in Seq(Sighting(DOMAIN db))
             /\ \A i \in DOMAIN PoolOf(n, view).of : PoolOf(n, view).of[i].who = n
             /\ PoolOf(n, view).kind = (IF view = "front" THEN "frontal"
                                        ELSE IF db[n].angled = <<>> THEN "frontal_fallback" ELSE "angled")
             /\ db[n].frontal # <<>> => PoolOf(n, view).of # <<>>
  <2> DEFINE Pools == [frontal : Seq(Sighting(DOMAIN db)), angled : Seq(Sighting(DOMAIN db))]
  <2>0. db[n] \in Pools
    <3>1. db \in Seq(Pools)
      BY <1>1
    <3> HIDE DEF Pools
    <3> QED
      BY <3>1
  <2>1. db[n].frontal \in Seq(Sighting(DOMAIN db)) /\ db[n].angled \in Seq(Sighting(DOMAIN db))
    BY <2>0
  <2>2. /\ \A i \in DOMAIN db[n].frontal : db[n].frontal[i].who = n
        /\ \A i \in DOMAIN db[n].angled : db[n].angled[i].who = n
    BY <1>1
  <2> QED
    BY <2>1, <2>2 DEF PoolOf
<1>3. ASSUME NEW n \in DOMAIN db
      PROVE  list(n) \in Seq(T) /\ (db[n].frontal # <<>> => list(n) # <<>>)
  <2> DEFINE pool == PoolOf(n, view).of
             kind == PoolOf(n, view).kind
  <2>1. /\ pool \in Seq(Sighting(DOMAIN db))
        /\ \A i \in DOMAIN pool : pool[i].who = n
        /\ kind = (IF view = "front" THEN "frontal"
                   ELSE IF db[n].angled = <<>> THEN "frontal_fallback" ELSE "angled")
        /\ db[n].frontal # <<>> => pool # <<>>
    BY <1>2
  <2> HIDE DEF pool, kind
  <2>2. ASSUME NEW i \in DOMAIN pool
        PROVE  [identity |-> n, pool_used |-> kind, v |-> pool[i]] \in T
    <3>1. pool[i] \in Sighting(DOMAIN db) /\ pool[i].who = n
      BY <2>1
    <3> QED
      BY <2>1, <3>1 DEF CandidatesOf
  <2>3. DOMAIN pool = 1 .. Len(pool) /\ Len(pool) \in Nat /\ (pool # <<>> => Len(pool) > 0)
    BY <2>1
  <2> DEFINE l == [i \in DOMAIN pool |-> [identity |-> n, pool_used |-> kind, v |-> pool[i]]]
  <2>4. l \in Seq(T) /\ (pool # <<>> => l # <<>>)
    <3> HIDE DEF T
    <3>1. l \in [1 .. Len(pool) -> T]
      BY <2>2, <2>3
    <3>2. l \in Seq(T) /\ Len(l) = Len(pool)
      <4> HIDE DEF l
      <4> QED
        BY <2>3, <3>1, SeqDef, LenProperties
    <3> HIDE DEF l
    <3> QED
      BY <2>3, <3>2
  <2> QED
    BY <2>1, <2>4 DEF pool, kind
<1>4. DOMAIN db = 1 .. Len(db) /\ Len(db) \in Nat /\ Len(db) > 0
  BY <1>1
<1>5. ss \in Seq(Seq(T)) /\ ss # <<>> /\ DOMAIN ss = DOMAIN db /\ \A n \in DOMAIN db : ss[n] = list(n)
  <2> HIDE DEF list, T
  <2>1. ss \in [1 .. Len(db) -> Seq(T)]
    BY <1>3, <1>4
  <2>2. ss \in Seq(Seq(T)) /\ Len(ss) = Len(db)
    <3> HIDE DEF ss
    <3> QED
      BY <1>4, <2>1, SeqDef, LenProperties
  <2>3. ss # <<>>
    <3> HIDE DEF ss
    <3> QED
      BY <1>4, <2>2
  <2> QED
    BY <2>2, <2>3
<1>6. all \in Seq(T) /\ all # <<>>
  <2> HIDE DEF T, list
  <2>1. PICK n \in DOMAIN db : db[n].frontal # <<>>
    BY <1>1
  <2>2. ss[n] # <<>> /\ n \in DOMAIN ss
    BY <1>3, <1>5, <2>1
  <2> HIDE DEF ss
  <2> QED
    BY <1>5, <2>2, FlattenedIn
<1> DEFINE m == Len(all)
           Eq(h) == h = [n \in 1 .. m |->
                           IF n > 1 /\ DotOfSum(sum, h[n - 1].v) >= DotOfSum(sum, all[n].v)
                           THEN h[n - 1] ELSE all[n]]
           f == CHOOSE h : Eq(h)
           Made(g, k) ==
             /\ g \in [1 .. k -> T]
             /\ \A n \in 1 .. k :
                  g[n] = IF n > 1 /\ DotOfSum(sum, g[n - 1].v) >= DotOfSum(sum, all[n].v)
                         THEN g[n - 1] ELSE all[n]
           S == {k \in Nat : k <= m => \E g : Made(g, k)}
<1>7. pose_aware_match(sum, view) = f[m]
  BY DEF pose_aware_match
<1>8. m \in Nat /\ m >= 1 /\ \A n \in 1 .. m : all[n] \in T
  <2> HIDE DEF all, T
  <2> QED
    BY <1>6
<1> HIDE DEF T, all
<1>9. 0 \in S
  <2>1. Made([i \in 1 .. 0 |-> 0], 0)
    OBVIOUS
  <2> QED
    BY <2>1
<1>10. ASSUME NEW k \in Nat, k \in S PROVE k + 1 \in S
  <2> SUFFICES ASSUME k + 1 <= m PROVE \E g : Made(g, k + 1)
    BY k + 1 \in Nat, Zenon
  <2>0. k <= m /\ k + 1 \in 1 .. m
    BY <1>8
  <2>1. PICK g : Made(g, k)
    BY <1>10, <2>0, Zenon
  <2> DEFINE new == IF k + 1 > 1 /\ DotOfSum(sum, g[k].v) >= DotOfSum(sum, all[k + 1].v)
                    THEN g[k] ELSE all[k + 1]
             h == [i \in 1 .. k + 1 |-> IF i = k + 1 THEN new ELSE g[i]]
  <2>2. new \in T
    <3>1. k + 1 > 1 => g[k] \in T
      BY <2>1
    <3> QED
      BY <1>8, <2>0, <3>1
  <2>3. h \in [1 .. k + 1 -> T]
    <3> HIDE DEF new
    <3> QED
      BY <2>1, <2>2
  <2>4. ASSUME NEW n \in 1 .. k + 1
        PROVE  h[n] = IF n > 1 /\ DotOfSum(sum, h[n - 1].v) >= DotOfSum(sum, all[n].v)
                      THEN h[n - 1] ELSE all[n]
    <3>1. CASE n = k + 1
      <4>1. h[n] = new
        BY <3>1
      <4>2. n > 1 => n - 1 = k /\ h[k] = g[k]
        BY <3>1
      <4> HIDE DEF h
      <4> QED
        BY <3>1, <4>1, <4>2
    <3>2. CASE n # k + 1
      <4>1. n \in 1 .. k /\ h[n] = g[n] /\ (n > 1 => h[n - 1] = g[n - 1])
        BY <3>2
      <4>2. g[n] = IF n > 1 /\ DotOfSum(sum, g[n - 1].v) >= DotOfSum(sum, all[n].v)
                   THEN g[n - 1] ELSE all[n]
        BY <2>1, <4>1
      <4> HIDE DEF h
      <4> QED
        BY <4>1, <4>2
    <3> QED
      BY <3>1, <3>2
  <2> HIDE DEF h
  <2>5. Made(h, k + 1)
    BY <2>3, <2>4
  <2> QED
    BY <2>5
<1>11. m \in S
  <2> HIDE DEF S, m
  <2>1. \A k \in Nat : k \in S
    BY <1>9, <1>10, SetInduction
  <2> QED
    BY <1>8, <2>1
<1>12. PICK g : Made(g, m)
  BY <1>8, <1>11
<1>13. Eq(g)
  BY <1>12
<1>14. Eq(f)
  BY <1>13, Zenon
<1> HIDE DEF f
<1> DEFINE R == {k \in Nat : k + 1 <= m => f[k + 1] \in T}
<1>15. 0 \in R
  <2>1. f[1] = all[1]
    BY <1>8, <1>14
  <2> QED
    BY <1>8, <2>1
<1>16. ASSUME NEW k \in Nat, k \in R PROVE k + 1 \in R
  <2> SUFFICES ASSUME (k + 1) + 1 <= m PROVE f[(k + 1) + 1] \in T
    OBVIOUS
  <2> DEFINE j == (k + 1) + 1
  <2>1. j \in 1 .. m /\ j - 1 = k + 1 /\ f[k + 1] \in T
    BY <1>8, <1>16
  <2>2. f[j] = f[j - 1] \/ f[j] = all[j]
    BY <1>14, <2>1
  <2> QED
    BY <1>8, <2>1, <2>2
<1>17. f[m] \in T
  <2>1. m - 1 \in Nat /\ (m - 1) + 1 = m
    BY <1>8
  <2>2. m - 1 \in R
    <3> HIDE DEF R, m
    <3>1. \A k \in Nat : k \in R
      BY <1>15, <1>16, SetInduction
    <3> QED
      BY <2>1, <3>1
  <2> QED
    BY <2>1, <2>2
<1>18. pose_aware_match(sum, view) \in T
  BY <1>7, <1>17
<1> QED
  BY <1>18 DEF T

-----------------------------------------------------------------------------
(* The frames of a track.                                                  *)

\* The newest ofPresent embeddings are of whom the face is.
NewestArePresent ==
  \A i \in 1 .. Len(embeddings) : i > Len(embeddings) - ofPresent => embeddings[i].who = face.who

\* What is shown was decided about the buffer, the votes and the face as they are.
DecidedOnThis ==
  verdict = NoVerdict \/ \E embeds \in BOOLEAN : verdict \in VerdictsOn(embeddings, votes, embeds)

\* The cloud's word is about a picture of the face as it is.
AskedOfThis ==
  verdict.by = "cloud" => embeddings # <<>> /\ Last(embeddings) = face /\ ofPresent >= 1

MatchInv ==
  /\ db \in Galleries
  /\ face \in Sighting(Seen)
  /\ embeddings \in Seq(Sighting(Seen)) /\ Len(embeddings) <= LIVENESS_WINDOW
  /\ ofPresent \in 0 .. Len(embeddings)
  /\ NewestArePresent
  /\ DecidedOnThis
  /\ AskedOfThis
  /\ post = NoPost \/ post \in {emit(answer) : answer \in PostAnswer}

LEMMA MatchStarts == MatchInit => MatchInv
<1> SUFFICES ASSUME MatchInit PROVE MatchInv
  OBVIOUS
<1>1. embeddings = <<>> /\ ofPresent = 0 /\ Len(<<>>) = 0 /\ LIVENESS_WINDOW \in Nat
  BY MatchNumbers DEF MatchInit
<1>2. embeddings \in Seq(Sighting(Seen)) /\ Len(embeddings) <= LIVENESS_WINDOW
  BY <1>1
<1>3. NewestArePresent
  BY <1>1 DEF NewestArePresent
<1> QED
  BY <1>1, <1>2, <1>3 DEF MatchInit, MatchInv, DecidedOnThis, AskedOfThis, NoVerdict, Sighting

\* An embedding more of whom the face is.
LEMMA OneMore ==
  ASSUME MatchInv
  PROVE  /\ Appended(face) \in Seq(Sighting(Seen)) /\ Len(Appended(face)) \in 1 .. LIVENESS_WINDOW
         /\ Appended(face)[Len(Appended(face))] = face
         /\ Min({ofPresent + 1, LIVENESS_WINDOW}) >= 1
         /\ Min({ofPresent + 1, LIVENESS_WINDOW}) \in 0 .. Len(Appended(face))
         /\ \A i \in 1 .. Len(Appended(face)) :
              i > Len(Appended(face)) - Min({ofPresent + 1, LIVENESS_WINDOW})
                => Appended(face)[i].who = face.who
<1> DEFINE n == Len(embeddings)
           W == LIVENESS_WINDOW
           m == Min({ofPresent + 1, W})
<1>0. /\ n \in 0 .. W /\ W \in Nat \ {0} /\ ofPresent \in 0 .. n /\ face \in Sighting(Seen)
      /\ embeddings \in Seq(Sighting(Seen))
      /\ \A i \in 1 .. n : i > n - ofPresent => embeddings[i].who = face.who
  BY MatchNumbers DEF MatchInv, NewestArePresent
<1>1. m = IF ofPresent + 1 <= W THEN ofPresent + 1 ELSE W
  BY <1>0, MinOfTwo
<1> HIDE DEF m, W
<1>3. CASE n = W
  <2> DEFINE t == Tail(embeddings)
  <2>1. t \in Seq(Sighting(Seen)) /\ Len(t) = n - 1 /\ \A i \in 1 .. n - 1 : t[i] = embeddings[i + 1]
    BY <1>0, <1>3
  <2>2. Appended(face) = Append(t, face)
    BY <1>3 DEF Appended, W
  <2> HIDE DEF t
  <2>3. /\ Append(t, face) \in Seq(Sighting(Seen)) /\ Len(Append(t, face)) = n
        /\ Append(t, face)[n] = face
        /\ \A i \in 1 .. n - 1 : Append(t, face)[i] = t[i]
    BY <1>0, <1>3, <2>1
  <2>4. ASSUME NEW i \in 1 .. n, i > n - m PROVE Append(t, face)[i].who = face.who
    <3>1. CASE i = n
      BY <2>3, <3>1
    <3>2. CASE i # n
      <4>1. i \in 1 .. n - 1 /\ i + 1 \in 1 .. n /\ i + 1 > n - ofPresent
        BY <1>0, <1>1, <1>3, <2>4, <3>2
      <4>2. Append(t, face)[i] = embeddings[i + 1]
        BY <2>1, <2>3, <4>1
      <4> QED
        BY <1>0, <4>1, <4>2
    <3> QED
      BY <3>1, <3>2
  <2> DEFINE a == Append(t, face)
  <2>5. /\ a \in Seq(Sighting(Seen)) /\ Len(a) = n /\ n \in 1 .. W /\ m \in 0 .. n
        /\ a[n] = face /\ m >= 1
        /\ \A i \in 1 .. n : i > n - m => a[i].who = face.who
    <3>1. n \in 1 .. W /\ m \in 0 .. n /\ m >= 1
      BY <1>0, <1>1, <1>3
    <3> QED
      BY <2>3, <2>4, <3>1
  <2>6. Appended(face) = a
    BY <2>2
  <2> HIDE DEF a, n
  <2> QED
    BY <2>5, <2>6 DEF W, m
<1>4. CASE n # W
  <2>1. Appended(face) = Append(embeddings, face)
    BY <1>4 DEF Appended, W
  <2>2. /\ Append(embeddings, face) \in Seq(Sighting(Seen)) /\ Len(Append(embeddings, face)) = n + 1
        /\ Append(embeddings, face)[n + 1] = face
        /\ \A i \in 1 .. n : Append(embeddings, face)[i] = embeddings[i]
    BY <1>0
  <2>3. ASSUME NEW i \in 1 .. n + 1, i > (n + 1) - m PROVE Append(embeddings, face)[i].who = face.who
    <3>1. CASE i = n + 1
      BY <2>2, <3>1
    <3>2. CASE i # n + 1
      <4>1. i \in 1 .. n /\ i > n - ofPresent
        BY <1>0, <1>1, <1>4, <2>3, <3>2
      <4> QED
        BY <1>0, <2>2, <4>1
    <3> QED
      BY <3>1, <3>2
  <2> DEFINE a == Append(embeddings, face)
             k == n + 1
  <2>4. /\ a \in Seq(Sighting(Seen)) /\ Len(a) = k /\ k \in 1 .. W /\ m \in 0 .. k
        /\ a[k] = face /\ m >= 1
        /\ \A i \in 1 .. k : i > k - m => a[i].who = face.who
    <3>1. k \in 1 .. W /\ m \in 0 .. k /\ m >= 1
      BY <1>0, <1>1, <1>4
    <3> QED
      BY <2>2, <2>3, <3>1
  <2>5. Appended(face) = a
    BY <2>1
  <2> HIDE DEF a, k
  <2> QED
    BY <2>4, <2>5 DEF W, m
<1> QED
  BY <1>3, <1>4

LEMMA MatchStep == MatchInv /\ [MatchNext]_matchVars => MatchInv'
<1> SUFFICES ASSUME MatchInv, [MatchNext]_matchVars PROVE MatchInv'
  OBVIOUS
<1>1. ASSUME NEW f \in [who : Seen, view : Angles], FaceMoves(f) PROVE MatchInv'
  <2>1. f \in Sighting(Seen) /\ embeddings' = embeddings /\ db' = db /\ face' = f /\ post' = NoPost
        /\ verdict' = NoVerdict
    BY <1>1 DEF FaceMoves, Sighting
  <2>2. ofPresent' \in 0 .. Len(embeddings)
    BY <1>1 DEF FaceMoves, MatchInv
  <2>3. NewestArePresent'
    <3>1. CASE f.who = face.who
      BY <1>1, <2>1, <3>1 DEF FaceMoves, MatchInv, NewestArePresent
    <3>2. CASE f.who # face.who
      <4>1. ofPresent' = 0 /\ Len(embeddings) \in Nat
        BY <1>1, <3>2 DEF FaceMoves, MatchInv
      <4> QED
        BY <2>1, <4>1 DEF NewestArePresent
    <3> QED
      BY <3>1, <3>2
  <2> QED
    BY <2>1, <2>2, <2>3 DEF MatchInv, DecidedOnThis, AskedOfThis, NoVerdict
<1>2. CASE DropBuffer
  <2>1. embeddings' = <<>> /\ ofPresent' = 0 /\ Len(<<>>) = 0 /\ LIVENESS_WINDOW \in Nat
    BY <1>2, MatchNumbers DEF DropBuffer
  <2>2. embeddings' \in Seq(Sighting(Seen)) /\ Len(embeddings') <= LIVENESS_WINDOW
    BY <2>1
  <2>3. NewestArePresent'
    BY <2>1 DEF NewestArePresent
  <2> QED
    BY <1>2, <2>1, <2>2, <2>3 DEF DropBuffer, MatchInv, DecidedOnThis, AskedOfThis, NoVerdict
<1>5. CASE PassOver
  BY <1>5 DEF PassOver, MatchInv, NewestArePresent, DecidedOnThis, AskedOfThis, NoVerdict
<1>3. ASSUME NEW embeds \in BOOLEAN, MatchFrame(embeds) PROVE MatchInv'
  <2>1. db' = db /\ face' = face
    BY <1>3 DEF MatchFrame
  <2>2. /\ embeddings' \in Seq(Sighting(Seen)) /\ Len(embeddings') <= LIVENESS_WINDOW
        /\ ofPresent' \in 0 .. Len(embeddings')
        /\ embeds => embeddings' # <<>> /\ Last(embeddings') = face /\ ofPresent' >= 1
        /\ \A i \in 1 .. Len(embeddings') : i > Len(embeddings') - ofPresent' => embeddings'[i].who = face.who
    <3>1. CASE embeds
      <4> DEFINE a == Appended(face)
                 m == Min({ofPresent + 1, LIVENESS_WINDOW})
      <4>1. embeddings' = a /\ ofPresent' = m
        BY <1>3, <3>1 DEF MatchFrame
      <4>2. /\ a \in Seq(Sighting(Seen)) /\ Len(a) \in 1 .. LIVENESS_WINDOW /\ m \in 0 .. Len(a)
            /\ a[Len(a)] = face /\ m >= 1
            /\ \A i \in 1 .. Len(a) : i > Len(a) - m => a[i].who = face.who
        BY OneMore
      <4>3. LIVENESS_WINDOW \in Nat
        BY MatchNumbers
      <4> HIDE DEF a, m
      <4> QED
        BY <3>1, <4>1, <4>2, <4>3 DEF Last
    <3>2. CASE ~embeds
      BY <1>3, <3>2 DEF MatchFrame, MatchInv, NewestArePresent
    <3> QED
      BY <3>1, <3>2
  <2>3. NewestArePresent'
    BY <2>1, <2>2 DEF NewestArePresent
  <2>4. verdict' \in VerdictsOn(embeddings', votes', embeds)
    BY <1>3 DEF MatchFrame
  <2>5. DecidedOnThis'
    <3>1. VerdictsOn(embeddings', votes', embeds) = VerdictsOn(embeddings, votes, embeds)'
      BY <2>1 DEF VerdictsOn, EdgeVerdicts, CloudVerdicts, MatchThresholds, pose_aware_match, PoolOf
    <3> QED
      BY <2>4, <3>1 DEF DecidedOnThis
  <2>7. AskedOfThis'
    <3>1. CASE embeds
      BY <2>1, <2>2, <3>1 DEF AskedOfThis
    <3>2. CASE ~embeds
      <4>1. verdict'.by = "edge"
        BY <2>4, <3>2 DEF VerdictsOn, EdgeVerdicts, NoVerdict
      <4> QED
        BY <4>1 DEF AskedOfThis
    <3> QED
      BY <3>1, <3>2
  <2>6. post' = NoPost \/ post' \in {emit(answer) : answer \in PostAnswer}
    BY <1>3 DEF MatchFrame
  <2> QED
    BY <2>1, <2>2, <2>3, <2>5, <2>6, <2>7 DEF MatchInv
<1>4. CASE UNCHANGED matchVars
  <2>1. db' = db /\ face' = face /\ embeddings' = embeddings /\ ofPresent' = ofPresent /\ verdict' = verdict
        /\ post' = post /\ votes' = votes
    BY <1>4 DEF matchVars
  <2>2. ASSUME NEW embeds \in BOOLEAN
        PROVE  VerdictsOn(embeddings, votes, embeds)' = VerdictsOn(embeddings, votes, embeds)
    BY <2>1 DEF VerdictsOn, EdgeVerdicts, CloudVerdicts, MatchThresholds, pose_aware_match, PoolOf
  <2>3. DecidedOnThis'
    BY <2>1, <2>2 DEF MatchInv, DecidedOnThis
  <2> QED
    BY <2>1, <2>3 DEF MatchInv, NewestArePresent, AskedOfThis
<1> QED
  BY <1>1, <1>2, <1>3, <1>4, <1>5 DEF MatchNext

LEMMA MatchSafe == ASSUME Separated PROVE MatchInv => SightingsExplained
<1> SUFFICES ASSUME MatchInv PROVE SightingsExplained
  OBVIOUS
<1>1. SentIsStored
  <2>1. CASE post = NoPost
    BY <2>1 DEF SentIsStored, NoPost
  <2>2. CASE post \in {emit(answer) : answer \in PostAnswer}
    <3>1. PICK answer \in PostAnswer : post = emit(answer)
      BY <2>2
    <3>2. answer.kind \in {"2xx", "4xx", "5xx", "no JSON", "timeout", "refused"}
          /\ (answer.kind = "2xx" => answer.stored)
      BY MatchAssumption
    <3>3. OutcomeOf(answer.kind) = "sent" => answer.kind = "2xx"
      BY <3>2 DEF OutcomeOf
    <3>4. post.sent = (OutcomeOf(answer.kind) = "sent") /\ post.stored = answer.stored
      BY <3>1 DEF emit
    <3> QED
      BY <3>2, <3>3, <3>4 DEF SentIsStored
  <2> QED
    BY <2>1, <2>2 DEF MatchInv
<1>2. ASSUME Len(embeddings) >= LIVENESS_WINDOW, NEW embeds \in BOOLEAN,
             verdict \in VerdictsOn(embeddings, votes, embeds)
      PROVE  /\ PoolOfTheMatched
             /\ verdict.by = "cloud" => verdict.identity \in CloudSays[face.who]
             /\ verdict.decision = "MATCHED" /\ verdict.by = "edge" /\ verdict.identity # face.who =>
                  2 * ofPresent <= LIVENESS_WINDOW
  <2> DEFINE n == LIVENESS_WINDOW
  <2>0. n \in Nat /\ Len(embeddings) = n /\ ofPresent \in 0 .. n
        /\ embeddings \in Seq(Sighting(Seen))
    BY <1>2, MatchNumbers DEF MatchInv, Sighting
  <2>a. PICK angle \in Angles :
          \/ verdict \in EdgeVerdicts(embeddings, angle)
          \/ verdict \in CloudVerdicts(EdgeVerdicts(embeddings, angle))
    <3>1. ~(Len(embeddings) < n)
      BY <2>0
    <3>2. VerdictsOn(embeddings, votes, embeds) =
            UNION {EdgeVerdicts(embeddings, angle)
                     \cup (IF embeds THEN CloudVerdicts(EdgeVerdicts(embeddings, angle)) ELSE {}) :
                   angle \in MajorityOf(votes)}
      BY <3>1 DEF VerdictsOn
    <3>3. MajorityOf(votes) \subseteq Angles
      BY DEF MajorityOf
    <3> QED
      BY <1>2, <3>2, <3>3
  <2>b. PICK v \in EdgeVerdicts(embeddings, angle) :
          /\ verdict.candidate = v.candidate /\ verdict.pool_used = v.pool_used /\ verdict.mode = v.mode
          /\ \/ verdict = v
             \/ verdict.by = "cloud" /\ verdict.identity \in CloudSays[face.who]
    <3>1. CASE verdict \in EdgeVerdicts(embeddings, angle)
      BY <3>1
    <3>2. CASE verdict \in CloudVerdicts(EdgeVerdicts(embeddings, angle))
      <4> DEFINE E == EdgeVerdicts(embeddings, angle)
             T == {w \in E : w.decision = "OFFLOAD_TO_CLOUD"}
      <4>0. PICK v \in T : \E m \in CloudSays[face.who] : verdict = ByCloud(v, m)
        <5>1. verdict \in {ByCloud(w, m) : w \in T, m \in CloudSays[face.who]}
          BY <3>2 DEF CloudVerdicts
        <5> HIDE DEF T
        <5> QED
          BY <5>1
      <4>a. PICK m \in CloudSays[face.who] : verdict = ByCloud(v, m)
        BY <4>0
      <4>1. verdict = [v EXCEPT !.decision = "MATCHED", !.identity = m, !.by = "cloud"]
        BY <4>a DEF ByCloud
      <4>2. v \in [decision : {v.decision}, mode : {v.mode}, candidate : {v.candidate},
                   pool_used : {v.pool_used}, identity : {v.identity}, by : {v.by}]
        BY DEF EdgeVerdicts
      <4>3. v \in E
        BY <4>0
      <4> QED
        BY <4>a, <4>1, <4>2, <4>3
    <3> QED
      BY <2>a, <3>1, <3>2
  <2> DEFINE best == pose_aware_match(embeddings, angle)
  <2>1. best \in CandidatesOf(db, angle) /\ best.v.who = best.identity
    BY <2>0, BestIsCandidate DEF MatchInv
  <2>2. PICK th \in MatchThresholds(angle) :
          v = [decision |-> Decision(embeddings, best.v, th), mode |-> angle,
               candidate |-> best.identity, pool_used |-> best.pool_used,
               identity |-> best.identity, by |-> "edge"]
    BY DEF EdgeVerdicts
  <2> HIDE DEF best
  <2>3. PoolOfTheMatched
    <3>1. PICK m \in DOMAIN db, u \in Sighting(DOMAIN db) :
            best = [identity |-> m, pool_used |-> IF angle = "front" THEN "frontal"
                                                  ELSE IF db[m].angled = <<>> THEN "frontal_fallback" ELSE "angled",
                    v |-> u]
      BY <2>1 DEF CandidatesOf
    <3>2. verdict.candidate = m /\ verdict.mode = angle
          /\ verdict.pool_used = (IF angle = "front" THEN "frontal"
                                  ELSE IF db[m].angled = <<>> THEN "frontal_fallback" ELSE "angled")
      BY <2>b, <2>2, <3>1
    <3>3. angle \in {"front", "side"}
      BY DEF Angles
    <3> QED
      BY <3>2, <3>3 DEF PoolOfTheMatched
  <2>5. verdict.by = "cloud" => verdict.identity \in CloudSays[face.who]
    BY <2>b, <2>2
  <2>4. ASSUME verdict.decision = "MATCHED", verdict.by = "edge", verdict.identity # face.who, ~(2 * ofPresent <= n) PROVE FALSE
    <3>v. verdict = v
      BY <2>b, <2>4
    <3> DEFINE H == {i \in DOMAIN embeddings : embeddings[i].who = face.who}
    <3>1. th.high \in Nat /\ th.high >= LowestHigh
      BY MatchNumbers DEF MatchThresholds, get_adaptive_threshold, LowestHigh
    <3>2. Reaches(embeddings, best.v, th.high)
      BY <2>2, <2>4, <3>v DEF Decision
    <3>3. best.v.who # face.who
      BY <2>1, <2>2, <2>4, <3>v
    <3>4. best.v \in Sighting(DOMAIN db)
      BY <2>1 DEF CandidatesOf
    <3>5. 2 * Among(H, Len(embeddings)) > n
      <4> DEFINE K == n - ofPresent + 1 .. n
      <4>1. K \subseteq H \cap (1 .. n)
        BY <2>0 DEF MatchInv, NewestArePresent
      <4>2. IsFiniteSet(1 .. n) /\ IsFiniteSet(H \cap (1 .. n))
        <5>1. IsFiniteSet(1 .. n)
          BY <2>0, FS_Interval
        <5>2. H \cap (1 .. n) \in SUBSET (1 .. n)
          OBVIOUS
        <5> QED
          BY <5>1, <5>2, FS_Subset
      <4>3. Cardinality(K) = ofPresent
        <5>1. n - ofPresent + 1 \in Int /\ n \in Int
          BY <2>0
        <5>2. Cardinality(K) = IF n - ofPresent + 1 > n THEN 0 ELSE n - (n - ofPresent + 1) + 1
          BY <5>1, FS_Interval
        <5> QED
          BY <2>0, <5>2
      <4>4. Cardinality(K) <= Cardinality(H \cap (1 .. n))
        <5> HIDE DEF K, H
        <5> QED
          BY <4>1, <4>2, FS_Subset
      <4>5. Cardinality(H \cap (1 .. n)) \in Nat
        BY <4>2, FS_CardinalityType
      <4> DEFINE c == Cardinality(H \cap (1 .. n))
      <4>6. c \in Nat /\ ofPresent <= c
        BY <4>3, <4>4, <4>5
      <4> HIDE DEF c
      <4>7. 2 * c > n
        BY <2>0, <2>4, <4>6
      <4> QED
        BY <2>0, <4>7 DEF Among, c
    <3> HIDE DEF H
    <3> QED
      <4>1. H = {i \in DOMAIN embeddings : embeddings[i].who = face.who}
        BY DEF H
      <4>2. th.high \in Nat /\ th.high >= LowestHigh
        BY <3>1
      <4> QED
        BY <2>0, <3>2, <3>3, <3>4, <3>5, <4>1, <4>2, BelowThreshold
  <2> QED
    BY <2>3, <2>4, <2>5
<1>3. CASE verdict = NoVerdict \/ (/\ \E embeds \in BOOLEAN : verdict \in VerdictsOn(embeddings, votes, embeds)
                                   /\ Len(embeddings) < LIVENESS_WINDOW)
  <2>1. verdict = NoVerdict \/ verdict = [NoVerdict EXCEPT !.decision = "BUFFERING"]
    BY <1>3 DEF VerdictsOn
  <2>2. verdict.decision # "MATCHED" /\ verdict.pool_used = "NA" /\ verdict.by = "edge"
    BY <2>1 DEF NoVerdict
  <2> QED
    BY <1>1, <2>2 DEF SightingsExplained, FormerFaceFades, CloudSeesThePresent, PoolOfTheMatched
<1>4. Len(embeddings) \in Int /\ LIVENESS_WINDOW \in Int
  BY MatchNumbers DEF MatchInv
<1> QED
  BY <1>1, <1>2, <1>3, <1>4
     DEF SightingsExplained, FormerFaceFades, CloudSeesThePresent, MatchInv, DecidedOnThis, AskedOfThis

\* SightingsExplained, for every window, thresholds and cosines that keep two
\* persons apart, every history of votes, and whatever the cloud says: whom a
\* post is about is the person before the camera, or on the edge's word one who
\* was there for half of the window; the pool is the candidate's; and it counts
\* as sent only when it was stored.
THEOREM SightingsAreExplained ==
  ASSUME Separated
  PROVE  MatchBehaviour => []SightingsExplained
<1>1. MatchInv => SightingsExplained
  BY MatchSafe
<1> QED
  BY <1>1, MatchStarts, MatchStep, PTL DEF MatchBehaviour
=============================================================================
