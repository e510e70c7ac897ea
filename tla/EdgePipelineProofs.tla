------------------------- MODULE EdgePipelineProofs -------------------------
(***************************************************************************)
(* Theorems about EdgePipeline, for every number of tracks and persons,    *)
(* every window, cadence, streak, persistence and cooldown, about the      *)
(* tracker under it, and about the camera that feeds it.                   *)
(*                                                                         *)
(* SpoofBlocks is about a step and needs to know how the embeddings came   *)
(* to be in the buffer.  BufferIsRecent is that fact: a track never has    *)
(* more embeddings than clean frames behind it.                            *)
(***************************************************************************)
EXTENDS EdgePipeline, FaceTracks, CameraFeed, Integers, FiniteSetTheorems, FunctionTheorems,
        WellFoundedInduction, TLAPS

Kept == [votes : 0 .. Window, last : Label \cup {"none"},
         streak : 0 .. SpoofN, buffer : 0 .. Window, run : Run]
History == [clean : 0 .. Window, stale : 0 .. Cycle,
            spoofs : 0 .. SpoofN]

\* A track with its history, as the loop may leave them.
Fits(x, h) == x \in Kept /\ h \in History /\ x.buffer <= h.clean

\* The client's two health fields agree, since the loop asks a server no more
\* that failed three times in a row.
HealthConsistent == failures <= 3 /\ (reachable <=> failures < 3)

IInv == TypeOK /\ HealthConsistent /\ BufferIsRecent

-----------------------------------------------------------------------------
(* The operators of the loop.                                              *)

\* Min of two numbers is the cap or the number.
LEMMA CappedValue ==
  ASSUME NEW n \in Nat, NEW cap \in Nat
  PROVE  Capped(n, cap) = IF n <= cap THEN n ELSE cap
<1> DEFINE S == {n, cap}
           m == IF n <= cap THEN n ELSE cap
<1>1. m \in S /\ \A y \in S : m =< y
  OBVIOUS
<1>2. \A x \in S : (\A y \in S : x =< y) => x = m
  OBVIOUS
<1>3. Min(S) \in S /\ \A y \in S : Min(S) =< y
  <2>1. PICK x \in S : \A y \in S : x =< y
    BY <1>1
  <2> QED
    BY <2>1 DEF Min
<1> QED
  BY <1>2, <1>3 DEF Capped

\* Counting on never leaves the range, and never goes back.
LEMMA CappedRange ==
  ASSUME NEW cap \in Nat, NEW n \in 0 .. cap
  PROVE  Capped(n + 1, cap) \in 0 .. cap /\ Capped(n + 1, cap) >= n
BY CappedValue, n + 1 \in Nat

LEMMA ConstantsNat ==
  /\ Window \in Nat \ {0} /\ YunetN \in Nat \ {0} /\ EmbedN \in Nat \ {0}
  /\ PersistN \in Nat \ {0} /\ SpoofN \in Nat \ {0}
  /\ IngestCooldown \in Nat \ {0}
BY EdgeAssumption

LEMMA CycleNat == Cycle \in Nat \ {0}
BY ConstantsNat DEF Cycle

\* A new track, or one that was dropped.
LEMMA FreshFits == Fits(Fresh, Unseen)
BY ConstantsNat, CycleNat DEF Fits, Fresh, Unseen, Kept, History, Run, Label

\* What a verdict leaves of a track has the same embeddings and clean frames.
LEMMA VerdictKeeps ==
  ASSUME TypeOK, NEW t \in Track, NEW v \in Verdicts(t)
  PROVE  /\ t \in todo
         /\ v.kept \in Kept /\ v.history \in History
         /\ v.kept.buffer = track[t].buffer
         /\ v.history.clean = seen[t].clean
<1>1. t \in todo /\ view[t] = "near"
  BY DEF Verdicts
<1>2. PICK raw \in RawLabels(t) :
        LET x == Voted(track[t], raw)
        IN  v = [label |-> Smoothed(raw, x.streak), kept |-> x,
                 history |-> IF skipped THEN seen[t]
                             ELSE [seen[t] EXCEPT !.spoofs =
                               IF raw = "SPOOF" THEN Capped(@ + 1, SpoofN) ELSE 0]]
  BY <1>1 DEF Verdicts
<1>3. track[t] \in Kept /\ seen[t] \in History
  BY DEF TypeOK, Kept, History
<1>4. raw \in Label
  BY <1>3 DEF RawLabels, Label, Kept
<1>5. /\ Capped(track[t].votes + 1, Window) \in 0 .. Window
      /\ Capped(track[t].streak + 1, SpoofN) \in 0 .. SpoofN
      /\ Capped(seen[t].spoofs + 1, SpoofN) \in 0 .. SpoofN
  BY <1>3, CappedRange, ConstantsNat DEF Kept, History
<1>6. Voted(track[t], raw) \in Kept /\ Voted(track[t], raw).buffer = track[t].buffer
  <2> DEFINE a == IF skipped THEN track[t].votes ELSE Capped(track[t].votes + 1, Window)
             b == IF skipped THEN track[t].last ELSE raw
             c == IF raw = "SPOOF" THEN Capped(track[t].streak + 1, SpoofN) ELSE 0
  <2>1. a \in 0 .. Window
    BY <1>3, <1>5 DEF Kept
  <2>2. b \in Label \cup {"none"}
    BY <1>3, <1>4 DEF Kept
  <2>3. c \in 0 .. SpoofN
    BY <1>5, ConstantsNat
  <2>4. Voted(track[t], raw) = [track[t] EXCEPT !.votes = a, !.last = b, !.streak = c]
    BY Zenon DEF Voted
  <2> HIDE DEF a, b, c
  <2> QED
    BY <1>3, <2>1, <2>2, <2>3, <2>4 DEF Kept
<1>7. v.history \in History /\ v.history.clean = seen[t].clean
  BY <1>2, <1>3, <1>5, ConstantsNat DEF History
<1> QED
  BY <1>1, <1>2, <1>6, <1>7

\* A frame more is a clean frame more.
LEMMA UnmatchedFits ==
  ASSUME NEW x \in Kept, NEW h \in History, x.buffer <= h.clean
  PROVE  Fits(x, Unmatched(h))
<1> DEFINE n == Capped(h.clean + 1, Window)
<1>1. n \in 0 .. Window /\ n >= h.clean
  BY CappedRange, ConstantsNat DEF History
<1>2. Unmatched(h) = [h EXCEPT !.clean = n, !.stale = 0]
  BY Zenon DEF Unmatched
<1> HIDE DEF n
<1>3. [h EXCEPT !.clean = n, !.stale = 0] \in History
  <2>1. 0 \in 0 .. Cycle
    BY CycleNat
  <2> QED
    BY <1>1, <2>1 DEF History
<1>4. [h EXCEPT !.clean = n, !.stale = 0].clean = n
  BY DEF History
<1> QED
  BY <1>1, <1>2, <1>3, <1>4, ConstantsNat DEF Fits, Kept, History

\* The clean frames after a frame that is no match.
LEMMA UnmatchedCounts ==
  ASSUME NEW h \in History
  PROVE  Unmatched(h).clean = Capped(h.clean + 1, Window)
<1> DEFINE n == Capped(h.clean + 1, Window)
<1>1. Unmatched(h) = [h EXCEPT !.clean = n, !.stale = 0]
  BY Zenon DEF Unmatched
<1> HIDE DEF n
<1>2. [h EXCEPT !.clean = n, !.stale = 0].clean = n
  BY DEF History
<1>3. Unmatched(h).clean = n
  BY <1>1, <1>2
<1> QED
  BY <1>3 DEF n

\* A run that goes on, or starts again with another person.
LEMMA RunCounts ==
  ASSUME NEW r \in Run, NEW p \in Person
  PROVE  [who |-> p, n |-> IF r.who = p THEN Capped(r.n + 1, PersistN) ELSE 1] \in Run
<1>1. r.n \in 0 .. PersistN
  BY DEF Run
<1>2. Capped(r.n + 1, PersistN) \in 0 .. PersistN
  BY <1>1, CappedRange, ConstantsNat
<1>3. 1 \in 0 .. PersistN
  BY ConstantsNat
<1> QED
  BY <1>2, <1>3 DEF Run

\* An embedding adds one to the buffer, as the frame does to the clean ones.
LEMMA EmbeddedCounts ==
  ASSUME NEW x \in Kept, NEW c \in 0 .. Window, x.buffer <= c
  PROVE  Embedded(x) \in Kept /\ Embedded(x).buffer <= Capped(c + 1, Window)
<1>1. /\ Capped(x.buffer + 1, Window) \in 0 .. Window
      /\ Capped(x.buffer + 1, Window) <= Capped(c + 1, Window)
      /\ x.buffer <= Capped(c + 1, Window)
  BY CappedValue, ConstantsNat DEF Kept
<1> QED
  BY <1>1, ConstantsNat DEF Embedded, Kept

\* A track that is to be matched has a full buffer, and as many clean frames.
LEMMA MatchableFits ==
  ASSUME TypeOK, BufferIsRecent, NEW t \in Track, NEW m \in Matchable(t)
  PROVE  t \in todo /\ Fits(m.kept, m.history) /\ m.history.clean >= Window
<1>1. PICK v \in Verdicts(t) :
        /\ Embedded(v.kept).buffer >= Window
        /\ m = [kept |-> Embedded(v.kept), cropped |-> Embeds(v.kept),
                history |-> [v.history EXCEPT !.clean = Capped(@ + 1, Window),
                  !.stale = IF Embeds(v.kept) THEN 0 ELSE Capped(@ + 1, Cycle)]]
  BY DEF Matchable
<1> DEFINE n == Capped(v.history.clean + 1, Window)
           s == IF Embeds(v.kept) THEN 0 ELSE Capped(v.history.stale + 1, Cycle)
<1>2. /\ t \in todo /\ v.kept \in Kept /\ v.history \in History
      /\ v.kept.buffer <= v.history.clean
  BY VerdictKeeps DEF BufferIsRecent
<1>3. n \in 0 .. Window
  BY <1>2, CappedRange, ConstantsNat DEF History
<1>4. s \in 0 .. Cycle
  <2>1. v.history.stale \in 0 .. Cycle
    BY <1>2 DEF History
  <2>2. Capped(v.history.stale + 1, Cycle) \in 0 .. Cycle
    BY <2>1, CappedRange, CycleNat
  <2>3. 0 \in 0 .. Cycle
    BY CycleNat
  <2> QED
    BY <2>2, <2>3
<1>5. Embedded(v.kept) \in Kept /\ Embedded(v.kept).buffer <= n
  <2>1. v.history.clean \in 0 .. Window
    BY <1>2 DEF History
  <2> QED
    BY <1>2, <2>1, EmbeddedCounts
<1>6. m.kept = Embedded(v.kept) /\ m.history = [v.history EXCEPT !.clean = n, !.stale = s]
  BY <1>1
<1> HIDE DEF n, s
<1>7. m.history \in History /\ m.history.clean = n
  BY <1>2, <1>3, <1>4, <1>6 DEF History
<1>8. Embedded(v.kept).buffer \in 0 .. Window
  BY <1>5 DEF Kept
<1> QED
  BY <1>1, <1>2, <1>3, <1>5, <1>6, <1>7, <1>8, ConstantsNat DEF Fits

\* The run may be replaced by another, or reset.
LEMMA RunReplaced ==
  ASSUME NEW x, NEW h, Fits(x, h), NEW r \in Run
  PROVE  Fits([x EXCEPT !.run = r], h)
BY DEF Fits, Kept, History

LEMMA NoRunFits ==
  ASSUME NEW x, NEW h, Fits(x, h)
  PROVE  Fits(NoRun(x), h)
<1>1. Fresh.run \in Run
  BY ConstantsNat DEF Fresh, Run
<1> QED
  BY <1>1, RunReplaced DEF NoRun

-----------------------------------------------------------------------------
(* The invariant.                                                          *)

LEMMA Initially == Init => IInv
<1> SUFFICES ASSUME Init PROVE IInv
  OBVIOUS
<1>1. Cycle \in Nat \ {0}
  BY CycleNat
<1>2. Fresh \in Kept /\ Unseen \in History /\ Fresh.buffer <= Unseen.clean
  BY FreshFits DEF Fits
<1>3. TypeOK
  <2>1. count \in 0 .. Cycle - 1
    BY <1>1 DEF Init
  <2>2. track \in [Track -> Kept] /\ seen \in [Track -> History]
    BY <1>2 DEF Init
  <2>3. age \in [Person -> 0 .. IngestCooldown]
    BY ConstantsNat DEF Init
  <2> QED
    BY <2>1, <2>2, <2>3 DEF Init, TypeOK, Kept, History
<1>4. HealthConsistent
  BY DEF Init, HealthConsistent
<1>5. BufferIsRecent
  BY <1>2 DEF Init, BufferIsRecent
<1> QED
  BY <1>3, <1>4, <1>5 DEF IInv

\* A frame touches no track.
LEMMA FrameInv ==
  ASSUME IInv, NEW v \in [Track -> {"none", "far", "near"}], Frame(v)
  PROVE  IInv'
<1> USE DEF IInv
<1>1. count' \in 0 .. Cycle - 1
  <2>1. Cycle \in Nat \ {0}
    BY CycleNat
  <2>2. count + 1 \in Nat
    BY <2>1 DEF TypeOK
  <2>3. ASSUME NEW k \in Nat, NEW d \in Nat \ {0} PROVE k % d \in 0 .. d - 1
    OBVIOUS
  <2> QED
    BY <2>1, <2>2, <2>3 DEF Frame
<1>2. age' \in [Person -> 0 .. IngestCooldown]
  BY CappedRange, ConstantsNat DEF Frame, TypeOK
<1>3. skipped' \in BOOLEAN /\ view' \in [Track -> {"none", "far", "near"}]
  BY DEF Frame, TypeOK
<1>4. TypeOK'
  BY <1>1, <1>2, <1>3 DEF Frame, TypeOK, cloudVars
<1> QED
  BY <1>4 DEF Frame, cloudVars, HealthConsistent, BufferIsRecent

\* What is left of a track fits, and the others are as they were.
LEMMA DoneInv ==
  ASSUME TypeOK, BufferIsRecent, NEW t \in Track, NEW x, NEW h, Done(t, x, h),
         Fits(x, h), age' \in [Person -> 0 .. IngestCooldown],
         failures' \in Nat, reachable' \in BOOLEAN
  PROVE  TypeOK' /\ BufferIsRecent'
<1>1. track \in [Track -> Kept] /\ seen \in [Track -> History]
  BY DEF TypeOK, Kept, History
<1>2. track' \in [Track -> Kept] /\ seen' \in [Track -> History]
  BY <1>1 DEF Done, Fits
<1>3. TypeOK'
  BY <1>2 DEF TypeOK, Done, Kept, History
<1>4. BufferIsRecent'
  BY <1>1 DEF BufferIsRecent, Done, Fits
<1> QED
  BY <1>3, <1>4

LEMMA EmitType ==
  ASSUME TypeOK, NEW p \in Person, Emit(p)
  PROVE  age' \in [Person -> 0 .. IngestCooldown]
BY ConstantsNat DEF TypeOK, Emit

\* The steps of one track keep the invariant.
LEMMA ProcessInv ==
  ASSUME IInv, NEW t \in Track, Process(t)
  PROVE  IInv'
<1> USE DEF IInv
<1>1. age \in [Person -> 0 .. IngestCooldown] /\ failures \in Nat
      /\ reachable \in BOOLEAN
  BY DEF TypeOK
<1>2. CASE Lose(t)
  BY <1>1, <1>2, DoneInv, FreshFits DEF Lose, HealthConsistent
<1>3. CASE Distant(t)
  <2>1. track[t] \in Kept /\ seen[t] \in History /\ track[t].buffer <= seen[t].clean
    BY DEF TypeOK, BufferIsRecent, Kept, History
  <2>2. Fits(track[t], Unmatched(seen[t]))
    BY <2>1, UnmatchedFits
  <2> QED
    BY <1>1, <1>3, <2>2, DoneInv DEF Distant, HealthConsistent
<1>4. CASE Reject(t)
  <2>1. PICK v \in Verdicts(t) :
          /\ Done(t, [v.kept EXCEPT !.buffer = 0],
                  [Unmatched(v.history) EXCEPT !.clean = 0])
          /\ UNCHANGED <<age, failures, reachable>>
    BY <1>4 DEF Reject
  <2>2. v.kept \in Kept /\ v.history \in History
        /\ v.kept.buffer <= v.history.clean
    BY VerdictKeeps DEF BufferIsRecent
  <2>3. Unmatched(v.history) \in History
    BY <2>2, UnmatchedFits DEF Fits
  <2>4. Fits([v.kept EXCEPT !.buffer = 0], [Unmatched(v.history) EXCEPT !.clean = 0])
    BY <2>2, <2>3, ConstantsNat DEF Fits, Kept, History
  <2> QED
    BY <1>1, <2>1, <2>4, DoneInv DEF HealthConsistent
<1>5. CASE Hold(t)
  <2>1. PICK v \in Verdicts(t) :
          /\ Done(t, v.kept, Unmatched(v.history))
          /\ UNCHANGED <<age, failures, reachable>>
    BY <1>5 DEF Hold
  <2>2. Fits(v.kept, Unmatched(v.history))
    BY VerdictKeeps, UnmatchedFits DEF BufferIsRecent
  <2> QED
    BY <1>1, <2>1, <2>2, DoneInv DEF HealthConsistent
<1>6. CASE Buffering(t)
  <2>1. PICK v \in Verdicts(t) :
          /\ Done(t, Embedded(v.kept), Unmatched(v.history))
          /\ UNCHANGED <<age, failures, reachable>>
    BY <1>6 DEF Buffering
  <2>2. v.kept \in Kept /\ v.history \in History
        /\ v.kept.buffer <= v.history.clean
    BY VerdictKeeps DEF BufferIsRecent
  <2>3. v.history.clean \in 0 .. Window
    BY <2>2 DEF History
  <2>4. Embedded(v.kept) \in Kept
        /\ Embedded(v.kept).buffer <= Capped(v.history.clean + 1, Window)
    BY <2>2, <2>3, EmbeddedCounts
  <2>5. Unmatched(v.history) \in History
    BY <2>2, UnmatchedFits DEF Fits
  <2>6. Unmatched(v.history).clean = Capped(v.history.clean + 1, Window)
    BY <2>2, UnmatchedCounts
  <2>7. Fits(Embedded(v.kept), Unmatched(v.history))
    BY <2>4, <2>5, <2>6 DEF Fits
  <2> QED
    BY <1>1, <2>1, <2>7, DoneInv DEF HealthConsistent
<1>7. ASSUME NEW p \in Person, Match(t, p) PROVE IInv'
  <2> DEFINE after(m) == Observed(m.kept.run, p, PersistN)
  <2>1. PICK m \in Matchable(t) :
          /\ Done(t, [m.kept EXCEPT !.run = after(m)], m.history)
          /\ IF after(m).n >= PersistN THEN Emit(p) ELSE UNCHANGED age
          /\ UNCHANGED <<failures, reachable>>
    BY <1>7 DEF Match
  <2>2. Fits(m.kept, m.history)
    BY MatchableFits
  <2>3. after(m) \in Run
    BY <2>2, RunCounts DEF Observed, Fits, Kept
  <2>4. Fits([m.kept EXCEPT !.run = after(m)], m.history)
    BY <2>2, <2>3, RunReplaced
  <2>5. age' \in [Person -> 0 .. IngestCooldown]
    BY <1>1, <2>1, EmitType
  <2> QED
    BY <1>1, <2>1, <2>4, <2>5, DoneInv DEF HealthConsistent
<1>8. ASSUME NEW who \in Person \cup {Nobody}, Verify(t, who) PROVE IInv'
  <2>1. PICK m \in Matchable(t) :
          /\ Healthy
          /\ Done(t, NoRun(m.kept), m.history)
          /\ IF serverUp
             THEN /\ failures' = 0 /\ reachable' = TRUE
                  /\ IF who = Nobody THEN UNCHANGED age ELSE Emit(who)
             ELSE /\ failures' = failures + 1
                  /\ reachable' = (reachable /\ ~Unreachable(failures + 1))
                  /\ UNCHANGED age
    BY <1>8 DEF Verify
  <2>2. Fits(NoRun(m.kept), m.history)
    BY MatchableFits, NoRunFits
  <2>3. age' \in [Person -> 0 .. IngestCooldown]
    BY <1>1, <1>8, <2>1, EmitType
  <2>4. reachable = TRUE /\ failures < 3
    BY <1>1, <2>1 DEF Healthy, HealthConsistent
  <2>5. failures' \in Nat /\ reachable' \in BOOLEAN /\ HealthConsistent'
    <3>1. CASE serverUp
      BY <2>1, <3>1 DEF HealthConsistent
    <3>2. CASE ~serverUp
      <4>1. failures' = failures + 1
        BY <2>1, <3>2
      <4>2. reachable' = (reachable /\ ~Unreachable(failures + 1))
        BY <2>1, <3>2
      <4>3. CASE failures + 1 >= 3
        <5>1. reachable' = FALSE
          BY <4>2, <4>3 DEF Unreachable
        <5>2. failures' = 3
          BY <1>1, <2>4, <4>1, <4>3
        <5>3. HealthConsistent'
          BY <5>1, <5>2 DEF HealthConsistent
        <5> QED
          BY <5>1, <5>2, <5>3
      <4>4. CASE ~(failures + 1 >= 3)
        <5>1. reachable' = TRUE
          BY <2>4, <4>2, <4>4 DEF Unreachable
        <5> QED
          BY <1>1, <2>4, <4>1, <4>4, <5>1 DEF HealthConsistent
      <4> QED
        BY <4>3, <4>4
    <3> QED
      BY <3>1, <3>2
  <2> QED
    BY <2>1, <2>2, <2>3, <2>5, DoneInv
<1>9. CASE SkipVerify(t) \/ Leave(t)
  <2>1. PICK m \in Matchable(t) :
          /\ Done(t, NoRun(m.kept), m.history)
          /\ UNCHANGED <<age, failures, reachable>>
    BY <1>9 DEF SkipVerify, Leave
  <2>2. Fits(NoRun(m.kept), m.history)
    BY MatchableFits, NoRunFits
  <2> QED
    BY <1>1, <2>1, <2>2, DoneInv DEF HealthConsistent
<1> QED
  BY <1>2, <1>3, <1>4, <1>5, <1>6, <1>7, <1>8, <1>9 DEF Process

LEMMA Invariance == IInv /\ [Next]_vars => IInv'
<1> SUFFICES ASSUME IInv, [Next]_vars PROVE IInv'
  OBVIOUS
<1>1. ASSUME NEW v \in [Track -> {"none", "far", "near"}], Frame(v) PROVE IInv'
  BY <1>1, FrameInv
<1>2. ASSUME NEW t \in Track, Process(t) PROVE IInv'
  BY <1>2, ProcessInv
<1>3. CASE Toggle
  BY <1>3 DEF Toggle, IInv, TypeOK, HealthConsistent, BufferIsRecent
<1>4. CASE UNCHANGED vars
  BY <1>4 DEF vars, IInv, TypeOK, HealthConsistent, BufferIsRecent
<1> QED
  BY <1>1, <1>2, <1>3, <1>4 DEF Next, Loop

-----------------------------------------------------------------------------
(* The theorems.                                                           *)

\* Windows, streaks and runs of the frame loop never outgrow their limits,
\* whatever the knobs; no embedding in a buffer is older than the last
\* rejection or loss of its face; and the verifier is given up on only after
\* three failures in a row.
THEOREM LoopStaysSound == Spec => []LoopSound
<1>1. IInv => LoopSound
  <2> SUFFICES ASSUME IInv PROVE LoopSound
    OBVIOUS
  <2>1. failures \in Nat /\ (reachable <=> failures < 3)
    BY DEF IInv, TypeOK, HealthConsistent
  <2>2. GivenUpAfterThree
    BY <2>1 DEF GivenUpAfterThree
  <2> QED
    BY <2>2 DEF IInv, LoopSound
<1> QED
  BY <1>1, Initially, Invariance, PTL DEF Spec

\* Only a match or an answer of the verifier posts, and both need a full
\* buffer, which no face rejected or lost within the window has.
LEMMA PostNeedsCleanWindow ==
  ASSUME IInv, [Next]_vars, NEW p \in Person, Posts(p)
  PROVE  \E t \in todo \ todo' : seen'[t].clean >= Window
<1> USE DEF IInv
<1>1. age'[p] < age[p] /\ age[p] \in 0 .. IngestCooldown
  BY DEF Posts, TypeOK
<1>2. ASSUME NEW v \in [Track -> {"none", "far", "near"}], Frame(v) PROVE FALSE
  <2>1. age'[p] = Capped(age[p] + 1, IngestCooldown)
    BY <1>2 DEF Frame
  <2>2. Capped(age[p] + 1, IngestCooldown) >= age[p]
    BY <1>1, CappedRange, ConstantsNat
  <2>3. Capped(age[p] + 1, IngestCooldown) \in 0 .. IngestCooldown
    BY <1>1, CappedRange, ConstantsNat
  <2> QED
    BY <1>1, <2>1, <2>2, <2>3
<1>3. age' # age
  BY <1>1
<1>4. PICK t \in Track : (\E q \in Person : Match(t, q))
                        \/ (\E who \in Person \cup {Nobody} : Verify(t, who))
  BY <1>2, <1>3 DEF Next, Loop, Process, Lose, Distant, Reject, Hold, Buffering,
     SkipVerify, Leave, Toggle, vars
<1>5. PICK m \in Matchable(t) : \E x : Done(t, x, m.history)
  BY <1>4 DEF Match, Verify
<1>6. t \in todo /\ m.history \in History /\ m.history.clean >= Window
  BY MatchableFits DEF Fits
<1>7. seen'[t].clean = m.history.clean
  BY <1>5, <1>6 DEF Done, TypeOK, History
<1>8. t \in todo \ todo'
  BY <1>5, <1>6 DEF Done
<1> QED
  BY <1>6, <1>7, <1>8

\* Nobody is ever posted on account of a face that was rejected as a spoof,
\* or lost, less than a window of frames ago.
THEOREM SpoofsBlockPosts == Spec => SpoofBlocks
<1>1. IInv /\ [Next]_vars =>
        [\A p \in Person : Posts(p) =>
           \E t \in todo \ todo' : seen'[t].clean >= Window]_vars
  BY PostNeedsCleanWindow
<1> QED
  BY <1>1, Initially, Invariance, PTL DEF Spec, SpoofBlocks

-----------------------------------------------------------------------------
(* The two cadences.                                                       *)

\* No multiple of YunetN is one of EmbedN before the EmbedN-th.
Coprime == \A k \in 1 .. EmbedN - 1 : (k * YunetN) % EmbedN # 0

\* The counter after the frame of each round that detects and embeds.
Meeting(m) ==
  /\ m \in 0 .. Cycle - 1 /\ m % EmbedN = 0
  /\ \E c \in 0 .. Cycle - 1 : c % YunetN = 0 /\ m = IF c + 1 = Cycle THEN 0 ELSE c + 1

LEMMA Division ==
  ASSUME NEW k \in Nat, NEW d \in Nat \ {0}
  PROVE  k % d \in 0 .. d - 1 /\ \E q \in Nat : k = q * d + (k % d)
<1>1. k \div d \in Nat /\ k % d \in 0 .. d - 1
  OBVIOUS
<1>2. k = (k \div d) * d + (k % d)
  OBVIOUS
<1> QED
  BY <1>1, <1>2

LEMMA Remainder ==
  ASSUME NEW q \in Nat, NEW d \in Nat \ {0}, NEW r \in 0 .. d - 1
  PROVE  (q * d + r) % d = r
OBVIOUS

LEMMA NextRemainder ==
  ASSUME NEW k \in Nat, NEW d \in Nat \ {0}
  PROVE  (k + 1) % d = IF k % d = d - 1 THEN 0 ELSE (k % d) + 1
<1> DEFINE r == k % d
<1>1. PICK q \in Nat : k = q * d + r /\ r \in 0 .. d - 1
  BY Division
<1> HIDE DEF r
<1>2. CASE r = d - 1
  <2>1. k + 1 = (q + 1) * d + 0
    BY <1>1, <1>2
  <2>2. ((q + 1) * d + 0) % d = 0
    <3>1. q + 1 \in Nat /\ 0 \in 0 .. d - 1
      BY <1>1
    <3> QED
      BY <3>1, Remainder
  <2> QED
    BY <1>2, <2>1, <2>2 DEF r
<1>3. CASE r # d - 1
  <2>1. k + 1 = q * d + (r + 1) /\ r + 1 \in 0 .. d - 1
    BY <1>1, <1>3
  <2>2. (q * d + (r + 1)) % d = r + 1
    BY <1>1, <2>1, Remainder
  <2> QED
    BY <1>3, <2>1, <2>2 DEF r
<1> QED
  BY <1>2, <1>3

\* Cadences without a common divisor meet in every round: among the multiples
\* of YunetN there is one whose successor EmbedN divides.
LEMMA CadencesHaveMeeting ==
  ASSUME Coprime
  PROVE  \E m : Meeting(m)
<1> DEFINE Y == YunetN
           E == EmbedN
           rest == [k \in 0 .. E - 1 |-> (k * Y) % E]
<1>1. Y \in Nat \ {0} /\ E \in Nat \ {0}
  BY ConstantsNat
<1>2. \A k \in Nat : k * Y \in Nat
  BY <1>1
<1>3. rest \in [0 .. E - 1 -> 0 .. E - 1]
  BY <1>1, <1>2, Division
<1>4. ASSUME NEW j \in 0 .. E - 1, NEW k \in 0 .. E - 1, j < k,
             (j * Y) % E = (k * Y) % E
      PROVE  FALSE
  <2> DEFINE r == (j * Y) % E
  <2>0. PICK y \in Nat, z \in Nat : y = j * Y /\ z = k * Y
    BY <1>1, <1>2
  <2>1. PICK a \in Nat : j * Y = a * E + r /\ r \in 0 .. E - 1
    <3>1. y % E \in 0 .. E - 1 /\ \E q \in Nat : y = q * E + (y % E)
      BY <1>1, Division
    <3> QED
      BY <2>0, <3>1
  <2>2. PICK b \in Nat : k * Y = b * E + r
    <3>1. \E q \in Nat : z = q * E + (z % E)
      BY <1>1, Division
    <3>2. z % E = r
      BY <1>4, <2>0
    <3> QED
      BY <2>0, <3>1, <3>2
  <2> HIDE DEF r
  <2>3. (k - j) * Y = (b - a) * E /\ (k - j) * Y > 0
    BY <1>1, <1>4, <2>1, <2>2
  <2>4. b - a \in Nat
    BY <1>1, <2>1, <2>2, <2>3
  <2>5. ((b - a) * E + 0) % E = 0
    <3>1. 0 \in 0 .. E - 1
      BY <1>1
    <3> QED
      BY <1>1, <2>4, <3>1, Remainder
  <2>6. ((k - j) * Y) % E = 0
    BY <1>1, <2>3, <2>4, <2>5
  <2>7. k - j \in 1 .. E - 1
    BY <1>1, <1>4
  <2> QED
    BY <2>6, <2>7 DEF Coprime
<1>5. rest \in Injection(0 .. E - 1, 0 .. E - 1)
  <2>1. ASSUME NEW j \in 0 .. E - 1, NEW k \in 0 .. E - 1, rest[j] = rest[k]
        PROVE  j = k
    <3>1. j < k \/ k < j \/ j = k
      BY <1>1
    <3> QED
      BY <1>4, <2>1, <3>1
  <2> QED
    BY <1>3, <2>1, Fun_IsInj
<1>6. rest \in Surjection(0 .. E - 1, 0 .. E - 1)
  <2>1. IsFiniteSet(0 .. E - 1)
    BY <1>1, FS_Interval
  <2> QED
    BY <1>5, <2>1, FS_Injection
<1>7. PICK k \in 0 .. E - 1 : (k * Y) % E = E - 1
  <2>1. E - 1 \in 0 .. E - 1
    BY <1>1
  <2>2. PICK k \in 0 .. E - 1 : rest[k] = E - 1
    BY <1>6, <2>1 DEF Surjection
  <2> QED
    BY <2>2
<1> DEFINE c == k * Y
<1>8. PICK q \in Nat : c \in Nat /\ c = q * E + (E - 1)
  <2>1. PICK y \in Nat : y = c
    BY <1>1, <1>2
  <2>2. PICK q \in Nat : y = q * E + (y % E)
    BY <1>1, Division
  <2>3. y % E = E - 1
    BY <1>7, <2>1
  <2> QED
    BY <2>1, <2>2, <2>3
<1>9. c + 1 = (q + 1) * E + 0 /\ (c + 1) % E = 0
  <2>1. c + 1 = (q + 1) * E + 0
    BY <1>1, <1>8
  <2>2. q + 1 \in Nat /\ 0 \in 0 .. E - 1
    BY <1>1, <1>8
  <2>3. ((q + 1) * E + 0) % E = 0
    BY <1>1, <2>2, Remainder
  <2> QED
    BY <2>1, <2>3
<1>10. c % Y = 0
  <2>1. (k * Y + 0) % Y = 0
    <3>1. 0 \in 0 .. Y - 1 /\ k \in Nat
      BY <1>1
    <3> QED
      BY <1>1, <3>1, Remainder
  <2> QED
    BY <1>1, <1>8, <2>1
<1>11. c + 1 <= Cycle
  <2>1. k <= E - 1 /\ k \in Nat
    BY <1>1
  <2>2. c + Y <= E * Y
    BY <1>1, <2>1
  <2> QED
    BY <1>1, <1>8, <2>2 DEF Cycle
<1> DEFINE m == IF c + 1 = Cycle THEN 0 ELSE c + 1
<1>12. m \in 0 .. Cycle - 1 /\ c \in 0 .. Cycle - 1
  BY <1>8, <1>11, CycleNat
<1>13. m % E = 0
  BY <1>1, <1>9, 0 % E = 0
<1> QED
  BY <1>10, <1>12, <1>13 DEF Meeting

-----------------------------------------------------------------------------
(* What the loop leaves of a track.                                        *)

LEMMA VerdictTells ==
  ASSUME TypeOK, NEW t \in Track, NEW v \in Verdicts(t)
  PROVE  \E raw \in RawLabels(t) :
           /\ v.label = Smoothed(raw, v.kept.streak)
           /\ v.kept.last = IF skipped THEN track[t].last ELSE raw
           /\ v.kept.streak =
                IF raw = "SPOOF" THEN Capped(track[t].streak + 1, SpoofN) ELSE 0
           /\ v.history.spoofs =
                IF skipped THEN seen[t].spoofs
                ELSE IF raw = "SPOOF" THEN Capped(seen[t].spoofs + 1, SpoofN) ELSE 0
           /\ v.history.stale = seen[t].stale
<1>1. PICK raw \in RawLabels(t) :
        LET x == Voted(track[t], raw)
        IN  v = [label |-> Smoothed(raw, x.streak), kept |-> x,
                 history |-> IF skipped THEN seen[t]
                             ELSE [seen[t] EXCEPT !.spoofs =
                               IF raw = "SPOOF" THEN Capped(@ + 1, SpoofN) ELSE 0]]
  BY DEF Verdicts
<1> DEFINE a == IF skipped THEN track[t].votes ELSE Capped(track[t].votes + 1, Window)
           b == IF skipped THEN track[t].last ELSE raw
           c == IF raw = "SPOOF" THEN Capped(track[t].streak + 1, SpoofN) ELSE 0
           d == IF raw = "SPOOF" THEN Capped(seen[t].spoofs + 1, SpoofN) ELSE 0
<1>2. track[t] \in Kept /\ seen[t] \in History
  BY DEF TypeOK, Kept, History
<1>3. v.kept = [track[t] EXCEPT !.votes = a, !.last = b, !.streak = c]
  <2>1. Voted(track[t], raw) = [track[t] EXCEPT !.votes = a, !.last = b, !.streak = c]
    BY Zenon DEF Voted
  <2>2. v.kept = Voted(track[t], raw)
    BY <1>1
  <2> QED
    BY <2>1, <2>2
<1>4. v.history = IF skipped THEN seen[t] ELSE [seen[t] EXCEPT !.spoofs = d]
  BY <1>1
<1>5. v.label = Smoothed(raw, v.kept.streak)
  BY <1>1
<1> HIDE DEF a, b, c, d
<1>6. v.kept.last = b /\ v.kept.streak = c
  BY <1>2, <1>3 DEF Kept
<1>7. /\ v.history.spoofs = IF skipped THEN seen[t].spoofs ELSE d
      /\ v.history.stale = seen[t].stale
  BY <1>2, <1>4 DEF History
<1> QED
  BY <1>5, <1>6, <1>7 DEF b, c, d

LEMMA EmbeddedKeeps ==
  ASSUME NEW x \in Kept
  PROVE  /\ Embedded(x) \in Kept
         /\ Embedded(x).streak = x.streak /\ Embedded(x).last = x.last
         /\ Embedded(x).buffer >= x.buffer
<1>1. Capped(x.buffer + 1, Window) \in 0 .. Window /\ Capped(x.buffer + 1, Window) >= x.buffer
  BY CappedRange, ConstantsNat DEF Kept
<1> QED
  BY <1>1 DEF Embedded, Kept

\* One frame of a track: it is lost, out of range, or has a verdict.  A mean
\* embedding ages only while the cadences say so, and only a spoof empties
\* the buffer.
Outcome(t, x, h) ==
  \/ x = Fresh /\ h = Unseen /\ view[t] = "none"
  \/ view[t] = "far" /\ x = track[t] /\ h.spoofs = seen[t].spoofs /\ h.stale = 0
  \/ \E v \in Verdicts(t) :
       /\ x.streak = v.kept.streak /\ x.last = v.kept.last
       /\ h.spoofs = v.history.spoofs
       /\ \/ h.stale = 0
          \/ /\ h.stale = Capped(seen[t].stale + 1, Cycle)
             /\ skipped \/ count % EmbedN # 0
       /\ v.label = "SPOOF" \/ x.buffer >= track[t].buffer

LEMMA UnmatchedTells ==
  ASSUME NEW h \in History
  PROVE  /\ Unmatched(h) \in History
         /\ Unmatched(h).spoofs = h.spoofs /\ Unmatched(h).stale = 0
<1> DEFINE n == Capped(h.clean + 1, Window)
<1>1. n \in 0 .. Window
  BY CappedRange, ConstantsNat DEF History
<1>2. Unmatched(h) = [h EXCEPT !.clean = n, !.stale = 0]
  BY Zenon DEF Unmatched
<1> HIDE DEF n
<1>3. 0 \in 0 .. Cycle
  BY CycleNat
<1>4. [h EXCEPT !.clean = n, !.stale = 0] \in History
  BY <1>1, <1>3 DEF History
<1>5. /\ [h EXCEPT !.clean = n, !.stale = 0].spoofs = h.spoofs
      /\ [h EXCEPT !.clean = n, !.stale = 0].stale = 0
  BY DEF History
<1> QED
  BY <1>2, <1>4, <1>5

LEMMA MatchableTells ==
  ASSUME TypeOK, BufferIsRecent, NEW t \in Track, NEW m \in Matchable(t),
         NEW x, x = NoRun(m.kept) \/ \E r \in Run : x = [m.kept EXCEPT !.run = r]
  PROVE  Outcome(t, x, m.history)
<1>1. PICK v \in Verdicts(t) :
        /\ Embedded(v.kept).buffer >= Window
        /\ m = [kept |-> Embedded(v.kept), cropped |-> Embeds(v.kept),
                history |-> [v.history EXCEPT !.clean = Capped(@ + 1, Window),
                  !.stale = IF Embeds(v.kept) THEN 0 ELSE Capped(@ + 1, Cycle)]]
  BY DEF Matchable
<1> DEFINE n == Capped(v.history.clean + 1, Window)
           s == IF Embeds(v.kept) THEN 0 ELSE Capped(v.history.stale + 1, Cycle)
<1>2. /\ v.kept \in Kept /\ v.history \in History
      /\ v.kept.buffer = track[t].buffer /\ track[t].buffer \in 0 .. Window
  BY VerdictKeeps DEF TypeOK
<1>3. v.history.stale = seen[t].stale
  BY VerdictTells
<1>4. s = 0 \/ /\ s = Capped(seen[t].stale + 1, Cycle)
               /\ skipped \/ count % EmbedN # 0
  <2>1. CASE ~Embeds(v.kept)
    <3>1. v.kept.buffer >= Window
      BY <1>1, <2>1 DEF Embedded
    <3>2. ~(v.kept.buffer < Window)
      BY <1>2, <3>1, ConstantsNat
    <3>3. skipped \/ count % EmbedN # 0
      BY <2>1, <3>2 DEF Embeds
    <3> QED
      BY <1>3, <2>1, <3>3
  <2> QED
    BY <2>1
<1>5. m.kept = Embedded(v.kept) /\ m.history = [v.history EXCEPT !.clean = n, !.stale = s]
  BY <1>1
<1> HIDE DEF n, s
<1>6. m.history.spoofs = v.history.spoofs /\ m.history.stale = s
  BY <1>2, <1>5 DEF History
<1>7. /\ m.kept \in Kept
      /\ m.kept.streak = v.kept.streak /\ m.kept.last = v.kept.last
      /\ m.kept.buffer >= v.kept.buffer
  BY <1>2, <1>5, EmbeddedKeeps
<1>8. x.streak = m.kept.streak /\ x.last = m.kept.last /\ x.buffer = m.kept.buffer
  BY <1>7 DEF NoRun, Kept
<1> QED
  BY <1>2, <1>4, <1>6, <1>7, <1>8 DEF Outcome

LEMMA ProcessTells ==
  ASSUME IInv, NEW t \in Track, Process(t)
  PROVE  \E x, h : Done(t, x, h) /\ Outcome(t, x, h)
<1> USE DEF IInv
<1>1. CASE Lose(t)
  BY <1>1 DEF Lose, Outcome
<1>2. CASE Distant(t)
  <2>1. seen[t] \in History
    BY DEF TypeOK, History
  <2>2. Unmatched(seen[t]).spoofs = seen[t].spoofs /\ Unmatched(seen[t]).stale = 0
    BY <2>1, UnmatchedTells
  <2> QED
    BY <1>2, <2>2 DEF Distant, Outcome
<1>3. CASE Reject(t)
  <2>1. PICK v \in Verdicts(t) :
          /\ v.label = "SPOOF"
          /\ Done(t, [v.kept EXCEPT !.buffer = 0],
                  [Unmatched(v.history) EXCEPT !.clean = 0])
    BY <1>3 DEF Reject
  <2>2. v.kept \in Kept /\ v.history \in History
    BY VerdictKeeps
  <2>3. /\ Unmatched(v.history) \in History
        /\ Unmatched(v.history).spoofs = v.history.spoofs
        /\ Unmatched(v.history).stale = 0
    BY <2>2, UnmatchedTells
  <2> DEFINE x == [v.kept EXCEPT !.buffer = 0]
             h == [Unmatched(v.history) EXCEPT !.clean = 0]
  <2>4. x.streak = v.kept.streak /\ x.last = v.kept.last
    BY <2>2 DEF Kept
  <2>5. h.spoofs = v.history.spoofs /\ h.stale = 0
    BY <2>3 DEF History
  <2>6. Done(t, x, h)
    BY <2>1
  <2> HIDE DEF x, h
  <2> QED
    BY <2>1, <2>4, <2>5, <2>6 DEF Outcome
<1>4. CASE Hold(t)
  <2>1. PICK v \in Verdicts(t) : Done(t, v.kept, Unmatched(v.history))
    BY <1>4 DEF Hold
  <2>2. v.history \in History /\ v.kept.buffer = track[t].buffer
        /\ track[t].buffer \in 0 .. Window
    BY VerdictKeeps DEF TypeOK
  <2>3. Unmatched(v.history).spoofs = v.history.spoofs /\ Unmatched(v.history).stale = 0
    BY <2>2, UnmatchedTells
  <2>4. v.kept.buffer >= track[t].buffer
    BY <2>2
  <2> QED
    BY <2>1, <2>3, <2>4 DEF Outcome
<1>5. CASE Buffering(t)
  <2>1. PICK v \in Verdicts(t) : Done(t, Embedded(v.kept), Unmatched(v.history))
    BY <1>5 DEF Buffering
  <2>2. v.kept \in Kept /\ v.history \in History /\ v.kept.buffer = track[t].buffer
    BY VerdictKeeps
  <2>3. Unmatched(v.history).spoofs = v.history.spoofs /\ Unmatched(v.history).stale = 0
    BY <2>2, UnmatchedTells
  <2> QED
    BY <2>1, <2>2, <2>3, EmbeddedKeeps DEF Outcome
<1>6. ASSUME NEW p \in Person, Match(t, p)
      PROVE  \E x, h : Done(t, x, h) /\ Outcome(t, x, h)
  <2>1. PICK m \in Matchable(t) :
          Done(t, [m.kept EXCEPT !.run = Observed(m.kept.run, p, PersistN)], m.history)
    BY <1>6 DEF Match
  <2>2. m.kept.run \in Run
    BY MatchableFits DEF Fits, Kept
  <2>3. Observed(m.kept.run, p, PersistN) \in Run
    BY <2>2, RunCounts DEF Observed
  <2>4. PICK x : x = [m.kept EXCEPT !.run = Observed(m.kept.run, p, PersistN)]
    OBVIOUS
  <2>5. Outcome(t, x, m.history)
    BY <2>3, <2>4, MatchableTells
  <2> QED
    BY <2>1, <2>4, <2>5
<1>7. CASE (\E who \in Person \cup {Nobody} : Verify(t, who)) \/ SkipVerify(t) \/ Leave(t)
  <2>1. PICK m \in Matchable(t) : Done(t, NoRun(m.kept), m.history)
    BY <1>7 DEF Verify, SkipVerify, Leave
  <2>2. Outcome(t, NoRun(m.kept), m.history)
    BY MatchableTells
  <2> QED
    BY <2>1, <2>2
<1> QED
  BY <1>1, <1>2, <1>3, <1>4, <1>5, <1>6, <1>7 DEF Process

-----------------------------------------------------------------------------
(* Streaks are earned: the votes carried over a skipped frame never        *)
(* outnumber the frames a detection stands for.                            *)

\* Frames without detection until the next with it.
Left == IF count % YunetN = 0 THEN 0 ELSE YunetN - (count % YunetN)

Ahead(t) == IF t \in todo THEN Left + 1 ELSE Left

Earned(x, h) ==
  /\ x.streak <= h.spoofs * YunetN
  /\ x.last # "SPOOF" => x.streak = 0

\* The streak may go on over the next n frames.
Paid(x, h, n) ==
  x.last = "SPOOF" /\ h.spoofs < SpoofN => x.streak + n <= h.spoofs * YunetN

StreaksEarned ==
  /\ ~skipped /\ todo # {} => Left = YunetN - 1
  /\ \A t \in Track : Earned(track[t], seen[t])
  /\ \A t \in Track : view[t] = "near" /\ (t \in todo => skipped) =>
                        Paid(track[t], seen[t], Ahead(t))

LEMMA LeftNat == TypeOK => Left \in 0 .. YunetN - 1
<1> SUFFICES ASSUME TypeOK PROVE Left \in 0 .. YunetN - 1
  OBVIOUS
<1>1. count \in Nat /\ YunetN \in Nat \ {0}
  BY ConstantsNat, CycleNat DEF TypeOK
<1>2. count % YunetN \in 0 .. YunetN - 1
  BY <1>1, Division
<1> QED
  BY <1>1, <1>2 DEF Left

\* One detection pays for YunetN frames.
LEMMA OnePays ==
  ASSUME NEW s \in Nat
  PROVE  /\ s * YunetN \in Nat /\ (s + 1) * YunetN = s * YunetN + YunetN
         /\ s >= SpoofN => s * YunetN >= SpoofN
         /\ 0 * YunetN = 0
<1>1. YunetN \in Nat \ {0} /\ SpoofN \in Nat
  BY ConstantsNat
<1>2. s * YunetN \in Nat /\ (s + 1) * YunetN = s * YunetN + YunetN /\ 0 * YunetN = 0
  BY <1>1
<1>3. s * YunetN >= s
  BY <1>1
<1> QED
  BY <1>1, <1>2, <1>3

LEMMA VerdictEarned ==
  ASSUME IInv, StreaksEarned, NEW t \in Track, NEW v \in Verdicts(t)
  PROVE  /\ Earned(v.kept, v.history) /\ Paid(v.kept, v.history, Left)
         /\ v.label = "SPOOF" => v.history.spoofs * YunetN >= SpoofN
<1> DEFINE x == track[t]
           s == seen[t].spoofs
<1>1. PICK raw \in RawLabels(t) :
        /\ v.label = Smoothed(raw, v.kept.streak)
        /\ v.kept.last = IF skipped THEN x.last ELSE raw
        /\ v.kept.streak = IF raw = "SPOOF" THEN Capped(x.streak + 1, SpoofN) ELSE 0
        /\ v.history.spoofs = IF skipped THEN s
                              ELSE IF raw = "SPOOF" THEN Capped(s + 1, SpoofN) ELSE 0
  BY VerdictTells DEF IInv
<1>2. t \in todo /\ view[t] = "near"
  BY DEF Verdicts
<1>3. x.streak \in 0 .. SpoofN /\ s \in 0 .. SpoofN
  BY DEF IInv, TypeOK
<1>4. YunetN \in Nat \ {0} /\ SpoofN \in Nat \ {0} /\ Left \in 0 .. YunetN - 1
  BY ConstantsNat, LeftNat DEF IInv
<1>5. /\ Capped(x.streak + 1, SpoofN) =
           IF x.streak + 1 <= SpoofN THEN x.streak + 1 ELSE SpoofN
      /\ Capped(s + 1, SpoofN) = IF s + 1 <= SpoofN THEN s + 1 ELSE SpoofN
  BY <1>3, <1>4, CappedValue, x.streak + 1 \in Nat, s + 1 \in Nat
<1>6. Earned(x, seen[t])
  BY DEF StreaksEarned
<1>7. Earned(v.kept, v.history) /\ Paid(v.kept, v.history, Left)
  <2>1. CASE raw # "SPOOF"
    <3>1. v.kept.streak = 0
      BY <1>1, <2>1
    <3>2. v.history.spoofs \in Nat
      BY <1>1, <1>3, <2>1
    <3>3. v.kept.last # "SPOOF"
      BY <1>1, <1>2, <2>1 DEF RawLabels
    <3> QED
      BY <3>1, <3>2, <3>3, OnePays DEF Earned, Paid
  <2>2. CASE raw = "SPOOF" /\ ~skipped
    <3>1. Left = YunetN - 1
      BY <1>2, <2>2 DEF StreaksEarned
    <3>2. s * YunetN \in Nat /\ (s + 1) * YunetN = s * YunetN + YunetN
      BY <1>3, OnePays
    <3>3. v.history.spoofs = IF s + 1 <= SpoofN THEN s + 1 ELSE SpoofN
      BY <1>1, <1>5, <2>2
    <3>4. v.kept.streak = IF x.streak + 1 <= SpoofN THEN x.streak + 1 ELSE SpoofN
      BY <1>1, <1>5, <2>2
    <3>5. v.kept.last = "SPOOF"
      BY <1>1, <2>2
    <3>6. x.streak <= s * YunetN
      BY <1>6 DEF Earned
    <3>7. CASE s + 1 <= SpoofN
      <4>1. v.history.spoofs * YunetN = s * YunetN + YunetN
        BY <3>2, <3>3, <3>7
      <4>2. v.kept.streak <= x.streak + 1
        BY <1>3, <1>4, <3>4
      <4>3. v.kept.streak \in Nat
        BY <1>3, <1>4, <3>4
      <4>4. v.kept.streak + Left <= v.history.spoofs * YunetN
        BY <1>3, <1>4, <3>1, <3>2, <3>6, <4>1, <4>2, <4>3
      <4>5. v.kept.streak <= v.history.spoofs * YunetN
        BY <1>3, <1>4, <3>2, <3>6, <4>1, <4>2, <4>3
      <4> QED
        BY <3>5, <4>4, <4>5 DEF Earned, Paid
    <3>8. CASE ~(s + 1 <= SpoofN)
      <4>1. v.history.spoofs = SpoofN
        BY <3>3, <3>8
      <4>2. SpoofN * YunetN >= SpoofN /\ SpoofN * YunetN \in Nat
        BY <1>4, OnePays
      <4>3. v.kept.streak <= SpoofN /\ v.kept.streak \in Nat
        BY <1>3, <1>4, <3>4
      <4> QED
        BY <1>4, <3>5, <4>1, <4>2, <4>3 DEF Earned, Paid
    <3> QED
      BY <3>7, <3>8
  <2>3. CASE raw = "SPOOF" /\ skipped
    <3>1. x.last = "SPOOF"
      BY <2>3 DEF RawLabels
    <3>2. Paid(x, seen[t], Left + 1)
      BY <1>2, <2>3 DEF StreaksEarned, Ahead
    <3>3. s * YunetN \in Nat /\ (s >= SpoofN => s * YunetN >= SpoofN)
      BY <1>3, OnePays
    <3>4. v.history.spoofs = s /\ v.kept.last = "SPOOF"
      BY <1>1, <2>3, <3>1
    <3>5. v.kept.streak = IF x.streak + 1 <= SpoofN THEN x.streak + 1 ELSE SpoofN
      BY <1>1, <1>5, <2>3
    <3>6. CASE s < SpoofN
      <4>1. x.streak + (Left + 1) <= s * YunetN
        BY <3>1, <3>2, <3>6 DEF Paid
      <4>2. v.kept.streak + Left <= s * YunetN /\ v.kept.streak <= s * YunetN
        BY <1>3, <1>4, <3>3, <3>5, <4>1
      <4> QED
        BY <3>4, <4>2 DEF Earned, Paid
    <3>7. CASE ~(s < SpoofN)
      <4>1. v.kept.streak <= s * YunetN
        BY <1>3, <1>4, <3>3, <3>5, <3>7
      <4> QED
        BY <3>4, <3>7, <4>1 DEF Earned, Paid
    <3> QED
      BY <3>6, <3>7
  <2> QED
    BY <2>1, <2>2, <2>3
<1>8. v.label = "SPOOF" => v.history.spoofs * YunetN >= SpoofN
  <2> SUFFICES ASSUME v.label = "SPOOF" PROVE v.history.spoofs * YunetN >= SpoofN
    OBVIOUS
  <2>1. raw = "SPOOF" /\ ~(v.kept.streak < SpoofN)
    BY <1>1 DEF Smoothed
  <2>2. v.kept.streak \in Nat
    BY <1>1, <1>3, <1>4, <1>5, <2>1
  <2>3. v.history.spoofs \in Nat
    BY <1>1, <1>3, <1>4, <1>5
  <2>4. v.history.spoofs * YunetN \in Nat
    BY <2>3, OnePays
  <2>5. v.kept.streak <= v.history.spoofs * YunetN
    BY <1>7 DEF Earned
  <2> QED
    BY <1>4, <2>1, <2>2, <2>4, <2>5
<1> QED
  BY <1>7, <1>8

LEMMA StreaksStart == Init => StreaksEarned
<1> SUFFICES ASSUME Init PROVE StreaksEarned
  OBVIOUS
<1>1. 0 \in Nat /\ 0 * YunetN = 0
  BY OnePays
<1>2. \A t \in Track : track[t] = Fresh /\ seen[t] = Unseen /\ view[t] = "none"
  BY DEF Init
<1>3. \A t \in Track : Earned(track[t], seen[t])
  BY <1>1, <1>2 DEF Earned, Fresh, Unseen
<1>4. todo = {}
  BY DEF Init
<1> QED
  BY <1>2, <1>3, <1>4 DEF StreaksEarned

\* The frame counter starts over at Cycle, which YunetN divides.
LEMMA NextLeft ==
  ASSUME TypeOK, count' = (count + 1) % Cycle
  PROVE  Left' = IF Left = 0 THEN YunetN - 1 ELSE Left - 1
<1> DEFINE Y == YunetN
           r == count % Y
<1>1. Y \in Nat \ {0} /\ Cycle \in Nat \ {0} /\ count \in 0 .. Cycle - 1
  BY ConstantsNat, CycleNat DEF TypeOK
<1>2. r \in 0 .. Y - 1
  BY <1>1, Division
<1>3. (count + 1) % Y = IF r = Y - 1 THEN 0 ELSE r + 1
  <2>1. count \in Nat
    BY <1>1
  <2> QED
    BY <1>1, <2>1, NextRemainder, Zenon
<1>4. count' % Y = (count + 1) % Y
  <2>1. CASE count + 1 < Cycle
    <3>1. count' = count + 1
      BY <1>1, <2>1
    <3> QED
      BY <3>1
  <2>2. CASE count + 1 = Cycle
    <3>1. count' = 0
      BY <1>1, <2>2
    <3>2. 0 \in 0 .. Y - 1 /\ 0 * Y + 0 = 0
      BY <1>1
    <3>3. 0 % Y = 0
      BY <1>1, <3>2, Remainder
    <3>4. EmbedN \in Nat /\ Cycle = EmbedN * Y + 0
      BY <1>1, ConstantsNat DEF Cycle
    <3>5. (EmbedN * Y + 0) % Y = 0
      BY <1>1, <3>2, <3>4, Remainder
    <3> QED
      BY <2>2, <3>1, <3>3, <3>4, <3>5
  <2> QED
    BY <1>1, <2>1, <2>2
<1>5. Left = IF r = 0 THEN 0 ELSE Y - r
  BY DEF Left
<1>6. PICK n : n = count' % Y
  OBVIOUS
<1>7. Left' = IF n = 0 THEN 0 ELSE Y - n
  BY <1>6 DEF Left
<1> HIDE DEF r
<1> QED
  BY <1>1, <1>2, <1>3, <1>4, <1>5, <1>6, <1>7

LEMMA StreaksFrame ==
  ASSUME IInv, StreaksEarned, NEW v \in [Track -> {"none", "far", "near"}], Frame(v)
  PROVE  StreaksEarned'
<1>1. Left \in 0 .. YunetN - 1 /\ YunetN \in Nat \ {0}
  BY LeftNat, ConstantsNat DEF IInv
<1>2. Left' = IF Left = 0 THEN YunetN - 1 ELSE Left - 1
  BY NextLeft DEF IInv, Frame
<1>3. skipped' <=> Left # 0
  <2>1. PICK n : n = count % YunetN
    OBVIOUS
  <2>2. n \in 0 .. YunetN - 1
    <3>1. count \in Nat
      BY CycleNat DEF IInv, TypeOK
    <3> QED
      BY <1>1, <2>1, <3>1, Division
  <2>3. Left = IF n = 0 THEN 0 ELSE YunetN - n
    BY <2>1 DEF Left
  <2>4. skipped' <=> n # 0
    BY <2>1, Zenon DEF Frame
  <2>5. n # 0 <=> Left # 0
    BY <1>1, <2>2, <2>3
  <2> QED
    BY <2>4, <2>5, Zenon
<1>4. track' = track /\ seen' = seen /\ todo = {} /\ todo' = Track
  BY DEF Frame
<1>5. \A t \in Track : Earned(track[t], seen[t])'
  BY <1>4 DEF StreaksEarned
<1>6. ~skipped' => Left' = YunetN - 1
  BY <1>2, <1>3
<1>7. ASSUME NEW t \in Track, skipped', view'[t] = "near"
      PROVE  Paid(track[t], seen[t], Ahead(t))'
  <2>1. view[t] = "near"
    BY <1>7 DEF Frame
  <2>2. Paid(track[t], seen[t], Ahead(t))
    BY <1>4, <2>1 DEF StreaksEarned
  <2>3. Ahead(t) = Left
    BY <1>4 DEF Ahead
  <2>4. Ahead(t)' = Left
    BY <1>1, <1>2, <1>3, <1>4, <1>7 DEF Ahead
  <2> QED
    BY <1>4, <2>2, <2>3, <2>4 DEF Paid
<1> QED
  BY <1>4, <1>5, <1>6, <1>7 DEF StreaksEarned

LEMMA StreaksProcess ==
  ASSUME IInv, StreaksEarned, NEW t \in Track, Process(t)
  PROVE  /\ StreaksEarned'
         /\ \A u \in Track : Rejects(u) => seen'[u].spoofs * YunetN >= SpoofN
<1>1. PICK x, h : Done(t, x, h) /\ Outcome(t, x, h)
  BY ProcessTells
<1>2. /\ track' = [track EXCEPT ![t] = x] /\ seen' = [seen EXCEPT ![t] = h]
      /\ todo' = todo \ {t}
      /\ count' = count /\ skipped' = skipped /\ view' = view
  BY <1>1 DEF Done
<1>3. track'[t] = x /\ seen'[t] = h
  BY <1>2 DEF IInv, TypeOK
<1>4. \A u \in Track : u # t => track'[u] = track[u] /\ seen'[u] = seen[u]
  BY <1>2 DEF IInv, TypeOK
<1>5. Left' = Left
  BY <1>2 DEF Left
<1>6. Earned(x, h) /\ (view[t] = "near" => Paid(x, h, Left))
  <2>1. CASE x = Fresh /\ h = Unseen /\ view[t] = "none"
    BY <2>1, OnePays DEF Earned, Fresh, Unseen
  <2>2. CASE view[t] = "far" /\ x = track[t] /\ h.spoofs = seen[t].spoofs
    BY <2>2 DEF StreaksEarned, Earned
  <2>3. ASSUME NEW v \in Verdicts(t), x.streak = v.kept.streak, x.last = v.kept.last,
               h.spoofs = v.history.spoofs
        PROVE  Earned(x, h) /\ Paid(x, h, Left)
    BY <2>3, VerdictEarned DEF Earned, Paid
  <2> QED
    BY <1>1, <2>1, <2>2, <2>3 DEF Outcome
<1>7. StreaksEarned'
  <2>1. ~skipped' /\ todo' # {} => Left' = YunetN - 1
    BY <1>2, <1>5 DEF StreaksEarned
  <2>2. ASSUME NEW u \in Track PROVE Earned(track[u], seen[u])'
    BY <1>3, <1>4, <1>6 DEF StreaksEarned, Earned
  <2>3. ASSUME NEW u \in Track, view'[u] = "near", u \in todo' => skipped'
        PROVE  Paid(track[u], seen[u], Ahead(u))'
    <3>1. CASE u = t
      <4>1. Ahead(u)' = Left
        BY <1>2, <1>5, <3>1 DEF Ahead
      <4>2. Paid(x, h, Left)
        BY <1>2, <1>6, <2>3, <3>1
      <4> QED
        BY <1>3, <3>1, <4>1, <4>2 DEF Paid
    <3>2. CASE u # t
      <4>1. Ahead(u)' = Ahead(u) /\ (u \in todo' <=> u \in todo)
        BY <1>2, <1>5, <3>2 DEF Ahead
      <4>2. Paid(track[u], seen[u], Ahead(u))
        BY <1>2, <2>3, <4>1 DEF StreaksEarned
      <4> QED
        BY <1>4, <3>2, <4>1, <4>2 DEF Paid
    <3> QED
      BY <3>1, <3>2
  <2> QED
    BY <2>1, <2>2, <2>3 DEF StreaksEarned
<1>8. ASSUME NEW u \in Track, Rejects(u)
      PROVE  seen'[u].spoofs * YunetN >= SpoofN
  <2>1. /\ track[u].buffer \in Nat /\ track[u].buffer > 0
        /\ track'[u].buffer = 0 /\ view[u] = "near"
    BY <1>8 DEF Rejects, IInv, TypeOK
  <2>2. u = t
    BY <1>4, <2>1
  <2>3. PICK v \in Verdicts(t) :
          h.spoofs = v.history.spoofs /\ (v.label = "SPOOF" \/ x.buffer >= track[t].buffer)
    BY <1>1, <2>1, <2>2 DEF Outcome
  <2>4. v.label = "SPOOF"
    BY <1>3, <2>1, <2>2, <2>3
  <2> QED
    BY <1>3, <2>2, <2>3, <2>4, VerdictEarned
<1> QED
  BY <1>7, <1>8

LEMMA StreaksStep ==
  ASSUME IInv, StreaksEarned, [Next]_vars
  PROVE  /\ StreaksEarned'
         /\ [\A t \in Track : Rejects(t) => seen'[t].spoofs * YunetN >= SpoofN]_vars
<1>1. ASSUME NEW v \in [Track -> {"none", "far", "near"}], Frame(v)
      PROVE  StreaksEarned' /\ \A t \in Track : ~Rejects(t)
  <2>1. StreaksEarned'
    BY <1>1, StreaksFrame
  <2>2. \A t \in Track : ~Rejects(t)
    BY <1>1 DEF Frame, Rejects, IInv, TypeOK
  <2> QED
    BY <2>1, <2>2
<1>2. ASSUME NEW t \in Track, Process(t)
      PROVE  /\ StreaksEarned'
             /\ \A u \in Track : Rejects(u) => seen'[u].spoofs * YunetN >= SpoofN
  BY <1>2, StreaksProcess
<1>3. CASE Toggle \/ UNCHANGED vars
  <2>1. UNCHANGED <<count, skipped, view, todo, track, seen>>
    BY <1>3 DEF Toggle, vars
  <2>2. Left' = Left
    BY <2>1 DEF Left
  <2>3. StreaksEarned'
    BY <2>1, <2>2 DEF StreaksEarned, Earned, Paid, Ahead
  <2>4. \A t \in Track : ~Rejects(t)
    BY <2>1 DEF Rejects, IInv, TypeOK
  <2> QED
    BY <2>3, <2>4
<1> QED
  BY <1>1, <1>2, <1>3 DEF Next, Loop

\* A face is rejected only on spoof votes in a row that, with the frames they
\* are carried over, make up the required streak: no vote of another kind and
\* no lost track in between, whatever the cadence of the detector.
THEOREM RejectionsAreEarned == Spec => SpoofStreak
<1>1. Init => IInv /\ StreaksEarned
  BY Initially, StreaksStart
<1>2. IInv /\ StreaksEarned /\ [Next]_vars =>
        /\ (IInv /\ StreaksEarned)'
        /\ [\A t \in Track : Rejects(t) => seen'[t].spoofs * YunetN >= SpoofN]_vars
  BY Invariance, StreaksStep
<1> QED
  BY <1>1, <1>2, PTL DEF Spec, SpoofStreak

-----------------------------------------------------------------------------
(* The mean embedding stays fresh: it is renewed whenever both cadences    *)
(* meet, which coprime cadences do once a round.                           *)

\* Frames since the counter stood at m.
Since(m) == IF count >= m THEN count - m ELSE count + Cycle - m

\* The frame that is going on counts only when the loop has come to the track.
FreshSince(m) ==
  /\ count = m /\ todo # {} => ~skipped
  /\ \A t \in Track :
       seen[t].stale <= IF t \notin todo THEN Since(m)
                        ELSE IF Since(m) = 0 THEN Cycle - 1 ELSE Since(m) - 1

LEMMA SinceRange ==
  ASSUME TypeOK, NEW m \in 0 .. Cycle - 1
  PROVE  Since(m) \in 0 .. Cycle - 1 /\ (Since(m) = 0 <=> count = m)
BY CycleNat DEF TypeOK, Since

LEMMA FreshStart ==
  ASSUME Init, NEW m \in 0 .. Cycle - 1
  PROVE  FreshSince(m)
<1>1. Since(m) \in 0 .. Cycle - 1
  BY Initially, SinceRange DEF IInv
<1>2. \A t \in Track : seen[t].stale = 0
  BY DEF Init, Unseen
<1>3. todo = {}
  BY DEF Init
<1> QED
  BY <1>1, <1>2, <1>3 DEF FreshSince

LEMMA FreshFrame ==
  ASSUME TypeOK, NEW m, Meeting(m), FreshSince(m),
         NEW v \in [Track -> {"none", "far", "near"}], Frame(v)
  PROVE  FreshSince(m)'
<1>1. /\ count \in 0 .. Cycle - 1 /\ Cycle \in Nat \ {0}
      /\ m \in 0 .. Cycle - 1
  BY CycleNat DEF TypeOK, Meeting
<1>2. todo = {} /\ todo' = Track /\ seen' = seen
  BY DEF Frame
<1>3. count' = IF count + 1 = Cycle THEN 0 ELSE count + 1
  <2>1. CASE count + 1 = Cycle
    BY <1>1, <2>1 DEF Frame
  <2>2. CASE count + 1 < Cycle
    BY <1>1, <2>2 DEF Frame
  <2> QED
    BY <1>1, <2>1, <2>2
<1>4. ASSUME count' = m PROVE ~skipped'
  <2>1. PICK c \in 0 .. Cycle - 1 :
          c % YunetN = 0 /\ m = IF c + 1 = Cycle THEN 0 ELSE c + 1
    BY DEF Meeting
  <2>2. c = count
    BY <1>1, <1>3, <1>4, <2>1
  <2> QED
    BY <2>1, <2>2 DEF Frame
<1>5. Since(m)' = IF Since(m) = Cycle - 1 THEN 0 ELSE Since(m) + 1
  BY <1>1, <1>3 DEF Since
<1>6. ASSUME NEW t \in Track
      PROVE  seen'[t].stale <= IF Since(m)' = 0 THEN Cycle - 1 ELSE Since(m)' - 1
  <2>1. seen[t].stale <= Since(m) /\ Since(m) \in 0 .. Cycle - 1
    BY <1>1, <1>2, SinceRange DEF FreshSince
  <2> QED
    BY <1>1, <1>2, <1>5, <2>1
<1> QED
  BY <1>2, <1>4, <1>6 DEF FreshSince

LEMMA FreshProcess ==
  ASSUME IInv, NEW m, Meeting(m), FreshSince(m), NEW t \in Track, Process(t)
  PROVE  FreshSince(m)'
<1>1. PICK x, h : Done(t, x, h) /\ Outcome(t, x, h)
  BY ProcessTells
<1>2. /\ seen' = [seen EXCEPT ![t] = h] /\ todo' = todo \ {t}
      /\ count' = count /\ skipped' = skipped
  BY <1>1 DEF Done
<1>3. seen'[t] = h /\ \A u \in Track : u # t => seen'[u] = seen[u]
  BY <1>2 DEF IInv, TypeOK
<1>4. t \in todo
  BY DEF Process, Lose, Distant, Reject, Hold, Buffering, Match, Verify, SkipVerify,
     Leave, Matchable, Verdicts
<1>5. Cycle \in Nat \ {0} /\ m \in 0 .. Cycle - 1 /\ m % EmbedN = 0
  BY CycleNat DEF Meeting
<1>6. Since(m)' = Since(m) /\ Since(m) \in 0 .. Cycle - 1
  BY <1>2, <1>5, SinceRange DEF IInv, Since
<1>7. h.stale <= Since(m)
  <2>1. CASE h.stale = 0
    BY <1>6, <2>1
  <2>2. CASE h.stale # 0
    <3>0. /\ h.stale = Capped(seen[t].stale + 1, Cycle)
          /\ skipped \/ count % EmbedN # 0
      BY <1>1, <2>2 DEF Outcome, Unseen
    <3>1. Since(m) # 0
      BY <1>4, <1>5, <3>0, SinceRange DEF FreshSince, IInv
    <3>2. seen[t].stale <= Since(m) - 1 /\ seen[t].stale \in Nat
      BY <1>4, <3>1 DEF FreshSince, IInv, TypeOK
    <3>3. seen[t].stale + 1 \in Nat /\ seen[t].stale + 1 <= Cycle
      BY <1>5, <1>6, <3>2
    <3>4. h.stale = seen[t].stale + 1
      BY <1>5, <3>0, <3>3, CappedValue
    <3> QED
      BY <1>6, <3>2, <3>4
  <2> QED
    BY <2>1, <2>2
<1>8. ASSUME NEW u \in Track
      PROVE  seen'[u].stale <= IF u \notin todo' THEN Since(m)
                               ELSE IF Since(m) = 0 THEN Cycle - 1 ELSE Since(m) - 1
  BY <1>2, <1>3, <1>7 DEF FreshSince
<1>9. count' = m /\ todo' # {} => ~skipped'
  BY <1>2 DEF FreshSince
<1> QED
  BY <1>6, <1>8, <1>9 DEF FreshSince

LEMMA FreshStep ==
  ASSUME IInv, NEW m, Meeting(m), FreshSince(m), [Next]_vars
  PROVE  FreshSince(m)'
<1>1. ASSUME NEW v \in [Track -> {"none", "far", "near"}], Frame(v)
      PROVE  FreshSince(m)'
  BY <1>1, FreshFrame DEF IInv
<1>2. ASSUME NEW t \in Track, Process(t) PROVE FreshSince(m)'
  BY <1>2, FreshProcess
<1>3. CASE Toggle \/ UNCHANGED vars
  BY <1>3 DEF Toggle, vars, FreshSince, Since
<1> QED
  BY <1>1, <1>2, <1>3 DEF Next, Loop

LEMMA FreshEnough ==
  ASSUME IInv, NEW m, Meeting(m), FreshSince(m)
  PROVE  EmbeddingFresh
<1>1. Since(m) \in 0 .. Cycle - 1 /\ Cycle \in Nat \ {0}
  BY CycleNat, SinceRange DEF IInv, Meeting
<1>2. \A t \in Track : seen[t].stale \in Nat
  BY DEF IInv, TypeOK
<1> QED
  BY <1>1, <1>2 DEF FreshSince, EmbeddingFresh

\* While a face stays real and is matched, the mean embedding it is matched
\* by is never older than one round of both cadences, for every two cadences
\* without a common divisor; with one, detection and embedding may miss each
\* other for good.
THEOREM EmbeddingsStayFresh == Coprime /\ Spec => []EmbeddingFresh
<1> SUFFICES ASSUME Coprime PROVE Spec => []EmbeddingFresh
  OBVIOUS
<1>1. PICK m : Meeting(m)
  BY CadencesHaveMeeting
<1>2. Init => IInv /\ FreshSince(m)
  BY <1>1, Initially, FreshStart DEF Meeting
<1>3. IInv /\ FreshSince(m) /\ [Next]_vars => (IInv /\ FreshSince(m))'
  BY <1>1, Invariance, FreshStep
<1>4. IInv /\ FreshSince(m) => EmbeddingFresh
  BY <1>1, FreshEnough
<1> QED
  BY <1>2, <1>3, <1>4, PTL DEF Spec

\* The two cadences, of detection and of embedding, meet: coprime, they renew
\* every embedding in every round, and the labels they carry over never add
\* up to a rejection of their own.
THEOREM CadencesDoMeet == Coprime /\ Spec => CadencesMeet
BY EmbeddingsStayFresh, RejectionsAreEarned, PTL DEF CadencesMeet

-----------------------------------------------------------------------------
(***************************************************************************)
(* FaceTracks, for every set of people and of boxes, and every reach,      *)
(* persistence and length of history.                                      *)
(*                                                                         *)
(* That a standing face keeps its track hangs on suppress_overlapping: of  *)
(* two boxes with one centre one covers the other, so that in what is kept *)
(* no two have their centre in common, and a track on whose box a face is  *)
(* aims at that face and no other.  ApartFromEach is that fact.            *)
(* EmptyRoomClears needs MissedThroughout: no track has been missed for    *)
(* fewer frames than there was nobody.                                     *)
(***************************************************************************)
TracksSpec == TracksInit /\ [][TracksNext]_tracksVars

Face == [who : Visitor, box : Box]

\* No two detections of a frame have one centre.
ApartFromEach(found) ==
  \A i, j \in DOMAIN found : i # j => Apart(found[i].box, found[j].box) # 0

MissedThroughout == \A id \in DOMAIN objects : disappeared[id] >= quiet

TracksInv ==
  /\ TracksTypeOK
  /\ objects \in [DOMAIN objects -> Box] /\ DOMAIN objects \subseteq Nat
  /\ \A id \in DOMAIN buffers : \E S : buffers[id] \in Seq(S)
  /\ faces \in Seq(Face)
  /\ MissedThroughout
  /\ NothingLeftBehind
  /\ FacesAreTracked

-----------------------------------------------------------------------------
(* Boxes.                                                                  *)

LEMMA LargerOfTwo ==
  ASSUME NEW a \in Int, NEW b \in Int
  PROVE  Max({a, b}) = IF a >= b THEN a ELSE b
<1> DEFINE S == {a, b}
           m == IF a >= b THEN a ELSE b
<1>1. m \in S /\ \A y \in S : m >= y
  OBVIOUS
<1>2. \A x \in S : (\A y \in S : x >= y) => x = m
  OBVIOUS
<1>3. Max(S) \in S /\ \A y \in S : Max(S) >= y
  <2>1. PICK x \in S : \A y \in S : x >= y
    BY <1>1
  <2> QED
    BY <2>1, Zenon DEF Max
<1> QED
  BY <1>2, <1>3

LEMMA SmallerOfTwo ==
  ASSUME NEW a \in Int, NEW b \in Int
  PROVE  Min({a, b}) = IF a <= b THEN a ELSE b
<1> DEFINE S == {a, b}
           m == IF a <= b THEN a ELSE b
<1>1. m \in S /\ \A y \in S : m <= y
  OBVIOUS
<1>2. \A x \in S : (\A y \in S : x <= y) => x = m
  OBVIOUS
<1>3. Min(S) \in S /\ \A y \in S : Min(S) <= y
  <2>1. PICK x \in S : \A y \in S : x <= y
    BY <1>1
  <2> QED
    BY <2>1, Zenon DEF Min
<1> QED
  BY <1>2, <1>3

\* How far two intervals overlap.
LEMMA OverlapOfTwo ==
  ASSUME NEW a \in Box, NEW b \in Box
  PROVE  LET from == IF a.x >= b.x THEN a.x ELSE b.x
             to   == IF a.x + a.w <= b.x + b.w THEN a.x + a.w ELSE b.x + b.w
         IN  Overlap(a, b) = IF to >= from THEN to - from ELSE 0
<1> DEFINE from == IF a.x >= b.x THEN a.x ELSE b.x
           to   == IF a.x + a.w <= b.x + b.w THEN a.x + a.w ELSE b.x + b.w
<1>1. a.x \in Int /\ b.x \in Int /\ a.w \in Nat /\ b.w \in Nat
  BY TracksAssumption
<1>2. Max({a.x, b.x}) = from
  BY <1>1, LargerOfTwo
<1>3. Min({a.x + a.w, b.x + b.w}) = to
  <2>1. a.x + a.w \in Int /\ b.x + b.w \in Int
    BY <1>1
  <2> QED
    BY <2>1, SmallerOfTwo
<1>4. from \in Int /\ to \in Int
  BY <1>1
<1>5. Overlap(a, b) = Max({0, to - from})
  BY <1>2, <1>3 DEF Overlap
<1> HIDE DEF from, to
<1>6. Max({0, to - from}) = IF 0 >= to - from THEN 0 ELSE to - from
  BY <1>4, LargerOfTwo
<1> QED
  BY <1>4, <1>5, <1>6 DEF from, to

\* What is used of it.
LEMMA BoxFacts ==
  ASSUME NEW a \in Box, NEW b \in Box
  PROVE  /\ Overlap(a, b) \in Nat /\ Union(a, b) \in Nat /\ Union(a, b) > 0 /\ Apart(a, b) \in Nat
         /\ Overlap(a, a) = a.w /\ Union(a, a) = a.w /\ a.w \in Nat /\ a.w > 0
         /\ Apart(a, a) = 0 /\ On(a, a)
         /\ Overlap(a, b) <= Union(a, b)
         /\ Overlap(a, b) = Union(a, b) => Apart(a, b) = 0
         /\ Apart(a, b) = Apart(b, a)
         /\ Apart(a, b) = 0 => Covers(a, b)
<1>1. a.x \in Int /\ b.x \in Int /\ a.w \in Nat \ {0} /\ b.w \in Nat \ {0}
  BY TracksAssumption
<1> DEFINE o == Overlap(a, b)
<1>2. LET from == IF a.x >= b.x THEN a.x ELSE b.x
          to   == IF a.x + a.w <= b.x + b.w THEN a.x + a.w ELSE b.x + b.w
      IN  o = IF to >= from THEN to - from ELSE 0
  BY OverlapOfTwo
<1>3. Overlap(a, a) = a.w
  <2>1. LET from == IF a.x >= a.x THEN a.x ELSE a.x
            to   == IF a.x + a.w <= a.x + a.w THEN a.x + a.w ELSE a.x + a.w
        IN  Overlap(a, a) = IF to >= from THEN to - from ELSE 0
    BY OverlapOfTwo
  <2> QED
    BY <1>1, <2>1
<1> HIDE DEF o
<1>4. o \in Nat /\ o <= a.w /\ o <= b.w
  BY <1>1, <1>2
<1>5. Union(a, b) = a.w + b.w - o /\ Union(a, a) = a.w
  BY <1>1, <1>3 DEF o, Union
<1>6. Apart(a, a) = 0 /\ Apart(a, b) \in Nat /\ Apart(a, b) = Apart(b, a)
      /\ (Apart(a, b) = 0 => 2 * a.x + a.w = 2 * b.x + b.w)
      /\ (2 * a.x + a.w = 2 * b.x + b.w => Apart(a, b) = 0)
  BY <1>1 DEF Apart
<1>7. o = Union(a, b) => a.w = b.w /\ o = a.w
  BY <1>1, <1>4, <1>5
<1>8. a.w = b.w /\ o = a.w => a.x = b.x
  BY <1>1, <1>2
<1>9. 2 * a.x + a.w = 2 * b.x + b.w => o = IF a.w <= b.w THEN a.w ELSE b.w
  BY <1>1, <1>2
<1>10. Apart(a, b) = 0 => Covers(a, b)
  <2>1. Min({a.w, b.w}) = IF a.w <= b.w THEN a.w ELSE b.w
    BY <1>1, SmallerOfTwo
  <2> QED
    BY <1>1, <1>4, <1>6, <1>9, <2>1 DEF Covers, o
<1>11. On(a, a)
  BY <1>1, <1>3, <1>5 DEF On
<1> QED
  BY <1>1, <1>3, <1>4, <1>5, <1>6, <1>7, <1>8, <1>10, <1>11 DEF o

-----------------------------------------------------------------------------
(* Sequences of detections.                                                *)

\* Induction, of a set.
LEMMA CountingUp ==
  ASSUME NEW S, 0 \in S, \A k \in Nat : k \in S => k + 1 \in S
  PROVE  \A k \in Nat : k \in S
<1> DEFINE R == OpToRel(<, Nat)
           T == Nat \ S
<1> SUFFICES ASSUME T # {} PROVE FALSE
  OBVIOUS
<1>1. IsWellFoundedOn(R, Nat)
  BY NatLessThanWellFounded
<1> HIDE DEF R
<1>2. PICK n \in T : \A m \in T : ~(<<m, n>> \in R)
  BY <1>1, WFMin
<1>3. n \in Nat /\ n # 0 /\ n - 1 \in Nat
  BY <1>2
<1>4. n - 1 \in T
  <2>1. (n - 1) + 1 = n
    BY <1>3
  <2> QED
    BY <1>2, <1>3, <2>1
<1>5. <<n - 1, n>> \in R
  BY <1>3 DEF R, OpToRel
<1> QED
  BY <1>2, <1>4, <1>5

LEMMA BoxesFound ==
  ASSUME NEW found \in Seq(Face)
  PROVE  /\ DOMAIN found = 1 .. Len(found) /\ (DOMAIN found # {} => found # <<>>)
         /\ \A i \in DOMAIN found : found[i] \in Face /\ found[i].box \in Box /\ found[i].who \in Visitor
<1>1. \A f \in Face : f.box \in Box /\ f.who \in Visitor
  BY DEF Face
<1>2. \A i \in DOMAIN found : found[i] \in Face
  OBVIOUS
<1> QED
  BY <1>1, <1>2

\* From t0 by one step for each number up to N.
Walk(g, T, t0, N, st) ==
  g \in [0 .. N -> T] /\ g[0] = t0 /\ \A n \in 1 .. N : g[n] = st[n][g[n - 1]]

LEMMA StepsThere ==
  ASSUME NEW T, NEW t0 \in T, NEW N \in Nat, NEW st \in [1 .. N -> [T -> T]]
  PROVE  \E g : Walk(g, T, t0, N, st)
<1> DEFINE Upto(g, k) == g \in [0 .. k -> T] /\ g[0] = t0 /\ \A n \in 1 .. k : g[n] = st[n][g[n - 1]]
           S == {k \in Nat : k <= N => \E g : Upto(g, k)}
<1>1. 0 \in S
  <2>1. Upto([i \in 0 .. 0 |-> t0], 0)
    OBVIOUS
  <2> QED
    BY <2>1
<1>2. ASSUME NEW k \in Nat, k \in S PROVE k + 1 \in S
  <2> SUFFICES ASSUME k + 1 <= N PROVE \E g : Upto(g, k + 1)
    BY k + 1 \in Nat, Zenon
  <2>1. PICK g : Upto(g, k)
    BY <1>2
  <2> DEFINE h == [i \in 0 .. k + 1 |-> IF i = k + 1 THEN st[k + 1][g[k]] ELSE g[i]]
  <2>2. k + 1 \in 1 .. N /\ k \in 0 .. k /\ k \in 0 .. k + 1 /\ k # k + 1
    OBVIOUS
  <2>3. st[k + 1][g[k]] \in T
    BY <2>1, <2>2
  <2>4. h \in [0 .. k + 1 -> T] /\ h[0] = t0
    BY <2>1, <2>3
  <2>5. ASSUME NEW n \in 1 .. k + 1 PROVE h[n] = st[n][h[n - 1]]
    <3>1. CASE n = k + 1
      BY <2>2, <3>1
    <3>2. CASE n # k + 1
      <4>1. n \in 1 .. k /\ n \in 0 .. k + 1 /\ n - 1 \in 0 .. k + 1 /\ n - 1 # k + 1
        BY <3>2
      <4> QED
        BY <2>1, <3>2, <4>1
    <3> QED
      BY <3>1, <3>2
  <2> HIDE DEF h
  <2>6. Upto(h, k + 1)
    BY <2>4, <2>5
  <2> QED
    BY <2>6
<1>3. N \in S
  <2> HIDE DEF S
  <2> QED
    BY <1>1, <1>2, CountingUp
<1> QED
  BY <1>3 DEF Walk

\* A row of detections of which none covers a later one.
Uncovered == {s \in Seq(Face) : \A i, j \in DOMAIN s : i < j => ~Covers(s[i].box, s[j].box)}

LEMMA UncoveredGrows ==
  ASSUME NEW s \in Uncovered, NEW f \in Face, \A k \in ToSet(s) : ~Covers(k.box, f.box)
  PROVE  Append(s, f) \in Uncovered
<1> DEFINE n == Len(s)
           r == Append(s, f)
<1>1. s \in Seq(Face) /\ DOMAIN s = 1 .. n /\ n \in Nat
  BY DEF Uncovered
<1>2. r \in Seq(Face) /\ Len(r) = n + 1 /\ DOMAIN r = 1 .. n + 1
      /\ r[n + 1] = f /\ \A i \in 1 .. n : r[i] = s[i]
  BY <1>1
<1> HIDE DEF r
<1>3. ASSUME NEW i \in 1 .. n + 1, NEW j \in 1 .. n + 1, i < j PROVE ~Covers(r[i].box, r[j].box)
  <2>1. i \in 1 .. n /\ r[i] = s[i] /\ s[i] \in ToSet(s)
    <3>1. i \in 1 .. n
      BY <1>1, <1>3
    <3> QED
      BY <1>1, <1>2, <3>1 DEF ToSet
  <2>2. CASE j = n + 1
    BY <1>2, <2>1, <2>2
  <2>3. CASE j # n + 1
    <3>1. j \in 1 .. n
      BY <1>1, <2>3
    <3> QED
      BY <1>1, <1>2, <1>3, <2>1, <3>1 DEF Uncovered
  <2> QED
    BY <2>2, <2>3
<1> QED
  BY <1>2, <1>3 DEF Uncovered, r

\* What suppress_overlapping leaves: no two with one centre.
LEMMA Suppressed ==
  ASSUME NEW detected \in Seq(Face)
  PROVE  suppress_overlapping(detected) \in Seq(Face) /\ ApartFromEach(suppress_overlapping(detected))
<1> DEFINE N == Len(detected)
           next(s, n) == IF \E k \in ToSet(s) : Covers(k.box, detected[n].box) THEN s
                         ELSE Append(s, detected[n])
           st == [n \in 1 .. N |-> [s \in Uncovered |-> next(s, n)]]
           Eq(h) == h = [n \in 0 .. N |-> IF n = 0 THEN <<>>
                                          ELSE IF \E k \in ToSet(h[n - 1]) : Covers(k.box, detected[n].box)
                                          THEN h[n - 1] ELSE Append(h[n - 1], detected[n])]
           kept == CHOOSE h : Eq(h)
<1>1. N \in Nat /\ \A n \in 1 .. N : detected[n] \in Face
  OBVIOUS
<1>2. <<>> \in Uncovered
  BY DEF Uncovered
<1>3. \A n \in 1 .. N, s \in Uncovered : next(s, n) \in Uncovered
  BY <1>1, UncoveredGrows
<1>4. st \in [1 .. N -> [Uncovered -> Uncovered]]
  <2> HIDE DEF next, N
  <2> QED
    BY <1>3
<1>5. PICK g : /\ g \in [0 .. N -> Uncovered] /\ g[0] = <<>>
               /\ \A n \in 1 .. N : g[n] = st[n][g[n - 1]]
  <2> HIDE DEF st, N
  <2>1. PICK g : Walk(g, Uncovered, <<>>, N, st)
    BY <1>1, <1>2, <1>4, StepsThere
  <2> QED
    BY <2>1 DEF Walk
<1>6. \A n \in 1 .. N : g[n] = next(g[n - 1], n)
  <2> SUFFICES ASSUME NEW n \in 1 .. N PROVE g[n] = next(g[n - 1], n)
    OBVIOUS
  <2>1. g[n - 1] \in Uncovered
    <3>1. n - 1 \in 0 .. N
      BY <1>1
    <3> QED
      BY <1>5, <3>1
  <2> HIDE DEF next, N
  <2> QED
    BY <1>5, <2>1
<1>7. Eq(g)
  <2>1. \A n \in 0 .. N : n # 0 => n \in 1 .. N
    BY <1>1
  <2> HIDE DEF N
  <2> QED
    BY <1>5, <1>6, <2>1
<1>8. Eq(kept)
  BY <1>7, Zenon
<1>9. suppress_overlapping(detected) = kept[N]
  BY DEF suppress_overlapping
<1> HIDE DEF kept
<1> DEFINE S == {n \in Nat : n <= N => kept[n] = g[n]}
<1>10. 0 \in S
  BY <1>1, <1>5, <1>8
<1>11. ASSUME NEW n \in Nat, n \in S PROVE n + 1 \in S
  <2> SUFFICES ASSUME n + 1 <= N PROVE kept[n + 1] = g[n + 1]
    BY n + 1 \in Nat, Zenon
  <2>1. n + 1 \in 0 .. N /\ n + 1 \in 1 .. N /\ n + 1 # 0 /\ (n + 1) - 1 = n /\ kept[n] = g[n]
    BY <1>1, <1>11
  <2>2. kept[n + 1] = next(kept[n], n + 1)
    <3> HIDE DEF N
    <3> QED
      BY <1>8, <2>1
  <2>3. g[n + 1] = next(g[n], n + 1)
    BY <1>6, <2>1
  <2> QED
    BY <2>1, <2>2, <2>3
<1>12. N \in S
  <2> HIDE DEF S
  <2> QED
    BY <1>1, <1>10, <1>11, CountingUp
<1>13. kept[N] \in Uncovered
  <2>1. N \in 0 .. N /\ kept[N] = g[N]
    BY <1>1, <1>12
  <2> QED
    BY <1>5, <2>1
<1> DEFINE s == kept[N]
<1> HIDE DEF s
<1>14. s \in Uncovered /\ s = suppress_overlapping(detected)
  BY <1>9, <1>13 DEF s
<1>15. s \in Seq(Face) /\ DOMAIN s \subseteq Int
  BY <1>14 DEF Uncovered
<1>16. ASSUME NEW i \in DOMAIN s, NEW j \in DOMAIN s, i # j
       PROVE  Apart(s[i].box, s[j].box) # 0
  <2>1. s[i].box \in Box /\ s[j].box \in Box
    BY <1>15, BoxesFound
  <2>2. i < j \/ j < i
    BY <1>15, <1>16
  <2>3. ~Covers(s[i].box, s[j].box) \/ ~Covers(s[j].box, s[i].box)
    BY <1>14, <2>2 DEF Uncovered
  <2> QED
    BY <2>1, <2>3, BoxFacts
<1> QED
  BY <1>14, <1>15, <1>16 DEF ApartFromEach

\* Of finitely many numbers the first of the smallest.
LEMMA FirstSmallest ==
  ASSUME NEW N \in Nat \ {0}, NEW F \in [1 .. N -> Nat]
  PROVE  \E c \in 1 .. N : \A d \in 1 .. N : F[c] < F[d] \/ (F[c] = F[d] /\ c <= d)
<1> DEFINE S == {n \in Nat : n + 1 <= N =>
                   \E c \in 1 .. n + 1 : \A d \in 1 .. n + 1 : F[c] < F[d] \/ (F[c] = F[d] /\ c <= d)}
<1>1. 0 \in S
  OBVIOUS
<1>2. ASSUME NEW n \in Nat, n \in S PROVE n + 1 \in S
  <2> SUFFICES ASSUME n + 2 <= N
               PROVE  \E c \in 1 .. n + 2 : \A d \in 1 .. n + 2 : F[c] < F[d] \/ (F[c] = F[d] /\ c <= d)
    OBVIOUS
  <2>1. PICK c \in 1 .. n + 1 : \A d \in 1 .. n + 1 : F[c] < F[d] \/ (F[c] = F[d] /\ c <= d)
    BY <1>2
  <2>2. F[c] \in Nat /\ F[n + 2] \in Nat /\ \A d \in 1 .. n + 2 : F[d] \in Nat /\ (d = n + 2 \/ d \in 1 .. n + 1)
    OBVIOUS
  <2>3. CASE F[c] <= F[n + 2]
    <3>1. c \in 1 .. n + 2 /\ c <= n + 2
      OBVIOUS
    <3> QED
      BY <2>1, <2>2, <2>3, <3>1, SMTT(60)
  <2>4. CASE F[c] > F[n + 2]
    <3>1. n + 2 \in 1 .. n + 2
      OBVIOUS
    <3> QED
      BY <2>1, <2>2, <2>4, <3>1
  <2> QED
    BY <2>2, <2>3, <2>4
<1>3. N - 1 \in S
  <2>1. N - 1 \in Nat
    OBVIOUS
  <2> HIDE DEF S
  <2> QED
    BY <1>1, <1>2, <2>1, CountingUp
<1> QED
  BY <1>3

\* The detection a track aims at is one of them, and none is closer.
LEMMA NearestFacts ==
  ASSUME NEW box \in Box, NEW found \in Seq(Face), found # <<>>
  PROVE  /\ Nearest(box, found) \in DOMAIN found
         /\ \A d \in DOMAIN found : Apart(box, found[Nearest(box, found)].box) <= Apart(box, found[d].box)
<1> DEFINE N == Len(found)
           F == [i \in 1 .. N |-> Apart(box, found[i].box)]
           Q(c) == \A d \in DOMAIN found :
                     \/ Apart(box, found[c].box) < Apart(box, found[d].box)
                     \/ Apart(box, found[c].box) = Apart(box, found[d].box) /\ c <= d
<1>1. N \in Nat \ {0} /\ DOMAIN found = 1 .. N
  OBVIOUS
<1>2. \A i \in 1 .. N : found[i].box \in Box
  BY <1>1, BoxesFound
<1>3. \A i \in 1 .. N : Apart(box, found[i].box) \in Nat
  BY <1>2, BoxFacts
<1>4. F \in [1 .. N -> Nat] /\ \A i \in 1 .. N : F[i] = Apart(box, found[i].box)
  BY <1>3
<1>5. \E c \in DOMAIN found : Q(c)
  <2>1. \E c \in 1 .. N : \A d \in 1 .. N : F[c] < F[d] \/ (F[c] = F[d] /\ c <= d)
    <3> HIDE DEF F, N
    <3> QED
      BY <1>1, <1>4, FirstSmallest
  <2> HIDE DEF F
  <2> QED
    BY <1>1, <1>4, <2>1
<1>6. Nearest(box, found) \in DOMAIN found /\ Q(Nearest(box, found))
  <2> HIDE DEF N, F
  <2> QED
    BY <1>5, Zenon DEF Nearest
<1> DEFINE c == Nearest(box, found)
<1> HIDE DEF c
<1>7. c \in DOMAIN found /\ Q(c)
  BY <1>6 DEF c
<1>8. \A d \in DOMAIN found : Apart(box, found[c].box) <= Apart(box, found[d].box)
  BY <1>1, <1>3, <1>7
<1> QED
  BY <1>7, <1>8 DEF c

\* A face in a track's place is what the track aims at, and what lies best on
\* it.
LEMMA FaceInPlace ==
  ASSUME NEW found \in Seq(Face), ApartFromEach(found), NEW c \in DOMAIN found,
         NEW box \in Box, box = found[c].box
  PROVE  Nearest(box, found) = c /\ c \in Candidates(box, found) /\ BestFace(box, found) = found[c]
<1>1. found # <<>> /\ DOMAIN found = 1 .. Len(found) /\ \A d \in DOMAIN found : found[d].box \in Box
  BY BoxesFound
<1>2. \A d \in DOMAIN found : d # c => Apart(box, found[d].box) # 0
  BY DEF ApartFromEach
<1>3. Nearest(box, found) = c
  <2> DEFINE e == Nearest(box, found)
  <2>1. e \in DOMAIN found /\ Apart(box, found[e].box) <= Apart(box, found[c].box)
    BY <1>1, NearestFacts
  <2> HIDE DEF e
  <2>2. Apart(box, found[c].box) = 0 /\ Apart(box, found[e].box) \in Nat
    BY <1>1, <2>1, BoxFacts
  <2>3. Apart(box, found[e].box) = 0
    BY <2>1, <2>2
  <2> QED
    BY <1>2, <2>1, <2>3 DEF e
<1>4. c \in Candidates(box, found)
  BY BoxFacts DEF Candidates
<1> DEFINE O(i) == Overlap(box, found[i].box)
           U(i) == Union(box, found[i].box)
           Q(i) == \A j \in Candidates(box, found) :
                     LET oi == Overlap(box, found[i].box) * Union(box, found[j].box)
                         oj == Overlap(box, found[j].box) * Union(box, found[i].box)
                     IN  oi > oj \/ (oi = oj /\ i <= j)
<1>5. \A i \in DOMAIN found : O(i) \in Nat /\ U(i) \in Nat /\ O(i) <= U(i) /\ (O(i) = U(i) => i = c)
  <2> SUFFICES ASSUME NEW i \in DOMAIN found
               PROVE  O(i) \in Nat /\ U(i) \in Nat /\ O(i) <= U(i) /\ (O(i) = U(i) => i = c)
    BY Zenon
  <2>1. found[i].box \in Box
    BY <1>1
  <2> QED
    BY <1>2, <2>1, BoxFacts
<1>6. O(c) = box.w /\ U(c) = box.w /\ box.w \in Nat /\ box.w > 0
  BY BoxFacts
<1>7. Candidates(box, found) \subseteq DOMAIN found
  BY DEF Candidates
<1> HIDE DEF O, U
<1>8. Q(c)
  <2> SUFFICES ASSUME NEW j \in Candidates(box, found)
               PROVE  O(c) * U(j) > O(j) * U(c) \/ (O(c) * U(j) = O(j) * U(c) /\ c <= j)
    BY DEF O, U
  <2> DEFINE oj == O(j)
             uj == U(j)
             w == box.w
  <2>1. oj \in Nat /\ uj \in Nat /\ (j = c \/ oj < uj)
    BY <1>5, <1>7
  <2>2. w \in Nat /\ w > 0 /\ O(c) = w /\ U(c) = w
    BY <1>6
  <2> HIDE DEF oj, uj, w
  <2>3. CASE j = c
    BY <1>1, <2>1, <2>2, <2>3 DEF oj, uj
  <2>4. CASE oj < uj
    <3>1. w * uj > oj * w
      BY <2>1, <2>2, <2>4
    <3> QED
      BY <2>2, <3>1 DEF oj, uj
  <2> QED
    BY <2>1, <2>3, <2>4
<1>9. \A i \in Candidates(box, found) : Q(i) => i = c
  <2> SUFFICES ASSUME NEW i \in Candidates(box, found), Q(i), i # c PROVE FALSE
    OBVIOUS
  <2> DEFINE oi == O(i)
             ui == U(i)
             w == box.w
  <2>1. oi \in Nat /\ ui \in Nat /\ oi < ui
    BY <1>5, <1>7
  <2>2. w \in Nat /\ w > 0 /\ O(c) = w /\ U(c) = w
    BY <1>6
  <2>3. O(i) * U(c) >= O(c) * U(i)
    <3>1. O(i) * U(c) > O(c) * U(i) \/ O(i) * U(c) = O(c) * U(i)
      BY <1>4 DEF O, U
    <3> HIDE DEF oi, ui, w
    <3>2. O(i) * U(c) = oi * w /\ O(c) * U(i) = w * ui /\ oi * w \in Int /\ w * ui \in Int
      BY <2>1, <2>2 DEF oi, ui
    <3> QED
      BY <3>1, <3>2
  <2> HIDE DEF oi, ui, w
  <2>4. oi * w < w * ui
    BY <2>1, <2>2
  <2>5. oi * w >= w * ui
    BY <2>2, <2>3 DEF oi, ui
  <2>6. oi * w \in Int /\ w * ui \in Int
    BY <2>1, <2>2
  <2> QED
    BY <2>4, <2>5, <2>6
<1>10. BestFace(box, found) = found[c]
  <2> DEFINE e == CHOOSE i \in Candidates(box, found) : Q(i)
  <2>1. e \in Candidates(box, found) /\ Q(e)
    <3> HIDE DEF Q
    <3> QED
      BY <1>4, <1>8, Zenon
  <2>2. BestFace(box, found) = found[e]
    BY DEF BestFace
  <2> HIDE DEF e, Q
  <2> QED
    BY <1>9, <2>1, <2>2, Zenon
<1> QED
  BY <1>3, <1>4, <1>10

-----------------------------------------------------------------------------
(* HybridTracker.update.                                                   *)

\* How far from the smallest of some indices an index is, and that tells it
\* from the others.
LEMMA RankOfIndex ==
  ASSUME NEW N \in Nat, NEW new \in SUBSET (1 .. N), NEW c \in new, NEW d \in new
  PROVE  /\ Cardinality({e \in new : e < c}) \in Nat /\ Cardinality(new) \in Nat
         /\ Cardinality({e \in new : e < c}) < Cardinality(new)
         /\ c < d => Cardinality({e \in new : e < c}) < Cardinality({e \in new : e < d})
<1> DEFINE Below(x) == {e \in new : e < x}
<1>1. IsFiniteSet(new) /\ new \subseteq Int
  <2>1. IsFiniteSet(1 .. N)
    BY FS_Interval
  <2>2. IsFiniteSet(new)
    BY <2>1, FS_Subset
  <2>3. new \subseteq Int
    OBVIOUS
  <2> QED
    BY <2>2, <2>3
<1>2. ASSUME NEW S, NEW T \in SUBSET S, IsFiniteSet(S), T # S
      PROVE  Cardinality(T) \in Nat /\ Cardinality(S) \in Nat /\ Cardinality(T) < Cardinality(S)
  <2>1. IsFiniteSet(T) /\ Cardinality(T) <= Cardinality(S) /\ Cardinality(S) # Cardinality(T)
    BY <1>2, FS_Subset
  <2>2. Cardinality(T) \in Nat /\ Cardinality(S) \in Nat
    BY <1>2, <2>1, FS_CardinalityType
  <2> QED
    BY <2>1, <2>2
<1>3. Below(c) \in SUBSET new /\ c \notin Below(c) /\ Below(c) # new
  BY <1>1
<1>4. Cardinality(Below(c)) \in Nat /\ Cardinality(new) \in Nat /\ Cardinality(Below(c)) < Cardinality(new)
  <2> HIDE DEF Below
  <2> QED
    BY <1>1, <1>2, <1>3
<1>5. ASSUME c < d PROVE Cardinality(Below(c)) < Cardinality(Below(d))
  <2>1. Below(c) \in SUBSET Below(d) /\ Below(c) # Below(d)
    <3>1. c \in Below(d) /\ c \notin Below(c)
      BY <1>1, <1>5
    <3>2. Below(c) \subseteq Below(d)
      <4> SUFFICES ASSUME NEW e \in new, e < c PROVE e < d
        OBVIOUS
      <4> QED
        BY <1>1, <1>5
    <3> HIDE DEF Below
    <3> QED
      BY <3>1, <3>2
  <2>2. IsFiniteSet(Below(d))
    <3>1. Below(d) \in SUBSET new
      OBVIOUS
    <3> HIDE DEF Below
    <3> QED
      BY <1>1, <3>1, FS_Subset
  <2> HIDE DEF Below
  <2> QED
    BY <1>2, <2>1, <2>2
<1> QED
  BY <1>4, <1>5

\* A track that takes a detection aims at it, lies on it, and is the only one
\* to take it.
LEMMA TakenFacts ==
  ASSUME NEW found \in Seq(Face), found # <<>>,
         objects \in [DOMAIN objects -> Box], DOMAIN objects \subseteq Nat
  PROVE  /\ DOMAIN Taken(found) \subseteq DOMAIN objects
         /\ \A id \in DOMAIN Taken(found) :
              /\ Taken(found)[id] \in DOMAIN found
              /\ Taken(found)[id] = Nearest(objects[id], found)
              /\ On(objects[id], found[Taken(found)[id]].box)
         /\ \A i, j \in DOMAIN Taken(found) : Taken(found)[i] = Taken(found)[j] => i = j
<1> DEFINE aim(id) == Nearest(objects[id], found)
           rivals(id) == {other \in DOMAIN objects \ {id} : Eligible(other, found) /\ aim(other) = aim(id)}
           D == {i \in DOMAIN objects : /\ Eligible(i, found)
                                        /\ \A r \in rivals(i) : ChoosesBefore(i, r, found)}
<1>1. Taken(found) = [id \in D |-> aim(id)]
  BY DEF Taken
<1>2. \A id \in DOMAIN objects : /\ objects[id] \in Box /\ aim(id) \in DOMAIN found
                                 /\ Gap(id, found) \in Nat
  <2> SUFFICES ASSUME NEW id \in DOMAIN objects
               PROVE  objects[id] \in Box /\ aim(id) \in DOMAIN found /\ Gap(id, found) \in Nat
    BY Zenon
  <2>1. objects[id] \in Box
    OBVIOUS
  <2>2. aim(id) \in DOMAIN found
    BY <2>1, NearestFacts
  <2>3. found[aim(id)].box \in Box
    BY <2>2, BoxesFound
  <2> QED
    BY <2>1, <2>2, <2>3, BoxFacts DEF Gap
<1>3. D \subseteq DOMAIN objects /\ \A id \in D : On(objects[id], found[aim(id)].box)
  BY DEF Eligible
<1>4. ASSUME NEW i \in D, NEW j \in D, aim(i) = aim(j), i # j PROVE FALSE
  <2>1. j \in rivals(i) /\ i \in rivals(j)
    BY <1>4
  <2>2. ChoosesBefore(i, j, found) /\ ChoosesBefore(j, i, found)
    BY <2>1
  <2>3. Gap(i, found) \in Nat /\ Gap(j, found) \in Nat /\ i \in Nat /\ j \in Nat
    BY <1>2, <1>3
  <2> QED
    BY <2>2, <2>3 DEF ChoosesBefore
<1> HIDE DEF D, aim
<1>5. DOMAIN Taken(found) = D /\ \A id \in D : Taken(found)[id] = aim(id)
  BY <1>1
<1> QED
  BY <1>2, <1>3, <1>4, <1>5 DEF aim

\* What update does with a frame that has faces.
Followed(found) ==
  /\ next_object_id' \in 0 .. MaxId
  /\ DOMAIN objects \subseteq DOMAIN objects' /\ DOMAIN objects' \subseteq Nat
  /\ objects' \in [DOMAIN objects' -> Box]
  /\ \A id \in DOMAIN objects' : id < next_object_id'
  /\ DOMAIN disappeared' = DOMAIN objects'
  /\ \A id \in DOMAIN objects' : disappeared'[id] \in 0 .. MaxGone
  /\ \A c \in DOMAIN found : \E id \in DOMAIN objects' : objects'[id] = found[c].box /\ disappeared'[id] = 0
  /\ \A id \in DOMAIN objects :
       \/ objects'[id] = objects[id]
       \/ /\ Nearest(objects[id], found) \in DOMAIN found
          /\ objects'[id] = found[Nearest(objects[id], found)].box
          /\ On(objects[id], objects'[id])
  /\ \A i, j \in DOMAIN objects :
       i # j /\ objects'[i] # objects[i] /\ objects'[j] # objects[j] => objects'[i] # objects'[j]

LEMMA FollowIsSound ==
  ASSUME TracksInv, NEW found \in Seq(Face), found # <<>>, ApartFromEach(found), Follow(found)
  PROVE  Followed(found)
<1>1. /\ objects \in [DOMAIN objects -> Box] /\ DOMAIN objects \subseteq Nat
      /\ next_object_id \in 0 .. MaxId /\ MaxId \in Nat /\ MaxGone \in Nat
      /\ \A id \in DOMAIN objects : id < next_object_id /\ disappeared[id] \in 0 .. MaxGone
  BY TracksAssumption DEF TracksInv, TracksTypeOK
<1> DEFINE picks == Taken(found)
           new == Unclaimed(found, picks)
           idOf(c) == next_object_id + Cardinality({d \in new : d < c})
           fresh == {idOf(c) : c \in new}
           at(id) == CHOOSE c \in new : idOf(c) = id
<1>2. /\ next_object_id + Cardinality(new) <= MaxId
      /\ next_object_id' = next_object_id + Cardinality(new)
      /\ objects' = [id \in DOMAIN objects \cup fresh |->
                       IF id \in fresh THEN found[at(id)].box
                       ELSE IF id \in DOMAIN picks THEN found[picks[id]].box
                       ELSE objects[id]]
      /\ disappeared' = [id \in DOMAIN objects' |->
                           IF id \in fresh \cup DOMAIN picks THEN 0
                           ELSE disappeared[id]]
  BY DEF Follow
<1>3. DOMAIN found = 1 .. Len(found) /\ Len(found) \in Nat /\ \A c \in DOMAIN found : found[c].box \in Box
  BY BoxesFound
<1>4. /\ DOMAIN picks \subseteq DOMAIN objects
      /\ \A id \in DOMAIN picks : /\ picks[id] \in DOMAIN found
                                  /\ picks[id] = Nearest(objects[id], found)
                                  /\ On(objects[id], found[picks[id]].box)
      /\ \A i, j \in DOMAIN picks : picks[i] = picks[j] => i = j
  BY <1>1, TakenFacts
<1>5. new \in SUBSET (1 .. Len(found)) /\ \A c \in DOMAIN found \ new : \E id \in DOMAIN picks : picks[id] = c
  BY <1>3 DEF Unclaimed
<1> HIDE DEF picks, new
<1>6. Cardinality(new) \in Nat
  <2>1. IsFiniteSet(1 .. Len(found))
    BY <1>3, FS_Interval
  <2> QED
    BY <1>5, <2>1, FS_Subset, FS_CardinalityType
<1>7. \A c \in new : idOf(c) \in Nat /\ idOf(c) >= next_object_id /\ idOf(c) < next_object_id + Cardinality(new)
  <2> SUFFICES ASSUME NEW c \in new
               PROVE  /\ idOf(c) \in Nat /\ idOf(c) >= next_object_id
                      /\ idOf(c) < next_object_id + Cardinality(new)
    BY Zenon
  <2> DEFINE r == Cardinality({d \in new : d < c})
  <2>1. r \in Nat /\ r < Cardinality(new)
    BY <1>3, <1>5, RankOfIndex
  <2> HIDE DEF r
  <2>2. idOf(c) = next_object_id + r
    BY DEF r
  <2> HIDE DEF idOf
  <2> QED
    BY <1>1, <1>6, <2>1, <2>2
<1>8. \A c, d \in new : idOf(c) = idOf(d) => c = d
  <2> SUFFICES ASSUME NEW c \in new, NEW d \in new, c < d PROVE idOf(c) # idOf(d)
    BY <1>5
  <2> DEFINE r == Cardinality({e \in new : e < c})
             s == Cardinality({e \in new : e < d})
  <2>1. r < s /\ r \in Nat /\ s \in Nat
    BY <1>3, <1>5, RankOfIndex
  <2> HIDE DEF r, s
  <2>2. next_object_id + r # next_object_id + s
    BY <1>1, <2>1
  <2> QED
    BY <2>2 DEF r, s
<1>9. \A c \in new : at(idOf(c)) = c
  <2> HIDE DEF idOf
  <2> SUFFICES ASSUME NEW c \in new PROVE at(idOf(c)) = c
    OBVIOUS
  <2>1. at(idOf(c)) \in new /\ idOf(at(idOf(c))) = idOf(c)
    OBVIOUS
  <2> QED
    BY <1>8, <2>1, Zenon
<1>10. \A id \in fresh : id \in Nat /\ id >= next_object_id /\ id < next_object_id' /\ at(id) \in new /\ id \notin DOMAIN objects
  <2> HIDE DEF idOf, at
  <2> SUFFICES ASSUME NEW c \in new
               PROVE  LET id == idOf(c) IN
                      /\ id \in Nat /\ id >= next_object_id /\ id < next_object_id' /\ at(id) \in new
                      /\ id \notin DOMAIN objects
    OBVIOUS
  <2> QED
    BY <1>1, <1>2, <1>7, <1>9
<1> HIDE DEF at, idOf
<1>11. \A c \in new : idOf(c) \in fresh
  OBVIOUS
<1> HIDE DEF fresh
<1>12. /\ DOMAIN objects' = DOMAIN objects \cup fresh /\ DOMAIN disappeared' = DOMAIN objects'
       /\ \A id \in DOMAIN objects' :
            /\ id \in fresh => objects'[id] = found[at(id)].box /\ disappeared'[id] = 0
            /\ id \in DOMAIN picks => objects'[id] = found[picks[id]].box /\ disappeared'[id] = 0
            /\ id \notin fresh /\ id \notin DOMAIN picks =>
                 objects'[id] = objects[id] /\ disappeared'[id] = disappeared[id]
  BY <1>2, <1>4, <1>10
<1>13. \A id \in DOMAIN objects' : objects'[id] \in Box /\ id \in Nat /\ id < next_object_id'
                                   /\ disappeared'[id] \in 0 .. MaxGone
  <2> SUFFICES ASSUME NEW id \in DOMAIN objects'
               PROVE  objects'[id] \in Box /\ id \in Nat /\ id < next_object_id' /\ disappeared'[id] \in 0 .. MaxGone
    BY Zenon
  <2>1. CASE id \in fresh
    <3>1. at(id) \in DOMAIN found
      BY <1>3, <1>5, <1>10, <2>1
    <3> QED
      BY <1>1, <1>3, <1>10, <1>12, <2>1, <3>1
  <2>2. CASE id \notin fresh
    <3>1. id \in DOMAIN objects /\ id \in Nat /\ id < next_object_id' /\ objects[id] \in Box
      BY <1>1, <1>2, <1>6, <1>12, <2>2
    <3>2. CASE id \in DOMAIN picks
      BY <1>1, <1>3, <1>4, <1>12, <3>1, <3>2
    <3>3. CASE id \notin DOMAIN picks
      BY <1>1, <1>12, <2>2, <3>1, <3>3
    <3> QED
      BY <3>2, <3>3
  <2> QED
    BY <2>1, <2>2
<1>14. ASSUME NEW c \in DOMAIN found
       PROVE  \E id \in DOMAIN objects' : objects'[id] = found[c].box /\ disappeared'[id] = 0
  <2>1. CASE c \in new
    BY <1>9, <1>11, <1>12, <2>1
  <2>2. CASE c \notin new
    <3>1. PICK id \in DOMAIN picks : picks[id] = c
      BY <1>5, <2>2
    <3> QED
      BY <1>4, <1>12, <3>1
  <2> QED
    BY <2>1, <2>2
<1>15. ASSUME NEW id \in DOMAIN objects
       PROVE  /\ id \in DOMAIN objects' /\ id \notin fresh
              /\ \/ id \notin DOMAIN picks /\ objects'[id] = objects[id]
                 \/ /\ id \in DOMAIN picks
                    /\ Nearest(objects[id], found) \in DOMAIN found
                    /\ objects'[id] = found[Nearest(objects[id], found)].box
                    /\ On(objects[id], objects'[id])
  BY <1>4, <1>10, <1>12
<1>16. ASSUME NEW i \in DOMAIN objects, NEW j \in DOMAIN objects, i # j,
              objects'[i] # objects[i], objects'[j] # objects[j], objects'[i] = objects'[j]
       PROVE  FALSE
  <2>1. i \in DOMAIN picks /\ j \in DOMAIN picks
    BY <1>15, <1>16
  <2> DEFINE c == picks[i]
             d == picks[j]
  <2>2. /\ c \in DOMAIN found /\ d \in DOMAIN found /\ c # d
        /\ found[c].box = objects'[i] /\ found[d].box = objects'[j]
    BY <1>4, <1>12, <1>15, <1>16, <2>1
  <2> HIDE DEF c, d
  <2>3. Apart(found[c].box, found[d].box) = 0
    BY <1>3, <1>16, <2>2, BoxFacts
  <2> QED
    BY <2>2, <2>3 DEF ApartFromEach
<1>17. next_object_id' \in 0 .. MaxId
  BY <1>1, <1>2, <1>6
<1>18. objects' \in [DOMAIN objects' -> Box]
  BY <1>2, <1>13
<1> QED
  BY <1>12, <1>13, <1>14, <1>15, <1>16, <1>17, <1>18 DEF Followed

-----------------------------------------------------------------------------
(* A frame.                                                                *)

\* One more face in a history.
LEMMA NewestFacts ==
  ASSUME NEW S, NEW s \in Seq(S), Len(s) <= BufferLen, NEW x
  PROVE  /\ Newest(Append(s, x)) \in Seq(S \cup {x})
         /\ Len(Newest(Append(s, x))) \in 1 .. BufferLen
         /\ Last(Newest(Append(s, x))) = x
<1> DEFINE r == Append(s, x)
           n == Len(s)
<1>1. BufferLen \in Nat \ {0} /\ n \in Nat
  BY TracksAssumption
<1>2. r \in Seq(S \cup {x}) /\ Len(r) = n + 1 /\ r[n + 1] = x
  <2>1. s \in Seq(S \cup {x})
    OBVIOUS
  <2> QED
    BY <2>1
<1> HIDE DEF r
<1>3. CASE Len(r) > BufferLen
  <2>1. Newest(r) = Tail(r) /\ r # <<>> /\ n >= 1
    BY <1>1, <1>2, <1>3 DEF Newest
  <2>2. Tail(r) \in Seq(S \cup {x}) /\ Len(Tail(r)) = n /\ Tail(r)[n] = r[n + 1]
    BY <1>1, <1>2, <2>1
  <2> QED
    BY <1>1, <1>2, <2>1, <2>2 DEF Last, r
<1>4. CASE ~(Len(r) > BufferLen)
  BY <1>1, <1>2, <1>4 DEF Newest, Last, r
<1> QED
  BY <1>3, <1>4

\* What a frame does to the loop's state.
Looked ==
  /\ faces' \in Seq(Face) /\ ApartFromEach(faces')
  /\ \/ faces' = <<>> /\ Fade
     \/ faces' # <<>> /\ Followed(faces')
  /\ buffers' = Gather(faces')
  /\ quiet' = IF faces' = <<>> THEN Min({quiet + 1, MaxGone + 1}) ELSE 0

LEMMA LookIsSound ==
  ASSUME TracksInv, NEW detected \in Detections, Look(detected)
  PROVE  Looked
<1>1. detected \in Seq(Face)
  <2>0. PICK S \in SUBSET Visitor : \E who \in SetToSeqs(S) : \E at \in [DOMAIN who -> Box] :
          detected = [i \in DOMAIN who |-> [who |-> who[i], box |-> at[i]]]
    BY DEF Detections
  <2>a. PICK who \in SetToSeqs(S) : \E at \in [DOMAIN who -> Box] :
          detected = [i \in DOMAIN who |-> [who |-> who[i], box |-> at[i]]]
    BY <2>0
  <2>1. PICK at \in [DOMAIN who -> Box] :
          detected = [i \in DOMAIN who |-> [who |-> who[i], box |-> at[i]]]
    BY <2>a
  <2>2. Cardinality(S) \in Nat
    <3>1. IsFiniteSet(S)
      BY TracksAssumption, FS_Subset
    <3> QED
      BY <3>1, FS_CardinalityType
  <2>3. who \in [1 .. Cardinality(S) -> S]
    BY DEF SetToSeqs
  <2> DEFINE n == Cardinality(S)
  <2>4. n \in Nat /\ DOMAIN who = 1 .. n /\ \A i \in 1 .. n : who[i] \in Visitor /\ at[i] \in Box
    BY <2>2, <2>3
  <2> HIDE DEF n
  <2>5. detected \in [1 .. n -> Face]
    BY <2>1, <2>4 DEF Face
  <2> QED
    BY <2>4, <2>5
<1> DEFINE found == suppress_overlapping(detected)
<1>2. /\ IF found = <<>> THEN Fade ELSE Follow(found)
      /\ buffers' = Gather(found)
      /\ faces' = found
      /\ quiet' = IF found = <<>> THEN Min({quiet + 1, MaxGone + 1}) ELSE 0
  BY DEF Look
<1>3. found \in Seq(Face) /\ ApartFromEach(found)
  BY <1>1, Suppressed
<1> HIDE DEF found
<1>4. CASE found = <<>>
  BY <1>2, <1>3, <1>4 DEF Looked
<1>5. CASE found # <<>>
  <2>1. Followed(found)
    BY <1>2, <1>3, <1>5, FollowIsSound
  <2> QED
    BY <1>2, <1>3, <1>5, <2>1 DEF Looked
<1> QED
  BY <1>4, <1>5

\* What a frame leaves under the ids.
LEMMA GatherFacts ==
  ASSUME TracksInv, Looked
  PROVE  /\ \A id : id \in DOMAIN buffers' <=>
                      /\ id \in DOMAIN objects' /\ Candidates(objects'[id], faces') # {}
                      /\ InRange(objects'[id]) \/ id \in DOMAIN buffers
         /\ \A id \in DOMAIN buffers' :
              /\ \E S : buffers'[id] \in Seq(S)
              /\ Len(buffers'[id]) \in 1 .. BufferLen
              /\ InRange(objects'[id]) => Last(buffers'[id]) = BestFace(objects'[id], faces').who
              /\ ~InRange(objects'[id]) => id \in DOMAIN buffers /\ buffers'[id] = buffers[id]
<1> DEFINE D == {i \in {id \in DOMAIN objects' : Candidates(objects'[id], faces') # {}} :
                   InRange(objects'[i]) \/ i \in DOMAIN buffers}
           x(id) == BestFace(objects'[id], faces').who
           next(id) == IF InRange(objects'[id]) THEN Newest(Append(Gathered(id), x(id)))
                       ELSE Gathered(id)
<1>1. buffers' = [id \in D |-> next(id)]
  BY DEF Looked, Gather
<1>2. ASSUME NEW id PROVE (\E S : Gathered(id) \in Seq(S)) /\ Len(Gathered(id)) <= BufferLen
  <2>1. CASE id \in DOMAIN buffers
    BY <2>1 DEF TracksInv, TracksTypeOK, Gathered
  <2>2. CASE id \notin DOMAIN buffers
    BY <2>2, TracksAssumption DEF Gathered
  <2> QED
    BY <2>1, <2>2
<1>3. \A id \in DOMAIN buffers : Gathered(id) = buffers[id] /\ Len(buffers[id]) \in 1 .. BufferLen
  BY DEF TracksInv, TracksTypeOK, Gathered
<1>4. \A id : id \in D <=> /\ id \in DOMAIN objects' /\ Candidates(objects'[id], faces') # {}
                           /\ InRange(objects'[id]) \/ id \in DOMAIN buffers
  OBVIOUS
<1>5. DOMAIN buffers' = D /\ \A id \in D : buffers'[id] = next(id)
  <2> HIDE DEF D, next
  <2> QED
    BY <1>1
<1> HIDE DEF D
<1>6. ASSUME NEW id \in D
      PROVE  /\ \E S : buffers'[id] \in Seq(S)
             /\ Len(buffers'[id]) \in 1 .. BufferLen
             /\ InRange(objects'[id]) => Last(buffers'[id]) = x(id)
             /\ ~InRange(objects'[id]) => id \in DOMAIN buffers /\ buffers'[id] = buffers[id]
  <2>1. CASE InRange(objects'[id])
    <3> DEFINE y == x(id)
    <3>1. PICK S : Gathered(id) \in Seq(S)
      BY <1>2
    <3>0. buffers'[id] = Newest(Append(Gathered(id), y))
      BY <1>5, <2>1
    <3>2. /\ Newest(Append(Gathered(id), y)) \in Seq(S \cup {y})
          /\ Len(Newest(Append(Gathered(id), y))) \in 1 .. BufferLen
          /\ Last(Newest(Append(Gathered(id), y))) = y
      <4> HIDE DEF y
      <4> QED
        BY <1>2, <3>1, NewestFacts
    <3> QED
      BY <2>1, <3>0, <3>2
  <2>2. CASE ~InRange(objects'[id])
    <3>1. id \in DOMAIN buffers /\ buffers'[id] = Gathered(id)
      BY <1>4, <1>5, <2>2
    <3> QED
      BY <1>2, <1>3, <2>2, <3>1
  <2> QED
    BY <2>1, <2>2
<1> QED
  BY <1>4, <1>5, <1>6

LEMMA FadeFacts ==
  ASSUME TracksInv, Looked, faces' = <<>>
  PROVE  /\ next_object_id' = next_object_id
         /\ DOMAIN objects' \subseteq DOMAIN objects /\ objects' \in [DOMAIN objects' -> Box]
         /\ \A id \in DOMAIN objects' : objects'[id] = objects[id]
         /\ DOMAIN disappeared' = DOMAIN objects'
         /\ \A id \in DOMAIN objects' : /\ disappeared'[id] = disappeared[id] + 1
                                        /\ disappeared'[id] \in 0 .. MaxGone
         /\ DOMAIN buffers' = {}
<1> DEFINE left == {id \in DOMAIN objects : disappeared[id] + 1 <= MaxGone}
<1>1. /\ objects' = [id \in left |-> objects[id]] /\ disappeared' = [id \in left |-> disappeared[id] + 1]
      /\ next_object_id' = next_object_id
  BY DEF Looked, Fade, Restrict
<1>2. \A id \in left : id \in DOMAIN objects /\ objects[id] \in Box /\ disappeared[id] + 1 \in 0 .. MaxGone
  BY TracksAssumption DEF TracksInv, TracksTypeOK
<1> HIDE DEF left
<1>3. \A id \in DOMAIN objects' : Candidates(objects'[id], faces') = {}
  BY DEF Candidates
<1>4. DOMAIN buffers' = {}
  BY <1>3, GatherFacts
<1> QED
  BY <1>1, <1>2, <1>4

LEMMA QuietNow ==
  ASSUME TracksInv, Looked
  PROVE  /\ quiet' \in 0 .. MaxGone + 1
         /\ faces' # <<>> => quiet' = 0
         /\ faces' = <<>> => quiet' <= quiet + 1
<1>1. quiet \in 0 .. MaxGone + 1 /\ MaxGone \in Nat
  BY TracksAssumption DEF TracksInv, TracksTypeOK
<1>2. Min({quiet + 1, MaxGone + 1}) = IF quiet + 1 <= MaxGone + 1 THEN quiet + 1 ELSE MaxGone + 1
  BY <1>1, SmallerOfTwo
<1> QED
  BY <1>1, <1>2 DEF Looked

LEMMA TracksStep ==
  ASSUME TracksInv, [TracksNext]_tracksVars
  PROVE  TracksInv'
<1>1. CASE UNCHANGED tracksVars
  BY <1>1 DEF TracksInv, TracksTypeOK, MissedThroughout, NothingLeftBehind, FacesAreTracked, tracksVars
<1>2. CASE TracksNext
  <2>1. Looked
    BY <1>2, LookIsSound DEF TracksNext
  <2>2. /\ \A id : id \in DOMAIN buffers' <=>
                     /\ id \in DOMAIN objects' /\ Candidates(objects'[id], faces') # {}
                     /\ InRange(objects'[id]) \/ id \in DOMAIN buffers
        /\ \A id \in DOMAIN buffers' :
             /\ \E S : buffers'[id] \in Seq(S)
             /\ Len(buffers'[id]) \in 1 .. BufferLen
    BY <2>1, GatherFacts
  <2>3. NothingLeftBehind'
    BY <2>2 DEF NothingLeftBehind
  <2>4. /\ quiet' \in 0 .. MaxGone + 1
        /\ faces' # <<>> => quiet' = 0
        /\ faces' = <<>> => quiet' <= quiet + 1
    BY <2>1, QuietNow
  <2>5. CASE faces' = <<>>
    <3>1. /\ next_object_id' = next_object_id
          /\ DOMAIN objects' \subseteq DOMAIN objects /\ objects' \in [DOMAIN objects' -> Box]
          /\ \A id \in DOMAIN objects' : objects'[id] = objects[id]
          /\ DOMAIN disappeared' = DOMAIN objects'
          /\ \A id \in DOMAIN objects' : /\ disappeared'[id] = disappeared[id] + 1
                                         /\ disappeared'[id] \in 0 .. MaxGone
          /\ DOMAIN buffers' = {}
      BY <2>1, <2>5, FadeFacts
    <3>2. /\ TracksTypeOK /\ objects \in [DOMAIN objects -> Box] /\ DOMAIN objects \subseteq Nat
          /\ MissedThroughout
      BY DEF TracksInv
    <3>3. TracksTypeOK'
      <4>1. \A id \in DOMAIN objects' : id < next_object_id' /\ objects'[id] \in Box
        BY <3>1, <3>2 DEF TracksTypeOK
      <4>2. next_object_id' \in 0 .. MaxId
        BY <3>1, <3>2 DEF TracksTypeOK
      <4> QED
        BY <2>2, <2>4, <3>1, <4>1, <4>2 DEF TracksTypeOK
    <3>4. MissedThroughout'
      <4> SUFFICES ASSUME NEW id \in DOMAIN objects' PROVE disappeared'[id] >= quiet'
        BY DEF MissedThroughout
      <4>1. disappeared[id] >= quiet /\ disappeared[id] \in Nat /\ quiet \in Nat
        BY <3>1, <3>2, TracksAssumption DEF MissedThroughout, TracksTypeOK
      <4>2. disappeared'[id] = disappeared[id] + 1 /\ quiet' <= quiet + 1 /\ quiet' \in Nat
        BY <2>4, <2>5, <3>1, TracksAssumption
      <4> QED
        BY <4>1, <4>2
    <3>5. FacesAreTracked'
      BY <2>5 DEF FacesAreTracked, ToSet
    <3> QED
      BY <2>1, <2>2, <2>3, <3>1, <3>2, <3>3, <3>4, <3>5 DEF TracksInv, Looked
  <2>6. CASE faces' # <<>>
    <3>1. Followed(faces')
      BY <2>1, <2>6 DEF Looked
    <3>2. TracksTypeOK'
      BY <2>2, <2>4, <3>1 DEF TracksTypeOK, Followed
    <3>3. MissedThroughout'
      BY <2>4, <2>6, <3>1, TracksAssumption DEF MissedThroughout, Followed
    <3>4. FacesAreTracked'
      <4>0. faces' \in Seq(Face)
        BY <2>1 DEF Looked
      <4> SUFFICES ASSUME NEW c \in DOMAIN faces'
                   PROVE  \E id \in DOMAIN objects' :
                            /\ objects'[id] = faces'[c].box /\ disappeared'[id] = 0
                            /\ InRange(faces'[c].box) => id \in DOMAIN buffers'
        BY <4>0 DEF FacesAreTracked, ToSet
      <4>1. PICK id \in DOMAIN objects' : objects'[id] = faces'[c].box /\ disappeared'[id] = 0
        BY <3>1 DEF Followed
      <4>2. objects'[id] \in Box
        BY <3>1 DEF Followed
      <4>3. c \in Candidates(objects'[id], faces')
        BY <4>1, <4>2, BoxFacts DEF Candidates
      <4> QED
        BY <2>2, <4>1, <4>3
    <3> QED
      BY <2>1, <2>2, <2>3, <3>1, <3>2, <3>3, <3>4 DEF TracksInv, Looked, Followed
  <2> QED
    BY <2>5, <2>6
<1> QED
  BY <1>1, <1>2

-----------------------------------------------------------------------------
(* The properties.                                                         *)

\* When the room has been empty for long enough no id is left.
LEMMA NobodyNoIds == ASSUME TracksInv PROVE EmptyRoomClears
<1>1. \A id \in DOMAIN objects : disappeared[id] >= quiet /\ disappeared[id] \in 0 .. MaxGone
  BY DEF TracksInv, TracksTypeOK, MissedThroughout
<1>2. quiet \in Int /\ MaxGone \in Int
  BY TracksAssumption DEF TracksInv, TracksTypeOK
<1>3. quiet > MaxGone => DOMAIN objects = {}
  <2> SUFFICES ASSUME quiet > MaxGone, NEW id \in DOMAIN objects PROVE FALSE
    OBVIOUS
  <2> DEFINE d == disappeared[id]
  <2>1. d >= quiet /\ d \in 0 .. MaxGone
    BY <1>1
  <2> HIDE DEF d
  <2> QED
    BY <1>2, <2>1
<1> QED
  BY <1>3 DEF TracksInv, EmptyRoomClears, None

\* What every frame keeps to.
FrameKeeps ==
  /\ \A id \in DOMAIN buffers \cap DOMAIN buffers' : On(objects[id], objects'[id])
  /\ \A id \in DOMAIN buffers, f \in ToSet(faces') :
       f.box = objects[id] =>
         /\ id \in DOMAIN buffers' /\ objects'[id] = objects[id]
         /\ IF InRange(f.box) THEN Last(buffers'[id]) = f.who
            ELSE buffers'[id] = buffers[id]
  /\ \A i, j \in DOMAIN objects \cap DOMAIN objects' :
       i # j /\ objects'[i] # objects[i] /\ objects'[j] # objects[j] =>
         objects'[i] # objects'[j]

LEMMA FrameKeepsTracks ==
  ASSUME TracksInv, TracksNext
  PROVE  FrameKeeps
<1>1. Looked
  BY LookIsSound DEF TracksNext
<1>2. /\ \A id : id \in DOMAIN buffers' <=>
                   /\ id \in DOMAIN objects' /\ Candidates(objects'[id], faces') # {}
                   /\ InRange(objects'[id]) \/ id \in DOMAIN buffers
      /\ \A id \in DOMAIN buffers' :
           /\ InRange(objects'[id]) => Last(buffers'[id]) = BestFace(objects'[id], faces').who
           /\ ~InRange(objects'[id]) => buffers'[id] = buffers[id]
  BY <1>1, GatherFacts
<1>3. /\ \A id \in DOMAIN objects : objects[id] \in Box
      /\ DOMAIN buffers \subseteq DOMAIN objects
  BY DEF TracksInv, NothingLeftBehind, TracksTypeOK
<1>4. CASE faces' = <<>>
  <2>1. \A id \in DOMAIN objects' : objects'[id] = objects[id]
    BY <1>1, <1>4, FadeFacts
  <2>2. DOMAIN buffers' = {} /\ ToSet(faces') = {}
    BY <1>1, <1>4, FadeFacts DEF ToSet
  <2> QED
    BY <2>1, <2>2 DEF FrameKeeps
<1>5. CASE faces' # <<>>
  <2>1. Followed(faces') /\ faces' \in Seq(Face) /\ ApartFromEach(faces')
    BY <1>1, <1>5 DEF Looked
  <2>2. ASSUME NEW id \in DOMAIN buffers \cap DOMAIN buffers' PROVE On(objects[id], objects'[id])
    BY <1>3, <2>1, BoxFacts DEF Followed
  <2>3. ASSUME NEW id \in DOMAIN buffers, NEW f \in ToSet(faces'), f.box = objects[id]
        PROVE  /\ id \in DOMAIN buffers' /\ objects'[id] = objects[id]
               /\ IF InRange(f.box) THEN Last(buffers'[id]) = f.who
                  ELSE buffers'[id] = buffers[id]
    <3>1. PICK c \in DOMAIN faces' : f = faces'[c]
      BY DEF ToSet
    <3>2. id \in DOMAIN objects /\ objects[id] \in Box /\ id \in DOMAIN objects'
      BY <1>3, <2>1 DEF Followed
    <3> DEFINE b == objects[id]
               found == faces'
    <3>3. /\ b \in Box /\ b = found[c].box /\ found \in Seq(Face) /\ ApartFromEach(found) /\ c \in DOMAIN found
      BY <2>1, <2>3, <3>1, <3>2
    <3>4. Nearest(b, found) = c /\ c \in Candidates(b, found) /\ BestFace(b, found) = found[c]
      <4> HIDE DEF b, found
      <4> QED
        BY <3>3, FaceInPlace
    <3>5. objects'[id] = b
      BY <2>1, <3>2, <3>3, <3>4 DEF Followed
    <3>6. id \in DOMAIN buffers'
      BY <1>2, <3>2, <3>4, <3>5
    <3> QED
      BY <1>2, <2>3, <3>1, <3>4, <3>5, <3>6
  <2>4. \A i, j \in DOMAIN objects \cap DOMAIN objects' :
          i # j /\ objects'[i] # objects[i] /\ objects'[j] # objects[j] => objects'[i] # objects'[j]
    BY <2>1 DEF Followed
  <2> QED
    BY <2>2, <2>3, <2>4 DEF FrameKeeps
<1> QED
  BY <1>4, <1>5

\* Every history is of the faces on its track's box, a face found in a track's
\* place goes on under its id or, too near or too far, leaves its history alone, no face goes to two tracks, and an empty room
\* forgets all of them (tracker.py, and main.py:692-731, 876-908).
THEOREM TracksAreKept == TracksSpec => FacesKeepTracks
<1>1. TracksInit => TracksInv
  <2> SUFFICES ASSUME TracksInit PROVE TracksInv
    OBVIOUS
  <2>1. /\ next_object_id = 0 /\ objects = None /\ disappeared = None /\ buffers = None /\ faces = <<>> /\ quiet = 0
    BY DEF TracksInit
  <2>2. DOMAIN None = {} /\ None \in [{} -> Box]
    BY DEF None
  <2>3. ToSet(<<>>) = {}
    BY DEF ToSet
  <2>4. TracksTypeOK
    BY <2>1, <2>2, TracksAssumption DEF TracksTypeOK
  <2> QED
    BY <2>1, <2>2, <2>3, <2>4 DEF TracksInv, MissedThroughout, NothingLeftBehind, FacesAreTracked
<1>2. TracksInv /\ [TracksNext]_tracksVars => TracksInv'
  BY TracksStep
<1>3. TracksInv => TracksTypeOK /\ NothingLeftBehind /\ EmptyRoomClears /\ FacesAreTracked
  BY NobodyNoIds DEF TracksInv
<1>4. TracksInv /\ [TracksNext]_tracksVars =>
        [\A id \in DOMAIN buffers \cap DOMAIN buffers' : On(objects[id], objects'[id])]_tracksVars
  BY FrameKeepsTracks DEF FrameKeeps
<1>5. TracksInv /\ [TracksNext]_tracksVars =>
        [\A id \in DOMAIN buffers, f \in ToSet(faces') :
            f.box = objects[id] =>
              /\ id \in DOMAIN buffers' /\ objects'[id] = objects[id]
              /\ IF InRange(f.box) THEN Last(buffers'[id]) = f.who
                 ELSE buffers'[id] = buffers[id]]_tracksVars
  BY FrameKeepsTracks DEF FrameKeeps
<1>6. TracksInv /\ [TracksNext]_tracksVars =>
        [\A i, j \in DOMAIN objects \cap DOMAIN objects' :
            i # j /\ objects'[i] # objects[i] /\ objects'[j] # objects[j] =>
              objects'[i] # objects'[j]]_tracksVars
  BY FrameKeepsTracks DEF FrameKeeps
<1> QED
  BY <1>1, <1>2, <1>3, <1>4, <1>5, <1>6, PTL
     DEF TracksSpec, FacesKeepTracks, StaysOnFace, StandingFaceKeepsTrack, NoFaceTwice

-----------------------------------------------------------------------------
(***************************************************************************)
(* CameraFeed, for any number of pictures and browsers and any size of the *)
(* pipe.                                                                   *)
(*                                                                         *)
(* All bytes the camera writes are one stream, and what is in the reader's *)
(* buffer, in the pipe and still to be written are three neighbouring      *)
(* stretches of it (Stretch).  A marker of the first kind is there only    *)
(* where a picture begins, and of the second only before the last byte of  *)
(* one, so Cut finds the first picture that begins in the stretch          *)
(* (the one after the Started ones), and what it keeps is the head of the next one.             *)
(***************************************************************************)
FeedBehaviour == FeedInit /\ [][FeedNext]_feedVars

\* Byte number p of the stream.
Byte(p) ==
  LET k == (p - 1) % 5
  IN  IF k = 0 THEN 255 ELSE IF k = 1 THEN 216 ELSE IF k = 2 THEN (p - 1) \div 5 + 1
      ELSE IF k = 3 THEN 255 ELSE 217

\* The bytes of the stream after the first q.
Stretch(s, q) == s \in Seq(Nat) /\ \A i \in 1 .. Len(s) : s[i] = Byte(q + i)

\* The pictures of which a byte is among the first q.
Started(q) == (q + 4) \div 5

LEMMA StartedBefore ==
  ASSUME NEW q \in Nat
  PROVE  /\ Started(q) \in Nat /\ q <= 5 * Started(q) /\ 5 * Started(q) < q + 5
         /\ \A n \in Nat : q <= 5 * n => Started(q) <= n
  BY DEF Started

LEMMA StartedAt ==
  ASSUME NEW m \in Nat
  PROVE  Started(5 * m) = m
  BY DEF Started

LEMMA ByteOf ==
  ASSUME NEW m \in Nat
  PROVE  /\ Byte(5 * m + 1) = 255 /\ Byte(5 * m + 2) = 216 /\ Byte(5 * m + 3) = m + 1
         /\ Byte(5 * m + 4) = 255 /\ Byte(5 * m + 5) = 217
  BY DEF Byte

LEMMA ByteTyped ==
  ASSUME NEW p \in Nat, p >= 1
  PROVE  Byte(p) \in Nat
  BY DEF Byte

LEMMA JpegBytes ==
  ASSUME NEW m \in Nat
  PROVE  Stretch(Jpeg(m + 1), 5 * m) /\ Len(Jpeg(m + 1)) = 5 /\ Jpeg(m + 1)[3] = m + 1
<1> DEFINE u == Jpeg(m + 1)
<1>1. /\ u \in Seq(Nat) /\ Len(u) = 5
      /\ u[1] = 255 /\ u[2] = 216 /\ u[3] = m + 1 /\ u[4] = 255 /\ u[5] = 217
  BY DEF Jpeg
<1> HIDE DEF u
<1>2. \A i \in 1 .. 5 : i = 1 \/ i = 2 \/ i = 3 \/ i = 4 \/ i = 5
  OBVIOUS
<1>3. ASSUME NEW i \in 1 .. Len(u) PROVE u[i] = Byte(5 * m + i)
  <2>1. i = 1 \/ i = 2 \/ i = 3 \/ i = 4 \/ i = 5
    BY <1>1, <1>2
  <2>2. /\ u[1] = Byte(5 * m + 1) /\ u[2] = Byte(5 * m + 2) /\ u[3] = Byte(5 * m + 3)
        /\ u[4] = Byte(5 * m + 4) /\ u[5] = Byte(5 * m + 5)
    BY <1>1, ByteOf
  <2> QED
    BY <2>1, <2>2
<1>4. Stretch(u, 5 * m) /\ Len(u) = 5 /\ u[3] = m + 1
  BY <1>1, <1>3 DEF Stretch
<1> QED
  BY <1>4 DEF u

\* The two markers.
LEMMA MarkersApart ==
  ASSUME NEW p \in Nat
  PROVE  /\ Byte(p + 1) = 255 /\ Byte(p + 2) = 216 <=> p % 5 = 0
         /\ Byte(p + 1) = 255 /\ Byte(p + 2) = 217 <=> p % 5 = 3
<1> DEFINE m == p \div 5
           k == p % 5
<1>1. m \in Nat /\ k \in 0 .. 4 /\ p = 5 * m + k
  OBVIOUS
<1> HIDE DEF m, k
<1>2. k = 0 \/ k = 1 \/ k = 2 \/ k = 3 \/ k = 4
  BY <1>1
<1>3. CASE k = 0
  <2>1. Byte(p + 1) = 255 /\ Byte(p + 2) = 216
    BY <1>1, <1>3, ByteOf
  <2> QED
    BY <1>3, <2>1 DEF k
<1>4. CASE k = 1
  <2>1. p + 1 = 5 * m + 2
    BY <1>1, <1>4
  <2>2. Byte(p + 1) = 216
    BY <1>1, <2>1, ByteOf
  <2> QED
    BY <1>4, <2>2 DEF k
<1>5. CASE k = 2
  <2>1. p + 2 = 5 * m + 4
    BY <1>1, <1>5
  <2>2. Byte(p + 2) = 255
    BY <1>1, <2>1, ByteOf
  <2> QED
    BY <1>5, <2>2 DEF k
<1>6. CASE k = 3
  <2>1. p + 1 = 5 * m + 4 /\ p + 2 = 5 * m + 5
    BY <1>1, <1>6
  <2>2. Byte(p + 1) = 255 /\ Byte(p + 2) = 217
    BY <1>1, <2>1, ByteOf
  <2> QED
    BY <1>6, <2>2 DEF k
<1>7. CASE k = 4
  <2>1. p + 1 = 5 * m + 5
    BY <1>1, <1>7
  <2>2. Byte(p + 1) = 217
    BY <1>1, <2>1, ByteOf
  <2> QED
    BY <1>7, <2>2 DEF k
<1> QED
  BY <1>2, <1>3, <1>4, <1>5, <1>6, <1>7

LEMMA PartOfStretch ==
  ASSUME NEW s, NEW q \in Nat, Stretch(s, q), NEW a \in Nat, NEW b \in Nat,
         1 <= a, a <= b + 1, b <= Len(s)
  PROVE  Stretch(SubSeq(s, a, b), q + a - 1) /\ Len(SubSeq(s, a, b)) = b - a + 1
<1> DEFINE u == SubSeq(s, a, b)
<1>1. s \in Seq(Nat) /\ Len(s) \in Nat
  BY DEF Stretch
<1>2. u \in Seq(Nat) /\ Len(u) = b - a + 1 /\ \A i \in 1 .. b - a + 1 : u[i] = s[a + i - 1]
  BY <1>1
<1> HIDE DEF u
<1>3. ASSUME NEW i \in 1 .. Len(u) PROVE u[i] = Byte(q + a - 1 + i)
  <2>1. i \in 1 .. b - a + 1 /\ a + i - 1 \in 1 .. Len(s) /\ q + (a + i - 1) = q + a - 1 + i
    <3> DEFINE n == Len(s)
    <3>1. i \in 1 .. b - a + 1 /\ n \in Nat /\ b <= n
      BY <1>1, <1>2
    <3> HIDE DEF n
    <3>2. i \in Nat /\ 1 <= i /\ i <= b - a + 1
      BY <3>1
    <3>3. a + i - 1 \in 1 .. n
      BY <3>1, <3>2
    <3>4. q + (a + i - 1) = q + a - 1 + i
      BY <3>2
    <3> QED
      BY <3>1, <3>3, <3>4 DEF n
  <2> QED
    BY <1>2, <2>1 DEF Stretch
<1> QED
  BY <1>2, <1>3 DEF Stretch, u

LEMMA StretchOn ==
  ASSUME NEW s, NEW t, NEW q \in Nat, Stretch(s, q), Stretch(t, q + Len(s))
  PROVE  Stretch(s \o t, q) /\ Len(s \o t) = Len(s) + Len(t)
<1> DEFINE u == s \o t
<1>1. s \in Seq(Nat) /\ Len(s) \in Nat /\ t \in Seq(Nat) /\ Len(t) \in Nat
  BY DEF Stretch
<1>2. /\ u \in Seq(Nat) /\ Len(u) = Len(s) + Len(t)
      /\ \A i \in 1 .. Len(s) : u[i] = s[i]
      /\ \A i \in 1 .. Len(t) : u[Len(s) + i] = t[i]
  BY <1>1
<1> HIDE DEF u
<1>3. ASSUME NEW i \in 1 .. Len(u) PROVE u[i] = Byte(q + i)
  <2>1. CASE i <= Len(s)
    <3>1. i \in 1 .. Len(s)
      BY <1>1, <2>1
    <3> QED
      BY <1>2, <3>1 DEF Stretch
  <2>2. CASE ~(i <= Len(s))
    <3>1. i - Len(s) \in 1 .. Len(t) /\ Len(s) + (i - Len(s)) = i
          /\ q + Len(s) + (i - Len(s)) = q + i
      BY <1>1, <1>2, <2>2
    <3> QED
      BY <1>2, <3>1 DEF Stretch
  <2> QED
    BY <2>1, <2>2
<1> QED
  BY <1>2, <1>3 DEF Stretch, u

\* Two stretches of one place and one length are the same.
LEMMA SameStretch ==
  ASSUME NEW s, NEW t, NEW q \in Nat, Stretch(s, q), Stretch(t, q), Len(s) = Len(t)
  PROVE  s = t
<1>1. s \in Seq(Nat) /\ t \in Seq(Nat) /\ Len(s) \in Nat
  BY DEF Stretch
<1>2. \A i \in 1 .. Len(s) : s[i] = t[i]
  BY DEF Stretch
<1> QED
  BY <1>1, <1>2, SMTT(60)

LEMMA MarkerAt ==
  ASSUME NEW s, NEW q \in Nat, Stretch(s, q), NEW k \in 1 .. Len(s) - 1
  PROVE  /\ SubSeq(s, k, k + 1) = SOI <=> (q + k - 1) % 5 = 0
         /\ SubSeq(s, k, k + 1) = EOI <=> (q + k - 1) % 5 = 3
<1> DEFINE u == SubSeq(s, k, k + 1)
<1>1. s \in Seq(Nat) /\ Len(s) \in Nat /\ k \in Nat /\ k + 1 \in 1 .. Len(s) /\ k \in 1 .. Len(s)
  BY DEF Stretch
<1>2. u \in Seq(Nat) /\ Len(u) = 2 /\ u[1] = s[k] /\ u[2] = s[k + 1]
  BY <1>1
<1> HIDE DEF u
<1>3. u[1] = Byte((q + k - 1) + 1) /\ u[2] = Byte((q + k - 1) + 2)
  <2>1. s[k] = Byte(q + k) /\ s[k + 1] = Byte(q + (k + 1))
    BY <1>1 DEF Stretch
  <2>2. q + k = (q + k - 1) + 1 /\ q + (k + 1) = (q + k - 1) + 2
    BY <1>1
  <2> QED
    BY <1>2, <2>1, <2>2
<1>4. \A a, b \in Nat : u = <<a, b>> <=> u[1] = a /\ u[2] = b
  BY <1>2
<1>5. u = SOI <=> u[1] = 255 /\ u[2] = 216
  BY <1>4 DEF SOI
<1>6. u = EOI <=> u[1] = 255 /\ u[2] = 217
  BY <1>4 DEF EOI
<1>7. q + k - 1 \in Nat
  BY <1>1
<1>8. (u = SOI <=> (q + k - 1) % 5 = 0) /\ (u = EOI <=> (q + k - 1) % 5 = 3)
  <2> DEFINE p == q + k - 1
  <2>1. p \in Nat /\ u[1] = Byte(p + 1) /\ u[2] = Byte(p + 2)
    BY <1>3, <1>7
  <2> HIDE DEF p
  <2>2. (u = SOI <=> p % 5 = 0) /\ (u = EOI <=> p % 5 = 3)
    BY <1>5, <1>6, <2>1, MarkersApart
  <2> QED
    BY <2>2 DEF p
<1> QED
  BY <1>8 DEF u

LEMMA Fives ==
  ASSUME NEW m \in Nat
  PROVE  5 * m \in Nat /\ (5 * m) % 5 = 0
OBVIOUS

LEMMA Fifth ==
  ASSUME NEW z \in Nat, z % 5 = 0
  PROVE  \E n \in Nat : z = 5 * n
<1>1. z \div 5 \in Nat /\ z = 5 * (z \div 5)
  OBVIOUS
<1> QED
  BY <1>1

LEMMA LeastIs ==
  ASSUME NEW T \in SUBSET Nat, NEW x \in T, \A y \in T : x <= y
  PROVE  Min(T) = x
<1>1. \A z \in T : (\A y \in T : z <= y) => z = x
  OBVIOUS
<1> QED
  BY <1>1 DEF Min

LEMMA FindsThere ==
  ASSUME NEW s, NEW marker, NEW i \in Nat, Len(s) \in Nat, NEW k \in i .. Len(s) - 1,
         SubSeq(s, k, k + 1) = marker,
         \A j \in i .. Len(s) - 1 : SubSeq(s, j, j + 1) = marker => k <= j
  PROVE  Find(s, marker, i) = k
<1> DEFINE at == {j \in i .. Len(s) - 1 : SubSeq(s, j, j + 1) = marker}
<1>1. at \in SUBSET Nat /\ k \in at /\ \A j \in at : k <= j
  OBVIOUS
<1>2. Find(s, marker, i) = IF at = {} THEN 0 ELSE Min(at)
  BY DEF Find
<1> HIDE DEF at
<1> QED
  BY <1>1, <1>2, LeastIs

LEMMA FindsNone ==
  ASSUME NEW s, NEW marker, NEW i, \A j \in i .. Len(s) - 1 : SubSeq(s, j, j + 1) # marker
  PROVE  Find(s, marker, i) = 0
<1> DEFINE at == {j \in i .. Len(s) - 1 : SubSeq(s, j, j + 1) = marker}
<1>1. at = {}
  OBVIOUS
<1>2. Find(s, marker, i) = IF at = {} THEN 0 ELSE Min(at)
  BY DEF Find
<1> HIDE DEF at
<1> QED
  BY <1>1, <1>2

\* Where Cut finds the first marker, and the second.
LEMMA FirstMarker ==
  ASSUME NEW s, NEW q \in Nat, Stretch(s, q), NEW b, b = 5 * Started(q)
  PROVE  /\ q + Len(s) < b + 2 => Find(s, SOI, 1) = 0
         /\ b + 2 <= q + Len(s) => Find(s, SOI, 1) = b - q + 1
<1>1. Len(s) \in Nat
  BY DEF Stretch
<1>2. b \in Nat /\ q <= b /\ b % 5 = 0
  BY StartedBefore, Fives
<1>3. ASSUME NEW j \in 1 .. Len(s) - 1, SubSeq(s, j, j + 1) = SOI PROVE b <= q + j - 1
  <2>1. (q + j - 1) % 5 = 0
    BY <1>3, MarkerAt
  <2>2. PICK n \in Nat : q + j - 1 = 5 * n
    <3>1. q + j - 1 \in Nat
      BY <1>1
    <3> QED
      BY <2>1, <3>1, Fifth
  <2>3. q <= 5 * n
    BY <1>1, <2>2
  <2>4. Started(q) <= n /\ Started(q) \in Nat
    BY <2>3, StartedBefore
  <2> QED
    BY <2>2, <2>4
<1>4. CASE q + Len(s) < b + 2
  <2>1. \A j \in 1 .. Len(s) - 1 : SubSeq(s, j, j + 1) # SOI
    <3> SUFFICES ASSUME NEW j \in 1 .. Len(s) - 1, SubSeq(s, j, j + 1) = SOI PROVE FALSE
      OBVIOUS
    <3>1. b <= q + j - 1
      BY <1>3
    <3> QED
      BY <1>1, <1>2, <1>4, <3>1
  <2> QED
    BY <1>1, <1>2, <1>4, <2>1, FindsNone
<1>5. CASE b + 2 <= q + Len(s)
  <2> DEFINE k == b - q + 1
  <2>1. k \in 1 .. Len(s) - 1 /\ q + k - 1 = b
    BY <1>1, <1>2, <1>5
  <2> HIDE DEF k
  <2>2. SubSeq(s, k, k + 1) = SOI
    BY <1>2, <2>1, MarkerAt
  <2>3. \A j \in 1 .. Len(s) - 1 : SubSeq(s, j, j + 1) = SOI => k <= j
    <3> SUFFICES ASSUME NEW j \in 1 .. Len(s) - 1, SubSeq(s, j, j + 1) = SOI PROVE k <= j
      OBVIOUS
    <3>1. b <= q + j - 1
      BY <1>3
    <3> QED
      BY <1>1, <1>2, <2>1, <3>1
  <2>4. Find(s, SOI, 1) = k
    <3> DEFINE i == 1
    <3>1. /\ i \in Nat /\ k \in i .. Len(s) - 1
          /\ \A j \in i .. Len(s) - 1 : SubSeq(s, j, j + 1) = SOI => k <= j
      BY <2>1, <2>3
    <3> HIDE DEF i
    <3>2. Find(s, SOI, i) = k
      BY <1>1, <2>2, <3>1, FindsThere, SMTT(60)
    <3> QED
      BY <3>2 DEF i
  <2> QED
    BY <1>1, <1>2, <1>5, <2>4 DEF k
<1> QED
  BY <1>1, <1>2, <1>4, <1>5

LEMMA SecondMarker ==
  ASSUME NEW s, NEW q \in Nat, Stretch(s, q), NEW b \in Nat, b % 5 = 0, q <= b
  PROVE  /\ q + Len(s) < b + 5 => Find(s, EOI, b - q + 3) = 0
         /\ b + 5 <= q + Len(s) => Find(s, EOI, b - q + 3) = b - q + 4
<1> DEFINE i == b - q + 3
<1>1. Len(s) \in Nat /\ i \in Nat /\ i >= 3 /\ q + i = b + 3
  BY DEF Stretch
<1>2. ASSUME NEW j \in i .. Len(s) - 1, SubSeq(s, j, j + 1) = EOI PROVE b + 3 <= q + j - 1
  <2>1. (q + j - 1) % 5 = 3
    <3>1. j \in 1 .. Len(s) - 1
      BY <1>1
    <3> QED
      BY <1>2, <3>1, MarkerAt
  <2>2. q + j - 1 \in Nat /\ b + 2 <= q + j - 1
    BY <1>1
  <2>3. \A z \in Nat : z % 5 = 3 /\ b + 2 <= z => b + 3 <= z
    OBVIOUS
  <2> QED
    BY <2>1, <2>2, <2>3
<1>3. CASE q + Len(s) < b + 5
  <2>1. \A j \in i .. Len(s) - 1 : SubSeq(s, j, j + 1) # EOI
    <3> SUFFICES ASSUME NEW j \in i .. Len(s) - 1, SubSeq(s, j, j + 1) = EOI PROVE FALSE
      OBVIOUS
    <3>1. b + 3 <= q + j - 1
      BY <1>2
    <3> QED
      BY <1>1, <1>3, <3>1
  <2>2. Find(s, EOI, i) = 0
    <3> HIDE DEF i
    <3> QED
      BY <2>1, FindsNone
  <2> QED
    BY <1>1, <1>3, <2>2
<1>4. CASE b + 5 <= q + Len(s)
  <2> DEFINE k == b - q + 4
  <2>1. k \in i .. Len(s) - 1 /\ k \in 1 .. Len(s) - 1 /\ q + k - 1 = b + 3 /\ (b + 3) % 5 = 3
    BY <1>1, <1>4
  <2>2. \A j \in i .. Len(s) - 1 : SubSeq(s, j, j + 1) = EOI => k <= j
    <3> SUFFICES ASSUME NEW j \in i .. Len(s) - 1, SubSeq(s, j, j + 1) = EOI PROVE k <= j
      OBVIOUS
    <3>1. b + 3 <= q + j - 1
      BY <1>2
    <3> QED
      BY <1>1, <3>1
  <2> HIDE DEF k, i
  <2>3. SubSeq(s, k, k + 1) = EOI
    BY <2>1, MarkerAt
  <2>4. Find(s, EOI, i) = k
    BY <1>1, <2>1, <2>2, <2>3, FindsThere, SMTT(60)
  <2> QED
    BY <1>4, <2>4, <1>1 DEF k, i
<1> QED
  BY <1>1, <1>3, <1>4

\* One turn of the inner loop on a stretch that begins after q bytes and ends
\* after e: the next picture is cut out of it if its last byte is there.
LEMMA CutStretch ==
  ASSUME NEW s, NEW q \in Nat, Stretch(s, q), NEW b, b = 5 * Started(q), NEW e, e = q + Len(s)
  PROVE  /\ Cut(s) \in [done : BOOLEAN, rest : Seq(Nat), jpeg : Seq(Nat)]
         /\ Cut(s).done <=> e < b + 5
         /\ e < b + 2 => Cut(s).rest = <<>>
         /\ b + 2 <= e /\ e < b + 5 => Stretch(Cut(s).rest, b) /\ b + Len(Cut(s).rest) = e
         /\ b + 5 <= e => /\ Cut(s).jpeg = Jpeg(Started(q) + 1)
                          /\ Stretch(Cut(s).rest, b + 5) /\ b + 5 + Len(Cut(s).rest) = e
<1> DEFINE m == Started(q)
           k == b - q + 1
           n == Len(s)
<1>1. n \in Nat /\ b \in Nat /\ q <= b /\ b % 5 = 0 /\ m \in Nat /\ b = 5 * m
  <2>1. n \in Nat
    BY DEF Stretch
  <2>2. m \in Nat /\ b = 5 * m /\ q <= 5 * m
    BY StartedBefore
  <2> HIDE DEF n, m
  <2> QED
    BY <2>1, <2>2, Fives
<1>0. e = q + n /\ e \in Nat
  BY <1>1
<1> HIDE DEF m
<1>2. CASE e < b + 2
  <2>1. Find(s, SOI, 1) = 0
    BY <1>2, FirstMarker
  <2>2. Cut(s) = [done |-> TRUE, rest |-> <<>>, jpeg |-> <<>>]
    BY <2>1 DEF Cut
  <2> QED
    BY <1>1, <1>2, <2>2
<1>3. CASE b + 2 <= e /\ e < b + 5
  <2>1. Find(s, SOI, 1) = k /\ k # 0 /\ k \in Nat /\ k + 2 = b - q + 3 /\ k >= 1 /\ k <= n + 1 /\ q + k - 1 = b
        /\ n - k + 1 = e - b
    <3>1. Find(s, SOI, 1) = k
      BY <1>1, <1>3, FirstMarker
    <3> HIDE DEF n
    <3>2. k \in Nat /\ k >= 1 /\ k # 0 /\ k + 2 = b - q + 3 /\ q + k - 1 = b
      BY <1>1
    <3>3. k <= n + 1 /\ n - k + 1 = e - b
      BY <1>0, <1>1, <1>3
    <3> QED
      BY <3>1, <3>2, <3>3
  <2>2. Find(s, EOI, b - q + 3) = 0
    BY <1>1, <1>3, SecondMarker
  <2> DEFINE rest == From(s, k)
  <2>3. rest = SubSeq(s, k, n)
    BY DEF From
  <2>4. Stretch(rest, b) /\ Len(rest) = e - b
    <3> HIDE DEF k, n, rest, m
    <3> DEFINE N == n
    <3>1. N \in Nat /\ N <= Len(s)
      BY <1>1 DEF n
    <3>2. Stretch(SubSeq(s, k, n), q + k - 1) /\ Len(SubSeq(s, k, n)) = n - k + 1
      BY <2>1, <3>1, PartOfStretch
    <3> QED
      BY <2>1, <2>3, <3>2
  <2>5. Cut(s) = [done |-> TRUE, rest |-> rest, jpeg |-> <<>>]
    <3> HIDE DEF k, rest, n, m
    <3>1. rest = From(s, k)
      BY DEF rest
    <3> QED
      BY <2>1, <2>2, <3>1 DEF Cut
  <2> HIDE DEF rest
  <2>6. rest \in Seq(Nat)
    BY <2>4 DEF Stretch
  <2>7. b + Len(rest) = e
    <3>1. e \in Nat
      BY <1>1
    <3> QED
      BY <1>1, <2>4, <3>1
  <2> HIDE DEF n, k
  <2>8. Cut(s).done /\ Cut(s).rest = rest
        /\ Cut(s) \in [done : BOOLEAN, rest : Seq(Nat), jpeg : Seq(Nat)]
    BY <2>5, <2>6
  <2>9. ~(e < b + 2) /\ ~(b + 5 <= e)
    BY <1>0, <1>1, <1>3
  <2> QED
    BY <1>3, <2>4, <2>7, <2>8, <2>9
<1>4. CASE b + 5 <= e
  <2>1. Find(s, SOI, 1) = k /\ k # 0 /\ k \in Nat /\ k + 2 = b - q + 3 /\ k >= 1 /\ q + k - 1 = b
        /\ k + 4 <= n /\ k + 5 <= n + 1
    <3>1. Find(s, SOI, 1) = k
      BY <1>1, <1>4, FirstMarker
    <3> HIDE DEF n
    <3> QED
      BY <1>0, <1>1, <1>4, <3>1, SMTT(60)
  <2>2. Find(s, EOI, b - q + 3) = k + 3 /\ k + 3 # 0 /\ (k + 3) + 2 = k + 5 /\ (k + 3) + 1 = k + 4
    BY <1>1, <1>4, SecondMarker
  <2> DEFINE rest == From(s, k + 5)
             jpeg == SubSeq(s, k, k + 4)
  <2>3. rest = SubSeq(s, k + 5, n)
    BY DEF From
  <2>4. Stretch(rest, b + 5) /\ Len(rest) = n - (k + 5) + 1
    <3> HIDE DEF rest
    <3>1. Stretch(SubSeq(s, k + 5, n), q + (k + 5) - 1) /\ Len(SubSeq(s, k + 5, n)) = n - (k + 5) + 1
      <4> HIDE DEF k
      <4>1. k + 5 \in Nat /\ 1 <= k + 5 /\ n \in Nat /\ n <= Len(s)
        BY <1>1, <2>1
      <4> QED
        BY <2>1, <4>1, PartOfStretch, SMTT(60)
    <3> HIDE DEF k, n
    <3>2. q + (k + 5) - 1 = b + 5
      BY <1>1, <2>1
    <3> QED
      BY <2>3, <3>1, <3>2
  <2>5. jpeg = Jpeg(m + 1)
    <3>1. Stretch(jpeg, b) /\ Len(jpeg) = 5
      <4> HIDE DEF k, n, m
      <4>1. Stretch(SubSeq(s, k, k + 4), q + k - 1) /\ Len(SubSeq(s, k, k + 4)) = (k + 4) - k + 1
        <5>1. k + 4 \in Nat /\ k <= (k + 4) + 1 /\ k + 4 <= Len(s)
          BY <2>1 DEF n
        <5> QED
          BY <2>1, <5>1, PartOfStretch
      <4>2. (k + 4) - k + 1 = 5
        BY <2>1
      <4> QED
        BY <2>1, <4>1, <4>2
    <3>2. Stretch(Jpeg(m + 1), b) /\ Len(Jpeg(m + 1)) = 5
      <4> HIDE DEF m
      <4> QED
        BY <1>1, JpegBytes
    <3> HIDE DEF jpeg, m
    <3> QED
      BY <1>1, <3>1, <3>2, SameStretch
  <2>6. Cut(s) = [done |-> FALSE, rest |-> rest, jpeg |-> jpeg]
    <3>1. rest = From(s, (k + 3) + 2) /\ jpeg = SubSeq(s, k, (k + 3) + 1)
      BY <2>2
    <3> HIDE DEF k, n, m, rest, jpeg
    <3> QED
      BY <2>1, <2>2, <3>1 DEF Cut
  <2>7. rest \in Seq(Nat) /\ jpeg \in Seq(Nat)
    <3>1. jpeg \in Seq(Nat)
      BY <1>1, <2>5, JpegBytes DEF Stretch
    <3> HIDE DEF rest, jpeg
    <3> QED
      BY <2>4, <3>1 DEF Stretch
  <2>8. b + 5 + Len(rest) = e
    <3> HIDE DEF rest, n
    <3>1. Len(rest) = n - (b - q + 1 + 5) + 1
      BY <2>4
    <3> HIDE DEF k
    <3> QED
      BY <1>0, <1>1, <3>1, SMTT(60)
  <2> HIDE DEF rest, jpeg, n, k
  <2>9. Cut(s).done = FALSE /\ Cut(s).rest = rest /\ Cut(s).jpeg = jpeg
        /\ Cut(s) \in [done : BOOLEAN, rest : Seq(Nat), jpeg : Seq(Nat)]
    BY <2>6, <2>7
  <2> QED
    BY <1>0, <1>1, <1>4, <2>4, <2>5, <2>8, <2>9 DEF m
<1> HIDE DEF m, n, k
<1> QED
  BY <1>0, <1>1, <1>2, <1>3, <1>4

\* What is kept of the bytes after the first b, e of them read: nothing, or the
\* head of a picture.
Remains(rest, b, e) ==
  \/ rest = <<>> /\ e < b + 2
  \/ Stretch(rest, b) /\ b + Len(rest) = e /\ Len(rest) \in 2 .. 4

\* The inner loop so far, of a stretch that begins after q bytes and ends after e.
Parsed(q, e) ==
  {p \in [rest : Seq(Nat), jpegs : Seq(Seq(Nat)), done : BOOLEAN] :
     /\ \A i \in 1 .. Len(p.jpegs) : p.jpegs[i] = Jpeg(Started(q) + i)
     /\ Len(p.jpegs) # 0 => 5 * (Started(q) + Len(p.jpegs)) <= e
     /\ p.done => Remains(p.rest, 5 * (Started(q) + Len(p.jpegs)), e)
     /\ ~p.done => \E r \in Nat : /\ Started(r) = Started(q) + Len(p.jpegs)
                                  /\ Stretch(p.rest, r) /\ r + Len(p.rest) = e}

OneTurn(p) ==
  LET c == Cut(p.rest)
  IN  IF p.done THEN p
      ELSE [rest |-> c.rest, done |-> c.done,
            jpegs |-> IF c.done THEN p.jpegs ELSE Append(p.jpegs, c.jpeg)]

LEMMA OneMoreCut ==
  ASSUME NEW q \in Nat, NEW e \in Nat, NEW p \in Parsed(q, e), ~p.done
  PROVE  /\ OneTurn(p) \in Parsed(q, e)
         /\ ~OneTurn(p).done => Len(OneTurn(p).jpegs) = Len(p.jpegs) + 1
<1> DEFINE m == Started(q)
           l == Len(p.jpegs)
           c == Cut(p.rest)
           b == 5 * (m + l)
           t == OneTurn(p)
<1>1. /\ p \in [rest : Seq(Nat), jpegs : Seq(Seq(Nat)), done : BOOLEAN]
      /\ \A i \in 1 .. l : p.jpegs[i] = Jpeg(m + i)
      /\ l # 0 => b <= e
  BY DEF Parsed
<1>2. l \in Nat /\ m \in Nat /\ b \in Nat
  <2>1. l \in Nat
    BY <1>1
  <2>2. m \in Nat
    BY StartedBefore
  <2> HIDE DEF l, m
  <2> QED
    BY <2>1, <2>2
<1>3. PICK r \in Nat : Started(r) = m + l /\ Stretch(p.rest, r) /\ r + Len(p.rest) = e
  BY DEF Parsed
<1>4. /\ c \in [done : BOOLEAN, rest : Seq(Nat), jpeg : Seq(Nat)]
      /\ c.done <=> e < b + 5
      /\ e < b + 2 => c.rest = <<>>
      /\ b + 2 <= e /\ e < b + 5 => Stretch(c.rest, b) /\ b + Len(c.rest) = e
      /\ b + 5 <= e => c.jpeg = Jpeg(m + l + 1) /\ Stretch(c.rest, b + 5) /\ b + 5 + Len(c.rest) = e
  <2> DEFINE s == p.rest
             k == m + l
  <2>1. Stretch(s, r) /\ b = 5 * Started(r) /\ e = r + Len(s) /\ Started(r) = k
    BY <1>3
  <2> HIDE DEF s, b, k
  <2>2. /\ Cut(s) \in [done : BOOLEAN, rest : Seq(Nat), jpeg : Seq(Nat)]
        /\ Cut(s).done <=> e < b + 5
        /\ e < b + 2 => Cut(s).rest = <<>>
        /\ b + 2 <= e /\ e < b + 5 => Stretch(Cut(s).rest, b) /\ b + Len(Cut(s).rest) = e
        /\ b + 5 <= e => /\ Cut(s).jpeg = Jpeg(Started(r) + 1)
                         /\ Stretch(Cut(s).rest, b + 5) /\ b + 5 + Len(Cut(s).rest) = e
    BY <2>1, CutStretch
  <2>3. c = Cut(s) /\ k + 1 = m + l + 1
    BY DEF s, k
  <2> HIDE DEF c
  <2> QED
    BY <2>1, <2>2, <2>3
<1> HIDE DEF c
<1>5. t = [rest |-> c.rest, done |-> c.done, jpegs |-> IF c.done THEN p.jpegs ELSE Append(p.jpegs, c.jpeg)]
  BY DEF OneTurn, c
<1> HIDE DEF t
<1>6. CASE c.done
  <2>1. t.rest = c.rest /\ t.jpegs = p.jpegs /\ t.done
        /\ t \in [rest : Seq(Nat), jpegs : Seq(Seq(Nat)), done : BOOLEAN]
    BY <1>1, <1>4, <1>5, <1>6
  <2>2. Remains(c.rest, b, e)
    <3>1. CASE e < b + 2
      BY <1>4, <3>1 DEF Remains
    <3>2. CASE ~(e < b + 2)
      <4>1. b + 2 <= e /\ e < b + 5
        <5> HIDE DEF b
        <5> QED
          BY <1>2, <1>4, <1>6, <3>2
      <4>2. Stretch(c.rest, b) /\ b + Len(c.rest) = e /\ Len(c.rest) \in Nat
        BY <1>4, <4>1 DEF Stretch
      <4>3. Len(c.rest) \in 2 .. 4
        <5> DEFINE k == Len(c.rest)
        <5>1. k \in Nat /\ b + k = e
          BY <4>2
        <5> HIDE DEF b, k
        <5>2. k \in 2 .. 4
          BY <1>2, <4>1, <5>1
        <5> QED
          BY <5>2 DEF k
      <4> QED
        BY <4>2, <4>3 DEF Remains
    <3> QED
      BY <3>1, <3>2
  <2>3. t \in Parsed(q, e)
    BY <1>1, <2>1, <2>2 DEF Parsed
  <2> QED
    BY <2>1, <2>3 DEF t
<1>7. CASE ~c.done
  <2> DEFINE js == Append(p.jpegs, c.jpeg)
  <2>1. b + 5 <= e
    <3> HIDE DEF b
    <3> QED
      BY <1>2, <1>4, <1>7
  <2>2. /\ js \in Seq(Seq(Nat)) /\ Len(js) = l + 1
        /\ js[l + 1] = c.jpeg /\ \A i \in 1 .. l : js[i] = p.jpegs[i]
    BY <1>1, <1>4
  <2>3. t.rest = c.rest /\ t.jpegs = js /\ ~t.done
        /\ t \in [rest : Seq(Nat), jpegs : Seq(Seq(Nat)), done : BOOLEAN]
    <3> HIDE DEF js
    <3>1. t = [rest |-> c.rest, done |-> c.done, jpegs |-> js]
      BY <1>5, <1>7 DEF js
    <3> QED
      BY <1>4, <1>7, <2>2, <3>1
  <2> HIDE DEF js
  <2>4. ASSUME NEW i \in 1 .. l + 1 PROVE js[i] = Jpeg(m + i)
    <3>1. CASE i = l + 1
      <4>1. c.jpeg = Jpeg(m + l + 1) /\ m + l + 1 = m + (l + 1)
        <5> HIDE DEF m, l
        <5> QED
          BY <1>2, <1>4, <2>1
      <4> QED
        BY <2>2, <3>1, <4>1
    <3>2. CASE i # l + 1
      <4>1. i \in 1 .. l
        BY <1>2, <3>2
      <4> QED
        BY <1>1, <2>2, <4>1
    <3> QED
      BY <3>1, <3>2
  <2>5. b + 5 \in Nat /\ b + 5 = 5 * (m + (l + 1)) /\ Started(b + 5) = m + (l + 1)
    <3> HIDE DEF m, l
    <3>1. m + (l + 1) \in Nat /\ b + 5 = 5 * (m + (l + 1)) /\ b + 5 \in Nat
      BY <1>2
    <3> QED
      BY <3>1, StartedAt
  <2>6. \E z \in Nat : Started(z) = m + (l + 1) /\ Stretch(c.rest, z) /\ z + Len(c.rest) = e
    <3> HIDE DEF b
    <3> QED
      BY <1>4, <2>1, <2>5
  <2>7. t \in Parsed(q, e)
    <3> HIDE DEF b
    <3> QED
      BY <2>1, <2>2, <2>3, <2>4, <2>5, <2>6 DEF Parsed
  <2>8. Len(t.jpegs) = l + 1
    BY <2>2, <2>3
  <2> QED
    BY <2>7, <2>8 DEF t
<1> QED
  BY <1>6, <1>7

\* A buffer with a byte in it is parsed to its end.
LEMMA DrainStretch ==
  ASSUME NEW s, NEW q \in Nat, Stretch(s, q), Len(s) >= 1
  PROVE  Drain(s) \in Parsed(q, q + Len(s)) /\ Drain(s).done
<1> DEFINE N == Len(s)
           e == q + N
           T == Parsed(q, e)
           p0 == [rest |-> s, jpegs |-> <<>>, done |-> FALSE]
           st == [n \in 1 .. N |-> [p \in T |-> OneTurn(p)]]
           Eq(h) == h = [n \in 0 .. N |->
                           IF n = 0 THEN p0
                           ELSE LET p == h[n - 1]
                                    c == Cut(p.rest)
                                IN  IF p.done THEN p
                                    ELSE [rest |-> c.rest, done |-> c.done,
                                          jpegs |-> IF c.done THEN p.jpegs ELSE Append(p.jpegs, c.jpeg)]]
           d == CHOOSE h : Eq(h)
<1>1. N \in Nat /\ N >= 1 /\ e \in Nat /\ s \in Seq(Nat)
  BY DEF Stretch
<1>2. p0 \in T /\ Len(p0.jpegs) = 0 /\ ~p0.done
  <2>1. p0 \in [rest : Seq(Nat), jpegs : Seq(Seq(Nat)), done : BOOLEAN]
    BY <1>1
  <2>2. Len(p0.jpegs) = 0 /\ ~p0.done /\ p0.rest = s
    OBVIOUS
  <2>3. \E r \in Nat : Started(r) = Started(q) + 0 /\ Stretch(p0.rest, r) /\ r + Len(p0.rest) = e
    <3>1. Started(q) = Started(q) + 0
      BY StartedBefore
    <3> QED
      BY <2>2, <3>1
  <2> HIDE DEF p0, e
  <2> QED
    BY <2>1, <2>2, <2>3 DEF Parsed
<1>3. \A p \in T : OneTurn(p) \in T
  <2> SUFFICES ASSUME NEW p \in T PROVE OneTurn(p) \in T
    OBVIOUS
  <2>1. CASE p.done
    BY <2>1 DEF OneTurn
  <2>2. CASE ~p.done
    <3> HIDE DEF e
    <3> QED
      BY <1>1, <2>2, OneMoreCut
  <2> QED
    BY <2>1, <2>2
<1>4. st \in [1 .. N -> [T -> T]]
  <2> HIDE DEF T, N
  <2> QED
    BY <1>3
<1>5. PICK g : /\ g \in [0 .. N -> T] /\ g[0] = p0
               /\ \A n \in 1 .. N : g[n] = st[n][g[n - 1]]
  <2> HIDE DEF st, N, T, p0
  <2>1. PICK g : Walk(g, T, p0, N, st)
    BY <1>1, <1>2, <1>4, StepsThere
  <2> QED
    BY <2>1 DEF Walk
<1>6. \A n \in 1 .. N : g[n] = OneTurn(g[n - 1])
  <2> SUFFICES ASSUME NEW n \in 1 .. N PROVE g[n] = OneTurn(g[n - 1])
    OBVIOUS
  <2>1. g[n - 1] \in T
    <3>1. n - 1 \in 0 .. N
      BY <1>1
    <3> HIDE DEF T, N
    <3> QED
      BY <1>5, <3>1
  <2> HIDE DEF T, N
  <2> QED
    BY <1>5, <2>1
<1>7. Eq(g)
  <2>1. \A n \in 0 .. N : n # 0 => n \in 1 .. N
    BY <1>1
  <2> HIDE DEF N, T, p0
  <2>2. \A n \in 0 .. N : g[n] = IF n = 0 THEN p0 ELSE OneTurn(g[n - 1])
    BY <1>5, <1>6, <2>1
  <2>3. g = [n \in 0 .. N |-> g[n]]
    BY <1>5
  <2> QED
    BY <2>2, <2>3 DEF OneTurn
<1>8. Eq(d)
  BY <1>7, Zenon
<1>9. Drain(s) = d[N]
  BY DEF Drain
<1> HIDE DEF d
<1>10. \A n \in 0 .. N : d[n] = IF n = 0 THEN p0 ELSE OneTurn(d[n - 1])
  <2> HIDE DEF N, p0
  <2> QED
    BY <1>8 DEF OneTurn
<1> DEFINE S == {n \in Nat : n <= N => d[n] \in T /\ (~d[n].done => Len(d[n].jpegs) = n)}
<1>11. 0 \in S
  <2> HIDE DEF T, p0, N
  <2>1. d[0] = p0
    <3>1. 0 \in 0 .. N
      BY <1>1
    <3> QED
      BY <1>10, <3>1
  <2>2. d[0] \in T /\ Len(d[0].jpegs) = 0
    BY <1>2, <2>1
  <2> QED
    BY <2>2
<1>12. ASSUME NEW n \in Nat, n \in S PROVE n + 1 \in S
  <2> SUFFICES ASSUME n + 1 <= N
               PROVE  d[n + 1] \in T /\ (~d[n + 1].done => Len(d[n + 1].jpegs) = n + 1)
    BY n + 1 \in Nat, Zenon
  <2>1. n + 1 \in 0 .. N /\ n + 1 # 0 /\ (n + 1) - 1 = n /\ n <= N
    BY <1>1
  <2>2. d[n] \in T /\ (~d[n].done => Len(d[n].jpegs) = n)
    BY <1>12, <2>1
  <2> HIDE DEF N, T, p0
  <2>3. d[n + 1] = OneTurn(d[n])
    BY <1>10, <2>1
  <2>4. CASE d[n].done
    BY <2>2, <2>3, <2>4 DEF OneTurn
  <2>5. CASE ~d[n].done
    <3> HIDE DEF e
    <3>1. ~OneTurn(d[n]).done => Len(OneTurn(d[n]).jpegs) = Len(d[n].jpegs) + 1
      BY <1>1, <2>2, <2>5, OneMoreCut DEF T
    <3> QED
      BY <1>3, <2>2, <2>3, <2>5, <3>1
  <2> QED
    BY <2>4, <2>5
<1>13. N \in S
  <2> HIDE DEF S
  <2> QED
    BY <1>1, <1>11, <1>12, CountingUp
<1>14. d[N] \in T /\ (~d[N].done => Len(d[N].jpegs) = N)
  BY <1>1, <1>13
<1>15. d[N].done
  <2> SUFFICES ASSUME ~d[N].done PROVE FALSE
    OBVIOUS
  <2> DEFINE p == d[N]
             m == Started(q)
  <2>1. Len(p.jpegs) = N /\ (Len(p.jpegs) # 0 => 5 * (m + Len(p.jpegs)) <= e)
    BY <1>14 DEF Parsed
  <2>2. m \in Nat /\ q <= 5 * m
    BY StartedBefore
  <2>3. 5 * (m + N) <= q + N
    BY <1>1, <2>1
  <2> HIDE DEF m, N
  <2> QED
    BY <1>1, <2>2, <2>3
<1> QED
  BY <1>9, <1>14, <1>15

-----------------------------------------------------------------------------
(* The invariant.                                                          *)

\* How many bytes were written, how many of them read, and how many of those
\* are done with.
BytesWritten == 5 * taken - Len(pending)
BytesRead == BytesWritten - Len(pipe)
DoneWith == BytesRead - Len(buf)

BytesFit ==
  /\ taken \in 0 .. Pictures
  /\ BytesWritten \in Nat /\ BytesRead \in Nat /\ DoneWith \in Nat
  /\ Stretch(pending, BytesWritten) /\ Len(pending) <= 4
  /\ Stretch(pipe, BytesRead) /\ Len(pipe) <= PipeSize
  /\ Stretch(buf, DoneWith)
  /\ buf = <<>> \/ (DoneWith % 5 = 0 /\ Len(buf) \in 2 .. 4)

\* Every picture that was read is accounted for, and the one of which a part
\* was is in the buffer or will be missed.
PicturesKept ==
  /\ ~glued /\ got \subseteq 1 .. taken
  /\ \A n \in 1 .. taken : 5 * n <= BytesRead => n \in got \cup cut
  /\ \A n \in 1 .. taken : 5 * (n - 1) < BytesRead /\ BytesRead < 5 * n => n \in cut \/ buf # <<>>
  /\ frame \in Nat /\ 5 * frame <= DoneWith

\* Each hand-over is behind the one before it.
HandedOver ==
  /\ current \in 0 .. frame /\ slot \in 0 .. current
  /\ sent \in [Client -> 0 .. slot]
  /\ camera \in {"running", "ended"} /\ reader \in {"running", "ended"}
  /\ loop \in {"opening", "failed", "running", "stopped"}
  /\ loop = "running" => frame # 0

FeedInv == BytesFit /\ PicturesKept /\ HandedOver

\* Arithmetic.
LEMMA FewBytes ==
  ASSUME NEW k \in Nat, k <= 4, k # 0
  PROVE  k \in 1 .. 5
OBVIOUS

LEMMA StillFewer ==
  ASSUME NEW k \in 1 .. 5, NEW r \in 1 .. k
  PROVE  k - r <= 4 /\ k - r \in Nat
OBVIOUS

LEMMA BytesLeft ==
  ASSUME NEW t \in Nat
  PROVE  5 * t = 5 * (t + 1) - 5 /\ t + 1 \in Nat /\ 5 * t - 0 = 5 * t
OBVIOUS

LEMMA FeedStarts == FeedInit => FeedInv
<1> SUFFICES ASSUME FeedInit PROVE FeedInv
  OBVIOUS
<1> USE FeedAssumption
<1>1. taken = 0 /\ pending = <<>> /\ pipe = <<>> /\ buf = <<>> /\ frame = 0
  BY DEF FeedInit
<1>2. BytesWritten = 0 /\ BytesRead = 0 /\ DoneWith = 0
  <2>1. Len(pending) = 0 /\ Len(pipe) = 0 /\ Len(buf) = 0
    BY <1>1
  <2>2. BytesWritten = 0
    <3>1. BytesWritten = 5 * 0 - 0
      BY <1>1, <2>1, Zenon DEF BytesWritten
    <3> QED
      BY <3>1
  <2>3. BytesRead = 0
    BY <2>1, <2>2 DEF BytesRead
  <2> QED
    BY <2>1, <2>2, <2>3 DEF DoneWith
<1>3. Stretch(<<>>, 0)
  BY DEF Stretch
<1>4. BytesFit
  BY <1>1, <1>2, <1>3 DEF BytesFit
<1>5. PicturesKept
  BY <1>1, <1>2 DEF PicturesKept, FeedInit
<1>6. HandedOver
  BY DEF HandedOver, FeedInit
<1> QED
  BY <1>4, <1>5, <1>6 DEF FeedInv

LEMMA LeastOfTwo ==
  ASSUME NEW a \in Nat, NEW b \in Nat
  PROVE  Min({a, b}) \in Nat /\ Min({a, b}) <= a /\ Min({a, b}) <= b
<1>1. CASE a <= b
  <2>1. Min({a, b}) = a
    BY <1>1, LeastIs
  <2> QED
    BY <1>1, <2>1
<1>2. CASE ~(a <= b)
  <2>1. Min({a, b}) = b
    BY <1>2, LeastIs
  <2> QED
    BY <1>2, <2>1
<1> QED
  BY <1>1, <1>2

\* A picture begins where the bytes written end, or the one begun goes on.
LEMMA WriteKeeps ==
  ASSUME FeedInv, Write
  PROVE  BytesFit' /\ PicturesKept'
<1> USE FeedAssumption
<1> DEFINE next == IF pending = <<>> THEN Jpeg(taken + 1) ELSE pending
           room == Min({PipeSize - Len(pipe), Len(next)})
           begun == IF pending = <<>> THEN taken + 1 ELSE taken
           chunk == SubSeq(next, 1, room)
           left == SubSeq(next, room + 1, Len(next))
<1>1. /\ taken \in Nat /\ taken <= Pictures /\ BytesWritten \in Nat /\ BytesRead \in Nat /\ DoneWith \in Nat
      /\ Stretch(pending, BytesWritten) /\ Len(pending) <= 4 /\ Len(pending) \in Nat
      /\ Stretch(pipe, BytesRead) /\ Len(pipe) <= PipeSize /\ Len(pipe) \in Nat
      /\ PipeSize \in Nat /\ Pictures \in Nat
  BY DEF FeedInv, BytesFit, Stretch
<1>2. /\ pending # <<>> \/ taken < Pictures
      /\ room > 0 /\ pipe' = pipe \o chunk /\ pending' = left /\ taken' = begun
      /\ UNCHANGED <<camera, reader, buf, frame, loop, current, slot, sent, glued, got, cut>>
  BY DEF Write
<1>3. Stretch(next, BytesWritten) /\ Len(next) \in 1 .. 5 /\ BytesWritten = 5 * begun - Len(next)
      /\ begun \in taken .. Pictures /\ begun \in Nat
  <2>1. CASE pending = <<>>
    <3>0. Len(pending) = 0
      BY <2>1
    <3>1. next = Jpeg(taken + 1) /\ begun = taken + 1 /\ BytesWritten = 5 * taken
      BY <1>1, <2>1, <3>0 DEF BytesWritten
    <3>2. Stretch(next, 5 * taken) /\ Len(next) = 5
      BY <1>1, <3>1, JpegBytes
    <3> HIDE DEF next, begun
    <3>3. BytesWritten = 5 * begun - Len(next) /\ begun \in Nat
      BY <1>1, <3>1, <3>2, BytesLeft
    <3>4. begun \in taken .. Pictures
      BY <1>1, <1>2, <2>1, <3>1
    <3> QED
      BY <3>1, <3>2, <3>3, <3>4
  <2>2. CASE pending # <<>>
    <3>1. next = pending /\ begun = taken
      BY <2>2
    <3>2. Len(pending) # 0
      BY <1>1, <2>2 DEF Stretch
    <3> HIDE DEF next, begun
    <3>3. Len(pending) \in 1 .. 5
      BY <1>1, <3>2, FewBytes
    <3>4. BytesWritten = 5 * begun - Len(next) /\ begun \in taken .. Pictures
      BY <1>1, <3>1 DEF BytesWritten
    <3> QED
      BY <1>1, <3>1, <3>3, <3>4
  <2> QED
    BY <2>1, <2>2
<1> HIDE DEF next, begun
<1>4. room \in 1 .. Len(next) /\ room <= PipeSize - Len(pipe) /\ room \in Nat
  <2> DEFINE space == PipeSize - Len(pipe)
             len == Len(next)
  <2>1. space \in Nat /\ len \in Nat /\ room = Min({space, len})
    BY <1>1, <1>3
  <2>2. room > 0
    BY <1>2
  <2> HIDE DEF space, len, room
  <2>3. room \in Nat /\ room <= space /\ room <= len
    BY <2>1, LeastOfTwo
  <2>4. room \in 1 .. len
    BY <2>1, <2>2, <2>3
  <2> QED
    BY <2>3, <2>4 DEF space, len
<1> HIDE DEF room
<1>5. Stretch(chunk, BytesWritten) /\ Len(chunk) = room
  <2>1. Stretch(chunk, BytesWritten + 1 - 1) /\ Len(chunk) = room - 1 + 1
    <3> DEFINE one == 1
    <3>1. one \in Nat /\ 1 <= one /\ one <= room + 1 /\ room <= Len(next) /\ room \in Nat
      BY <1>3, <1>4
    <3> HIDE DEF one
    <3>2. Stretch(SubSeq(next, one, room), BytesWritten + one - 1)
          /\ Len(SubSeq(next, one, room)) = room - one + 1
      BY <1>1, <1>3, <3>1, PartOfStretch
    <3> QED
      BY <3>2 DEF one
  <2>2. BytesWritten + 1 - 1 = BytesWritten /\ room - 1 + 1 = room
    BY <1>1, <1>4
  <2> QED
    BY <2>1, <2>2
<1>6. Stretch(left, BytesWritten + room) /\ Len(left) = Len(next) - room
  <2> DEFINE len == Len(next)
             from == room + 1
  <2>1. len \in Nat /\ len <= Len(next) /\ from \in Nat /\ 1 <= from /\ from <= len + 1 /\ left = SubSeq(next, from, len)
    BY <1>3, <1>4
  <2>2. BytesWritten + from - 1 = BytesWritten + room /\ len - from + 1 = len - room
    BY <1>1, <1>3, <1>4
  <2> HIDE DEF len, from
  <2>3. Stretch(SubSeq(next, from, len), BytesWritten + from - 1) /\ Len(SubSeq(next, from, len)) = len - from + 1
    BY <1>1, <1>3, <2>1, PartOfStretch
  <2>4. Stretch(left, BytesWritten + room) /\ Len(left) = len - room
    BY <2>1, <2>2, <2>3
  <2> QED
    BY <2>4 DEF len
<1>7. Stretch(pipe', BytesRead) /\ Len(pipe') = Len(pipe) + room
  <2>1. BytesRead + Len(pipe) = BytesWritten
    BY <1>1 DEF BytesRead
  <2> HIDE DEF chunk
  <2> QED
    BY <1>1, <1>2, <1>5, <2>1, StretchOn
<1> HIDE DEF chunk, left
<1>8. BytesWritten' = BytesWritten + room /\ BytesRead' = BytesRead /\ DoneWith' = DoneWith /\ Len(pending') <= 4
  <2>1. BytesWritten' = 5 * begun - (Len(next) - room)
    BY <1>2, <1>6 DEF BytesWritten
  <2>2. BytesWritten' = BytesWritten + room
    BY <1>3, <1>4, <2>1
  <2>3. BytesRead' = BytesRead
    <3>1. BytesRead' = BytesWritten' - Len(pipe') /\ BytesRead = BytesWritten - Len(pipe)
      BY DEF BytesRead
    <3> QED
      BY <1>1, <1>4, <1>7, <2>2, <3>1
  <2>4. DoneWith' = DoneWith
    BY <1>2, <2>3 DEF DoneWith
  <2>5. Len(pending') <= 4
    <3>1. Len(pending') = Len(next) - room
      BY <1>2, <1>6
    <3> QED
      BY <1>3, <1>4, <3>1, StillFewer
  <2> QED
    BY <2>2, <2>3, <2>4, <2>5
<1>9. BytesFit'
  <2>1. taken' \in 0 .. Pictures /\ BytesWritten' \in Nat /\ Len(pipe') <= PipeSize
    BY <1>1, <1>2, <1>3, <1>4, <1>7, <1>8
  <2>2. Stretch(pending', BytesWritten')
    BY <1>2, <1>6, <1>8
  <2>3. Stretch(buf, DoneWith) /\ (buf = <<>> \/ (DoneWith % 5 = 0 /\ Len(buf) \in 2 .. 4)) /\ buf' = buf
    BY <1>2 DEF FeedInv, BytesFit
  <2> QED
    BY <1>1, <1>7, <1>8, <2>1, <2>2, <2>3 DEF BytesFit
<1>10. PicturesKept'
  <2>1. /\ ~glued /\ got \subseteq 1 .. taken /\ frame \in Nat /\ 5 * frame <= DoneWith
        /\ \A n \in 1 .. taken : 5 * n <= BytesRead => n \in got \cup cut
        /\ \A n \in 1 .. taken : 5 * (n - 1) < BytesRead /\ BytesRead < 5 * n => n \in cut \/ buf # <<>>
    BY DEF FeedInv, PicturesKept
  <2>2. BytesRead <= 5 * taken
    BY <1>1 DEF BytesRead, BytesWritten
  <2>3. ASSUME NEW n \in 1 .. begun, 5 * (n - 1) < BytesRead PROVE n \in 1 .. taken
    BY <1>1, <1>3, <2>2, <2>3
  <2>4. ASSUME NEW n \in 1 .. begun, 5 * n <= BytesRead PROVE n \in got \cup cut
    <3>1. 5 * (n - 1) < BytesRead
      BY <1>1, <2>4
    <3> QED
      BY <2>1, <2>3, <2>4, <3>1
  <2>5. ASSUME NEW n \in 1 .. begun, 5 * (n - 1) < BytesRead, BytesRead < 5 * n PROVE n \in cut \/ buf # <<>>
    BY <2>1, <2>3, <2>5
  <2>6. got \subseteq 1 .. begun
    BY <1>1, <1>3, <2>1
  <2> QED
    BY <1>2, <1>8, <2>1, <2>4, <2>5, <2>6 DEF PicturesKept
<1> QED
  BY <1>9, <1>10

LEMMA LastOfRow ==
  ASSUME NEW c \in Nat, c # 0
  PROVE  Max(1 .. c) = c
<1>1. c \in 1 .. c /\ \A y \in 1 .. c : c >= y
  OBVIOUS
<1>2. \A z \in 1 .. c : (\A y \in 1 .. c : z >= y) => z = c
  BY <1>1
<1> QED
  BY <1>1, <1>2 DEF Max

\* The rest of a picture of which the first byte is the last one read.
LEMMA MarkerSplit ==
  ASSUME NEW chunk, NEW rest, NEW q \in Nat, NEW e \in Nat, NEW k \in Nat \ {0},
         Stretch(chunk, q), q + Len(chunk) = e, Len(chunk) >= 1, e = 5 * (k - 1) + 1,
         Stretch(rest, e), Len(rest) >= 2
  PROVE  k \in SplitMarker(chunk, rest)
<1> DEFINE l == Len(chunk)
           m == k - 1
<1>1. l \in Nat /\ l >= 1 /\ l \in 1 .. l /\ Len(rest) \in Nat /\ m \in Nat /\ e = 5 * m + 1
  BY DEF Stretch
<1>2. chunk[l] = Byte(5 * m + 1)
  <2>1. chunk[l] = Byte(q + l)
    BY <1>1 DEF Stretch
  <2> HIDE DEF l
  <2> QED
    BY <1>1, <2>1 DEF l
<1>3. rest[1] = Byte(5 * m + 2) /\ rest[2] = Byte(5 * m + 3)
  <2>1. rest[1] = Byte(e + 1) /\ rest[2] = Byte(e + 2)
    <3>1. 1 \in 1 .. Len(rest) /\ 2 \in 1 .. Len(rest)
      BY <1>1
    <3> QED
      BY <3>1 DEF Stretch
  <2>2. e + 1 = 5 * m + 2 /\ e + 2 = 5 * m + 3
    BY <1>1
  <2> QED
    BY <2>1, <2>2
<1>4. chunk[l] = 255 /\ rest[1] = 216 /\ rest[2] = m + 1
  <2> HIDE DEF l, m
  <2> QED
    BY <1>1, <1>2, <1>3, ByteOf
<1>5. chunk # <<>> /\ rest # <<>>
  BY <1>1
<1>6. m + 1 = k
  OBVIOUS
<1> HIDE DEF m
<1> QED
  BY <1>4, <1>5, <1>6 DEF SplitMarker

LEMMA Between ==
  ASSUME NEW q \in Nat, NEW k \in Int, 5 * (k - 1) < q, q < 5 * k
  PROVE  q % 5 # 0
<1> SUFFICES ASSUME q % 5 = 0 PROVE FALSE
  OBVIOUS
<1>1. PICK n \in Nat : q = 5 * n
  BY Fifth
<1> QED
  BY <1>1

\* Which pictures a read completes, and which it leaves begun.
LEMMA WhichPicture ==
  ASSUME NEW q \in Nat, NEW t \in Nat, NEW e \in Nat, q <= t, t <= e,
         NEW m \in Nat, q <= 5 * m, 5 * m < q + 5, NEW c \in Nat, c # 0 => 5 * (m + c) <= e,
         e < 5 * (m + c) + 5, NEW k \in Nat \ {0}
  PROVE  /\ t < 5 * k /\ 5 * k <= e => k \in m + 1 .. m + c \/ (5 * (k - 1) < t /\ q % 5 # 0)
         /\ 5 * (k - 1) < e /\ e < 5 * k => k = m + c + 1 \/ (5 * (k - 1) < t /\ t < 5 * k /\ q % 5 # 0)
<1>1. CASE k > m
  <2>1. t < 5 * k /\ 5 * k <= e => k \in m + 1 .. m + c
    BY <1>1
  <2>2. ASSUME 5 * (k - 1) < e, e < 5 * k PROVE k = m + c + 1
    <3>1. k <= m + c + 1
      BY <2>2
    <3>2. CASE c = 0
      BY <1>1, <3>1, <3>2
    <3>3. CASE c # 0
      BY <2>2, <3>1, <3>3
    <3> QED
      BY <3>2, <3>3
  <2> QED
    BY <2>1, <2>2
<1>2. CASE ~(k > m)
  <2>1. 5 * (k - 1) < q
    BY <1>2
  <2>2. ASSUME t < 5 * k PROVE q % 5 # 0
    BY <2>1, <2>2, Between
  <2>3. 5 * (k - 1) < t
    BY <2>1
  <2>4. e < 5 * k => t < 5 * k
    OBVIOUS
  <2> QED
    BY <2>2, <2>3, <2>4
<1> QED
  BY <1>1, <1>2

LEMMA ReadKeeps ==
  ASSUME FeedInv, NEW n, Read(n)
  PROVE  BytesFit' /\ PicturesKept' /\ frame' >= frame
<1> USE FeedAssumption
<1> DEFINE chunk == SubSeq(pipe, 1, n)
           s == buf \o chunk
           p == Drain(s)
           e == BytesRead + n
           m == Started(DoneWith)
           c == Len(p.jpegs)
           b == 5 * (m + c)
           whole == {i \in DOMAIN p.jpegs : Whole(p.jpegs[i])}
           following == From(pipe, n + 1) \o pending
<1>1. /\ taken \in Nat /\ taken <= Pictures /\ Pictures \in Nat
      /\ BytesWritten \in Nat /\ BytesRead \in Nat /\ DoneWith \in Nat
      /\ Stretch(pending, BytesWritten) /\ Len(pending) <= 4 /\ Len(pending) \in Nat
      /\ Stretch(pipe, BytesRead) /\ Len(pipe) <= PipeSize /\ Len(pipe) \in Nat
      /\ Stretch(buf, DoneWith) /\ Len(buf) \in Nat
      /\ buf = <<>> \/ (DoneWith % 5 = 0 /\ Len(buf) \in 2 .. 4)
  BY DEF FeedInv, BytesFit, Stretch
<1>2. /\ n \in 1 .. Len(pipe) /\ n \in Nat /\ n >= 1
      /\ buf' = p.rest /\ glued' = (glued \/ whole # DOMAIN p.jpegs)
      /\ got' = got \cup {p.jpegs[i][3] : i \in whole}
      /\ frame' = IF whole = {} THEN frame ELSE p.jpegs[Max(whole)][3]
      /\ cut' = cut \cup SplitMarker(chunk, following)
      /\ pipe' = From(pipe, n + 1)
      /\ taken' = taken /\ pending' = pending
  <2>1. n \in 1 .. Len(pipe) /\ n \in Nat /\ n >= 1
    BY <1>1 DEF Read
  <2> QED
    BY <2>1 DEF Read
<1> HIDE DEF p, whole
<1>3. Stretch(chunk, BytesRead) /\ Len(chunk) = n
  <2>1. Stretch(chunk, BytesRead + 1 - 1) /\ Len(chunk) = n - 1 + 1
    <3> DEFINE one == 1
    <3>1. one \in Nat /\ 1 <= one /\ one <= n + 1 /\ n <= Len(pipe) /\ n \in Nat
      BY <1>1, <1>2
    <3> HIDE DEF one
    <3>2. Stretch(SubSeq(pipe, one, n), BytesRead + one - 1) /\ Len(SubSeq(pipe, one, n)) = n - one + 1
      BY <1>1, <3>1, PartOfStretch
    <3> QED
      BY <3>2 DEF one
  <2>2. BytesRead + 1 - 1 = BytesRead /\ n - 1 + 1 = n
    BY <1>1, <1>2
  <2> QED
    BY <2>1, <2>2
<1> HIDE DEF chunk
<1>4. Stretch(s, DoneWith) /\ Len(s) >= 1 /\ DoneWith + Len(s) = e /\ DoneWith + Len(buf) = BytesRead /\ DoneWith <= BytesRead
  <2>1. DoneWith + Len(buf) = BytesRead /\ DoneWith <= BytesRead
    BY <1>1 DEF DoneWith
  <2>2. Stretch(s, DoneWith) /\ Len(s) = Len(buf) + n
    BY <1>1, <1>3, <2>1, StretchOn
  <2> HIDE DEF s
  <2> QED
    BY <1>1, <1>2, <2>1, <2>2
<1>5. p \in Parsed(DoneWith, e) /\ p.done
  <2> HIDE DEF s, e
  <2>1. Drain(s) \in Parsed(DoneWith, DoneWith + Len(s)) /\ Drain(s).done
    BY <1>1, <1>4, DrainStretch
  <2> QED
    BY <1>4, <2>1 DEF p
<1> HIDE DEF s
<1>6. /\ p \in [rest : Seq(Nat), jpegs : Seq(Seq(Nat)), done : BOOLEAN]
      /\ \A i \in 1 .. c : p.jpegs[i] = Jpeg(m + i)
      /\ c # 0 => b <= e
      /\ Remains(p.rest, b, e)
  BY <1>5 DEF Parsed
<1>7. /\ e \in Nat /\ m \in Nat /\ c \in Nat /\ DOMAIN p.jpegs = 1 .. c /\ Len(p.rest) \in Nat
      /\ DoneWith <= 5 * m /\ 5 * m < DoneWith + 5 /\ b \in Nat
  <2>1. e \in Nat
    BY <1>1, <1>2
  <2>2. m \in Nat /\ DoneWith <= 5 * m /\ 5 * m < DoneWith + 5
    BY <1>1, StartedBefore
  <2>3. c \in Nat /\ DOMAIN p.jpegs = 1 .. c /\ Len(p.rest) \in Nat
    BY <1>6
  <2>4. b \in Nat
    <3> HIDE DEF m, c
    <3> QED
      BY <2>2, <2>3
  <2> QED
    BY <2>1, <2>2, <2>3, <2>4
<1>8. Stretch(pipe', e) /\ Len(pipe') = Len(pipe) - n
  <2> DEFINE len == Len(pipe)
             from == n + 1
  <2>1. len \in Nat /\ len <= Len(pipe) /\ from \in Nat /\ 1 <= from /\ from <= len + 1
        /\ pipe' = SubSeq(pipe, from, len)
    BY <1>1, <1>2 DEF From
  <2>2. BytesRead + from - 1 = e /\ len - from + 1 = len - n
    BY <1>1, <1>2
  <2> HIDE DEF len, from, e
  <2>3. Stretch(SubSeq(pipe, from, len), BytesRead + from - 1) /\ Len(SubSeq(pipe, from, len)) = len - from + 1
    BY <1>1, <2>1, PartOfStretch
  <2>4. Stretch(pipe', e) /\ Len(pipe') = len - n
    BY <2>1, <2>2, <2>3
  <2> QED
    BY <2>4 DEF len
<1>9. BytesWritten' = BytesWritten /\ BytesRead' = e /\ e <= BytesWritten /\ BytesWritten = 5 * taken - Len(pending)
      /\ BytesWritten = e + Len(pipe')
  <2>1. BytesWritten' = BytesWritten /\ BytesWritten = 5 * taken - Len(pending)
    BY <1>2 DEF BytesWritten
  <2>2. BytesRead = BytesWritten - Len(pipe) /\ BytesRead' = BytesWritten' - Len(pipe')
    BY DEF BytesRead
  <2> DEFINE k == Len(pipe)
             k1 == Len(pipe')
  <2>3. k \in Nat /\ k1 = k - n /\ BytesRead = BytesWritten - k /\ BytesRead' = BytesWritten' - k1 /\ n <= k
    BY <1>1, <1>2, <1>8, <2>2, SMTT(60)
  <2> HIDE DEF k, k1
  <2>4. BytesRead' = e /\ e <= BytesWritten /\ BytesWritten = e + k1
    BY <1>1, <1>2, <2>1, <2>3, SMTT(60)
  <2> QED
    BY <2>1, <2>4 DEF k1
<1>10. e <= 5 * taken
  <2> HIDE DEF e
  <2> QED
    BY <1>1, <1>7, <1>9
<1> HIDE DEF e, m, c
<1>11. ASSUME NEW i \in 1 .. c
       PROVE  m + i \in 1 .. taken /\ m + i \in 1 .. Pictures /\ p.jpegs[i] = Jpeg(m + i) /\ p.jpegs[i][3] = m + i
  <2>1. m + i \in 1 .. taken /\ m + i \in 1 .. Pictures
    BY <1>1, <1>6, <1>7, <1>10
  <2>2. Jpeg(m + i)[3] = m + i
    BY DEF Jpeg
  <2> QED
    BY <1>6, <2>1, <2>2
<1>12. whole = 1 .. c
  <2>1. whole = {i \in 1 .. c : Whole(p.jpegs[i])}
    BY <1>7 DEF whole
  <2>2. \A i \in 1 .. c : Whole(p.jpegs[i])
    BY <1>11 DEF Whole
  <2> QED
    BY <2>1, <2>2
<1>13. /\ ~glued' /\ got' = got \cup {m + i : i \in 1 .. c}
       /\ frame' = IF c = 0 THEN frame ELSE m + c
  <2>1. ~glued'
    <3>1. whole = DOMAIN p.jpegs /\ ~glued
      BY <1>7, <1>12 DEF FeedInv, PicturesKept
    <3> QED
      BY <1>2, <3>1, Zenon
  <2>2. {p.jpegs[i][3] : i \in 1 .. c} = {m + i : i \in 1 .. c}
    BY <1>11
  <2>3. CASE c = 0
    <3>1. whole = {}
      BY <1>12, <2>3
    <3> QED
      BY <1>2, <1>12, <2>1, <2>2, <2>3, <3>1
  <2>4. CASE c # 0
    <3>1. Max(1 .. c) = c /\ c \in 1 .. c
      BY <1>7, <2>4, LastOfRow
    <3>2. frame' = m + c
      BY <1>2, <1>11, <1>12, <3>1
    <3> QED
      BY <1>2, <1>12, <2>1, <2>2, <2>4, <3>2
  <2> QED
    BY <2>3, <2>4
<1>14. e < b + 5 /\ DoneWith' \in Nat /\ Stretch(buf', DoneWith')
       /\ (buf' = <<>> \/ (DoneWith' % 5 = 0 /\ Len(buf') \in 2 .. 4))
       /\ (buf' = <<>> => e < b + 2 /\ DoneWith' = e) /\ (buf' # <<>> => DoneWith' = b)
  <2>1. DoneWith' = e - Len(p.rest) /\ buf' = p.rest
    BY <1>2, <1>9 DEF DoneWith
  <2>2. b % 5 = 0
    <3>1. m + c \in Nat
      BY <1>7
    <3> QED
      BY <3>1, Fives
  <2> HIDE DEF b
  <2>3. CASE p.rest = <<>> /\ e < b + 2
    <3>1. Len(p.rest) = 0
      BY <2>3
    <3>2. DoneWith' = e
      BY <1>7, <2>1, <3>1
    <3>3. Stretch(<<>>, e)
      BY DEF Stretch
    <3> QED
      BY <1>7, <2>1, <2>3, <3>2, <3>3
  <2>4. CASE Stretch(p.rest, b) /\ b + Len(p.rest) = e /\ Len(p.rest) \in 2 .. 4
    <3>1. DoneWith' = b
      BY <1>7, <2>1, <2>4
    <3> DEFINE k == Len(p.rest)
    <3>2. p.rest # <<>>
      <4>1. Len(<<>>) = 0
        OBVIOUS
      <4>2. k # 0
        <5>1. \A z \in 2 .. 4 : z # 0
          OBVIOUS
        <5> QED
          BY <2>4, <5>1
      <4> QED
        BY <4>1, <4>2, Zenon
    <3>3. e < b + 5
      <4>1. k \in 2 .. 4 /\ b + k = e
        BY <2>4
      <4> HIDE DEF k
      <4> QED
        BY <1>7, <4>1
    <3> QED
      BY <1>7, <2>1, <2>2, <2>4, <3>1, <3>2, <3>3
  <2> QED
    BY <1>6, <2>3, <2>4 DEF Remains
<1>15. BytesFit'
  <2>1. BytesRead' \in Nat /\ BytesWritten' \in Nat /\ Stretch(pending', BytesWritten') /\ Len(pending') <= 4
        /\ Stretch(pipe', BytesRead') /\ taken' \in 0 .. Pictures
    BY <1>1, <1>2, <1>7, <1>8, <1>9
  <2>2. Len(pipe') <= PipeSize
    <3> DEFINE k == Len(pipe)
               k1 == Len(pipe')
    <3>1. k1 = k - n /\ k \in Nat /\ k <= PipeSize /\ n \in Nat
      BY <1>1, <1>2, <1>8
    <3>2. PipeSize \in Nat
      BY FeedAssumption
    <3> HIDE DEF k, k1
    <3>3. k1 <= PipeSize
      BY <3>1, <3>2
    <3> QED
      BY <3>3 DEF k1
  <2> QED
    BY <1>14, <2>1, <2>2 DEF BytesFit
<1>16. /\ ~glued /\ got \subseteq 1 .. taken /\ frame \in Nat /\ 5 * frame <= DoneWith
       /\ \A k \in 1 .. taken : 5 * k <= BytesRead => k \in got \cup cut
       /\ \A k \in 1 .. taken : 5 * (k - 1) < BytesRead /\ BytesRead < 5 * k => k \in cut \/ buf # <<>>
  BY DEF FeedInv, PicturesKept
<1>17. ASSUME NEW k \in 1 .. taken
       PROVE  /\ BytesRead < 5 * k /\ 5 * k <= e => k \in m + 1 .. m + c \/ (5 * (k - 1) < BytesRead /\ DoneWith % 5 # 0)
              /\ 5 * (k - 1) < e /\ e < 5 * k =>
                   k = m + c + 1 \/ (5 * (k - 1) < BytesRead /\ BytesRead < 5 * k /\ DoneWith % 5 # 0)
  <2>1. k \in Nat \ {0} /\ BytesRead <= e
    BY <1>1, <1>2 DEF e
  <2> DEFINE q == DoneWith
             t == BytesRead
  <2>2. /\ q \in Nat /\ t \in Nat /\ q <= t /\ t <= e /\ q <= 5 * m /\ 5 * m < q + 5
        /\ (c # 0 => 5 * (m + c) <= e) /\ e < 5 * (m + c) + 5
    BY <1>1, <1>4, <1>6, <1>7, <1>14, <2>1
  <2> HIDE DEF q, t
  <2>3. /\ t < 5 * k /\ 5 * k <= e => k \in m + 1 .. m + c \/ (5 * (k - 1) < t /\ q % 5 # 0)
        /\ 5 * (k - 1) < e /\ e < 5 * k => k = m + c + 1 \/ (5 * (k - 1) < t /\ t < 5 * k /\ q % 5 # 0)
    BY <1>7, <2>1, <2>2, WhichPicture
  <2> QED
    BY <2>3 DEF q, t
<1>18. ASSUME NEW k \in 1 .. taken, 5 * k <= e PROVE k \in got' \cup cut'
  <2>1. CASE 5 * k <= BytesRead
    BY <1>2, <1>13, <1>16, <2>1
  <2>2. CASE k \in m + 1 .. m + c
    <3>1. k - m \in 1 .. c /\ k = m + (k - m)
      BY <1>7, <2>2
    <3> QED
      BY <1>13, <3>1
  <2>3. CASE BytesRead < 5 * k /\ 5 * (k - 1) < BytesRead /\ DoneWith % 5 # 0
    BY <1>1, <1>2, <1>16, <2>3
  <2>4. 5 * k <= BytesRead \/ BytesRead < 5 * k
    BY <1>1
  <2> QED
    BY <1>17, <1>18, <2>1, <2>2, <2>3, <2>4
<1>19. ASSUME NEW k \in 1 .. taken, 5 * (k - 1) < e, e < 5 * k PROVE k \in cut' \/ buf' # <<>>
  <2> SUFFICES ASSUME buf' = <<>> PROVE k \in cut'
    OBVIOUS
  <2>1. CASE 5 * (k - 1) < BytesRead /\ BytesRead < 5 * k /\ DoneWith % 5 # 0
    BY <1>1, <1>2, <1>16, <2>1
  <2>2. CASE k = m + c + 1
    <3>1. e = 5 * (k - 1) + 1
      <4>1. e < b + 2 /\ b = 5 * (k - 1)
        BY <1>7, <1>14, <2>2
      <4> HIDE DEF b
      <4> QED
        BY <1>7, <1>19, <4>1
    <3>2. Stretch(following, e) /\ Len(following) >= 2
      <4>1. following = pipe' \o pending /\ Stretch(pending, e + Len(pipe'))
        BY <1>1, <1>2, <1>9
      <4> DEFINE k1 == Len(pipe')
                 k2 == Len(pending)
      <4> HIDE DEF following
      <4>2. Stretch(following, e) /\ Len(following) = k1 + k2
        BY <1>7, <1>8, <4>1, StretchOn
      <4>3. k1 \in Nat /\ k2 \in Nat /\ 5 * taken = e + k1 + k2
        <5>1. k1 \in Nat /\ k2 \in Nat
          BY <1>1, <1>8 DEF Stretch
        <5>2. 5 * taken - k2 = e + k1
          BY <1>9
        <5> HIDE DEF k1, k2
        <5> QED
          BY <1>1, <1>7, <5>1, <5>2
      <4> HIDE DEF k1, k2
      <4>4. k1 + k2 >= 2
        BY <1>1, <1>7, <3>1, <4>3
      <4> QED
        BY <4>2, <4>4
    <3>3. k \in SplitMarker(chunk, following)
      <4>1. k \in Nat \ {0} /\ BytesRead + Len(chunk) = e /\ Len(chunk) >= 1
        BY <1>1, <1>2, <1>3 DEF e
      <4> HIDE DEF following
      <4> QED
        BY <1>1, <1>3, <1>7, <3>1, <3>2, <4>1, MarkerSplit
    <3> HIDE DEF following
    <3> QED
      BY <1>2, <3>3
  <2> QED
    BY <1>17, <1>19, <2>1, <2>2
<1>20. frame' \in Nat /\ 5 * frame' <= DoneWith' /\ frame' >= frame
  <2>1. frame <= m
    BY <1>1, <1>7, <1>16
  <2>2. CASE c = 0
    <3>1. DoneWith <= DoneWith'
      <4>1. DoneWith <= e
        BY <1>1, <1>2, <1>4 DEF e
      <4>2. b = 5 * m
        BY <1>7, <2>2
      <4> HIDE DEF b
      <4> QED
        BY <1>1, <1>7, <1>14, <4>1, <4>2
    <3> QED
      BY <1>1, <1>13, <1>14, <1>16, <2>2, <3>1
  <2>3. CASE c # 0
    <3>1. frame' = m + c /\ frame' \in Nat /\ 5 * frame' = b
      BY <1>7, <1>13, <2>3
    <3>2. b <= DoneWith'
      <4> HIDE DEF b
      <4> QED
        BY <1>6, <1>7, <1>14, <2>3
    <3>3. frame' >= frame
      BY <1>7, <1>16, <2>1, <3>1
    <3> HIDE DEF b
    <3> QED
      BY <3>1, <3>2, <3>3
  <2> QED
    BY <2>2, <2>3
<1>21. got' \subseteq 1 .. taken
  BY <1>11, <1>13, <1>16
<1>22. PicturesKept'
  <2>1. ~glued' /\ taken' = taken
    BY <1>2, <1>13
  <2> QED
    BY <1>9, <1>18, <1>19, <1>20, <1>21, <2>1 DEF PicturesKept
<1> QED
  BY <1>15, <1>20, <1>22

LEMMA BytesUntouched ==
  ASSUME FeedInv, UNCHANGED <<taken, pending, pipe, buf, frame, glued, got, cut>>
  PROVE  BytesFit' /\ PicturesKept'
<1>1. BytesWritten' = BytesWritten /\ BytesRead' = BytesRead /\ DoneWith' = DoneWith
  BY DEF BytesWritten, BytesRead, DoneWith
<1>2. BytesFit'
  BY <1>1 DEF FeedInv, BytesFit
<1>3. PicturesKept'
  BY <1>1 DEF FeedInv, PicturesKept
<1> QED
  BY <1>2, <1>3

\* No hand-over goes back in time.
Forward == /\ frame' >= frame /\ current' >= current /\ slot' >= slot
           /\ \A c \in Client : sent'[c] >= sent[c]

LEMMA FeedStep == FeedInv /\ [FeedNext]_feedVars => FeedInv' /\ Forward
<1> SUFFICES ASSUME FeedInv, [FeedNext]_feedVars PROVE FeedInv' /\ Forward
  OBVIOUS
<1>1. /\ frame \in Nat /\ current \in 0 .. frame /\ slot \in 0 .. current
      /\ current \in Nat /\ slot \in Nat
      /\ sent \in [Client -> 0 .. slot] /\ \A c \in Client : sent[c] \in Nat
      /\ camera \in {"running", "ended"} /\ reader \in {"running", "ended"}
      /\ loop \in {"opening", "failed", "running", "stopped"}
      /\ loop = "running" => frame # 0
  <2>1. HandedOver /\ frame \in Nat
    BY DEF FeedInv, PicturesKept
  <2>2. current \in Nat /\ slot \in Nat
    BY <2>1 DEF HandedOver
  <2>3. \A c \in Client : sent[c] \in Nat
    BY <2>1, <2>2 DEF HandedOver
  <2> QED
    BY <2>1, <2>2, <2>3 DEF HandedOver
<1> DEFINE still == UNCHANGED <<taken, pending, pipe, buf, frame, glued, got, cut>>
           hands == UNCHANGED <<current, slot, sent>>
<1>2. hands /\ frame' >= frame => Forward
  BY <1>1 DEF Forward
<1>3. CASE Write
  <2>1. BytesFit' /\ PicturesKept'
    BY <1>3, WriteKeeps
  <2>2. UNCHANGED <<camera, reader, frame, loop, current, slot, sent>>
    BY <1>3 DEF Write
  <2>3. HandedOver'
    BY <1>1, <2>2 DEF HandedOver
  <2> QED
    BY <1>1, <1>2, <2>1, <2>2, <2>3 DEF FeedInv
<1>4. CASE \E n \in 1 .. PipeSize : Read(n)
  <2>1. BytesFit' /\ PicturesKept' /\ frame' >= frame
    BY <1>4, ReadKeeps
  <2>2. UNCHANGED <<camera, reader, loop, current, slot, sent>>
    BY <1>4 DEF Read
  <2>3. HandedOver'
    <3>1. frame' \in Nat /\ current \in 0 .. frame' /\ (loop = "running" => frame' # 0)
      BY <1>1, <2>1 DEF PicturesKept
    <3> QED
      BY <1>1, <2>2, <3>1 DEF HandedOver
  <2> QED
    BY <1>2, <2>1, <2>2, <2>3 DEF FeedInv
<1>5. CASE End
  <2>1. still /\ hands /\ camera' = "ended" /\ UNCHANGED <<reader, loop>>
    BY <1>5 DEF End
  <2> QED
    BY <1>1, <1>2, <2>1, BytesUntouched DEF FeedInv, HandedOver
<1>6. CASE ReaderEnds
  <2>1. still /\ hands /\ reader' = "ended" /\ UNCHANGED <<camera, loop>>
    BY <1>6 DEF ReaderEnds
  <2> QED
    BY <1>1, <1>2, <2>1, BytesUntouched DEF FeedInv, HandedOver
<1>7. CASE Open
  <2>1. still /\ hands /\ loop' = "running" /\ frame # 0 /\ UNCHANGED <<camera, reader>>
    BY <1>7 DEF Open
  <2> QED
    BY <1>1, <1>2, <2>1, BytesUntouched DEF FeedInv, HandedOver
<1>8. CASE OpenTimesOut
  <2>1. still /\ hands /\ loop' = "failed" /\ camera' = "ended" /\ UNCHANGED reader
    BY <1>8 DEF OpenTimesOut
  <2> QED
    BY <1>1, <1>2, <2>1, BytesUntouched DEF FeedInv, HandedOver
<1>9. CASE Stop
  <2>1. still /\ hands /\ loop' = "stopped" /\ camera' = "ended" /\ UNCHANGED reader
    BY <1>9 DEF Stop
  <2> QED
    BY <1>1, <1>2, <2>1, BytesUntouched DEF FeedInv, HandedOver
<1>10. CASE NextFrame
  <2>1. still /\ current' = frame /\ loop = "running" /\ UNCHANGED <<slot, sent, camera, reader>>
        /\ loop' = IF frame = 0 THEN "broken" ELSE "running"
    BY <1>10 DEF NextFrame
  <2>2. loop' = "running" /\ frame # 0
    BY <1>1, <2>1
  <2>3. current' \in 0 .. frame /\ current' >= current /\ slot \in 0 .. current'
    BY <1>1, <2>1
  <2>4. HandedOver'
    BY <1>1, <2>1, <2>2, <2>3 DEF HandedOver
  <2>5. Forward
    BY <1>1, <2>1, <2>3 DEF Forward
  <2> QED
    BY <2>1, <2>4, <2>5, BytesUntouched DEF FeedInv
<1>11. CASE set_frame
  <2>1. still /\ slot' = current /\ UNCHANGED <<current, sent, camera, reader, loop>>
    BY <1>11 DEF set_frame
  <2>2. slot' \in 0 .. current /\ slot' >= slot /\ sent \in [Client -> 0 .. slot']
    <3>1. slot' \in 0 .. current /\ slot' >= slot
      BY <1>1, <2>1
    <3>2. \A x \in 0 .. slot : x \in 0 .. slot'
      BY <1>1, <2>1
    <3> QED
      BY <1>1, <3>1, <3>2
  <2>3. HandedOver'
    BY <1>1, <2>1, <2>2 DEF HandedOver
  <2>4. Forward
    BY <1>1, <2>1, <2>2 DEF Forward
  <2> QED
    BY <2>1, <2>3, <2>4, BytesUntouched DEF FeedInv
<1>12. CASE \E c \in Client : Serve(c)
  <2> PICK c \in Client : Serve(c)
    BY <1>12
  <2>1. still /\ sent' = [sent EXCEPT ![c] = slot] /\ UNCHANGED <<current, slot, camera, reader, loop>>
    BY DEF Serve
  <2>2. sent' \in [Client -> 0 .. slot]
    BY <1>1, <2>1
  <2>3. \A b \in Client : sent'[b] >= sent[b]
    <3> SUFFICES ASSUME NEW b \in Client PROVE sent'[b] >= sent[b]
      OBVIOUS
    <3>1. sent'[b] = IF b = c THEN slot ELSE sent[b]
      BY <1>1, <2>1
    <3>2. sent[b] \in 0 .. slot
      BY <1>1
    <3> QED
      BY <1>1, <3>1, <3>2
  <2>4. HandedOver'
    BY <1>1, <2>1, <2>2 DEF HandedOver
  <2>5. Forward
    BY <1>1, <2>1, <2>3 DEF Forward
  <2> QED
    BY <2>1, <2>4, <2>5, BytesUntouched DEF FeedInv
<1>13. CASE UNCHANGED feedVars
  <2>1. still /\ hands /\ UNCHANGED <<camera, reader, loop>>
    BY <1>13 DEF feedVars
  <2> QED
    BY <1>1, <1>2, <2>1, BytesUntouched DEF FeedInv, HandedOver
<1> QED
  BY <1>3, <1>4, <1>5, <1>6, <1>7, <1>8, <1>9, <1>10, <1>11, <1>12, <1>13 DEF FeedNext

LEMMA FeedSays ==
  FeedInv => FeedTypeOK /\ PicturesWhole /\ OnlyCutPicturesLost
<1> SUFFICES ASSUME FeedInv PROVE FeedTypeOK /\ PicturesWhole /\ OnlyCutPicturesLost
  OBVIOUS
<1>1. /\ taken \in 0 .. Pictures /\ taken \in Nat
      /\ BytesWritten \in Nat /\ BytesRead \in Nat /\ DoneWith \in Nat
      /\ Len(pending) \in Nat /\ Len(pending) <= 4 /\ Len(pipe) <= PipeSize /\ Len(pipe) \in Nat
      /\ Len(buf) \in Nat /\ (buf = <<>> \/ Len(buf) \in 2 .. 4) /\ pending \in Seq(Nat)
  <2>1. Pictures \in Nat
    BY FeedAssumption
  <2>2. taken \in Nat
    BY <2>1 DEF FeedInv, BytesFit
  <2> QED
    BY <2>2 DEF FeedInv, BytesFit, Stretch
<1>2. /\ ~glued /\ got \subseteq 1 .. taken /\ frame \in Nat /\ 5 * frame <= DoneWith
      /\ \A n \in 1 .. taken : 5 * n <= BytesRead => n \in got \cup cut
  BY DEF FeedInv, PicturesKept
<1>3. HandedOver
  BY DEF FeedInv
<1>4. /\ BytesWritten = 5 * taken - Len(pending) /\ BytesRead = BytesWritten - Len(pipe) /\ DoneWith = BytesRead - Len(buf)
  BY DEF BytesWritten, BytesRead, DoneWith
<1>5. FeedTypeOK
  <2>1. DoneWith <= 5 * taken
    BY <1>1, <1>4
  <2>2. frame \in 0 .. taken
    BY <1>1, <1>2, <2>1
  <2>3. current \in 0 .. taken /\ slot \in 0 .. taken
    BY <1>1, <1>3, <2>2 DEF HandedOver
  <2>4. \A c \in Client : sent[c] \in 0 .. taken
    <3>1. \A x \in 0 .. slot : x \in 0 .. taken
      BY <1>1, <2>3
    <3> QED
      BY <1>3, <3>1 DEF HandedOver
  <2>5. Len(buf) < Len(Jpeg(0))
    <3>1. Len(Jpeg(0)) = 5 /\ Len(<<>>) = 0
      BY DEF Jpeg
    <3>2. Len(buf) < 5
      <4>1. CASE buf = <<>>
        BY <3>1, <4>1
      <4>2. CASE Len(buf) \in 2 .. 4
        <5>1. \A z \in 2 .. 4 : z < 5
          OBVIOUS
        <5> QED
          BY <4>2, <5>1
      <4> QED
        BY <1>1, <4>1, <4>2
    <3> QED
      BY <3>1, <3>2
  <2> QED
    BY <1>1, <1>2, <1>3, <2>2, <2>3, <2>4, <2>5 DEF FeedTypeOK, HandedOver
<1>6. OnlyCutPicturesLost
  <2> SUFFICES ASSUME pipe = <<>>, NEW n \in 1 .. taken
               PROVE  n \in got \cup cut \/ (n = taken /\ pending # <<>>)
    BY DEF OnlyCutPicturesLost
  <2>1. BytesRead = 5 * taken - Len(pending)
    <3>1. Len(pipe) = 0
      OBVIOUS
    <3> QED
      BY <1>1, <1>4, <3>1
  <2>2. CASE 5 * n <= BytesRead
    BY <1>2, <2>2
  <2>3. CASE ~(5 * n <= BytesRead)
    <3> DEFINE k == Len(pending)
    <3>1. k \in Nat /\ k <= 4 /\ BytesRead = 5 * taken - k
      BY <1>1, <2>1
    <3> HIDE DEF k
    <3>2. n = taken /\ k # 0
      BY <1>1, <2>3, <3>1
    <3>3. pending # <<>>
      BY <3>2 DEF k
    <3> QED
      BY <3>2, <3>3
  <2> QED
    BY <2>2, <2>3
<1> QED
  BY <1>2, <1>3, <1>5, <1>6 DEF PicturesWhole, HandedOver

\* However the reads cut the stream, only whole pictures are decoded, in their
\* order, and each but those whose first marker a read ended in; nothing that
\* is handed over is followed by an older picture (camera.py, main.py and
\* stream_server.py).
THEOREM PicturesArriveSafely ==
  FeedBehaviour => /\ [](FeedTypeOK /\ PicturesWhole /\ OnlyCutPicturesLost)
                   /\ NeverBackInTime
<1>1. FeedInit => FeedInv
  BY FeedStarts
<1>2. FeedInv /\ [FeedNext]_feedVars => FeedInv' /\ Forward
  BY FeedStep
<1>3. FeedInv => FeedTypeOK /\ PicturesWhole /\ OnlyCutPicturesLost
  BY FeedSays
<1>4. FeedBehaviour => [](FeedTypeOK /\ PicturesWhole /\ OnlyCutPicturesLost)
  BY <1>1, <1>2, <1>3, PTL DEF FeedBehaviour
<1>5. FeedBehaviour => [][Forward]_feedVars
  BY <1>1, <1>2, PTL DEF FeedBehaviour
<1> QED
  BY <1>4, <1>5 DEF NeverBackInTime, Forward

\* What is left to TLC of PicturesArrive is that the newest is seen.
THEOREM PicturesArriveIfTheNewestIsSeen ==
  FeedBehaviour /\ NewestIsSeen => PicturesArrive
BY PicturesArriveSafely DEF PicturesArrive
=============================================================================
