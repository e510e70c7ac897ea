-------------------------- MODULE AttendanceEngine --------------------------
(***************************************************************************)
(* The decision rules of cloud_backend/attendance/engine.py: which         *)
(* recognition events are suppressed, and which state an accepted event    *)
(* leaves the attendance record in.  The module has no state: the          *)
(* specifications of the ingest path (AttendanceCore) and of the promise   *)
(* it makes (HitLadder) are both built from these operators.               *)
(***************************************************************************)
EXTENDS Naturals

CONSTANT
  Cooldown      \* COOLDOWN_SECONDS (5), in clock ticks

ASSUME CooldownAssumption == Cooldown \in Nat

\* AttendanceState.  The engine only ever writes the first four; the others
\* are written by hand in the database (no code under src/ sets them), and
\* "manual_override" stands for all of them.
AttendanceState ==
  {"undetected", "candidate", "initialized", "confirmed", "manual_override"}

\* _FORWARD: the forward-only transition table.
Forward ==
  [undetected  |-> "candidate",
   candidate   |-> "initialized",
   initialized |-> "confirmed"]

\* _HIT_THRESHOLD: accepted events needed to leave a state.
HitThreshold ==
  [undetected  |-> 1,
   candidate   |-> 3,
   initialized |-> 5]

\* Accepted events a record must have seen to be in a state legitimately.
HitsToReach ==
  [undetected      |-> 0,
   candidate       |-> 1,
   initialized     |-> 3,
   confirmed       |-> 5,
   manual_override |-> 0]

\* The record's state refuses every further event: confirmed, or a state
\* with no forward path.
Terminal(st) == st \notin DOMAIN Forward

\* Ages saturate at Cooldown: the engine only asks whether one has reached
\* it.  A record that never saw an event (last_event_at NULL) skips the
\* cooldown guard, exactly as one whose last event is Cooldown old.
Age == 0 .. Cooldown

Older(age) == IF age < Cooldown THEN age + 1 ELSE age

\* Mutant: the is_locked guard is missing.
SuppressedUnlocked(status, confident, locked, st, age) ==
  \/ status # "active_window_open"
  \/ ~confident
  \/ Terminal(st)
  \/ age < Cooldown

\* Mutant: the cooldown guard is missing.
SuppressedNoCooldown(status, confident, locked, st, age) ==
  \/ status # "active_window_open"
  \/ ~confident
  \/ locked
  \/ Terminal(st)

\* The guards of process_recognition_event, in one predicate: the caller's
\* copy of the lecture is not open, the confidence is below MIN_CONFIDENCE,
\* the record is locked, its state is terminal, or the last accepted event is
\* younger than the cooldown.
Suppressed(status, confident, locked, st, age) ==
  \/ status # "active_window_open"
  \/ ~confident
  \/ locked
  \/ Terminal(st)
  \/ age < Cooldown

\* Mutant: the event is counted twice.
TargetEager(st, hits) ==
  IF hits + 2 < HitThreshold[st] THEN st ELSE Forward[st]

\* The state an accepted event moves a record to, given the accepted events
\* that were already logged: the event itself counts as one more.
Target(st, hits) ==
  IF hits + 1 < HitThreshold[st] THEN st ELSE Forward[st]
=============================================================================
