----------------------------- MODULE HitLadder -----------------------------
(***************************************************************************)
(* What the recognition engine promises for one attendance record: each    *)
(* accepted event adds one hit and climbs the ladder undetected ->         *)
(* candidate -> initialized -> confirmed when the hit count reaches the    *)
(* threshold of the rung, never goes down, and stops at the top.           *)
(* engine.py states it as its design invariants and its two tables; the    *)
(* detailed specification of the requests that do it is AttendanceCore.    *)
(***************************************************************************)
EXTENDS AttendanceEngine

VARIABLES
  state,     \* AttendanceRecord.state
  hits       \* number of AttendanceEvent rows of the record

ladderVars == <<state, hits>>

Init ==
  /\ state = "undetected"
  /\ hits = 0

\* One accepted event.
Hit ==
  /\ ~Terminal(state)
  /\ hits' = hits + 1
  /\ state' = Target(state, hits)

Next == Hit

Spec == Init /\ [][Next]_ladderVars
=============================================================================
