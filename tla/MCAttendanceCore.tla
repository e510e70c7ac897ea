-------------------------- MODULE MCAttendanceCore --------------------------
(* Instances of AttendanceCore for TLC.                                    *)
EXTENDS AttendanceCore, TLC

CONSTANTS c1, c2, l1, l2, m1, s1, s2

\* Every lecture in the first classroom.
OneRoom == [l \in Lecture |-> c1]

\* The second lecture in the second classroom.
TwoRooms == [l \in Lecture |-> IF l = l2 THEN c2 ELSE c1]

\* One payload that every guard but the engine's lets through.
Recognised == {[ctx |-> c1, who |-> s1, confident |-> TRUE]}

\* One payload for each guard, and one that passes them all.
GuardedPayload ==
  Recognised \cup {[ctx |-> c1, who |-> s1, confident |-> FALSE],
                   [ctx |-> c1, who |-> Stranger, confident |-> TRUE],
                   [ctx |-> BadRoom, who |-> s1, confident |-> TRUE]}

\* The events of the first room and of no room.
RoomPayload == [ctx : {c1, AnyRoom}, who : Student, confident : {TRUE}]

AnyEnrolment == Student \X Subject

OneSubject == [l \in Lecture |-> m1]
=============================================================================
