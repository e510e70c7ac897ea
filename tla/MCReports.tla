----------------------------- MODULE MCReports -----------------------------
(* Instances of Reports for TLC.                                           *)
EXTENDS Reports, TLC

CONSTANTS cam, l1, l2, s1, s2, Started

\* One registered camera that sees the classroom of every lecture.
OneCamera == [l \in Lecture |-> {cam}]

\* No camera is registered.
Unregistered == [l \in Lecture |-> {}]

\* Lectures are scheduled for two units.
TwoUnits == [l \in Lecture |-> 2]
\* Lectures are scheduled for one unit.
OneUnit == [l \in Lecture |-> 1]

\* Clocks that agree with the cloud's, and one ahead of it.
Exact == [c \in Camera |-> 0]
Ahead == [c \in Camera |-> -1]

\* A run that sets in when the lectures of Started have just been started.
StartedInit ==
  /\ now = 0
  /\ sessions = NoSpans
  /\ logs = <<>>
  /\ status = [l \in Lecture |-> IF l \in Started THEN "active_window_open"
                               ELSE "scheduled"]
  /\ began = [l \in Lecture |-> 0]
  /\ ended = [l \in Lecture |-> -1]
  /\ op = [r \in Request |-> NoRequest]
  /\ over = {}
  /\ frozen = [l \in Lecture |-> NotFrozen]
  /\ query = [q \in Query |-> IdleQuery]
  /\ appeared = {}
  /\ restarts = 0
StartedSpec == StartedInit /\ [][Next]_vars

\* Queries, lifecycle requests and students are interchangeable.
Slots == Permutations(Query) \cup Permutations(Request) \cup Permutations(Student)
=============================================================================
