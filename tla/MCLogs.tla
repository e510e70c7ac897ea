------------------------------- MODULE MCLogs -------------------------------
(***************************************************************************)
(* The logs of the Raspberry Pi and their metrics, for TLC.                *)
(***************************************************************************)
EXTENDS SessionMetrics

\* A sharp frame in time, and a blurred one that is late and has a higher
\* threshold, which the logs round down.
Scenes == {[mode |-> "FRONTAL", blur |-> 90, th |-> 6500, slow |-> FALSE,
           half |-> {5000}],
          [mode |-> "TILTED", blur |-> 30, th |-> 7003, slow |-> TRUE,
           half |-> {7002}]}

\* A first sighting, a confirmation, and a post that timed out.
Answers == {[from |-> "undetected", to |-> "candidate", lecture |-> TRUE, detail |-> ""],
            [from |-> "initialized", to |-> "confirmed", lecture |-> TRUE, detail |-> ""],
            [from |-> "", to |-> "", lecture |-> FALSE, detail |-> "timeout"]}

LogsSpec == LogsInit /\ [][LogsNext]_logsVars
=============================================================================
