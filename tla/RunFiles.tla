------------------------------ MODULE RunFiles ------------------------------
(***************************************************************************)
(* Where the rows of a run go: the directory named after the second it was *)
(* started in (config/experiment_session.py), the two logs that are opened *)
(* there, with a header or behind what they hold (edge/main.py,            *)
(* edge/telemetry.py), their buffers, the flush every FlushEvery frames,   *)
(* and the report on them when the loop has ended (experiment_report.py).  *)
(* Runs follow each other on one device.  A run can be killed, and power   *)
(* can fail: then what the system had not written back is lost, a row may  *)
(* be torn, and the clock of a Raspberry Pi, which has no battery, starts  *)
(* again from an earlier time.                                             *)
(*                                                                         *)
(* A file is a sequence of halves of rows, <<run, frame, 1 or 2>>; the     *)
(* second half ends the line.  The header a run writes is its frame 0.     *)
(***************************************************************************)
EXTENDS Integers, SequencesExt

CONSTANTS
  LogsInOrder, \* the logs in the order they are opened, flushed and closed
  Programs,    \* sequences of versions of the columns, one for each run's program
  FlushEvery,  \* LOG_FLUSH_INTERVAL, in frames
  FramesOfRun, \* bound: frames of one run
  Second,      \* bound: what the clock shows
  MaxCuts      \* bound: power cuts

Log == ToSet(LogsInOrder)

ASSUME RunFilesAssumption ==
  /\ FlushEvery \in Nat \ {0} /\ FramesOfRun \in Nat /\ MaxCuts \in Nat
  /\ Second \subseteq Nat /\ 0 \in Second
  /\ LogsInOrder \in Seq(Log) /\ LogsInOrder # <<>>
  /\ \A versions \in Programs : versions \in Seq(Nat \ {0})

VARIABLES
  columns,   \* the sequence this behaviour is about
  clock,       \* the second the clock showed when it was read last
  stage,     \* of the process: Stages
  runNo,     \* its number; that of the last one if there is none
  session,   \* its directory
  logsLeft,      \* the logs it has still to open, flush or close
  frameNo,   \* _frame_count
  buffer,    \* rows it wrote and the system does not have
  disk,      \* <<directory, log>> -> file
  archived,  \* <<directory, log, second>> -> file renamed out of the way
  snapshot,  \* directory -> the run whose settings_snapshot.json it holds
  safe,      \* log -> length of the session's file before this run
  report,    \* of this run
  wrote,     \* history: log -> rows of this run
  cuts       \* history: power cuts

filesVars == <<columns, clock, stage, runNo, session, logsLeft, frameNo, buffer, disk, archived,
               snapshot, safe, report, wrote, cuts>>

Stages == {"off", "opening", "running", "flushing", "closing", "reporting"}
NoReport == [run |-> 0, settings |-> 0, seen |-> [l \in Log |-> {}], lost |-> {}]
Empty == [l \in Log |-> <<>>]

FilesInit ==
  /\ columns \in Programs
  /\ clock = 0 /\ stage = "off" /\ runNo = 0 /\ session = 0
  /\ logsLeft = <<>> /\ frameNo = 0 /\ buffer = Empty
  /\ disk = [f \in Second \X Log |-> <<>>]
  /\ archived = [f \in Second \X Log \X Second |-> <<>>]
  /\ snapshot = [d \in Second |-> 0]
  /\ safe = [l \in Log |-> 0]
  /\ report = NoReport /\ wrote = [l \in Log |-> {}] /\ cuts = 0

-----------------------------------------------------------------------------
(* Files.                                                                  *)

Halves(lines) ==
  [i \in 1 .. 2 * Len(lines) |-> Append(lines[(i + 1) \div 2], IF i % 2 = 1 THEN 1 ELSE 2)]

RowAt(file, i) == <<file[i][1], file[i][2]>>

\* A row begins and ends there.
RowFrom(file, i) ==
  i + 1 \in DOMAIN file /\ file[i][3] = 1 /\ file[i + 1] = Append(RowAt(file, i), 2)

\* The lines that are one row from its beginning to its end.
WholeRows(file) ==
  {RowAt(file, i) : i \in {k \in DOMAIN file : RowFrom(file, k) /\ (k = 1 \/ file[k - 1][3] = 2)}}

\* A torn line that another one was appended to: more cells than the header.
Overfull(file) == \E k \in 1 .. Len(file) - 1 : file[k][3] = 1 /\ file[k + 1][3] = 1

\* The columns in the first line of a file, 0 if it is not one's header.
HeaderOf(file) ==
  IF file # <<>> /\ RowFrom(file, 1) /\ file[1][2] = 0 THEN columns[file[1][1]] ELSE 0

-----------------------------------------------------------------------------
(* A run begins.                                                           *)

\* _write_settings_snapshot: it replaces the one that is there.
WithSnapshot(second, run) == [snapshot EXCEPT ![second] = run]

\* init_experiment_session: the directory may be there already.
StartRun ==
  /\ stage = "off" /\ runNo < Len(columns)
  /\ \E second \in {t \in Second : t >= clock} :
       /\ clock' = second /\ session' = second
       /\ snapshot' = WithSnapshot(second, runNo + 1)
       /\ safe' = [l \in Log |-> Len(disk[<<second, l>>])]
  /\ runNo' = runNo + 1
  /\ stage' = "opening" /\ logsLeft' = LogsInOrder
  /\ report' = NoReport /\ wrote' = [l \in Log |-> {}]
  /\ UNCHANGED <<frameNo, buffer, disk, archived, cuts>>

\* Mutant: what a file begins with is not looked at.
rotateNever(file) == FALSE

\* rotate_if_schema_changed: the file has to make room.
rotate_if_schema_changed(file) == file # <<>> /\ HeaderOf(file) # columns[runNo]

\* One log is opened to append to; the header waits in the buffer.
OpenLog ==
  /\ stage = "opening" /\ logsLeft # <<>>
  /\ LET l == Head(logsLeft)
         file == disk[<<session, l>>]
     IN  IF rotate_if_schema_changed(file)
         THEN \E second \in {t \in Second : t >= clock} :
                /\ clock' = second
                /\ archived' = [archived EXCEPT ![<<session, l, second>>] = file]
                /\ disk' = [disk EXCEPT ![<<session, l>>] = <<>>]
                /\ safe' = [safe EXCEPT ![l] = 0]
                /\ buffer' = [buffer EXCEPT ![l] = <<<<runNo, 0>>>>]
         ELSE /\ buffer' = IF file = <<>> THEN [buffer EXCEPT ![l] = <<<<runNo, 0>>>>]
                           ELSE buffer
              /\ UNCHANGED <<clock, archived, disk, safe>>
  /\ logsLeft' = Tail(logsLeft)
  /\ UNCHANGED <<stage, runNo, session, frameNo, snapshot, report, wrote, cuts>>

\* run: the camera opens.
CameraOpens ==
  /\ stage = "opening" /\ logsLeft = <<>>
  /\ stage' = "running"
  /\ UNCHANGED <<clock, runNo, session, logsLeft, frameNo, buffer, disk, archived, snapshot,
                 safe, report, wrote, cuts>>

-----------------------------------------------------------------------------
(* It runs.                                                                *)

\* A log's buffer reaches the system.
HandOver(l) ==
  /\ disk' = [disk EXCEPT ![<<session, l>>] = @ \o Halves(buffer[l])]
  /\ buffer' = [buffer EXCEPT ![l] = <<>>]

\* A frame: a telemetry row, and a diagnostic one if there is a track; a row
\* that finds its buffer full sends what is there on its way.  Every FlushEvery
\* frames the logs are flushed.
LogFrame(filled, full) ==
  /\ stage = "running" /\ frameNo < FramesOfRun
  /\ frameNo' = frameNo + 1
  /\ disk' = [f \in DOMAIN disk |-> IF f[1] = session /\ f[2] \in full
                                   THEN disk[f] \o Halves(buffer[f[2]]) ELSE disk[f]]
  /\ buffer' = [l \in Log |-> (IF l \in full THEN <<>> ELSE buffer[l])
                              \o (IF l \in filled THEN <<<<runNo, frameNo + 1>>>> ELSE <<>>)]
  /\ wrote' = [l \in Log |-> wrote[l] \cup (IF l \in filled THEN {<<runNo, frameNo + 1>>} ELSE {})]
  /\ IF (frameNo + 1) % FlushEvery = 0
     THEN stage' = "flushing" /\ logsLeft' = LogsInOrder
     ELSE UNCHANGED <<stage, logsLeft>>
  /\ UNCHANGED <<clock, runNo, session, archived, snapshot, safe, report, cuts>>

AfterFlush == [flushing |-> "running", closing |-> "reporting"]

\* One log is flushed, or flushed and closed.
Flush ==
  /\ stage \in {"flushing", "closing"} /\ logsLeft # <<>>
  /\ HandOver(Head(logsLeft))
  /\ logsLeft' = Tail(logsLeft)
  /\ stage' = IF Len(logsLeft) = 1 THEN AfterFlush[stage] ELSE stage
  /\ UNCHANGED <<clock, runNo, session, frameNo, archived, snapshot, safe, report, wrote, cuts>>

\* A signal, the key q, or a camera without a picture.
StopRun ==
  /\ stage = "running"
  /\ stage' = "closing" /\ logsLeft' = LogsInOrder
  /\ UNCHANGED <<clock, runNo, session, frameNo, buffer, disk, archived, snapshot, safe, report,
                 wrote, cuts>>

\* generate_experiment_report, if it is wanted and its libraries are there.  A
\* log in which a row was appended to a torn one cannot be read, or is read
\* without both.
MakeReport ==
  /\ stage = "reporting" /\ stage' = "off" /\ frameNo' = 0
  /\ \/ \E lost \in SUBSET {l \in Log : Overfull(disk[<<session, l>>])} :
          report' = [run |-> runNo, settings |-> snapshot[session], lost |-> lost,
                     seen |-> [l \in Log |-> WholeRows(disk[<<session, l>>])]]
     \/ UNCHANGED report
  /\ UNCHANGED <<clock, runNo, session, logsLeft, buffer, disk, archived, snapshot, safe,
                 wrote, cuts>>

-----------------------------------------------------------------------------
(* It fails.                                                               *)

\* Nothing of the process is left.
Over ==
  /\ stage' = "off" /\ logsLeft' = <<>> /\ frameNo' = 0
  /\ buffer' = Empty /\ wrote' = [l \in Log |-> {}]

\* No camera, or the loop raises: nothing is closed and nothing reported, and
\* Python writes the buffers out as it drops the files.
RunRaises ==
  /\ stage = "running" \/ (stage = "opening" /\ logsLeft = <<>>)
  /\ Over
  /\ disk' = [f \in DOMAIN disk |->
                IF f[1] = session THEN disk[f] \o Halves(buffer[f[2]]) ELSE disk[f]]
  /\ UNCHANGED <<clock, runNo, session, archived, snapshot, safe, report, cuts>>

\* The process is killed: its buffers are gone.
KillRun ==
  /\ stage # "off" /\ Over
  /\ UNCHANGED <<clock, runNo, session, disk, archived, snapshot, safe, report, cuts>>

\* Power fails: of what this run added to its files any part is on the card,
\* and the clock may show an earlier time next.
PowerCut ==
  /\ cuts < MaxCuts /\ runNo > 0 /\ cuts' = cuts + 1
  /\ Over /\ clock' = 0
  /\ \E left \in [Log -> 0 .. Max({Len(disk[<<session, l>>]) : l \in Log})] :
       /\ \A l \in Log : left[l] \in safe[l] .. Len(disk[<<session, l>>])
       /\ disk' = [f \in DOMAIN disk |->
                     IF f[1] = session THEN SubSeq(disk[f], 1, left[f[2]]) ELSE disk[f]]
  /\ UNCHANGED <<runNo, session, archived, snapshot, safe, report>>

FilesNext ==
  /\ \/ StartRun \/ OpenLog \/ CameraOpens
     \/ \E filled \in {Log, Log \ {Head(LogsInOrder)}} :
          \E full \in SUBSET filled : LogFrame(filled, full)
     \/ Flush \/ StopRun \/ MakeReport
     \/ RunRaises \/ KillRun \/ PowerCut
  /\ UNCHANGED columns

-----------------------------------------------------------------------------
(* Properties.                                                             *)

FilesTypeOK ==
  /\ clock \in Second /\ stage \in Stages /\ runNo \in 0 .. Len(columns) /\ session \in Second
  /\ frameNo \in 0 .. FramesOfRun /\ cuts \in 0 .. MaxCuts
  /\ \A l \in Log : safe[l] <= Len(disk[<<session, l>>]) /\ Len(buffer[l]) <= FlushEvery + 1
  /\ stage = "off" => buffer = Empty

AllFiles == Range(disk) \cup Range(archived)

\* Rows of two versions of the columns are never in one file, and every row
\* has one header above it, whatever runs share the directory
\* (docs/TELEMETRY.md:48-49, "historical runs never silently mix").
SchemasApart ==
  \A file \in AllFiles : \A row \in WholeRows(file) :
    /\ HeaderOf(file) = columns[row[1]]
    /\ row[2] = 0 => row = RowAt(file, 1)

\* What a kill would take from a log is of the last frames only, fewer than
\* FlushEvery, and of all logs alike.
UnsavedAreRecent ==
  stage = "running" =>
    \A l \in Log : \A row \in wrote[l] :
      Append(row, 2) \in ToSet(disk[<<session, l>>]) \/ row[2] > frameNo - (frameNo % FlushEvery)

\* A report has every row its run wrote, under that run's settings: but for
\* one in a log that began with a torn row, and such a log may not be read.
ReportComplete ==
  report.run = runNo =>
    /\ report.settings = runNo
    /\ \A l \in Log \ report.lost :
         LET missing == wrote[l] \ report.seen[l]
         IN  missing = {} \/ (cuts > 0 /\ \E row \in wrote[l] : missing = {row})

\* Only a power cut takes a row from the files; and an archive of the same
\* second, which the next one replaces (telemetry.py:70-71).
RowsStay ==
  [][LET readable  == UNION {WholeRows(file) : file \in AllFiles}
         replaced  == UNION {WholeRows(archived[f]) :
                               f \in {a \in DOMAIN archived : archived'[a] # archived[a]}}
     IN  cuts' = cuts => readable \ replaced \subseteq UNION {WholeRows(file) : file \in AllFiles'}
    ]_filesVars

\* What a run recorded is kept: after kills, power cuts and upgrades its files
\* hold its rows under their header, all but the last few, and its report too.
RunsAreKept ==
  [](FilesTypeOK /\ SchemasApart /\ UnsavedAreRecent /\ ReportComplete) /\ RowsStay
=============================================================================
