------------------------------ MODULE SweepStudy ------------------------------
(***************************************************************************)
(* A study over several captures (research/experiment_protocol.py,         *)
(* research/experiments/sweep_orchestrator.py, research/analysis): the     *)
(* operator captures sessions, tags each with its conditions, has one      *)
(* analysed, which leaves a report in its directory, and tabulates them    *)
(* all.  The tools are run one after another from one shell and can be     *)
(* killed; the captures go on meanwhile on the Pi that shares the files.   *)
(*                                                                         *)
(* Of a report: the number of rows, the protocol, the offload rates and    *)
(* one list, that of distance_vs_confidence; SessionAnalysis has the       *)
(* others.  Each of the three is from a read of the log of its own, between*)
(* which a capture may add rows; the read of the threshold sweep, nothing  *)
(* of which is kept here, is left out, as are Markdown, the payload's file,*)
(* grouping and the other columns of the table.                            *)
(***************************************************************************)
EXTENDS Integers, Sequences, FiniteSets

LOCAL INSTANCE Tallies

CONSTANTS
  Captured,   \* how many sessions the study has
  Measured,   \* rows of the diagnostic log: [bin, sim, decision, agree]
  Preset,     \* sweep dimensions
  SweepValue, \* the values of a sweep
  MaxMeasured, MaxTags,  \* bounds: rows and tags of the study
  Ceiling,    \* --max-offload-rate, as a rate
  NoFile,     \* no file, no value
  Torn        \* a file that ends before its text

Directory == 1 .. Captured

\* Where a planned run carries the value: in its protocol, in its environment,
\* or nowhere, when the sweep is over the rows of one capture.
plan_runs(dim, value) ==
  IF dim = "CLOUD_ROUTING" THEN [protocol |-> <<>>, env |-> {value}]
  ELSE [protocol |-> IF dim = "th_high" THEN <<>> ELSE [k \in {dim} |-> value], env |-> {}]

ASSUME StudyAssumption ==
  /\ Captured \in Nat
  /\ \A r \in Measured : r.bin \in Nat
  /\ \A dim \in Preset, value \in SweepValue :
       plan_runs(dim, value).protocol \notin {NoFile, Torn}
  /\ NoFile # Torn

VARIABLES
  dimension,     \* the preset's sweep_dimension
  capture,       \* diagnostic_log.csv of each session, its rows
  protocol,      \* experiment_protocol.json: NoFile, a tag, or Torn
  stored,        \* summaries/stabilization_report.json: NoFile, a report, or Torn
  tags,          \* tags written so far
  tool,          \* the tool that runs, with what it read and wrote
  copies         \* what its report in the making has read of the log so far

studyVars == <<dimension, capture, protocol, stored, tags, tool, copies>>

AtPrompt == [at |-> "prompt"]

StudyInit ==
  /\ dimension \in Preset
  /\ capture = [s \in Directory |-> <<>>]
  /\ protocol = [s \in Directory |-> NoFile] /\ tags = 0
  /\ stored = [s \in Directory |-> NoFile]
  /\ tool = AtPrompt /\ copies = <<>>

-----------------------------------------------------------------------------
(* Capture and protocol.                                                   *)

Measure(s, r) ==
  /\ Cardinality(UNION {{d} \X DOMAIN capture[d] : d \in Directory}) < MaxMeasured
  /\ capture' = [capture EXCEPT ![s] = Append(@, r)]
  /\ UNCHANGED <<dimension, protocol, stored, tags, tool, copies>>

\* validate, of the one field that is a number: metres, at most 20.
validate(tag) == "distance_m" \in DOMAIN tag => tag["distance_m"] \in 1 .. 20

\* The command of a planned run: the tool writes the whole tag beside the old
\* one.  Only a field that is given is set, whatever the tag before had.
TagSession(s, value, allow_unknown) ==
  /\ tool = AtPrompt /\ tags < MaxTags
  /\ validate(plan_runs(dimension, value).protocol) \/ allow_unknown
  /\ tool' = [at |-> "tagging", session |-> s, tag |-> plan_runs(dimension, value).protocol]
  /\ UNCHANGED <<dimension, capture, protocol, stored, tags, copies>>

\* Mutant: the file itself is opened and written.
write_protocolInPlace ==
  /\ \/ /\ tool.at = "tagging"
        /\ protocol' = [protocol EXCEPT ![tool.session] = Torn]
        /\ tool' = [tool EXCEPT !.at = "placing"] /\ tags' = tags
     \/ /\ tool.at = "placing"
        /\ protocol' = [protocol EXCEPT ![tool.session] = tool.tag]
        /\ tool' = AtPrompt /\ tags' = tags + 1
  /\ UNCHANGED <<dimension, capture, stored, copies>>

\* write_protocol: os.replace of what was written.
write_protocol ==
  /\ tool.at = "tagging"
  /\ protocol' = [protocol EXCEPT ![tool.session] = tool.tag]
  /\ tags' = tags + 1 /\ tool' = AtPrompt
  /\ UNCHANGED <<dimension, capture, stored, copies>>

load_protocol(s) == IF protocol[s] = Torn THEN NoFile ELSE protocol[s]

-----------------------------------------------------------------------------
(* Reports.                                                                *)

\* The keys of a list's element, in the order of the dict that build_report
\* makes, and in the order of a file written with sort_keys.
BuiltKeys == <<"lo_m", "hi_m", "n", "sim_mean", "sim_std">>
SortedKeys == <<"hi_m", "lo_m", "n", "sim_mean", "sim_std">>

Element(rows, b) ==
  LET In == SelectSeq(rows, LAMBDA r : r.bin = b)
  IN  [lo_m |-> b, hi_m |-> b + 1, n |-> Len(In),
       sim_mean |-> Mean([i \in DOMAIN In |-> In[i].sim])]

distance_vs_confidence(rows) == {Element(rows, b) : b \in {rows[i].bin : i \in DOMAIN rows}}

Offloaded(r) == r.decision = "OFFLOAD_TO_CLOUD"
Agreed(r) == r.agree = "True"
OffloadRate(rows) == RateOrZero(HowMany(rows, Offloaded), Len(rows))
AgreementRate(rows) == RateOrZero(HowMany(rows, Agreed), HowMany(rows, LAMBDA r : r.agree # ""))

\* No log raises FileNotFoundError.
CanBuild(s) == capture[s] # <<>>

InStore(s) == stored[s] \notin {NoFile, Torn}

\* _load_report of the aggregator and the comparison: the stored report as it
\* is, and a new one in place of none or of one that cannot be parsed, or no
\* report if there is no log either.
HasReport(s) == InStore(s) \/ CanBuild(s)

\* calibration's _load_report, which does not expect a torn file: the session
\* is skipped.
Loadable(s) == InStore(s) \/ (stored[s] = NoFile /\ CanBuild(s))

\* The session the tool has come to, and those of whose it makes a report.
Turn == {tool.todo[i] : i \in DOMAIN tool.todo \cap {1}}
Building ==
  CASE tool.at = "reading"    -> {tool.session}
    [] tool.at = "analysing"  -> {s \in Turn : CanBuild(s)}
    [] tool.at = "tabulating" -> {s \in Turn : ~InStore(s) /\ CanBuild(s)}
    [] tool.at = "advising"   -> {s \in Turn : ~InStore(s) /\ Loadable(s)}
    [] OTHER                  -> {}

\* summarize_session and diagnose_session read the log, one after the other.
ReadLog ==
  /\ \E s \in Building : copies' = Append(copies, capture[s])
  /\ Len(copies) < 2
  /\ UNCHANGED <<dimension, capture, protocol, stored, tags, tool>>

\* The third read and the protocol complete the report.
AllRead == Building # {} => Len(copies) = 2

build_report(s) ==
  [session_id |-> s, rows |-> Len(capture[s]), protocol |-> load_protocol(s),
   per_bin |-> distance_vs_confidence(copies[2]), keys |-> BuiltKeys,
   offload_trigger_rate |-> OffloadRate(copies[1]), agreement_rate |-> AgreementRate(copies[1])]

load_report(s) == IF InStore(s) THEN stored[s] ELSE build_report(s)

\* The tool that analyses one session, and leaves its report.
Analyse(s) ==
  /\ tool = AtPrompt /\ CanBuild(s)
  /\ tool' = [at |-> "reading", session |-> s]
  /\ UNCHANGED <<dimension, capture, protocol, stored, tags, copies>>

BuildReport ==
  /\ tool.at = "reading" /\ AllRead
  /\ tool' = [at |-> "opening", session |-> tool.session, report |-> build_report(tool.session)]
  /\ copies' = <<>>
  /\ UNCHANGED <<dimension, capture, protocol, stored, tags>>

OpenReport ==
  /\ tool.at = "opening"
  /\ stored' = [stored EXCEPT ![tool.session] = Torn]
  /\ tool' = [tool EXCEPT !.at = "writing"]
  /\ UNCHANGED <<dimension, capture, protocol, tags, copies>>

WriteReport ==
  /\ tool.at = "writing"
  /\ stored' = [stored EXCEPT ![tool.session] = [tool.report EXCEPT !.keys = SortedKeys]]
  /\ tool' = AtPrompt
  /\ UNCHANGED <<dimension, capture, protocol, tags, copies>>

-----------------------------------------------------------------------------
(* The table of a sweep.                                                   *)

\* _get_path: None on a miss.
get_path(report, dim) ==
  IF report.protocol = NoFile \/ dim \notin DOMAIN report.protocol THEN NoFile ELSE report.protocol[dim]

\* The label of an element is its first key but the one that is shown.
LabelKey(keys) ==
  keys[CHOOSE i \in DOMAIN keys : keys[i] # "sim_mean" /\ \A j \in 1 .. i - 1 : keys[j] = "sim_mean"]

\* _resolve_metric_path on "...per_bin[].sim_mean": a value per label.
resolve_metric_path(report) ==
  LET key == LabelKey(report.keys)
  IN  [l \in {item[key] : item \in report.per_bin} |->
         CHOOSE item \in report.per_bin : item[key] = l]

RowOf(report) ==
  [session_id |-> report.session_id, rows |-> report.rows, keys |-> report.keys,
   sweep_value |-> get_path(report, dimension), comparison_value |-> resolve_metric_path(report)]

\* aggregate_after_capture, its first pass: a new report of every session that
\* has a log.
StartSweep(sessions) ==
  /\ tool = AtPrompt
  /\ tool' = [at |-> "analysing", todo |-> sessions, per_session |-> <<>>, table |-> <<>>]
  /\ UNCHANGED <<dimension, capture, protocol, stored, tags, copies>>

\* The sessions that have a report.
Analysed(reports) == [i \in DOMAIN reports |-> reports[i].session_id]

AnalyseNext ==
  /\ tool.at = "analysing" /\ AllRead
  /\ IF tool.todo = <<>>
     THEN tool' = [tool EXCEPT !.at = "tabulating",
                               !.todo = Analysed(tool.per_session)]
     ELSE tool' = [tool EXCEPT !.todo = Tail(@),
                               !.per_session = IF CanBuild(Head(tool.todo))
                                               THEN Append(@, build_report(Head(tool.todo))) ELSE @]
  /\ copies' = <<>>
  /\ UNCHANGED <<dimension, capture, protocol, stored, tags>>

\* aggregate_sessions, the second pass: it loads the reports again, and writes
\* both into the payload.
TabulateNext ==
  /\ tool.at = "tabulating" /\ tool.todo # <<>> /\ AllRead
  /\ LET s == Head(tool.todo)
     IN  tool' = [tool EXCEPT !.todo = Tail(@),
                              !.table = IF HasReport(s) THEN Append(@, RowOf(load_report(s))) ELSE @]
  /\ copies' = <<>>
  /\ UNCHANGED <<dimension, capture, protocol, stored, tags>>

WritePayload ==
  /\ tool.at = "tabulating" /\ tool.todo = <<>>
  /\ tool' = [tool EXCEPT !.at = "wrote"]
  /\ UNCHANGED <<dimension, capture, protocol, stored, tags, copies>>

-----------------------------------------------------------------------------
(* Calibration.                                                            *)

UnderCeiling(rate) == ~ Above(rate, Ceiling)
MoreAgreed(q, r) == Above(q.agreement_rate, r.agreement_rate)

\* The session of the highest agreement under the ceiling, the first of equals.
recommend_routing_policy(reports) ==
  LET eligible == {r \in reports : UnderCeiling(r.offload_trigger_rate)}
      best == {r \in eligible : \A q \in eligible : ~ MoreAgreed(q, r)}
  IN  IF best = {} THEN NoFile ELSE CHOOSE r \in best : \A q \in best : r.session_id <= q.session_id

StartAdvice(sessions) ==
  /\ tool = AtPrompt
  /\ tool' = [at |-> "advising", todo |-> sessions, reports |-> {}]
  /\ UNCHANGED <<dimension, capture, protocol, stored, tags, copies>>

Recommend ==
  /\ tool.at = "advising" /\ AllRead
  /\ IF tool.todo = <<>>
     THEN tool' = [at |-> "advised", session |-> recommend_routing_policy(tool.reports)]
     ELSE tool' = [tool EXCEPT !.todo = Tail(@),
                               !.reports = @ \cup {load_report(s) : s \in {d \in Turn : Loadable(d)}}]
  /\ copies' = <<>>
  /\ UNCHANGED <<dimension, capture, protocol, stored, tags>>

\* The tool's process ends, or is killed before.
EndTool ==
  /\ tool # AtPrompt /\ tool' = AtPrompt /\ copies' = <<>>
  /\ UNCHANGED <<dimension, capture, protocol, stored, tags>>

StudyNext ==
  \/ \E s \in Directory, r \in Measured : Measure(s, r)
  \/ \E s \in Directory, v \in SweepValue, allow \in BOOLEAN : TagSession(s, v, allow)
  \/ write_protocol
  \/ \E s \in Directory : Analyse(s)
  \/ ReadLog
  \/ BuildReport \/ OpenReport \/ WriteReport
  \/ StartSweep([i \in Directory |-> i])
  \/ AnalyseNext \/ TabulateNext \/ WritePayload
  \/ StartAdvice([i \in Directory |-> i]) \/ Recommend
  \/ EndTool

-----------------------------------------------------------------------------
(* Properties.                                                             *)

\* Once a session is tagged every reader finds a whole tag, whenever the tool
\* that writes another one is killed (experiment_protocol.py:170-173).
TagKept == [][\A s \in Directory : load_protocol(s) # NoFile => load_protocol(s)' # NoFile]_studyVars

\* A sweep's table has a row for each session that the payload lists, in its
\* order, also for one whose stored report was torn by a kill
\* (sweep_orchestrator.py:190-209, session_aggregator.py:75-90).
EverySessionTabled ==
  tool.at = "wrote" =>
    [i \in DOMAIN tool.table |-> tool.table[i].session_id] = Analysed(tool.per_session)

\* The value a row is listed under is the one its session was tagged with when
\* the sweep began, unless a stored report is older than the tag: the two
\* passes read different files (sweep_orchestrator.py:195, :205).
TableFollowsTags ==
  tool.at = "wrote" =>
    \A i \in DOMAIN tool.table \cap DOMAIN tool.per_session :
      LET row == tool.table[i]
      IN  \/ row.sweep_value = get_path(tool.per_session[i], dimension)
          \/ InStore(row.session_id) /\ stored[row.session_id].protocol # protocol[row.session_id]

\* One label is one bin of distances in every row that came the same way: a
\* stored report is labelled by upper edges, a new one by lower ones
\* (session_aggregator.py:175-182, stabilization_report.py:257).
OneBinPerLabel ==
  tool.at = "wrote" =>
    \A i, j \in DOMAIN tool.table :
      LET a == tool.table[i]
          b == tool.table[j]
      IN  a.keys = b.keys =>
            \A l \in DOMAIN a.comparison_value \cap DOMAIN b.comparison_value :
              a.comparison_value[l].lo_m = b.comparison_value[l].lo_m

\* The session that is recommended was under the ceiling on rows it has, if
\* not on all its report counts, as the rate is of an earlier read, and if no
\* longer now (calibration.py:213-221, stabilization_report.py:157, :184).
UnderTheCeiling ==
  tool.at = "advised" /\ tool.session # NoFile =>
    \E n \in 1 .. tool.session.rows :
      UnderCeiling(OffloadRate(SubSeq(capture[tool.session.session_id], 1, n)))

\* A study tabulates the sessions it names, by the tags and the bins they have,
\* although tags, reports and captures change between and under its tools.
StudyFollowsSessions ==
  /\ [](EverySessionTabled /\ TableFollowsTags /\ OneBinPerLabel /\ UnderTheCeiling)
  /\ TagKept
=============================================================================
