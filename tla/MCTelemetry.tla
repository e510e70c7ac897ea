---------------------------- MODULE MCTelemetry ----------------------------
(***************************************************************************)
(* What a run records and where it goes: its files and debug pictures, the *)
(* telemetry path, studies of several runs, the attendance page and the    *)
(* endpoints for looking at lectures, for TLC.  They share no state here,  *)
(* so a behaviour is one of any of them: part says whose, and the others   *)
(* rest.                                                                   *)
(***************************************************************************)
EXTENDS TelemetryUpload, DashboardPage, Visibility, RunFiles, DebugFrames,
        SweepStudy

CONSTANTS s1, s2

VARIABLE part

recordVars == <<filesVars, debugVars, studyVars>>

allVars == <<part, vars, pageVars, viewVars, recordVars>>

MCInit ==
  /\ part \in {"upload", "page", "view", "files", "debug", "study"}
  /\ Init
  /\ part # "upload" => \A s \in Session : bad[s] = {}
  /\ PageInit /\ ViewInit /\ FilesInit /\ DebugInit /\ StudyInit
  /\ part # "files" => columns = CHOOSE p \in Programs : TRUE
  /\ part # "study" => dimension = CHOOSE d \in Preset : TRUE
  /\ part = "page" <=> Truth # <<>>

Upload == part = "upload" /\ Next /\ UNCHANGED <<pageVars, viewVars, recordVars>>

Page == part = "page" /\ PageNext /\ UNCHANGED <<vars, viewVars, recordVars>>

View == part = "view" /\ ViewNext /\ UNCHANGED <<vars, pageVars, recordVars>>

Files == part = "files" /\ FilesNext /\ UNCHANGED <<vars, pageVars, viewVars, debugVars, studyVars>>

Debug == part = "debug" /\ DebugNext /\ UNCHANGED <<vars, pageVars, viewVars, filesVars, studyVars>>

Study == part = "study" /\ StudyNext /\ UNCHANGED <<vars, pageVars, viewVars, filesVars, debugVars>>

MCNext == (Upload \/ Page \/ View \/ Files \/ Debug \/ Study) /\ UNCHANGED part

(* Each part's fairness, asked only of the behaviours that are its own. *)
UploadFairness ==
  /\ WF_vars(part = "upload" /\ Uploader)
  /\ WF_vars(part = "upload" /\ Outcome)

PageFairness ==
  /\ WF_pageVars(part = "page" /\ (\E p \in Poll : refresh(p)) /\ UNCHANGED events)
  /\ WF_pageVars(part = "page" /\ Answered /\ UNCHANGED events)
  /\ \A t \in Task : WF_pageVars(part = "page" /\ Step(t) /\ UNCHANGED events)

MCFairness == UploadFairness /\ PageFairness

MCSpec == MCInit /\ [][MCNext]_allVars /\ MCFairness

TwoFeeds == <<"diagnostic", "frame_telemetry">>
FewRows == [f \in Feed |-> IF f = Diagnostic THEN 2 ELSE 1]
Damaged == {[feed |-> "diagnostic", row |-> 2]}
Modes == {[ingest |-> TRUE, finalize |-> TRUE], [ingest |-> FALSE, finalize |-> FALSE]}

Lags == {-1, 1}

InOrder == <<"diagnostic", "telemetry">>
Upgrades == {<<1, 1>>, <<1, 2>>}

Half == <<1, 2>>
LogRows == {[bin |-> 0, sim |-> 5, decision |-> "NO_MATCH", agree |-> ""],
            [bin |-> 1, sim |-> 7, decision |-> "OFFLOAD_TO_CLOUD", agree |-> "True"]}

Found == {[status |-> <<"none", "none">>, room |-> <<"a", "a">>],
          [status |-> <<"open", "none">>, room |-> <<"a", "a">>],
          [status |-> <<"closed", "open">>, room |-> <<"a", "b">>]}
=============================================================================
