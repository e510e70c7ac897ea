-------------------------- MODULE TelemetryStorage --------------------------
(* One session directory of cloud_backend/storage.py: metadata.json,       *)
(* summary.json and the append-only events.jsonl.  The JSON files are       *)
(* replaced as a whole (temp file and rename).  Events are appended line by *)
(* line through a buffered file, so a server that dies in the middle leaves *)
(* a prefix of the batch and perhaps a line without its newline; whatever   *)
(* is appended next continues that line.                                    *)
EXTENDS Naturals, Sequences, FiniteSets, SequencesExt

CONSTANTS Garbage,   \* a line that is no JSON document
          Absent     \* a JSON file that does not exist

(* What a session directory holds.  `open`: the last line of events.jsonl has   *)
(* no newline.  A directory exists as soon as one of its files was written.     *)
NoSession == [metadata |-> Absent, summary |-> Absent, lines |-> <<>>, open |-> FALSE]

(* A first line joins an open one, and two documents on a line are none. *)
AppendLines(dir, new) ==
  IF new = <<>> THEN dir
  ELSE [dir EXCEPT
          !.lines = IF dir.open THEN Front(@) \o <<Garbage>> \o Tail(new) ELSE @ \o new,
          !.open  = FALSE]

append_events(dir, events) == AppendLines(dir, events)

(* The server dies while it writes: n whole lines of the batch are in the file, *)
(* and of the next one nothing, a part, or all but the newline.                 *)
Remnants == {"nothing", "part", "no_newline"}

TornAppend(dir, events, n, remnant) ==
  LET whole == AppendLines(dir, SubSeq(events, 1, n))
      rest  == IF remnant = "part" THEN Garbage ELSE events[n + 1]
  IN  IF remnant = "nothing" THEN whole
      ELSE [AppendLines(whole, <<rest>>) EXCEPT !.open = TRUE]

record_session_start(dir, metadata) == [dir EXCEPT !.metadata = metadata]

record_session_end(dir, payload) == [dir EXCEPT !.summary = payload]

(* iter_session_events with its limit and offset: both count lines of the file, *)
(* malformed ones included; the malformed ones are left out of the answer.      *)
iter_session_events(dir, offset, limit) ==
  SelectSeq(SubSeq(dir.lines, offset + 1, offset + limit), LAMBDA l : l # Garbage)

Readable(dir) == ToSet(dir.lines) \ {Garbage}
=============================================================================
