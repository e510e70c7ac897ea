----------------------------- MODULE CameraFeed -----------------------------
(***************************************************************************)
(* How a picture gets from the camera to a browser: rpicam-vid writes      *)
(* JPEGs into a pipe, a reader thread cuts the pipe's bytes into pictures  *)
(* and keeps the newest (edge/camera.py, RPiCamSubprocessCamera), the      *)
(* frame loop takes it (edge/main.py) and leaves what it drew on it in the *)
(* slot of the stream server (edge/stream_server.py), and each client's    *)
(* generator sends on what the slot holds.  Five threads of control, two   *)
(* locked slots, and reads that may return any part of what was written.   *)
(*                                                                         *)
(* A picture is five bytes: the two of each marker and one for what is     *)
(* between them, its number.                                               *)
(***************************************************************************)
EXTENDS Integers, SequencesExt

CONSTANTS
  Pictures,  \* bound: pictures the camera takes
  PipeSize,  \* bytes the pipe holds
  Client     \* browsers

ASSUME FeedAssumption == {Pictures, PipeSize} \subseteq Nat \ {0}

VARIABLES
  taken,    \* pictures the camera has begun to write
  pending,  \* bytes of the last one still to be written
  pipe,     \* bytes written and not yet read
  camera,   \* the subprocess: "running", "ended"
  reader,   \* the reader thread: "running", "ended"
  buf,      \* its unparsed bytes
  frame,    \* _frame: the newest picture, 0 for None
  loop,     \* the frame loop: "opening", "failed", "running", "broken", "stopped"
  current,  \* the picture it works on
  slot,     \* _jpeg_bytes
  sent,     \* client -> the picture sent last
  glued,    \* history: something else than one picture was decoded
  got,      \* history: pictures decoded
  cut       \* history: pictures whose first marker a read ended in

feedVars == <<taken, pending, pipe, camera, reader, buf, frame, loop, current,
              slot, sent, glued, got, cut>>

SOI == <<255, 216>>
EOI == <<255, 217>>
Jpeg(n) == <<255, 216, n, 255, 217>>

FeedInit ==
  /\ taken = 0 /\ pending = <<>> /\ pipe = <<>>
  /\ camera = "running" /\ reader = "running"
  /\ buf = <<>> /\ frame = 0
  /\ loop = "opening" /\ current = 0
  /\ slot = 0 /\ sent = [c \in Client |-> 0]
  /\ glued = FALSE /\ got = {} /\ cut = {}

-----------------------------------------------------------------------------
(* The subprocess.                                                         *)

\* It writes as much of its picture as the pipe has room for.
Write ==
  /\ camera = "running"
  /\ \/ pending # <<>> \/ taken < Pictures
  /\ LET next == IF pending = <<>> THEN Jpeg(taken + 1) ELSE pending
         room == Min({PipeSize - Len(pipe), Len(next)})
     IN  /\ room > 0
         /\ pipe' = pipe \o SubSeq(next, 1, room)
         /\ pending' = SubSeq(next, room + 1, Len(next))
  /\ taken' = IF pending = <<>> THEN taken + 1 ELSE taken
  /\ UNCHANGED <<camera, reader, buf, frame, loop, current, slot, sent,
                 glued, got, cut>>

\* It dies, or is terminated.
End ==
  /\ camera = "running" /\ camera' = "ended"
  /\ UNCHANGED <<taken, pending, pipe, reader, buf, frame, loop, current,
                 slot, sent, glued, got, cut>>

-----------------------------------------------------------------------------
(* _read_loop.                                                             *)

\* Where a marker begins in s, from position i on; 0 if it does not.
Find(s, marker, i) ==
  LET at == {k \in i .. Len(s) - 1 : SubSeq(s, k, k + 1) = marker}
  IN  IF at = {} THEN 0 ELSE Min(at)

From(s, i) == SubSeq(s, i, Len(s))

\* Mutant: the end is looked for from the first byte.
CutFromStart(s) ==
  LET soi == Find(s, SOI, 1)
      eoi == IF soi = 0 THEN 0 ELSE Find(s, EOI, 1)
  IN  IF soi = 0 THEN [done |-> TRUE, rest |-> <<>>, jpeg |-> <<>>]
      ELSE IF eoi = 0 THEN [done |-> TRUE, rest |-> From(s, soi), jpeg |-> <<>>]
      ELSE [done |-> FALSE, rest |-> From(s, eoi + 2),
            jpeg |-> SubSeq(s, soi, eoi + 1)]

\* One turn of the inner loop: a picture and what follows it, or the bytes to
\* keep until more come.
Cut(s) ==
  LET soi == Find(s, SOI, 1)
      eoi == IF soi = 0 THEN 0 ELSE Find(s, EOI, soi + 2)
  IN  IF soi = 0 THEN [done |-> TRUE, rest |-> <<>>, jpeg |-> <<>>]
      ELSE IF eoi = 0 THEN [done |-> TRUE, rest |-> From(s, soi), jpeg |-> <<>>]
      ELSE [done |-> FALSE, rest |-> From(s, eoi + 2),
            jpeg |-> SubSeq(s, soi, eoi + 1)]

\* The inner loop: every complete picture of the buffer.
Drain(s) ==
  LET d[n \in 0 .. Len(s)] ==
        IF n = 0 THEN [rest |-> s, jpegs |-> <<>>, done |-> FALSE]
        ELSE LET p == d[n - 1]
                 c == Cut(p.rest)
             IN  IF p.done THEN p
                 ELSE [rest |-> c.rest, done |-> c.done,
                       jpegs |-> IF c.done THEN p.jpegs
                                 ELSE Append(p.jpegs, c.jpeg)]
  IN  d[Len(s)]

Whole(jpeg) == \E n \in 1 .. Pictures : jpeg = Jpeg(n)

\* The number of the picture whose first marker the chunk ends in, or none.
SplitMarker(chunk, rest) ==
  IF chunk # <<>> /\ rest # <<>> /\ chunk[Len(chunk)] = 255 /\ rest[1] = 216
  THEN {rest[2]} ELSE {}

\* One read of the pipe, of n bytes, and the pictures it completes.
Read(n) ==
  /\ reader = "running"
  /\ n \in 1 .. Len(pipe)
  /\ \E parsed \in {Drain(buf \o SubSeq(pipe, 1, n))} :
       LET whole == {i \in DOMAIN parsed.jpegs : Whole(parsed.jpegs[i])}
           following == From(pipe, n + 1) \o pending
       IN  /\ buf' = parsed.rest
           /\ glued' = (glued \/ whole # DOMAIN parsed.jpegs)
           /\ got' = got \cup {parsed.jpegs[i][3] : i \in whole}
           /\ frame' = IF whole = {} THEN frame ELSE parsed.jpegs[Max(whole)][3]
           /\ cut' = cut \cup SplitMarker(SubSeq(pipe, 1, n), following)
  /\ pipe' = From(pipe, n + 1)
  /\ UNCHANGED <<taken, pending, camera, reader, loop, current, slot, sent>>

\* End of file, or the loop has let go of the camera.
ReaderEnds ==
  /\ reader = "running"
  /\ (camera = "ended" /\ pipe = <<>>) \/ loop \in {"failed", "stopped"}
  /\ reader' = "ended"
  /\ UNCHANGED <<taken, pending, pipe, camera, buf, frame, loop, current,
                 slot, sent, glued, got, cut>>

-----------------------------------------------------------------------------
(* The frame loop.                                                         *)

\* The constructor waits for a first picture...
Open ==
  /\ loop = "opening" /\ frame # 0
  /\ loop' = "running"
  /\ UNCHANGED <<taken, pending, pipe, camera, reader, buf, frame, current,
                 slot, sent, glued, got, cut>>

\* ... until its patience ends, and then releases the camera and raises.
OpenTimesOut ==
  /\ loop = "opening" /\ frame = 0
  /\ loop' = "failed" /\ camera' = "ended"
  /\ UNCHANGED <<taken, pending, pipe, reader, buf, frame, current,
                 slot, sent, glued, got, cut>>

\* read: the newest picture, whether or not it was taken before; the first
\* look at _frame decides, and the loop ends if there is none.
NextFrame ==
  /\ loop = "running"
  /\ current' = frame
  /\ loop' = IF frame = 0 THEN "broken" ELSE "running"
  /\ UNCHANGED <<taken, pending, pipe, camera, reader, buf, frame,
                 slot, sent, glued, got, cut>>

\* set_frame: the loop's picture replaces the one in the slot.
set_frame ==
  /\ loop = "running" /\ current # 0
  /\ slot' = current
  /\ UNCHANGED <<taken, pending, pipe, camera, reader, buf, frame, loop,
                 current, sent, glued, got, cut>>

\* The process is told to end: the camera is released.
Stop ==
  /\ loop = "running"
  /\ loop' = "stopped" /\ camera' = "ended"
  /\ UNCHANGED <<taken, pending, pipe, reader, buf, frame, current, slot,
                 sent, glued, got, cut>>

-----------------------------------------------------------------------------
\* generate_mjpeg: one turn of a client's generator; it waits while the slot
\* is empty.
Serve(c) ==
  /\ slot # 0 /\ loop = "running"
  /\ sent' = [sent EXCEPT ![c] = slot]
  /\ UNCHANGED <<taken, pending, pipe, camera, reader, buf, frame, loop,
                 current, slot, glued, got, cut>>

FeedNext ==
  \/ Write \/ End
  \/ \E n \in 1 .. PipeSize : Read(n)
  \/ ReaderEnds
  \/ Open \/ OpenTimesOut \/ NextFrame \/ set_frame \/ Stop
  \/ \E c \in Client : Serve(c)

-----------------------------------------------------------------------------
(* Properties.                                                             *)

FeedTypeOK ==
  /\ taken \in 0 .. Pictures /\ Len(pipe) <= PipeSize
  /\ camera \in {"running", "ended"} /\ reader \in {"running", "ended"}
  /\ loop \in {"opening", "failed", "running", "broken", "stopped"}
  /\ {frame, current, slot} \cup {sent[c] : c \in Client} \subseteq 0 .. taken
  /\ Len(buf) < Len(Jpeg(0)) /\ got \subseteq 1 .. taken

\* However the reads cut the stream, what is decoded is one picture: never
\* the head of one and the tail of another.
PicturesWhole == ~glued

\* A picture all of whose bytes were read was decoded, unless a read ended
\* between the two bytes of its first marker: then the reader throws away the
\* first, and the picture with it (camera.py:326-329).
OnlyCutPicturesLost ==
  pipe = <<>> =>
    \A n \in 1 .. taken : n \in got \cup cut \/ (n = taken /\ pending # <<>>)

\* No hand-over goes back in time: from the camera to the loop, to the slot,
\* to each browser, a picture is never followed by an older one.
NeverBackInTime ==
  [][/\ frame' >= frame /\ current' >= current /\ slot' >= slot
     /\ \A c \in Client : sent'[c] >= sent[c]]_feedVars

\* If the loop goes on, the newest picture decoded in the end gets to every
\* browser, through two slots that each keep one picture only.
NewestIsSeen ==
  <>[](loop = "running") => <>[](\A c \in Client : sent[c] = frame)

\* Pictures get through the pipe and the slots whole, in their order, and the
\* newest in the end, wherever a read cuts and whichever thread is slow.
PicturesArrive ==
  /\ [](FeedTypeOK /\ PicturesWhole /\ OnlyCutPicturesLost)
  /\ NeverBackInTime /\ NewestIsSeen
=============================================================================
