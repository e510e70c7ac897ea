------------------------------ MODULE Presence ------------------------------
(***************************************************************************)
(* Presence tracking end to end: each camera's laptop runs the loop of     *)
(* surveillance/run.py (PresenceSync.observe on every frame), which sends  *)
(* events one at a time through SurveillancePresenceClient to the cloud's  *)
(* PresenceTimeline, whose sessions live in memory only.                   *)
(*                                                                         *)
(* The client never retries.  A post that fails is lost; a post that times *)
(* out may still be processed, at any later time, after events that were   *)
(* sent after it.  Laptops and the cloud restart and forget.               *)
(***************************************************************************)
EXTENDS PresenceTimeline, Sequences, FiniteSets

CONSTANTS
  Heartbeat,    \* SURVEILLANCE_HEARTBEAT_S (30), in clock units
  Batch,        \* SURVEILLANCE_PRESENCE_BATCH_SIZE; 0 and 1 mean none
  Lag,          \* how far each laptop's clock is behind the cloud's; less
                \* than 0 where it is ahead
  MaxTime,      \* BOUND on the clock
  MaxFaults,    \* BOUND on posts that are lost or time out
  MaxRestarts   \* BOUND on exits and restarts of laptops and of the cloud

ASSUME PresenceAssumption ==
  /\ IsFiniteSet(Track)   \* what one run of the tracker hands out
  /\ Heartbeat \in Nat
  /\ Batch \in Nat
  /\ Lag \in [Camera -> Int]
  /\ MaxTime \in Nat /\ MaxFaults \in Nat /\ MaxRestarts \in Nat

VARIABLES
  now,        \* the cloud's clock
  sessions,   \* PresenceTimelineService._sessions
  up,         \* the laptop's loop is running
  prev,       \* PresenceSync._prev_ids
  beat,       \* time since PresenceSync._last_heartbeat, capped at Heartbeat
  framed,     \* a frame was observed in this unit of time
  outbox,     \* what observe() still has to emit for this frame
  pending,    \* SurveillancePresenceClient._pending
  wire,       \* payloads the client is posting, one after the other
  late,       \* posts that timed out and are still under way
  downAt,     \* when the laptop's loop last ended
  faults,
  restarts

vars == <<now, sessions, up, prev, beat, framed, outbox, pending, wire, late,
          downAt, faults, restarts>>
laptopVars == <<up, prev, beat, framed, outbox, pending, wire, downAt>>

Init ==
  /\ now = 0
  /\ sessions = [k \in SessionKey |-> NoSession]
  /\ up = [c \in Camera |-> TRUE]
  /\ prev = [c \in Camera |-> {}]
  /\ beat = [c \in Camera |-> Heartbeat]
  /\ framed = [c \in Camera |-> FALSE]
  /\ outbox = [c \in Camera |-> <<>>]
  /\ pending = [c \in Camera |-> <<>>]
  /\ wire = [c \in Camera |-> <<>>]
  /\ late = {}
  /\ downAt = [c \in Camera |-> 0]
  /\ faults = 0
  /\ restarts = 0

\* sorted(): a track's place in ascending order, and the track at a place.
Place(tracks, t) == Cardinality({u \in tracks : u <= t})
InOrder(tracks) ==
  [i \in 1 .. Cardinality(tracks) |-> CHOOSE t \in tracks : Place(tracks, t) = i]

\* The emissions of a kind, in ascending order of track id.
Emissions(kind, tracks) ==
  [i \in 1 .. Cardinality(tracks) |->
     [kind |-> kind, track |-> InOrder(tracks)[i]]]

\* The laptop is between two frames.
Idle(c) == outbox[c] = <<>> /\ wire[c] = <<>>

\* What observe() emits for a frame: new tracks, lost tracks, and a heartbeat
\* when one is due.
FrameEmissions(c, seen) ==
  Emissions("appeared", seen \ prev[c])
    \o Emissions("disappeared", prev[c] \ seen)
    \o (IF beat[c] >= Heartbeat THEN <<[kind |-> "heartbeat", track |-> 0]>>
        ELSE <<>>)

\* PresenceSync.observe with the tracks of the current frame.
Observe(c, seen) ==
  /\ up[c] /\ Idle(c)
  /\ outbox' = [outbox EXCEPT ![c] = FrameEmissions(c, seen)]
  /\ prev' = [prev EXCEPT ![c] = seen]
  /\ beat' = [beat EXCEPT ![c] = IF @ >= Heartbeat THEN 0 ELSE @]
  /\ framed' = [framed EXCEPT ![c] = TRUE]
  /\ UNCHANGED <<now, sessions, up, pending, wire, late, downAt, faults, restarts>>

\* SurveillancePresenceClient.emit: the payload is stamped with the laptop's
\* clock, which may be ahead of the cloud's or behind it, and posted, alone or
\* with the batch it completes.
Emit(c) ==
  /\ outbox[c] # <<>> /\ wire[c] = <<>>
  /\ LET e == [camera |-> c, track |-> Head(outbox[c]).track,
               kind |-> Head(outbox[c]).kind, ts |-> now - Lag[c]]
         queue == Append(pending[c], e)
     IN  IF Len(queue) < Batch
         THEN /\ pending' = [pending EXCEPT ![c] = queue]
              /\ UNCHANGED wire
         ELSE /\ wire' = [wire EXCEPT ![c] = queue]
              /\ pending' = [pending EXCEPT ![c] = <<>>]
  /\ outbox' = [outbox EXCEPT ![c] = Tail(@)]
  /\ UNCHANGED <<now, sessions, up, prev, beat, framed, late, downAt, faults,
                 restarts>>

\* The post at the head of the wire is over, whatever became of it.
Posted(c) ==
  /\ wire[c] # <<>>
  /\ wire' = [wire EXCEPT ![c] = Tail(@)]
  /\ UNCHANGED <<now, up, prev, beat, framed, outbox, pending, downAt, restarts>>

\* _post_one: answered in time.
Deliver(c) ==
  /\ Posted(c)
  /\ sessions' = OnEvent(sessions, Head(wire[c]))
  /\ UNCHANGED <<late, faults>>

\* _post_one: refused, or answered with an error before it was ingested.
Lose(c) ==
  /\ Posted(c)
  /\ faults < MaxFaults
  /\ faults' = faults + 1
  /\ UNCHANGED <<sessions, late>>

\* _post_one: the client gives up waiting, the request is still under way.
TimeOut(c) ==
  /\ Posted(c)
  /\ faults < MaxFaults
  /\ faults' = faults + 1
  /\ late' = late \cup {Head(wire[c])}
  /\ UNCHANGED sessions

\* Mutant: a late event is stamped with the time it is processed.
LateArrivalRestamped(e) ==
  /\ e \in late
  /\ late' = late \ {e}
  /\ sessions' = OnEvent(sessions, [e EXCEPT !.ts = now])
  /\ UNCHANGED <<now, laptopVars, faults, restarts>>

\* ingest_presence_event for a post its client has given up on.
LateArrival(e) ==
  /\ e \in late
  /\ late' = late \ {e}
  /\ sessions' = OnEvent(sessions, e)
  /\ UNCHANGED <<now, laptopVars, faults, restarts>>

\* GET /presence/sessions, of any camera: stale sessions go.
List ==
  /\ sessions' = Expire(sessions, now)
  /\ UNCHANGED <<now, laptopVars, late, faults, restarts>>

\* The loop of a laptop ends.  A quit key, an exception or an interrupt flushes
\* the batch (the finally clause of run.py's main); a crash of the process loses
\* it.  Nobody reports the tracks as gone.
Exit(c, flushed) ==
  /\ up[c] /\ restarts < MaxRestarts
  /\ up' = [up EXCEPT ![c] = FALSE]
  /\ prev' = [prev EXCEPT ![c] = {}]
  /\ outbox' = [outbox EXCEPT ![c] = <<>>]
  /\ pending' = [pending EXCEPT ![c] = <<>>]
  /\ downAt' = [downAt EXCEPT ![c] = now]
  /\ restarts' = restarts + 1
  /\ UNCHANGED <<now, sessions, beat, framed, late, faults>>
  /\ wire' = [wire EXCEPT ![c] = IF flushed THEN pending[c] ELSE <<>>]

Quit(c)  == Exit(c, TRUE)
Crash(c) == Exit(c, FALSE)

\* A new run of the loop: a new PresenceSync, and a tracker that hands out
\* the same ids again.
Start(c) ==
  /\ ~up[c] /\ Idle(c)
  /\ up' = [up EXCEPT ![c] = TRUE]
  /\ beat' = [beat EXCEPT ![c] = Heartbeat]
  /\ framed' = [framed EXCEPT ![c] = FALSE]
  /\ UNCHANGED <<now, sessions, prev, outbox, pending, wire, late, downAt,
                 faults, restarts>>

\* The cloud process restarts with an empty session table; requests it had
\* not answered are gone.
RestartCloud ==
  /\ restarts < MaxRestarts
  /\ restarts' = restarts + 1
  /\ sessions' = [k \in SessionKey |-> NoSession]
  /\ late' = {}
  /\ UNCHANGED <<now, laptopVars, faults>>

\* Time passes.  A running loop handles at least one frame per unit of time
\* and is not in the middle of one; a post takes less than a unit.
Tick ==
  /\ now < MaxTime
  /\ \A c \in Camera : Idle(c) /\ (up[c] => framed[c])
  /\ now' = now + 1
  /\ beat' = [c \in Camera |-> IF beat[c] < Heartbeat THEN beat[c] + 1 ELSE beat[c]]
  /\ framed' = [c \in Camera |-> FALSE]
  /\ UNCHANGED <<sessions, up, prev, outbox, pending, wire, late, downAt, faults,
                 restarts>>

Next ==
  \/ \E c \in Camera :
       \/ \E seen \in SUBSET Track : Observe(c, seen)
       \/ Emit(c)
       \/ Deliver(c)
       \/ Lose(c)
       \/ TimeOut(c)
       \/ Quit(c)
       \/ Crash(c)
       \/ Start(c)
  \/ \E e \in late : LateArrival(e)
  \/ List
  \/ RestartCloud
  \/ Tick

Spec == Init /\ [][Next]_vars

-----------------------------------------------------------------------------
(* Properties.                                                             *)

Emission == [kind : {"appeared", "disappeared", "heartbeat"},
             track : Track \cup {0}]

\* The session table and the queues of the laptops keep their types.
TypeOK ==
  /\ now \in Nat
  /\ sessions \in [SessionKey -> Session]
  /\ up \in [Camera -> BOOLEAN]
  /\ prev \in [Camera -> SUBSET Track]
  /\ beat \in [Camera -> 0 .. Heartbeat]
  /\ framed \in [Camera -> BOOLEAN]
  /\ outbox \in [Camera -> Seq(Emission)]
  /\ pending \in [Camera -> Seq(Event)]
  /\ wire \in [Camera -> Seq(Event)]
  /\ late \subseteq Event
  /\ downAt \in [Camera -> Nat]
  /\ faults \in Nat
  /\ restarts \in Nat

\* Everything the laptop has to say has been posted.
Settled(c) == Idle(c) /\ pending[c] = <<>>

\* Whoever is in the picture has a live session, as long as nothing is lost
\* and nobody restarts: heartbeats come often enough for the timeout, even
\* with events of other cameras, whose clocks differ, expiring the table
\* (presence_timeline.py:64, presence_sync.py:38-40, the 30 s and 45 s
\* defaults).
TrackedIsVisible ==
  \A c \in Camera : Settled(c) => prev[c] \subseteq Listed(sessions, c, now)

\* And nobody else has one: a track that left is not listed.
VisibleIsTracked ==
  \A c \in Camera : Settled(c) => Listed(sessions, c, now) \subseteq prev[c]

\* So the active sessions are the tracks in the pictures.
SessionsAreTracks == TypeOK /\ TrackedIsVisible /\ VisibleIsTracked

\* A laptop that stopped leaves no session behind for longer than the
\* timeout and what its clock is ahead of the cloud's, whatever was lost,
\* delayed, or reordered, and although nothing reports its tracks as gone: a
\* stamp of the laptop is compared with the cloud's time and never clamped
\* to it (presence_client.py:102, presence_timeline.py:90-95, 117).
StoppedCameraFades ==
  \A c \in Camera :
    ~up[c] /\ now - downAt[c] > Timeout - Lag[c] => Listed(sessions, c, now) = {}
=============================================================================
