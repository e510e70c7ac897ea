-------------------------- MODULE PresenceTimeline --------------------------
(***************************************************************************)
(* The cloud's in-memory presence sessions                                 *)
(* (cloud_backend/attendance/presence_timeline.py), as operators on the    *)
(* session table: what one ingested event or one GET does to it.  The      *)
(* calls are serialised by the service's lock and contain no await, so     *)
(* each one is a single step of whoever makes it.                          *)
(***************************************************************************)
EXTENDS Integers

CONSTANTS
  Camera,
  Track,      \* track ids the trackers hand out, all of them positive
  Timeout     \* presence_session_timeout_s (45), in clock units

ASSUME TimelineAssumption ==
  /\ Track \subseteq Nat \ {0}
  /\ Timeout \in Nat

SessionKey == Camera \X Track

\* PresenceSession; status "none" stands for a key that is not in the dict.
Session == [status : {"none", "active", "inactive"}, first : Int, last : Int]
NoSession == [status |-> "none", first |-> 0, last |-> 0]

\* PresenceEvent; heartbeats carry track 0.
Event ==
  [camera : Camera, track : Track \cup {0},
   kind : {"appeared", "disappeared", "heartbeat"}, ts : Int]

\* The keys that _expire_stale deletes.
Stale(sessions, now) == {k \in SessionKey : now - sessions[k].last > Timeout}

\* Mutant: a session whose age is exactly the timeout is dropped.
ExpireEarly(sessions, now) ==
  [k \in SessionKey |->
     IF now - sessions[k].last >= Timeout THEN NoSession ELSE sessions[k]]

\* _expire_stale: sessions of every camera, active or not, are deleted when
\* they are older than the timeout at the given time.
Expire(sessions, now) ==
  [k \in SessionKey |->
     IF k \in Stale(sessions, now) THEN NoSession ELSE sessions[k]]

\* The body of on_event: an appearance starts a session over, a disappearance
\* ends one that exists, a heartbeat refreshes the camera's active ones.
Applied(sessions, e) ==
  [k \in SessionKey |->
     LET s == sessions[k]
     IN  CASE e.kind = "appeared" /\ k = <<e.camera, e.track>> ->
                [status |-> "active", first |-> e.ts, last |-> e.ts]
           [] e.kind = "disappeared" /\ k = <<e.camera, e.track>>
              /\ s.status # "none" ->
                [s EXCEPT !.status = "inactive", !.last = e.ts]
           [] e.kind = "heartbeat" /\ k[1] = e.camera /\ s.status = "active" ->
                [s EXCEPT !.last = e.ts]
           [] OTHER -> s]

\* on_event: the event's own timestamp is the time stale sessions are
\* measured against.
OnEvent(sessions, e) == Applied(Expire(sessions, e.ts), e)

\* list_sessions as GET /presence/sessions/{camera} calls it: the tracks of
\* the camera that have an active session at that time.
Listed(sessions, c, now) ==
  {t \in Track : Expire(sessions, now)[<<c, t>>].status = "active"}
=============================================================================
