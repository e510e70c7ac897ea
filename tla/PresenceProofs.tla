--------------------------- MODULE PresenceProofs ---------------------------
(***************************************************************************)
(* Theorems about Presence, for any number of cameras and tracks.          *)
(*                                                                         *)
(* Under every fault, a laptop that stopped fades from the session table   *)
(* (StoppedFades).  The reason is in the stamps.  Nothing that a laptop    *)
(* has sent, is sending or will never know the fate of, and no session it  *)
(* has caused, is newer than its last moment (Horizon).                    *)
(*                                                                         *)
(* Without faults, the active sessions are the tracks in the pictures      *)
(* (SessionsFollowTracks).  SyncInv says why: what a picture and the table *)
(* disagree about is exactly what the laptop still has to say, and a       *)
(* session is no older than the heartbeat timer.                           *)
(***************************************************************************)
EXTENDS Presence, FiniteSetTheorems, FunctionTheorems, TLAPS

\* The last stamp a laptop can have put on an event, by its own clock.
Horizon(c) == (IF up[c] THEN now ELSE downAt[c]) - Lag[c]

\* What came from camera c no later than b.
Heard(e, c, b) == e.camera = c /\ e.ts \in Int /\ e.ts <= b

HeardSeq(s, c, b) == \E S : s \in Seq(S) /\ \A e \in S : Heard(e, c, b)

Shaped ==
  /\ now \in Nat
  /\ sessions \in [SessionKey -> Session]
  /\ up \in [Camera -> BOOLEAN]
  /\ downAt \in [Camera -> Nat]
  /\ pending = [c \in Camera |-> pending[c]]
  /\ wire = [c \in Camera |-> wire[c]]
  /\ outbox = [c \in Camera |-> outbox[c]]

\* A laptop that is down has nothing left to say.
Silent == \A c \in Camera : downAt[c] <= now /\ (~up[c] => outbox[c] = <<>>)

Queued ==
  /\ \A c \in Camera : HeardSeq(pending[c], c, Horizon(c)) /\ HeardSeq(wire[c], c, Horizon(c))
  /\ \A e \in late : e.camera \in Camera /\ Heard(e, e.camera, Horizon(e.camera))

\* No session of a table was seen after its laptop's last stamp.
InTime(table) ==
  \A k \in SessionKey : table[k].status # "none" => table[k].last <= Horizon(k[1])

Dated == InTime(sessions)

IInv == Shaped /\ Silent /\ Queued /\ Dated

-----------------------------------------------------------------------------
(* Queues of events.                                                       *)

LEMMA HeardEmpty ==
  ASSUME NEW c, NEW b
  PROVE  HeardSeq(<<>>, c, b)
<1>1. PICK S : S = {}
  OBVIOUS
<1>2. <<>> \in Seq(S) /\ \A e \in S : Heard(e, c, b)
  BY <1>1
<1> QED
  BY <1>2 DEF HeardSeq

LEMMA HeardLater ==
  ASSUME NEW s, NEW c, NEW b \in Int, NEW d \in Int, b <= d, HeardSeq(s, c, b)
  PROVE  HeardSeq(s, c, d)
BY DEF HeardSeq, Heard

LEMMA HeardMore ==
  ASSUME NEW s, NEW c, NEW b, NEW e, HeardSeq(s, c, b), Heard(e, c, b)
  PROVE  HeardSeq(Append(s, e), c, b)
<1>1. PICK S : s \in Seq(S) /\ \A x \in S : Heard(x, c, b)
  BY DEF HeardSeq
<1>2. s \in Seq(S \cup {e})
  BY <1>1
<1>3. Append(s, e) \in Seq(S \cup {e})
  BY <1>2
<1> QED
  BY <1>1, <1>3 DEF HeardSeq

LEMMA HeardRest ==
  ASSUME NEW s, NEW c, NEW b, HeardSeq(s, c, b), s # <<>>
  PROVE  Heard(Head(s), c, b) /\ HeardSeq(Tail(s), c, b)
<1>1. PICK S : s \in Seq(S) /\ \A x \in S : Heard(x, c, b)
  BY DEF HeardSeq
<1>2. Head(s) \in S /\ Tail(s) \in Seq(S)
  BY <1>1
<1> QED
  BY <1>1, <1>2 DEF HeardSeq

-----------------------------------------------------------------------------
(* The session table.                                                      *)

LEMMA ExpiredDated ==
  ASSUME Shaped, Dated, Silent, NEW at
  PROVE  /\ Expire(sessions, at) \in [SessionKey -> Session]
         /\ InTime(Expire(sessions, at))
<1>1. NoSession \in Session /\ NoSession.status = "none"
  BY DEF NoSession, Session
<1>2. \A k \in SessionKey : \/ Expire(sessions, at)[k] = sessions[k]
                            \/ Expire(sessions, at)[k] = NoSession
  BY DEF Expire, Stale
<1>3. Expire(sessions, at) \in [SessionKey -> Session]
  BY <1>1 DEF Shaped, Expire, Stale
<1> QED
  BY <1>1, <1>2, <1>3 DEF Dated, InTime

\* An event moves no session past its own stamp, and none of other cameras.
LEMMA EventDated ==
  ASSUME Shaped, Dated, Silent, NEW e, e.camera \in Camera,
         Heard(e, e.camera, Horizon(e.camera))
  PROVE  /\ OnEvent(sessions, e) \in [SessionKey -> Session]
         /\ InTime(OnEvent(sessions, e))
<1> DEFINE old == Expire(sessions, e.ts)
<1>1. old \in [SessionKey -> Session] /\ InTime(old)
  BY ExpiredDated
<1> HIDE DEF old
<1>2. ASSUME NEW k \in SessionKey
      PROVE  /\ Applied(old, e)[k] \in Session
             /\ Applied(old, e)[k].status # "none" =>
                  Applied(old, e)[k].last <= Horizon(k[1])
  <2>0. /\ old[k] \in Session /\ e.ts \in Int
        /\ old[k].status # "none" => old[k].last <= Horizon(k[1])
    BY <1>1 DEF Heard, InTime
  <2>1. e.ts <= Horizon(e.camera)
    BY DEF Heard
  <2> DEFINE new == Applied(old, e)[k]
  <2>2. CASE e.kind = "appeared" /\ k = <<e.camera, e.track>>
    <3>1. new = [status |-> "active", first |-> e.ts, last |-> e.ts]
      BY <2>2 DEF Applied
    <3>2. k[1] = e.camera
      BY <2>2
    <3> QED
      BY <2>0, <2>1, <3>1, <3>2 DEF Session
  <2>3. CASE e.kind = "disappeared" /\ k = <<e.camera, e.track>> /\ old[k].status # "none"
    <3>1. new = [old[k] EXCEPT !.status = "inactive", !.last = e.ts]
      BY <2>3 DEF Applied
    <3>2. k[1] = e.camera
      BY <2>3
    <3> QED
      BY <2>0, <2>1, <3>1, <3>2 DEF Session
  <2>4. CASE e.kind = "heartbeat" /\ k[1] = e.camera /\ old[k].status = "active"
    <3>1. new = [old[k] EXCEPT !.last = e.ts]
      BY <2>4 DEF Applied
    <3> QED
      BY <2>0, <2>1, <2>4, <3>1 DEF Session
  <2>5. CASE /\ ~(e.kind = "appeared" /\ k = <<e.camera, e.track>>)
             /\ ~(e.kind = "disappeared" /\ k = <<e.camera, e.track>> /\ old[k].status # "none")
             /\ ~(e.kind = "heartbeat" /\ k[1] = e.camera /\ old[k].status = "active")
    <3>1. new = old[k]
      BY <2>5 DEF Applied
    <3> QED
      BY <2>0, <3>1
  <2> QED
    BY <2>2, <2>3, <2>4, <2>5
<1>3. OnEvent(sessions, e) = Applied(old, e)
  BY DEF OnEvent, old
<1>4. Applied(old, e) \in [SessionKey -> Session]
  BY <1>2 DEF Applied
<1> QED
  BY <1>2, <1>3, <1>4 DEF InTime

-----------------------------------------------------------------------------
(* The invariant.                                                          *)

LEMMA InitInv == Init => IInv
<1> SUFFICES ASSUME Init PROVE IInv
  OBVIOUS
<1>1. NoSession \in Session /\ NoSession.status = "none"
  BY DEF NoSession, Session
<1>2. Shaped /\ Silent /\ Dated
  BY <1>1 DEF Init, Shaped, Silent, Dated, InTime
<1>3. Queued
  BY HeardEmpty DEF Init, Queued
<1> QED
  BY <1>2, <1>3 DEF IInv

\* A step that neither ends nor starts a loop nor lets time pass leaves every
\* horizon where it is.
Steady == now' = now /\ up' = up /\ downAt' = downAt

LEMMA SteadyHorizon ==
  ASSUME Steady, NEW c
  PROVE  Horizon(c)' = Horizon(c)
BY DEF Steady, Horizon

\* The cloud's table after a steady step that touches only it.
LEMMA TableInv ==
  ASSUME IInv, Steady,
         sessions' \in [SessionKey -> Session], InTime(sessions')
  PROVE  Dated'
BY DEF Steady, Dated, InTime, Horizon

LEMMA ObserveInv ==
  ASSUME IInv, NEW c \in Camera, NEW seen, Observe(c, seen)
  PROVE  IInv'
<1>1. Shaped' /\ Silent'
  BY DEF IInv, Shaped, Silent, Observe
<1>2. Queued' /\ Dated'
  BY DEF IInv, Queued, Dated, InTime, Horizon, Observe
<1> QED
  BY <1>1, <1>2 DEF IInv

LEMMA EmitInv ==
  ASSUME IInv, NEW c \in Camera, Emit(c)
  PROVE  IInv'
<1> DEFINE e == [camera |-> c, track |-> Head(outbox[c]).track,
                 kind |-> Head(outbox[c]).kind, ts |-> now - Lag[c]]
           queue == Append(pending[c], e)
<1>1. Shaped /\ Silent /\ Queued /\ Dated /\ Steady
  BY DEF IInv, Emit, Steady
<1>2. up[c] /\ Horizon(c) = now - Lag[c]
  BY <1>1 DEF Emit, Silent, Horizon, Shaped
<1>3. Heard(e, c, Horizon(c))
  BY <1>1, <1>2, PresenceAssumption DEF Heard, Shaped
<1>4. HeardSeq(pending[c], c, Horizon(c))
  BY <1>1 DEF Queued
<1>5. HeardSeq(queue, c, Horizon(c))
  BY <1>3, <1>4, HeardMore
<1> HIDE DEF queue
<1>6. \/ pending' = [pending EXCEPT ![c] = queue] /\ wire' = wire
      \/ wire' = [wire EXCEPT ![c] = queue] /\ pending' = [pending EXCEPT ![c] = <<>>]
  BY DEF Emit, queue
<1>7. \A x \in Camera : /\ HeardSeq(pending'[x], x, Horizon(x))
                        /\ HeardSeq(wire'[x], x, Horizon(x))
  BY <1>1, <1>5, <1>6, HeardEmpty DEF Shaped, Queued
<1>8. Queued'
  BY <1>1, <1>7 DEF Queued, Emit, Horizon, Steady
<1>9. Shaped' /\ Silent'
  BY <1>1, <1>2, <1>6 DEF Shaped, Silent, Emit
<1>10. Dated'
  BY <1>1 DEF Dated, InTime, Emit, Horizon, Steady
<1> QED
  BY <1>8, <1>9, <1>10 DEF IInv

\* A post is over: the wire is shorter, the rest of the laptop as before.
LEMMA PostedInv ==
  ASSUME IInv, NEW c \in Camera, Posted(c)
  PROVE  /\ Heard(Head(wire[c]), c, Horizon(c)) /\ Head(wire[c]).camera = c
         /\ Steady
         /\ wire' = [x \in Camera |-> wire'[x]]
         /\ \A x \in Camera : /\ HeardSeq(pending'[x], x, Horizon(x))
                              /\ HeardSeq(wire'[x], x, Horizon(x))
<1>1. Shaped /\ Queued
  BY DEF IInv
<1>2. Heard(Head(wire[c]), c, Horizon(c)) /\ HeardSeq(Tail(wire[c]), c, Horizon(c))
  BY <1>1, HeardRest DEF Queued, Posted
<1>3. wire' = [wire EXCEPT ![c] = Tail(wire[c])] /\ pending' = pending
  BY DEF Posted
<1> QED
  BY <1>1, <1>2, <1>3 DEF Posted, Steady, Shaped, Queued, Heard

LEMMA PostInv ==
  ASSUME IInv, NEW c \in Camera, Deliver(c) \/ Lose(c) \/ TimeOut(c)
  PROVE  IInv'
<1>1. Posted(c)
  BY DEF Deliver, Lose, TimeOut
<1>2. Shaped /\ Silent /\ Queued /\ Dated
  BY DEF IInv
<1>3. /\ Heard(Head(wire[c]), c, Horizon(c)) /\ Head(wire[c]).camera = c
      /\ Steady
      /\ wire' = [x \in Camera |-> wire'[x]]
      /\ \A x \in Camera : /\ HeardSeq(pending'[x], x, Horizon(x))
                           /\ HeardSeq(wire'[x], x, Horizon(x))
  BY <1>1, PostedInv
<1>4. InTime(sessions')
  BY <1>2, <1>3, EventDated DEF Deliver, Lose, TimeOut, Shaped, Dated
<1>5. sessions' \in [SessionKey -> Session]
  BY <1>2, <1>3, EventDated DEF Deliver, Lose, TimeOut, Shaped
<1>6. \A e \in late' : e.camera \in Camera /\ Heard(e, e.camera, Horizon(e.camera))
  BY <1>2, <1>3 DEF Deliver, Lose, TimeOut, Queued
<1>7. Queued' /\ Dated'
  BY <1>3, <1>4, <1>6 DEF Queued, Dated, InTime, Horizon, Steady
<1>8. Shaped' /\ Silent'
  BY <1>1, <1>2, <1>3, <1>5 DEF Shaped, Silent, Posted
<1> QED
  BY <1>7, <1>8 DEF IInv

\* The cloud processes a late post, lists, or restarts.
LEMMA CloudInv ==
  ASSUME IInv, (\E e \in late : LateArrival(e)) \/ List \/ RestartCloud
  PROVE  IInv'
<1>1. Shaped /\ Silent /\ Queued /\ Dated
  BY DEF IInv
<1>2. Steady /\ UNCHANGED laptopVars /\ late' \subseteq late
  BY DEF Steady, LateArrival, List, RestartCloud, laptopVars
<1>3. /\ sessions' \in [SessionKey -> Session]
      /\ InTime(sessions')
  <2>1. CASE \E e \in late : LateArrival(e)
    BY <1>1, <2>1, EventDated DEF LateArrival, Queued
  <2>2. CASE List
    BY <1>1, <2>2, ExpiredDated DEF List
  <2>3. CASE RestartCloud
    <3>1. NoSession \in Session /\ NoSession.status = "none"
      BY DEF NoSession, Session
    <3> QED
      BY <2>3, <3>1 DEF RestartCloud, InTime
  <2> QED
    BY <2>1, <2>2, <2>3
<1>4. Dated' /\ Queued'
  BY <1>1, <1>2, <1>3 DEF Dated, InTime, Queued, Horizon, Steady, laptopVars
<1>5. Shaped' /\ Silent'
  BY <1>1, <1>2, <1>3 DEF Shaped, Silent, Steady, laptopVars
<1> QED
  BY <1>4, <1>5 DEF IInv

\* A loop that ends keeps its horizon where it was, at now; nothing it leaves
\* on the wire is newer.
LEMMA ExitInv ==
  ASSUME IInv, NEW c \in Camera, NEW flushed \in BOOLEAN, Exit(c, flushed)
  PROVE  IInv'
<1>1. Shaped /\ Silent /\ Queued /\ Dated
  BY DEF IInv
<1>2. \A x \in Camera : Horizon(x)' = Horizon(x)
  BY <1>1 DEF Exit, Horizon, Shaped
<1>3. /\ pending' = [pending EXCEPT ![c] = <<>>]
      /\ wire' = [wire EXCEPT ![c] = IF flushed THEN pending[c] ELSE <<>>]
      /\ late' = late /\ sessions' = sessions
  BY DEF Exit
<1>4. \A x \in Camera : /\ HeardSeq(pending'[x], x, Horizon(x))
                        /\ HeardSeq(wire'[x], x, Horizon(x))
  BY <1>1, <1>3, HeardEmpty DEF Queued, Shaped
<1>5. Queued'
  BY <1>1, <1>2, <1>3, <1>4 DEF Queued
<1>6. Dated'
  <2>1. \A k \in SessionKey : k[1] \in Camera
    BY DEF SessionKey
  <2> QED
    BY <1>1, <1>2, <1>3, <2>1 DEF Dated, InTime
<1>7. Shaped'
  <2>1. now' = now /\ sessions' = sessions
    BY DEF Exit
  <2>2. up' \in [Camera -> BOOLEAN]
    BY <1>1 DEF Exit, Shaped
  <2>3. downAt' \in [Camera -> Nat] /\ outbox' = [x \in Camera |-> outbox'[x]]
    BY <1>1 DEF Exit, Shaped
  <2>4. pending' = [x \in Camera |-> pending'[x]] /\ wire' = [x \in Camera |-> wire'[x]]
    BY <1>1, <1>3 DEF Shaped
  <2> QED
    BY <1>1, <2>1, <2>2, <2>3, <2>4 DEF Shaped
<1>8. Silent'
  <2>1. /\ now' = now
        /\ up' = [up EXCEPT ![c] = FALSE]
        /\ outbox' = [outbox EXCEPT ![c] = <<>>]
        /\ downAt' = [downAt EXCEPT ![c] = now]
    BY DEF Exit
  <2>2. \A x \in Camera : downAt'[x] <= now'
    BY <1>1, <2>1 DEF Shaped, Silent
  <2>3. \A x \in Camera : ~up'[x] => outbox'[x] = <<>>
    BY <1>1, <2>1 DEF Shaped, Silent
  <2> QED
    BY <2>2, <2>3 DEF Silent
<1> QED
  BY <1>5, <1>6, <1>7, <1>8 DEF IInv

\* Where horizons only move on, nothing that was dated before is newer.
LEMMA ForwardInv ==
  ASSUME IInv, \A c \in Camera : Horizon(c) <= Horizon(c)' /\ Horizon(c)' \in Int,
         UNCHANGED <<sessions, pending, wire, late>>
  PROVE  Queued' /\ Dated'
<1>1. Shaped /\ Silent /\ Queued /\ Dated
  BY DEF IInv
<1>2. \A c \in Camera : Horizon(c) \in Int
  BY <1>1, PresenceAssumption DEF Shaped, Horizon
<1>3. \A c \in Camera : /\ HeardSeq(pending[c], c, Horizon(c)')
                        /\ HeardSeq(wire[c], c, Horizon(c)')
  BY <1>1, <1>2, HeardLater DEF Queued
<1>4. \A e \in late : e.camera \in Camera /\ Heard(e, e.camera, Horizon(e.camera)')
  BY <1>1, <1>2 DEF Queued, Heard
<1>5. Queued'
  BY <1>3, <1>4 DEF Queued
<1>6. Dated'
  <2>1. \A k \in SessionKey : k[1] \in Camera /\ sessions[k].last \in Int
    BY <1>1 DEF SessionKey, Shaped, Session
  <2> QED
    BY <1>1, <1>2, <2>1 DEF Dated, InTime
<1> QED
  BY <1>5, <1>6

LEMMA Inductive ==
  ASSUME IInv, [Next]_vars
  PROVE  IInv'
<1>0. Shaped /\ Silent /\ Queued /\ Dated
  BY DEF IInv
<1>1. CASE \E c \in Camera : \E seen \in SUBSET Track : Observe(c, seen)
  BY <1>1, ObserveInv
<1>2. CASE \E c \in Camera : Emit(c)
  BY <1>2, EmitInv
<1>3. CASE \E c \in Camera : Deliver(c) \/ Lose(c) \/ TimeOut(c)
  BY <1>3, PostInv
<1>4. CASE \E c \in Camera : Quit(c) \/ Crash(c)
  BY <1>4, ExitInv DEF Quit, Crash
<1>5. CASE \E c \in Camera : Start(c)
  <2>1. PICK c \in Camera : Start(c)
    BY <1>5
  <2>2. Shaped' /\ Silent'
    BY <1>0, <2>1 DEF Shaped, Silent, Start, Idle
  <2>3. ASSUME NEW x \in Camera
        PROVE  Horizon(x) <= Horizon(x)' /\ Horizon(x)' \in Int
    <3>1. downAt[x] <= now /\ now \in Int /\ downAt[x] \in Int /\ Lag[x] \in Int
      BY <1>0, PresenceAssumption DEF Shaped, Silent
    <3>2. now' = now /\ downAt'[x] = downAt[x] /\ (up[x] => up'[x])
      BY <1>0, <2>1 DEF Start, Shaped
    <3> QED
      BY <3>1, <3>2 DEF Horizon
  <2> QED
    BY <2>1, <2>2, <2>3, ForwardInv DEF IInv, Start
<1>6. CASE (\E e \in late : LateArrival(e)) \/ List \/ RestartCloud
  BY <1>6, CloudInv
<1>7. CASE Tick
  <2>1. Shaped' /\ Silent'
    BY <1>0, <1>7 DEF Shaped, Silent, Tick
  <2>2. \A x \in Camera : Horizon(x) <= Horizon(x)' /\ Horizon(x)' \in Int
    BY <1>0, <1>7, PresenceAssumption DEF Shaped, Silent, Tick, Horizon
  <2> QED
    BY <1>7, <2>1, <2>2, ForwardInv DEF IInv, Tick
<1>8. CASE UNCHANGED vars
  <2>1. UNCHANGED <<now, sessions, up, outbox, pending, wire, late, downAt>>
    BY <1>8 DEF vars
  <2>2. Shaped' /\ Silent' /\ Queued' /\ Dated'
    BY <1>0, <2>1 DEF Shaped, Silent, Queued, Dated, InTime, Horizon
  <2> QED
    BY <2>2 DEF IInv
<1> QED
  BY <1>1, <1>2, <1>3, <1>4, <1>5, <1>6, <1>7, <1>8 DEF Next

THEOREM Invariance == Spec => []IInv
BY InitInv, Inductive, PTL DEF Spec

\* A laptop that stopped leaves no session for longer than the timeout and
\* what its clock is ahead of the cloud's, for whatever was lost, delayed or
\* reordered, and although nobody reports its tracks as gone
\* (presence_client.py:102, presence_timeline.py:90-95).
THEOREM StoppedFades == Spec => []StoppedCameraFades
<1>1. IInv => StoppedCameraFades
  <2> SUFFICES ASSUME IInv, NEW c \in Camera, ~up[c], now - downAt[c] > Timeout - Lag[c]
               PROVE  Listed(sessions, c, now) = {}
    BY DEF StoppedCameraFades
  <2>1. ASSUME NEW t \in Track
        PROVE  Expire(sessions, now)[<<c, t>>].status # "active"
    <3>1. <<c, t>> \in SessionKey /\ <<c, t>>[1] = c
      BY DEF SessionKey
    <3>2. /\ sessions[<<c, t>>].status # "none" =>
               sessions[<<c, t>>].last <= downAt[c] - Lag[c]
          /\ sessions[<<c, t>>].last \in Int
      BY <3>1 DEF IInv, Shaped, Dated, InTime, Horizon, Session
    <3>3. sessions[<<c, t>>].status # "none" => now - sessions[<<c, t>>].last > Timeout
      BY <3>2, TimelineAssumption, PresenceAssumption DEF IInv, Shaped
    <3>4. \/ Expire(sessions, now)[<<c, t>>] = NoSession
          \/ /\ Expire(sessions, now)[<<c, t>>] = sessions[<<c, t>>]
             /\ sessions[<<c, t>>].status = "none"
      BY <3>1, <3>3 DEF Expire, Stale
    <3> QED
      BY <3>4 DEF NoSession
  <2> QED
    BY <2>1 DEF Listed
<1> QED
  BY <1>1, Invariance, PTL

-----------------------------------------------------------------------------
(* What a frame makes a laptop say.                                        *)

\* No two tracks of a set share a place in it.
LEMMA PlacesApart ==
  ASSUME NEW tracks \in SUBSET Track, NEW t \in tracks, NEW u \in tracks,
         Place(tracks, t) = Place(tracks, u)
  PROVE  t = u
<1> DEFINE upTo(x) == {y \in tracks : y <= x}
<1>1. IsFiniteSet(tracks)
  BY PresenceAssumption, FS_Subset
<1>2. tracks \subseteq Nat
  BY TimelineAssumption
<1>3. ASSUME NEW x \in tracks, NEW y \in tracks, x < y
      PROVE  Cardinality(upTo(x)) # Cardinality(upTo(y))
  <2>0. x \in Nat /\ y \in Nat /\ \A z \in tracks : z \in Nat
    BY <1>2
  <2>1. upTo(x) \in SUBSET upTo(y)
    <3>1. \A z \in tracks : z <= x => z <= y
      BY <1>3, <2>0
    <3> QED
      BY <3>1
  <2>4. y \in upTo(y) /\ y \notin upTo(x)
    BY <1>3, <2>0
  <2>2. upTo(y) \in SUBSET tracks
    OBVIOUS
  <2>3. IsFiniteSet(upTo(y))
    BY <1>1, <2>2, FS_Subset
  <2> QED
    BY <2>1, <2>3, <2>4, FS_Subset
<1>4. t < u \/ u < t \/ t = u
  BY <1>2
<1> QED
  BY <1>3, <1>4 DEF Place

\* Sorting keeps every track: the places of n tracks are 1 .. n, one each.
LEMMA Places ==
  ASSUME NEW tracks \in SUBSET Track
  PROVE  /\ Cardinality(tracks) \in Nat
         /\ \A t \in tracks : Place(tracks, t) \in 1 .. Cardinality(tracks)
         /\ \A i \in 1 .. Cardinality(tracks) :
              \E t \in tracks : Place(tracks, t) = i
<1> DEFINE n == Cardinality(tracks)
           upTo(t) == {u \in tracks : u <= t}
           place == [t \in tracks |-> Place(tracks, t)]
<1>1. IsFiniteSet(tracks) /\ n \in Nat
  BY PresenceAssumption, FS_Subset, FS_CardinalityType
<1>2. tracks \subseteq Nat
  BY TimelineAssumption
<1>3. ASSUME NEW t \in tracks
      PROVE  /\ IsFiniteSet(upTo(t))
             /\ Place(tracks, t) = Cardinality(upTo(t))
             /\ Place(tracks, t) \in 1 .. n
  <2>1. upTo(t) \in SUBSET tracks /\ t \in upTo(t)
    BY <1>2
  <2>2. IsFiniteSet(upTo(t)) /\ Cardinality(upTo(t)) <= n
    BY <1>1, <2>1, FS_Subset
  <2>3. Cardinality(upTo(t)) \in Nat /\ Cardinality(upTo(t)) # 0
    BY <2>1, <2>2, FS_CardinalityType, FS_EmptySet
  <2> QED
    BY <1>1, <2>2, <2>3 DEF Place
<1>5. place \in Injection(tracks, 1 .. n)
  <2>1. place \in [tracks -> 1 .. n]
    BY <1>3
  <2>2. ASSUME NEW t \in tracks, NEW u \in tracks, place[t] = place[u]
        PROVE  t = u
    BY <2>2, PlacesApart
  <2> QED
    BY <2>1, <2>2, Fun_IsInj
<1>6. IsFiniteSet(1 .. n) /\ Cardinality(1 .. n) = n
  BY <1>1, FS_Interval
<1>7. place \in Surjection(tracks, 1 .. n)
  BY <1>5, <1>6, FS_Injection
<1> QED
  BY <1>1, <1>3, <1>7 DEF Surjection

\* What a sequence of emissions, or of events, says.
Said(s) == {[kind |-> s[i].kind, track |-> s[i].track] : i \in DOMAIN s}
Word(kind, t) == [kind |-> kind, track |-> t]

LEMMA EmissionsSay ==
  ASSUME NEW kind \in {"appeared", "disappeared"}, NEW tracks \in SUBSET Track
  PROVE  /\ Emissions(kind, tracks) \in Seq(Emission)
         /\ Said(Emissions(kind, tracks)) = {Word(kind, t) : t \in tracks}
<1> DEFINE n == Cardinality(tracks)
           s == Emissions(kind, tracks)
<1>1. n \in Nat
  BY Places
<1>2. \A i \in 1 .. n : InOrder(tracks)[i] \in tracks /\ Place(tracks, InOrder(tracks)[i]) = i
  BY Places DEF InOrder
<1>3. DOMAIN s = 1 .. n /\ \A i \in 1 .. n : s[i] = Word(kind, InOrder(tracks)[i])
  BY DEF Emissions, Word
<1>4. s \in [1 .. n -> Emission]
  BY <1>2 DEF Emissions, Emission
<1>5. s \in Seq(Emission)
  BY <1>1, <1>4
<1>6. ASSUME NEW t \in tracks
      PROVE  \E i \in 1 .. n : InOrder(tracks)[i] = t
  <2>1. Place(tracks, t) \in 1 .. n
    BY Places
  <2> DEFINE i == Place(tracks, t)
             u == InOrder(tracks)[i]
  <2>2. u \in tracks /\ Place(tracks, u) = Place(tracks, t)
    BY <1>2, <2>1
  <2>3. u = t
    BY <2>2, PlacesApart
  <2> QED
    BY <2>1, <2>3
<1>7. Said(s) = {Word(kind, InOrder(tracks)[i]) : i \in 1 .. n}
  BY <1>3 DEF Said, Word
<1> QED
  BY <1>2, <1>5, <1>6, <1>7

LEMMA SaidEmpty == Said(<<>>) = {}
BY DEF Said

LEMMA SaidOne ==
  ASSUME NEW e
  PROVE  Said(<<e>>) = {Word(e.kind, e.track)}
<1>1. DOMAIN <<e>> = {1} /\ <<e>>[1] = e
  OBVIOUS
<1> QED
  BY <1>1 DEF Said, Word

LEMMA SaidRest ==
  ASSUME NEW S, NEW s \in Seq(S), s # <<>>
  PROVE  Said(s) = {Word(Head(s).kind, Head(s).track)} \cup Said(Tail(s))
<1>1. DOMAIN s = 1 .. Len(s) /\ Len(s) \in Nat /\ Len(s) >= 1 /\ s[1] = Head(s)
  OBVIOUS
<1>2. DOMAIN Tail(s) = 1 .. Len(s) - 1
  OBVIOUS
<1>3. \A i \in 1 .. Len(s) - 1 : Tail(s)[i] = s[i + 1]
  OBVIOUS
<1>4. ASSUME NEW w \in Said(s)
      PROVE  w = Word(Head(s).kind, Head(s).track) \/ w \in Said(Tail(s))
  <2>1. PICK i \in 1 .. Len(s) : w = Word(s[i].kind, s[i].track)
    BY <1>1 DEF Said, Word
  <2>2. CASE i = 1
    BY <1>1, <2>1, <2>2
  <2>3. CASE i # 1
    <3>1. i - 1 \in 1 .. Len(s) - 1 /\ Tail(s)[i - 1] = s[i]
      BY <1>1, <1>3, <2>3
    <3> QED
      BY <1>2, <2>1, <3>1 DEF Said, Word
  <2> QED
    BY <2>2, <2>3
<1>5. Word(Head(s).kind, Head(s).track) \in Said(s)
  BY <1>1 DEF Said, Word
<1>6. ASSUME NEW w \in Said(Tail(s))
      PROVE  w \in Said(s)
  <2>1. PICK i \in 1 .. Len(s) - 1 : w = Word(Tail(s)[i].kind, Tail(s)[i].track)
    BY <1>2 DEF Said, Word
  <2>2. i + 1 \in 1 .. Len(s) /\ Tail(s)[i] = s[i + 1]
    BY <1>1, <1>3
  <2> QED
    BY <1>1, <2>1, <2>2 DEF Said, Word
<1> QED
  BY <1>4, <1>5, <1>6

LEMMA SaidJoined ==
  ASSUME NEW S, NEW r \in Seq(S), NEW s \in Seq(S)
  PROVE  Said(r \o s) = Said(r) \cup Said(s)
<1>1. /\ DOMAIN (r \o s) = 1 .. Len(r) + Len(s)
      /\ DOMAIN r = 1 .. Len(r) /\ DOMAIN s = 1 .. Len(s)
      /\ Len(r) \in Nat /\ Len(s) \in Nat
  OBVIOUS
<1>2. \A i \in 1 .. Len(r) : (r \o s)[i] = r[i]
  OBVIOUS
<1>3. \A i \in 1 .. Len(s) : (r \o s)[Len(r) + i] = s[i]
  OBVIOUS
<1>4. ASSUME NEW w \in Said(r \o s)
      PROVE  w \in Said(r) \/ w \in Said(s)
  <2>1. PICK i \in 1 .. Len(r) + Len(s) : w = Word((r \o s)[i].kind, (r \o s)[i].track)
    BY <1>1 DEF Said, Word
  <2>2. CASE i <= Len(r)
    <3>1. i \in 1 .. Len(r)
      BY <1>1, <2>2
    <3> QED
      BY <1>1, <1>2, <2>1, <3>1 DEF Said, Word
  <2>3. CASE i > Len(r)
    <3>1. i - Len(r) \in 1 .. Len(s) /\ Len(r) + (i - Len(r)) = i
      BY <1>1, <2>3
    <3>2. (r \o s)[i] = s[i - Len(r)]
      BY <1>3, <3>1
    <3> QED
      BY <1>1, <2>1, <3>1, <3>2 DEF Said, Word
  <2> QED
    BY <1>1, <2>2, <2>3
<1>5. ASSUME NEW w \in Said(r)
      PROVE  w \in Said(r \o s)
  <2>1. PICK i \in 1 .. Len(r) : w = Word(r[i].kind, r[i].track)
    BY <1>1 DEF Said, Word
  <2>2. i \in 1 .. Len(r) + Len(s) /\ (r \o s)[i] = r[i]
    BY <1>1, <1>2
  <2> QED
    BY <1>1, <2>1, <2>2 DEF Said, Word
<1>6. ASSUME NEW w \in Said(s)
      PROVE  w \in Said(r \o s)
  <2>1. PICK i \in 1 .. Len(s) : w = Word(s[i].kind, s[i].track)
    BY <1>1 DEF Said, Word
  <2>2. Len(r) + i \in 1 .. Len(r) + Len(s) /\ (r \o s)[Len(r) + i] = s[i]
    BY <1>1, <1>3
  <2> QED
    BY <1>1, <2>1, <2>2 DEF Said, Word
<1> QED
  BY <1>4, <1>5, <1>6

\* A frame's words: who came, who left, and a heartbeat when one is due.
LEMMA FrameSays ==
  ASSUME TypeOK, NEW c \in Camera, NEW seen \in SUBSET Track
  PROVE  /\ FrameEmissions(c, seen) \in Seq(Emission)
         /\ Said(FrameEmissions(c, seen)) =
              {Word("appeared", t) : t \in seen \ prev[c]}
                \cup {Word("disappeared", t) : t \in prev[c] \ seen}
                \cup (IF beat[c] >= Heartbeat THEN {Word("heartbeat", 0)} ELSE {})
<1> DEFINE came == Emissions("appeared", seen \ prev[c])
           left == Emissions("disappeared", prev[c] \ seen)
           due  == IF beat[c] >= Heartbeat
                   THEN <<[kind |-> "heartbeat", track |-> 0]>> ELSE <<>>
<1>1. seen \ prev[c] \in SUBSET Track /\ prev[c] \ seen \in SUBSET Track
  BY DEF TypeOK
<1>2. came \in Seq(Emission) /\ Said(came) = {Word("appeared", t) : t \in seen \ prev[c]}
  BY <1>1, EmissionsSay
<1>3. left \in Seq(Emission) /\ Said(left) = {Word("disappeared", t) : t \in prev[c] \ seen}
  BY <1>1, EmissionsSay
<1>4. /\ due \in Seq(Emission)
      /\ Said(due) = IF beat[c] >= Heartbeat THEN {Word("heartbeat", 0)} ELSE {}
  <2>1. [kind |-> "heartbeat", track |-> 0] \in Emission
    BY DEF Emission
  <2>2. Said(<<[kind |-> "heartbeat", track |-> 0]>>) = {Word("heartbeat", 0)}
    BY SaidOne
  <2>3. CASE beat[c] >= Heartbeat
    <3>1. due = <<[kind |-> "heartbeat", track |-> 0]>>
      BY <2>3
    <3> HIDE DEF due
    <3>2. due \in Seq(Emission)
      BY <2>1, <3>1
    <3> QED
      BY <2>2, <2>3, <3>1, <3>2
  <2>4. CASE ~(beat[c] >= Heartbeat)
    <3>1. due = <<>>
      BY <2>4
    <3> HIDE DEF due
    <3> QED
      BY <2>4, <3>1, SaidEmpty
  <2> QED
    BY <2>3, <2>4
<1> HIDE DEF came, left, due
<1>5. came \o left \in Seq(Emission) /\ Said(came \o left) = Said(came) \cup Said(left)
  BY <1>2, <1>3, SaidJoined
<1>6. /\ (came \o left) \o due \in Seq(Emission)
      /\ Said((came \o left) \o due) = Said(came \o left) \cup Said(due)
  <2>1. PICK both : both = came \o left
    OBVIOUS
  <2>2. due \in Seq(Emission) /\ both \in Seq(Emission)
    BY <1>4, <1>5, <2>1
  <2>3. both \o due \in Seq(Emission) /\ Said(both \o due) = Said(both) \cup Said(due)
    BY <2>2, SaidJoined
  <2> QED
    BY <2>1, <2>3
<1>7. FrameEmissions(c, seen) = (came \o left) \o due
  BY DEF FrameEmissions, came, left, due
<1> QED
  BY <1>2, <1>3, <1>4, <1>5, <1>6, <1>7

-----------------------------------------------------------------------------
(* The types, under every fault.                                           *)

LEMMA NoSessionTyped == NoSession \in Session
BY DEF NoSession, Session

LEMMA ExpireTyped ==
  ASSUME NEW table \in [SessionKey -> Session], NEW at
  PROVE  Expire(table, at) \in [SessionKey -> Session]
BY NoSessionTyped DEF Expire, Stale

LEMMA EventTyped ==
  ASSUME NEW table \in [SessionKey -> Session], NEW e \in Event
  PROVE  OnEvent(table, e) \in [SessionKey -> Session]
<1>1. PICK old : old = Expire(table, e.ts)
  OBVIOUS
<1>2. old \in [SessionKey -> Session]
  BY <1>1, ExpireTyped
<1>3. ASSUME NEW k \in SessionKey
      PROVE  Applied(old, e)[k] \in Session
  <2>1. old[k] \in Session /\ e.ts \in Int
    BY <1>2 DEF Event
  <2>2. /\ [status |-> "active", first |-> e.ts, last |-> e.ts] \in Session
        /\ [old[k] EXCEPT !.status = "inactive", !.last = e.ts] \in Session
        /\ [old[k] EXCEPT !.last = e.ts] \in Session
    BY <2>1 DEF Session
  <2> QED
    BY <2>1, <2>2 DEF Applied
<1>4. Applied(old, e) \in [SessionKey -> Session]
  BY <1>3 DEF Applied
<1> QED
  BY <1>1, <1>4 DEF OnEvent

LEMMA InitTyped == Init => TypeOK
BY NoSessionTyped, PresenceAssumption DEF Init, TypeOK

LEMMA ObserveTyped ==
  ASSUME TypeOK, NEW c \in Camera, NEW seen \in SUBSET Track, Observe(c, seen)
  PROVE  TypeOK'
<1>1. FrameEmissions(c, seen) \in Seq(Emission)
  BY FrameSays
<1>2. outbox' \in [Camera -> Seq(Emission)]
  BY <1>1 DEF Observe, TypeOK
<1>3. prev' \in [Camera -> SUBSET Track] /\ framed' \in [Camera -> BOOLEAN]
  BY DEF Observe, TypeOK
<1>4. beat' \in [Camera -> 0 .. Heartbeat]
  BY PresenceAssumption DEF Observe, TypeOK
<1> QED
  BY <1>2, <1>3, <1>4 DEF Observe, TypeOK

LEMMA EmitTyped ==
  ASSUME TypeOK, NEW c \in Camera, Emit(c)
  PROVE  TypeOK'
<1> DEFINE e == [camera |-> c, track |-> Head(outbox[c]).track,
                 kind |-> Head(outbox[c]).kind, ts |-> now - Lag[c]]
           queue == Append(pending[c], e)
<1>1. Head(outbox[c]) \in Emission /\ Tail(outbox[c]) \in Seq(Emission)
  BY DEF TypeOK, Emit
<1>2. now - Lag[c] \in Int
  BY PresenceAssumption DEF TypeOK
<1>3. e \in Event
  BY <1>1, <1>2 DEF Emission, Event
<1> HIDE DEF e
<1>4. queue \in Seq(Event)
  BY <1>3 DEF TypeOK
<1> HIDE DEF queue
<1>5. \/ pending' = [pending EXCEPT ![c] = queue] /\ wire' = wire
      \/ wire' = [wire EXCEPT ![c] = queue] /\ pending' = [pending EXCEPT ![c] = <<>>]
  BY DEF Emit, queue, e
<1>6. pending' \in [Camera -> Seq(Event)] /\ wire' \in [Camera -> Seq(Event)]
  <2>1. /\ pending \in [Camera -> Seq(Event)] /\ wire \in [Camera -> Seq(Event)]
        /\ <<>> \in Seq(Event)
    BY DEF TypeOK
  <2>2. CASE pending' = [pending EXCEPT ![c] = queue] /\ wire' = wire
    BY <1>4, <2>1, <2>2
  <2>3. CASE wire' = [wire EXCEPT ![c] = queue] /\ pending' = [pending EXCEPT ![c] = <<>>]
    BY <1>4, <2>1, <2>3
  <2> QED
    BY <1>5, <2>2, <2>3
<1>7. outbox' \in [Camera -> Seq(Emission)]
  BY <1>1 DEF Emit, TypeOK
<1> QED
  BY <1>6, <1>7 DEF Emit, TypeOK

LEMMA PostTyped ==
  ASSUME TypeOK, NEW c \in Camera, Deliver(c) \/ Lose(c) \/ TimeOut(c)
  PROVE  TypeOK'
<1>1. Posted(c)
  BY DEF Deliver, Lose, TimeOut
<1>2. Head(wire[c]) \in Event /\ Tail(wire[c]) \in Seq(Event)
  BY <1>1 DEF Posted, TypeOK
<1>3. wire' \in [Camera -> Seq(Event)]
  BY <1>1, <1>2 DEF Posted, TypeOK
<1>4. sessions' \in [SessionKey -> Session] /\ late' \subseteq Event /\ faults' \in Nat
  <2>1. OnEvent(sessions, Head(wire[c])) \in [SessionKey -> Session]
    BY <1>2, EventTyped DEF TypeOK
  <2>2. sessions' \in [SessionKey -> Session]
    BY <2>1 DEF TypeOK, Deliver, Lose, TimeOut
  <2> QED
    BY <1>2, <2>2 DEF TypeOK, Deliver, Lose, TimeOut
<1> QED
  BY <1>1, <1>3, <1>4 DEF Posted, TypeOK

LEMMA CloudTyped ==
  ASSUME TypeOK, (\E e \in late : LateArrival(e)) \/ List \/ RestartCloud
  PROVE  TypeOK'
<1>1. /\ UNCHANGED <<now, laptopVars, faults>>
      /\ late' \subseteq late /\ restarts' \in Nat
  BY DEF LateArrival, List, RestartCloud, TypeOK
<1>2. sessions' \in [SessionKey -> Session]
  <2>1. CASE \E e \in late : LateArrival(e)
    <3>1. PICK e \in late : LateArrival(e)
      BY <2>1
    <3>2. e \in Event /\ sessions \in [SessionKey -> Session]
      BY DEF TypeOK
    <3>3. OnEvent(sessions, e) \in [SessionKey -> Session]
      BY <3>2, EventTyped
    <3> QED
      BY <3>1, <3>3 DEF LateArrival
  <2>2. CASE List
    BY <2>2, ExpireTyped DEF TypeOK, List
  <2>3. CASE RestartCloud
    BY <2>3, NoSessionTyped DEF RestartCloud
  <2> QED
    BY <2>1, <2>2, <2>3
<1> QED
  BY <1>1, <1>2 DEF TypeOK, laptopVars

LEMMA ExitTyped ==
  ASSUME TypeOK, NEW c \in Camera, NEW flushed \in BOOLEAN, Exit(c, flushed)
  PROVE  TypeOK'
<1>1. up' \in [Camera -> BOOLEAN] /\ prev' \in [Camera -> SUBSET Track]
  BY DEF Exit, TypeOK
<1>2. outbox' \in [Camera -> Seq(Emission)]
  BY DEF Exit, TypeOK
<1>3. pending' \in [Camera -> Seq(Event)]
  BY DEF Exit, TypeOK
<1>4. wire' \in [Camera -> Seq(Event)]
  BY DEF Exit, TypeOK
<1>5. downAt' \in [Camera -> Nat] /\ restarts' \in Nat
  BY DEF Exit, TypeOK
<1> QED
  BY <1>1, <1>2, <1>3, <1>4, <1>5 DEF Exit, TypeOK

LEMMA TickTyped ==
  ASSUME TypeOK, Tick
  PROVE  TypeOK'
<1>1. beat' \in [Camera -> 0 .. Heartbeat]
  BY PresenceAssumption DEF Tick, TypeOK
<1> QED
  BY <1>1 DEF Tick, TypeOK

LEMMA Typed ==
  ASSUME TypeOK, [Next]_vars
  PROVE  TypeOK'
<1>1. CASE \E c \in Camera : \E seen \in SUBSET Track : Observe(c, seen)
  BY <1>1, ObserveTyped
<1>2. CASE \E c \in Camera : Emit(c)
  BY <1>2, EmitTyped
<1>3. CASE \E c \in Camera : Deliver(c) \/ Lose(c) \/ TimeOut(c)
  BY <1>3, PostTyped
<1>4. CASE \E c \in Camera : Quit(c) \/ Crash(c)
  BY <1>4, ExitTyped DEF Quit, Crash
<1>5. CASE \E c \in Camera : Start(c)
  BY <1>5, PresenceAssumption DEF Start, TypeOK
<1>6. CASE (\E e \in late : LateArrival(e)) \/ List \/ RestartCloud
  BY <1>6, CloudTyped
<1>7. CASE Tick
  BY <1>7, TickTyped
<1>8. CASE UNCHANGED vars
  BY <1>8 DEF TypeOK, vars
<1> QED
  BY <1>1, <1>2, <1>3, <1>4, <1>5, <1>6, <1>7, <1>8 DEF Next

\* The session table and the queues keep their types under every fault: each
\* event a laptop makes is one the timeline can take (presence_client.py:94-104).
THEOREM AlwaysTyped == Spec => []TypeOK
BY InitTyped, Typed, PTL DEF Spec

-----------------------------------------------------------------------------
(* The active sessions are the tracks in the pictures.                     *)

\* What the claim is made under: posts are answered, nobody restarts, events
\* are not held back in a batch (the default), and a heartbeat survives the
\* lag of its laptop's clock (30 s of the 45 s), behind the cloud's clock and
\* behind any other laptop's: each event expires the whole table at its own
\* stamp.
Reliable ==
  /\ MaxFaults = 0 /\ MaxRestarts = 0
  /\ Batch <= 1 /\ Heartbeat >= 1
  /\ \A c \in Camera : Heartbeat + Lag[c] <= Timeout
  /\ \A c, d \in Camera : Heartbeat + Lag[c] - Lag[d] <= Timeout

\* What the laptop still has to say, whatever the order it says it in.
ToSay(c) == Said(outbox[c]) \cup Said(wire[c])

\* A live session that the heartbeats refresh in time.
Fresh(c, t) ==
  /\ sessions[<<c, t>>].status = "active"
  /\ now - Lag[c] - sessions[<<c, t>>].last <=
       IF Word("heartbeat", 0) \in ToSay(c) THEN Heartbeat ELSE beat[c]

\* Between the picture and the table there is only what is still to be said.
Followed(c) ==
  \A t \in Track :
    /\ Word("appeared", t) \in ToSay(c) => t \in prev[c]
    /\ Word("disappeared", t) \in ToSay(c) => t \notin prev[c]
    /\ t \in prev[c] => Word("appeared", t) \in ToSay(c) \/ Fresh(c, t)
    /\ t \notin prev[c] =>
         \/ Word("disappeared", t) \in ToSay(c)
         \/ sessions[<<c, t>>].status # "active"

\* No fault has happened, and what is on the wire was stamped just now.
Smooth ==
  /\ faults = 0 /\ restarts = 0 /\ late = {}
  /\ \A c \in Camera :
       /\ up[c] /\ pending[c] = <<>>
       /\ framed[c] => beat[c] < Heartbeat
       /\ \A i \in DOMAIN wire[c] : /\ wire[c][i].camera = c
                                    /\ wire[c][i].ts = now - Lag[c]

SyncInv == TypeOK /\ Smooth /\ \A c \in Camera : Followed(c)

LEMMA WordsApart ==
  /\ \A t, u : /\ Word("appeared", t) # Word("disappeared", u)
               /\ Word("appeared", t) # Word("heartbeat", u)
               /\ Word("disappeared", t) # Word("heartbeat", u)
  /\ \A kind, t, u : Word(kind, t) = Word(kind, u) => t = u
  /\ \A kind, t : Word(kind, t).kind = kind /\ Word(kind, t).track = t
BY DEF Word

LEMMA SyncInit == Init => SyncInv
<1> SUFFICES ASSUME Init PROVE SyncInv
  OBVIOUS
<1>1. TypeOK
  BY InitTyped
<1>2. Smooth
  BY DEF Init, Smooth
<1>3. ASSUME NEW c \in Camera PROVE Followed(c)
  <2>1. ToSay(c) = {} /\ prev[c] = {}
    BY SaidEmpty DEF Init, ToSay
  <2>2. \A t \in Track : sessions[<<c, t>>].status # "active"
    BY DEF Init, SessionKey, NoSession
  <2> QED
    BY <2>1, <2>2 DEF Followed
<1> QED
  BY <1>1, <1>2, <1>3 DEF SyncInv

\* Where the laptops and the table stay as they are.
LEMMA FollowedAlike ==
  ASSUME NEW c, Followed(c),
         ToSay(c)' = ToSay(c), prev'[c] = prev[c], sessions' = sessions,
         beat'[c] = beat[c], now' = now
  PROVE  Followed(c)'
BY DEF Followed, Fresh

LEMMA ObserveSync ==
  ASSUME SyncInv, Reliable, NEW c \in Camera, NEW seen \in SUBSET Track,
         Observe(c, seen)
  PROVE  SyncInv'
<1>0. TypeOK /\ Smooth /\ Followed(c)
  BY DEF SyncInv
<1>1. TypeOK'
  BY <1>0, ObserveTyped
<1>2. /\ outbox' = [outbox EXCEPT ![c] = FrameEmissions(c, seen)]
      /\ prev' = [prev EXCEPT ![c] = seen]
      /\ beat' = [beat EXCEPT ![c] = IF beat[c] >= Heartbeat THEN 0 ELSE beat[c]]
      /\ framed' = [framed EXCEPT ![c] = TRUE]
      /\ UNCHANGED <<now, sessions, up, pending, wire, late, faults, restarts>>
  BY DEF Observe
<1>3. /\ outbox \in [Camera -> Seq(Emission)] /\ prev \in [Camera -> SUBSET Track]
      /\ beat \in [Camera -> 0 .. Heartbeat] /\ framed \in [Camera -> BOOLEAN]
  BY <1>0 DEF TypeOK
<1>4. ASSUME NEW x \in Camera, x # c PROVE Followed(x)'
  <2>1. outbox'[x] = outbox[x] /\ prev'[x] = prev[x] /\ beat'[x] = beat[x]
    BY <1>2, <1>3, <1>4
  <2>2. ToSay(x)' = ToSay(x)
    BY <1>2, <2>1 DEF ToSay
  <2> QED
    BY <1>2, <2>1, <2>2, FollowedAlike DEF SyncInv
<1>5. ToSay(c) = {}
  BY SaidEmpty DEF Observe, Idle, ToSay
<1>6. ToSay(c)' = {Word("appeared", t) : t \in seen \ prev[c]}
                    \cup {Word("disappeared", t) : t \in prev[c] \ seen}
                    \cup (IF beat[c] >= Heartbeat THEN {Word("heartbeat", 0)} ELSE {})
  <2>1. outbox'[c] = FrameEmissions(c, seen) /\ wire'[c] = <<>>
    BY <1>2, <1>3 DEF Observe, Idle
  <2> QED
    BY <1>0, <2>1, FrameSays, SaidEmpty DEF ToSay
<1>7. Followed(c)'
  <2> SUFFICES ASSUME NEW t \in Track
               PROVE  /\ Word("appeared", t) \in ToSay(c)' => t \in seen
                      /\ Word("disappeared", t) \in ToSay(c)' => t \notin seen
                      /\ t \in seen => Word("appeared", t) \in ToSay(c)' \/ Fresh(c, t)'
                      /\ t \notin seen =>
                           \/ Word("disappeared", t) \in ToSay(c)'
                           \/ sessions[<<c, t>>].status # "active"
    <3>1. prev'[c] = seen /\ sessions' = sessions
      BY <1>2, <1>3
    <3> QED
      BY <3>1 DEF Followed
  <2>1. Word("appeared", t) \in ToSay(c)' <=> t \in seen \ prev[c]
    BY <1>6, WordsApart
  <2>2. Word("disappeared", t) \in ToSay(c)' <=> t \in prev[c] \ seen
    BY <1>6, WordsApart
  <2>3. Word("heartbeat", 0) \in ToSay(c)' <=> beat[c] >= Heartbeat
    BY <1>6, WordsApart
  <2>4. t \in prev[c] => Fresh(c, t)
    BY <1>0, <1>5 DEF Followed
  <2>5. t \notin prev[c] => sessions[<<c, t>>].status # "active"
    BY <1>0, <1>5 DEF Followed
  <2>6. Fresh(c, t) => Fresh(c, t)'
    <3>1. ~(beat[c] >= Heartbeat) => beat'[c] = beat[c]
      BY <1>2, <1>3
    <3>2. beat[c] \in 0 .. Heartbeat /\ Heartbeat \in Nat
      BY <1>3, PresenceAssumption
    <3>3. Fresh(c, t) => /\ sessions[<<c, t>>].status = "active"
                         /\ now - Lag[c] - sessions[<<c, t>>].last <= beat[c]
      BY <1>5 DEF Fresh
    <3>4. now' = now /\ sessions' = sessions
      BY <1>2
    <3>5. beat[c] >= Heartbeat => beat[c] = Heartbeat
      BY <3>2
    <3> QED
      BY <2>3, <3>1, <3>3, <3>4, <3>5 DEF Fresh
  <2> QED
    BY <2>1, <2>2, <2>4, <2>5, <2>6
<1>8. Smooth'
  <2>1. \A x \in Camera : framed'[x] => beat'[x] < Heartbeat
    BY <1>0, <1>2, <1>3, PresenceAssumption DEF Smooth, Reliable
  <2> QED
    BY <1>0, <1>2, <2>1 DEF Smooth
<1> QED
  BY <1>1, <1>4, <1>7, <1>8 DEF SyncInv

\* The payload of the next emission goes on the wire; nothing else changes.
LEMMA EmitSync ==
  ASSUME SyncInv, Reliable, NEW c \in Camera, Emit(c)
  PROVE  SyncInv'
<1> DEFINE e == [camera |-> c, track |-> Head(outbox[c]).track,
                 kind |-> Head(outbox[c]).kind, ts |-> now - Lag[c]]
<1>0. TypeOK /\ Smooth
  BY DEF SyncInv
<1>1. TypeOK'
  BY <1>0, EmitTyped
<1>2. /\ outbox \in [Camera -> Seq(Emission)] /\ wire \in [Camera -> Seq(Event)]
      /\ pending \in [Camera -> Seq(Event)]
  BY <1>0 DEF TypeOK
<1>3. Append(pending[c], e) = <<e>> /\ Len(Append(pending[c], e)) = 1
  <2>1. pending[c] = <<>>
    BY <1>0 DEF Smooth
  <2> HIDE DEF e
  <2>2. Append(<<>>, e) = <<e>> /\ Len(<<e>>) = 1
    OBVIOUS
  <2> QED
    BY <2>1, <2>2
<1>4. ~(1 < Batch)
  BY PresenceAssumption DEF Reliable
<1>5. /\ outbox' = [outbox EXCEPT ![c] = Tail(outbox[c])]
      /\ UNCHANGED <<now, sessions, up, prev, beat, framed, late, faults, restarts>>
      /\ wire' = [wire EXCEPT ![c] = <<e>>]
      /\ pending' = [pending EXCEPT ![c] = <<>>]
  BY <1>3, <1>4 DEF Emit
<1>6. /\ e.camera = c /\ e.ts = now - Lag[c]
      /\ Word(e.kind, e.track) = Word(Head(outbox[c]).kind, Head(outbox[c]).track)
  OBVIOUS
<1> HIDE DEF e
<1>7. ToSay(c)' = ToSay(c)
  <2>1. outbox[c] # <<>> /\ wire[c] = <<>> /\ outbox[c] \in Seq(Emission)
    BY <1>2 DEF Emit
  <2>2. Said(outbox[c]) = {Word(Head(outbox[c]).kind, Head(outbox[c]).track)}
                            \cup Said(Tail(outbox[c]))
    BY <2>1, SaidRest
  <2>3. Said(<<e>>) = {Word(e.kind, e.track)}
    BY SaidOne
  <2>4. outbox'[c] = Tail(outbox[c]) /\ wire'[c] = <<e>>
    BY <1>2, <1>5
  <2> QED
    BY <1>6, <2>1, <2>2, <2>3, <2>4, SaidEmpty DEF ToSay
<1>8. ASSUME NEW x \in Camera PROVE Followed(x)'
  <2>1. ToSay(x)' = ToSay(x)
    <3>1. x # c => outbox'[x] = outbox[x] /\ wire'[x] = wire[x]
      BY <1>2, <1>5
    <3> QED
      BY <1>7, <3>1 DEF ToSay
  <2> QED
    BY <1>5, <2>1, FollowedAlike DEF SyncInv
<1>9. Smooth'
  <2>1. \A x \in Camera : pending'[x] = <<>>
    BY <1>0, <1>2, <1>5 DEF Smooth
  <2>2. ASSUME NEW x \in Camera, NEW i \in DOMAIN wire'[x]
        PROVE  wire'[x][i].camera = x /\ wire'[x][i].ts = now - Lag[x]
    <3>1. CASE x = c
      <4>1. wire'[x] = <<e>> /\ i = 1
        BY <1>2, <1>5, <2>2, <3>1
      <4> QED
        BY <1>6, <3>1, <4>1
    <3>2. CASE x # c
      BY <1>0, <1>2, <1>5, <2>2, <3>2 DEF Smooth
    <3> QED
      BY <3>1, <3>2
  <2> QED
    BY <1>0, <1>5, <2>1, <2>2 DEF Smooth
<1> QED
  BY <1>1, <1>8, <1>9 DEF SyncInv

\* No expiry that is measured at some laptop's time, or at the cloud's, takes
\* the session of a track in a picture, and none brings a session to life.
LEMMA Spared ==
  ASSUME SyncInv, Reliable, NEW at \in Int,
         at = now \/ \E d \in Camera : at = now - Lag[d],
         NEW x \in Camera, NEW t \in Track
  PROVE  /\ Fresh(x, t) => Expire(sessions, at)[<<x, t>>] = sessions[<<x, t>>]
         /\ sessions[<<x, t>>].status # "active" =>
              Expire(sessions, at)[<<x, t>>].status # "active"
<1>1. <<x, t>> \in SessionKey
  BY DEF SessionKey
<1>2. /\ sessions[<<x, t>>].last \in Int /\ now \in Nat /\ Lag[x] \in Int
      /\ beat[x] \in 0 .. Heartbeat /\ Heartbeat \in Nat /\ Timeout \in Nat
  BY <1>1, PresenceAssumption, TimelineAssumption DEF SyncInv, TypeOK, Session
<1>3. at - now + Heartbeat + Lag[x] <= Timeout
  <2>1. CASE at = now
    <3>1. Heartbeat + Lag[x] <= Timeout
      BY DEF Reliable
    <3> QED
      BY <1>2, <2>1, <3>1
  <2>2. CASE \E d \in Camera : at = now - Lag[d]
    <3>1. PICK d \in Camera : at = now - Lag[d]
      BY <2>2
    <3>2. PICK other \in Int : other = Lag[d]
      BY PresenceAssumption
    <3>3. Heartbeat + Lag[x] - other <= Timeout
      BY <3>2 DEF Reliable
    <3>4. at = now - other
      BY <3>1, <3>2
    <3> QED
      BY <1>2, <3>3, <3>4
  <2> QED
    BY <2>1, <2>2
<1>4. Fresh(x, t) => ~(at - sessions[<<x, t>>].last > Timeout)
  <2>1. Fresh(x, t) => now - Lag[x] - sessions[<<x, t>>].last <= Heartbeat
    BY <1>2 DEF Fresh
  <2> QED
    BY <1>2, <1>3, <2>1
<1> QED
  BY <1>1, <1>4 DEF Expire, Stale, NoSession

LEMMA ListSync ==
  ASSUME SyncInv, Reliable, List
  PROVE  SyncInv'
<1>1. TypeOK /\ Smooth /\ TypeOK'
  BY CloudTyped DEF SyncInv
<1>2. sessions' = Expire(sessions, now) /\ UNCHANGED <<now, laptopVars, late, faults, restarts>>
  BY DEF List
<1>3. Smooth'
  BY <1>1, <1>2 DEF Smooth, laptopVars
<1>4. ASSUME NEW x \in Camera PROVE Followed(x)'
  <2>1. ToSay(x)' = ToSay(x) /\ prev'[x] = prev[x] /\ beat'[x] = beat[x]
    BY <1>2 DEF ToSay, laptopVars
  <2>2. now \in Int
    BY <1>1 DEF TypeOK
  <2>3. \A t \in Track :
          /\ Fresh(x, t) => sessions'[<<x, t>>] = sessions[<<x, t>>]
          /\ sessions[<<x, t>>].status # "active" => sessions'[<<x, t>>].status # "active"
    BY <1>2, <2>2, Spared
  <2>4. \A t \in Track : Fresh(x, t) => Fresh(x, t)'
    BY <1>2, <2>1, <2>3 DEF Fresh
  <2> QED
    BY <2>1, <2>3, <2>4 DEF Followed, SyncInv
<1> QED
  BY <1>1, <1>3, <1>4 DEF SyncInv

\* Between frames nothing is left to say, and the heartbeat timer keeps step
\* with the age of the sessions.
LEMMA TickSync ==
  ASSUME SyncInv, Reliable, Tick
  PROVE  SyncInv'
<1>1. TypeOK /\ Smooth /\ TypeOK'
  BY TickTyped DEF SyncInv
<1>2. /\ \A c \in Camera : outbox[c] = <<>> /\ wire[c] = <<>> /\ (up[c] => framed[c])
      /\ now' = now + 1
      /\ beat' = [c \in Camera |-> IF beat[c] < Heartbeat THEN beat[c] + 1 ELSE beat[c]]
      /\ framed' = [c \in Camera |-> FALSE]
      /\ UNCHANGED <<sessions, up, prev, outbox, pending, wire, late, faults, restarts>>
  BY DEF Tick, Idle
<1>3. Smooth'
  BY <1>1, <1>2 DEF Smooth
<1>4. ASSUME NEW x \in Camera PROVE Followed(x)'
  <2>1. ToSay(x) = {} /\ ToSay(x)' = {}
    BY <1>2, SaidEmpty DEF ToSay
  <2>2. beat[x] < Heartbeat
    BY <1>1, <1>2 DEF Smooth
  <2>3. beat'[x] = beat[x] + 1
    BY <1>2, <2>2
  <2>4. ASSUME NEW t \in Track, Fresh(x, t) PROVE Fresh(x, t)'
    <3>1. <<x, t>> \in SessionKey
      BY DEF SessionKey
    <3>2. sessions[<<x, t>>].last \in Int /\ now \in Nat /\ Lag[x] \in Int /\ beat[x] \in Nat
      BY <1>1, <3>1, PresenceAssumption DEF TypeOK, Session
    <3>3. /\ sessions[<<x, t>>].status = "active"
          /\ now - Lag[x] - sessions[<<x, t>>].last <= beat[x]
      BY <2>1, <2>4 DEF Fresh
    <3>4. now + 1 - Lag[x] - sessions[<<x, t>>].last <= beat[x] + 1
      BY <3>2, <3>3
    <3>5. now' - Lag[x] - sessions'[<<x, t>>].last <= beat'[x]
      BY <1>2, <2>3, <3>2, <3>4
    <3>6. Word("heartbeat", 0) \notin ToSay(x)'
      BY <2>1
    <3> QED
      BY <1>2, <3>3, <3>5, <3>6 DEF Fresh
  <2>5. \A t \in Track : /\ t \in prev[x] => Fresh(x, t)
                         /\ t \notin prev[x] => sessions[<<x, t>>].status # "active"
    BY <2>1 DEF Followed, SyncInv
  <2> QED
    BY <1>2, <2>1, <2>4, <2>5 DEF Followed
<1> QED
  BY <1>1, <1>3, <1>4 DEF SyncInv

\* What one event does to one session, when the expiry it brings is over: an
\* appearance makes it live, a disappearance ends it, a heartbeat refreshes it,
\* and every other event leaves it alone.
LEMMA AppliedAt ==
  ASSUME NEW table \in [SessionKey -> Session], NEW e \in Event,
         NEW x \in Camera, NEW t \in Track
  PROVE  /\ e.kind = "appeared" /\ x = e.camera /\ t = e.track =>
              /\ Applied(table, e)[<<x, t>>].status = "active"
              /\ Applied(table, e)[<<x, t>>].last = e.ts
         /\ e.kind = "disappeared" /\ x = e.camera /\ t = e.track =>
              Applied(table, e)[<<x, t>>].status # "active"
         /\ e.kind = "heartbeat" /\ x = e.camera =>
              /\ Applied(table, e)[<<x, t>>].status = table[<<x, t>>].status
              /\ table[<<x, t>>].status = "active" =>
                   Applied(table, e)[<<x, t>>].last = e.ts
         /\ e.kind # "heartbeat" /\ t # e.track =>
              Applied(table, e)[<<x, t>>] = table[<<x, t>>]
         /\ x # e.camera => Applied(table, e)[<<x, t>>] = table[<<x, t>>]
<1>1. <<x, t>> \in SessionKey /\ <<x, t>>[1] = x /\ table[<<x, t>>] \in Session
  BY DEF SessionKey
<1>2. <<x, t>> = <<e.camera, e.track>> <=> x = e.camera /\ t = e.track
  OBVIOUS
<1>3. PICK s : s = table[<<x, t>>]
  OBVIOUS
<1>4. Applied(table, e)[<<x, t>>] =
        CASE e.kind = "appeared" /\ <<x, t>> = <<e.camera, e.track>> ->
               [status |-> "active", first |-> e.ts, last |-> e.ts]
          [] e.kind = "disappeared" /\ <<x, t>> = <<e.camera, e.track>>
             /\ s.status # "none" ->
               [s EXCEPT !.status = "inactive", !.last = e.ts]
          [] e.kind = "heartbeat" /\ x = e.camera /\ s.status = "active" ->
               [s EXCEPT !.last = e.ts]
          [] OTHER -> s
  BY <1>1, <1>3 DEF Applied
<1>5. /\ [s EXCEPT !.status = "inactive", !.last = e.ts].status # "active"
      /\ [s EXCEPT !.last = e.ts].status = s.status
      /\ [s EXCEPT !.last = e.ts].last = e.ts
  BY <1>1, <1>3 DEF Session
<1> QED
  BY <1>2, <1>3, <1>4, <1>5

LEMMA DeliverSync ==
  ASSUME SyncInv, Reliable, NEW c \in Camera, Deliver(c)
  PROVE  SyncInv'
<1>0. TypeOK /\ Smooth /\ Followed(c)
  BY DEF SyncInv
<1>1. TypeOK'
  BY <1>0, PostTyped
<1>2. wire \in [Camera -> Seq(Event)] /\ wire[c] # <<>> /\ wire[c] \in Seq(Event)
  BY <1>0 DEF TypeOK, Deliver, Posted
<1>3. PICK e \in Event : e = Head(wire[c])
  BY <1>2
<1>4. /\ wire' = [wire EXCEPT ![c] = Tail(wire[c])]
      /\ UNCHANGED <<now, up, prev, beat, framed, outbox, pending, restarts, late, faults>>
      /\ sessions' = Applied(Expire(sessions, e.ts), e)
  BY <1>3 DEF Deliver, Posted, OnEvent
<1>5. e.camera = c /\ e.ts = now - Lag[c]
  <2>1. 1 \in DOMAIN wire[c] /\ wire[c][1] = e
    BY <1>2, <1>3
  <2> QED
    BY <1>0, <2>1 DEF Smooth
<1>6. e.ts \in Int /\ now \in Nat /\ Lag[c] \in Int
  BY <1>0, <1>5, PresenceAssumption DEF TypeOK
<1>7. Smooth'
  <2>1. ASSUME NEW x \in Camera, NEW i \in DOMAIN wire'[x]
        PROVE  wire'[x][i].camera = x /\ wire'[x][i].ts = now - Lag[x]
    <3>1. CASE x = c
      <4>1. wire'[x] = Tail(wire[c])
        BY <1>2, <1>4, <3>1
      <4>2. i \in 1 .. Len(wire[c]) - 1
        BY <1>2, <2>1, <4>1
      <4>3. i + 1 \in DOMAIN wire[c] /\ wire'[x][i] = wire[c][i + 1]
        BY <1>2, <4>1, <4>2
      <4> QED
        BY <1>0, <3>1, <4>3 DEF Smooth
    <3>2. CASE x # c
      BY <1>0, <1>2, <1>4, <2>1, <3>2 DEF Smooth
    <3> QED
      BY <3>1, <3>2
  <2> QED
    BY <1>0, <1>4, <2>1 DEF Smooth
<1>8. ToSay(c) = {Word(e.kind, e.track)} \cup ToSay(c)'
  <2>1. Said(wire[c]) = {Word(e.kind, e.track)} \cup Said(Tail(wire[c]))
    BY <1>2, <1>3, SaidRest
  <2>2. wire'[c] = Tail(wire[c]) /\ outbox'[c] = outbox[c]
    BY <1>2, <1>4
  <2> QED
    BY <2>1, <2>2 DEF ToSay
<1>h. PICK old : old = Expire(sessions, e.ts)
  OBVIOUS
<1>9. ASSUME NEW x \in Camera, NEW t \in Track
      PROVE  /\ Fresh(x, t) => old[<<x, t>>] = sessions[<<x, t>>]
             /\ sessions[<<x, t>>].status # "active" => old[<<x, t>>].status # "active"
  BY <1>5, <1>6, <1>h, Spared
<1>10. sessions' = Applied(old, e)
  BY <1>4, <1>h
<1>11. old \in [SessionKey -> Session]
  BY <1>0, <1>h, ExpireTyped DEF TypeOK
<1>12. ASSUME NEW x \in Camera, x # c PROVE Followed(x)'
  <2>1. wire'[x] = wire[x]
    BY <1>2, <1>4, <1>12
  <2>2. ToSay(x)' = ToSay(x) /\ prev'[x] = prev[x] /\ beat'[x] = beat[x] /\ now' = now
    BY <1>4, <2>1 DEF ToSay
  <2>3. ASSUME NEW t \in Track PROVE sessions'[<<x, t>>] = old[<<x, t>>]
    BY <1>5, <1>10, <1>11, <1>12, AppliedAt
  <2>4. \A t \in Track : Fresh(x, t) => Fresh(x, t)'
    BY <1>9, <2>2, <2>3 DEF Fresh
  <2> QED
    BY <1>9, <2>2, <2>3, <2>4 DEF Followed, SyncInv
<1>13. Followed(c)'
  <2> SUFFICES ASSUME NEW t \in Track
               PROVE  /\ Word("appeared", t) \in ToSay(c)' => t \in prev[c]
                      /\ Word("disappeared", t) \in ToSay(c)' => t \notin prev[c]
                      /\ t \in prev[c] => Word("appeared", t) \in ToSay(c)' \/ Fresh(c, t)'
                      /\ t \notin prev[c] =>
                           \/ Word("disappeared", t) \in ToSay(c)'
                           \/ sessions'[<<c, t>>].status # "active"
    BY <1>4 DEF Followed
  <2>1. /\ Word("appeared", t) \in ToSay(c) => t \in prev[c]
        /\ Word("disappeared", t) \in ToSay(c) => t \notin prev[c]
        /\ t \in prev[c] => Word("appeared", t) \in ToSay(c) \/ Fresh(c, t)
        /\ t \notin prev[c] =>
             \/ Word("disappeared", t) \in ToSay(c)
             \/ sessions[<<c, t>>].status # "active"
    BY <1>0 DEF Followed
  <2>2. <<c, t>> \in SessionKey /\ old[<<c, t>>] \in Session
    BY <1>11 DEF SessionKey
  <2>3. beat[c] \in 0 .. Heartbeat /\ Heartbeat \in Nat
    BY <1>0, PresenceAssumption DEF TypeOK
  \* A session that is refreshed now is fresh.
  <2>4. ASSUME sessions'[<<c, t>>].status = "active", sessions'[<<c, t>>].last = e.ts
        PROVE  Fresh(c, t)'
    <3>1. now' - Lag[c] - sessions'[<<c, t>>].last = 0
      BY <1>4, <1>5, <1>6, <2>4
    <3> QED
      BY <1>4, <2>3, <2>4, <3>1 DEF Fresh
  <2>5. CASE e.kind = "heartbeat"
    <3>1. /\ sessions'[<<c, t>>].status = old[<<c, t>>].status
          /\ old[<<c, t>>].status = "active" => sessions'[<<c, t>>].last = e.ts
      BY <1>5, <1>10, <1>11, <2>5, AppliedAt
    <3>2. /\ Word("appeared", t) \in ToSay(c) <=> Word("appeared", t) \in ToSay(c)'
          /\ Word("disappeared", t) \in ToSay(c) <=> Word("disappeared", t) \in ToSay(c)'
      BY <1>8, <2>5, WordsApart
    <3>3. Fresh(c, t) => Fresh(c, t)'
      <4>1. Fresh(c, t) => old[<<c, t>>].status = "active"
        BY <1>9 DEF Fresh
      <4> QED
        BY <2>4, <3>1, <4>1
    <3> QED
      BY <1>9, <2>1, <3>1, <3>2, <3>3
  <2>6. CASE e.kind = "appeared" /\ e.track = t
    <3>1. sessions'[<<c, t>>].status = "active" /\ sessions'[<<c, t>>].last = e.ts
      BY <1>5, <1>10, <1>11, <2>6, AppliedAt
    <3>2. Fresh(c, t)'
      BY <2>4, <3>1
    <3>3. t \in prev[c]
      BY <1>8, <2>1, <2>6
    <3> QED
      BY <1>8, <2>1, <3>2, <3>3
  <2>7. CASE e.kind = "disappeared" /\ e.track = t
    <3>1. sessions'[<<c, t>>].status # "active"
      BY <1>5, <1>10, <1>11, <2>7, AppliedAt
    <3>2. t \notin prev[c]
      BY <1>8, <2>1, <2>7
    <3> QED
      BY <1>8, <2>1, <3>1, <3>2
  <2>8. CASE e.kind # "heartbeat" /\ e.track # t
    <3>1. sessions'[<<c, t>>] = old[<<c, t>>]
      BY <1>10, <1>11, <2>8, AppliedAt
    <3>2. /\ Word("appeared", t) \in ToSay(c) <=> Word("appeared", t) \in ToSay(c)'
          /\ Word("disappeared", t) \in ToSay(c) <=> Word("disappeared", t) \in ToSay(c)'
          /\ Word("heartbeat", 0) \in ToSay(c) <=> Word("heartbeat", 0) \in ToSay(c)'
      BY <1>8, <2>8, WordsApart
    <3>3. Fresh(c, t) => Fresh(c, t)'
      BY <1>4, <1>9, <3>1, <3>2 DEF Fresh
    <3> QED
      BY <1>9, <2>1, <3>1, <3>2, <3>3
  <2>9. e.kind \in {"appeared", "disappeared", "heartbeat"}
    BY DEF Event
  <2> QED
    BY <2>5, <2>6, <2>7, <2>8, <2>9
<1> QED
  BY <1>1, <1>7, <1>12, <1>13 DEF SyncInv

LEMMA SyncStep ==
  ASSUME SyncInv, Reliable, [Next]_vars
  PROVE  SyncInv'
<1>1. faults = 0 /\ restarts = 0 /\ late = {} /\ \A c \in Camera : up[c]
  BY DEF SyncInv, Smooth
<1>2. CASE \E c \in Camera : \E seen \in SUBSET Track : Observe(c, seen)
  BY <1>2, ObserveSync
<1>3. CASE \E c \in Camera : Emit(c)
  BY <1>3, EmitSync
<1>4. CASE \E c \in Camera : Deliver(c)
  BY <1>4, DeliverSync
<1>5. ASSUME NEW c \in Camera
      PROVE  ~(Lose(c) \/ TimeOut(c) \/ Quit(c) \/ Crash(c) \/ Start(c))
  BY <1>1 DEF Reliable, Lose, TimeOut, Quit, Crash, Exit, Start
<1>6. ~RestartCloud /\ ~\E e \in late : LateArrival(e)
  BY <1>1 DEF Reliable, RestartCloud
<1>7. CASE List
  BY <1>7, ListSync
<1>8. CASE Tick
  BY <1>8, TickSync
<1>9. CASE UNCHANGED vars
  <2>1. TypeOK'
    BY <1>9, Typed DEF SyncInv
  <2>2. Smooth' /\ \A x \in Camera : Followed(x)'
    BY <1>9 DEF vars, SyncInv, Smooth, Followed, Fresh, ToSay
  <2> QED
    BY <2>1, <2>2 DEF SyncInv
<1> QED
  BY <1>2, <1>3, <1>4, <1>5, <1>6, <1>7, <1>8, <1>9 DEF Next

\* Where posts are answered and nobody restarts, the active sessions a listing
\* shows are the tracks in the pictures, for every number of cameras and
\* tracks, every order of frames, posts, listings and expiries, and laptops
\* whose clocks differ from the cloud's and from each other's by no more than
\* the timeout leaves beyond a heartbeat (presence_sync.py:25-40, presence_timeline.py:54-108).
THEOREM SessionsFollowTracks == Spec /\ Reliable => []SessionsAreTracks
<1>1. SyncInv /\ Reliable => SessionsAreTracks
  <2> SUFFICES ASSUME SyncInv, Reliable,
                      NEW c \in Camera, Settled(c), NEW t \in Track
               PROVE  t \in prev[c] <=> t \in Listed(sessions, c, now)
    BY DEF SessionsAreTracks, TrackedIsVisible, VisibleIsTracked, SyncInv, TypeOK, Listed
  <2>1. ToSay(c) = {}
    BY SaidEmpty DEF Settled, Idle, ToSay
  <2>2. Followed(c) /\ now \in Int
    BY DEF SyncInv, TypeOK
  <2>3. t \in prev[c] => Fresh(c, t)
    BY <2>1, <2>2 DEF Followed
  <2>4. t \notin prev[c] => sessions[<<c, t>>].status # "active"
    BY <2>1, <2>2 DEF Followed
  <2>5. /\ Fresh(c, t) => Expire(sessions, now)[<<c, t>>] = sessions[<<c, t>>]
        /\ sessions[<<c, t>>].status # "active" =>
             Expire(sessions, now)[<<c, t>>].status # "active"
    BY <2>2, Spared
  <2> QED
    BY <2>3, <2>4, <2>5 DEF Listed, Fresh
<1>2. Reliable => Reliable'
  BY DEF Reliable
<1> QED
  BY <1>1, <1>2, SyncInit, SyncStep, PTL DEF Spec
=============================================================================
