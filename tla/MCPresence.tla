----------------------------- MODULE MCPresence -----------------------------
(***************************************************************************)
(* Presence for TLC, in two worlds: one laptop whose posts may be lost or  *)
(* late and whose processes restart (the constants of the cfg), and two    *)
(* laptops to which nothing of that kind happens (R).  A behaviour is one  *)
(* of either: reliable says which.                                         *)
(***************************************************************************)
EXTENDS Presence

CONSTANTS camA, camB

VARIABLE reliable

\* Every laptop's clock is a unit ahead of the cloud's.
Ahead == [c \in Camera |-> -1]

\* One laptop's clock is a unit behind the cloud's, the other's a unit ahead.
Apart == [c \in Camera |-> IF c = camB THEN 1 ELSE -1]

R == INSTANCE Presence WITH
       Timeout <- 4, Heartbeat <- 2, Batch <- 0, Lag <- Apart, MaxTime <- 8,
       MaxFaults <- 0, MaxRestarts <- 0

\* Where posts get lost, the second laptop is off and stays off.
OffInit ==
  /\ now = 0 /\ faults = 0 /\ restarts = 0 /\ late = {}
  /\ sessions = [k \in SessionKey |-> NoSession]
  /\ up = [c \in Camera |-> c = camA]
  /\ prev = [c \in Camera |-> {}]
  /\ beat = [c \in Camera |-> Heartbeat]
  /\ framed = [c \in Camera |-> FALSE]
  /\ outbox = [c \in Camera |-> <<>>]
  /\ pending = [c \in Camera |-> <<>>]
  /\ wire = [c \in Camera |-> <<>>]
  /\ downAt = [c \in Camera |-> 0]

WorldsInit ==
  \/ reliable = FALSE /\ OffInit
  \/ reliable = TRUE /\ R!Init

Lossy == ~reliable /\ Next /\ up'[camB] = FALSE /\ UNCHANGED reliable

Reliable == reliable /\ R!Next /\ UNCHANGED reliable

WorldsNext == Lossy \/ Reliable

WorldsSpec == WorldsInit /\ [][WorldsNext]_<<vars, reliable>>

\* Where nothing is lost and nobody restarts, the active sessions are the
\* tracks in the pictures (presence_timeline.py:54-125, presence_sync.py:25-40).
ReliableSessions == reliable => R!SessionsAreTracks
=============================================================================
