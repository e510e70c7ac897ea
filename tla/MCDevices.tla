----------------------------- MODULE MCDevices -----------------------------
(***************************************************************************)
(* The frame loop of the Raspberry Pi, its logs, and the devices and       *)
(* filters around it, for TLC.  They share no state here, so a behaviour   *)
(* is one of any of them: part says whose, and the others rest.            *)
(***************************************************************************)
EXTENDS EdgePipeline, FaceTracks, FaceFilters, LivenessVote, OffloadRouters,
        FanControl, CameraFeed, MCLogs, CloudClient, CloudGallery, Matching

VARIABLE part

FrontOf(p) == <<[who |-> p, view |-> "front"]>>

SideOf(p) == <<[who |-> p, view |-> "side"]>>

OnePoolMissing == <<[frontal |-> FrontOf(1), angled |-> SideOf(1)], [frontal |-> FrontOf(2), angled |-> <<>>]>>

OnlyAngled == <<[frontal |-> <<>>, angled |-> SideOf(1)], [frontal |-> FrontOf(2), angled |-> SideOf(2)]>>

GalleriesTried == {OnePoolMissing, OnlyAngled}

\* The cloud has a third person too, and may take the second for that one.
KnownToCloud == <<{1}, {2, 3}>>

PostEnds == {[kind |-> "2xx", stored |-> TRUE], [kind |-> "timeout", stored |-> TRUE],
             [kind |-> "timeout", stored |-> FALSE], [kind |-> "no JSON", stored |-> FALSE]}

loopVars == vars

cloudSide == <<clientVars, galleryVars, matchVars>>

allVars == <<part, loopVars, tracksVars, filterVars, voteVars, routerVars, fanVars, feedVars,
             logsVars, cloudSide>>

PartsInit ==
  /\ part \in {"loop", "tracks", "filters", "vote", "routers", "fan", "feed", "logs",
              "client", "gallery", "matching"}
  /\ Init /\ TracksInit /\ FiltersInit /\ VoteInit /\ RouterInit /\ FeedInit
  /\ LogsInit /\ ClientInit /\ GalleryInit /\ MatchInit /\ FanInit /\ (part # "fan" => gpio = "none")
  /\ part # "matching" => db = OnePoolMissing /\ face = [who |-> 1, view |-> "front"]

FrameLoop ==
  /\ part = "loop" /\ Next
  /\ UNCHANGED <<tracksVars, filterVars, voteVars, routerVars, fanVars, feedVars, logsVars, cloudSide>>

Tracks ==
  /\ part = "tracks" /\ TracksNext
  /\ UNCHANGED <<loopVars, filterVars, voteVars, routerVars, fanVars, feedVars, logsVars, cloudSide>>

Filters ==
  /\ part = "filters" /\ FiltersNext
  /\ UNCHANGED <<loopVars, tracksVars, voteVars, routerVars, fanVars, feedVars, logsVars, cloudSide>>

Votes ==
  /\ part = "vote" /\ VoteNext
  /\ UNCHANGED <<loopVars, tracksVars, filterVars, routerVars, fanVars, feedVars, logsVars, cloudSide>>

Routers ==
  /\ part = "routers" /\ RouterNext
  /\ UNCHANGED <<loopVars, tracksVars, filterVars, voteVars, fanVars, feedVars, logsVars, cloudSide>>

Fan ==
  /\ part = "fan" /\ FanNext
  /\ UNCHANGED <<loopVars, tracksVars, filterVars, voteVars, routerVars, feedVars, logsVars, cloudSide>>

Feed ==
  /\ part = "feed" /\ FeedNext
  /\ UNCHANGED <<loopVars, tracksVars, filterVars, voteVars, routerVars, fanVars, logsVars, cloudSide>>

Logs ==
  /\ part = "logs" /\ LogsNext
  /\ UNCHANGED <<loopVars, tracksVars, filterVars, voteVars, routerVars, fanVars, feedVars, cloudSide>>

deviceVars ==
  <<loopVars, tracksVars, filterVars, voteVars, routerVars, fanVars, feedVars, logsVars>>

Posting ==
  /\ part = "client" /\ ClientNext
  /\ UNCHANGED <<deviceVars, galleryVars, matchVars>>

Gallery ==
  /\ part = "gallery" /\ GalleryNext
  /\ UNCHANGED <<deviceVars, clientVars, matchVars>>

Matches ==
  /\ part = "matching" /\ MatchNext
  /\ UNCHANGED <<deviceVars, clientVars, galleryVars>>

PartsNext ==
  /\ \/ FrameLoop \/ Tracks \/ Filters \/ Votes \/ Routers \/ Fan \/ Feed \/ Logs
     \/ Posting \/ Gallery \/ Matches
  /\ UNCHANGED part

\* The threads that wait for nothing but time: the reader, the loop, and the
\* generator of a browser that goes on reading.
FeedFairness ==
  /\ WF_feedVars(part = "feed" /\ \E n \in 1 .. PipeSize : Read(n))
  /\ WF_feedVars(part = "feed" /\ NextFrame)
  /\ WF_feedVars(part = "feed" /\ set_frame)
  /\ \A c \in Client : WF_feedVars(part = "feed" /\ Serve(c))

PartsSpec ==
  /\ PartsInit /\ [][PartsNext]_allVars
  /\ FeedFairness
  /\ WF_vars(part = "loop" /\ Loop)

\* SteadyFaceReported, of the behaviours that are the loop's: a person who stays
\* is posted again and again (main.py:693-1029).
LoopReportsSteadyFace == part = "loop" => SteadyFaceReported

Samples == {<<1000, 0>>, <<280, 960>>}

\* Three places, and in one of them also a box half as wide, which is too far.
Boxes == [x : {0, 1, 3}, w : {4}] \cup {[x |-> 1, w |-> 2]}
=============================================================================
