------------------------ MODULE ObservationBuffers ------------------------
(***************************************************************************)
(* What an AlpamayoPolicy remembers of its session from tick to tick        *)
(* (policies/alpamayo/buffers.py) and what it demands of it before it asks  *)
(* the model (policies/alpamayo/policy.py).  Images are counted, poses and  *)
(* routes are their timestamps; pixels and coordinates are left out.        *)
(***************************************************************************)
EXTENDS Naturals, Sequences, FiniteSets

CONSTANTS
  NumContextFrames,  \* config.model.num_context_frames, the capacity of a ring
  NumWaypoints       \* config.model.num_historical_waypoints

ASSUME BufferAssumption ==
  /\ NumContextFrames \in Nat \ {0}
  /\ NumWaypoints \in Nat \ {0}

Least(m, n) == IF m <= n THEN m ELSE n

(* The n last elements of q: collections.deque(maxlen = n).                  *)
Newest(q, n) == SubSeq(q, Len(q) - Least(n, Len(q)) + 1, Len(q))

EmptyBuffers == [frames |-> 0, ego |-> <<>>, route |-> 0]

(* CameraFrameBuffer: a full ring overwrites its oldest frame.               *)
AddFrames(held, n) == Least(held + n, NumContextFrames)

Increasing(q) == \A i \in 1 .. Len(q) - 1 : q[i] < q[i + 1]

(* Mutant: the poses are appended without a look at their timestamps.        *)
AnyPoses(ego, poses) == poses

(* EgomotionBuffer.add checks each pose against the one before it and keeps  *)
(* those that came before the first bad one.                                 *)
Accepted(ego, poses) ==
  LET Fits(n) == Increasing(Newest(ego, 1) \o SubSeq(poses, 1, n))
  IN  SubSeq(poses, 1, CHOOSE n \in 0 .. Len(poses) :
                         Fits(n) /\ (n < Len(poses) => ~Fits(n + 1)))

AddPoses(ego, poses) == Newest(ego \o Accepted(ego, poses), NumWaypoints + 1)

(* ingest: frames first, then poses, and the route only if no pose was bad.  *)
Ingest(buf, input) ==
  [frames |-> AddFrames(buf.frames, input.frames),
   ego    |-> AddPoses(buf.ego, input.poses),
   route  |-> IF Accepted(buf.ego, input.poses) = input.poses THEN input.route
                                                              ELSE buf.route]

(* _extract_camera_context, _extract_historical_motion and _convert_route    *)
(* raise unless the ring is full, the history long enough and the route's    *)
(* timestamp inside the buffered history.                                    *)
HasContext(buf) ==
  /\ buf.frames = NumContextFrames
  /\ Len(buf.ego) >= NumWaypoints
  /\ buf.ego[1] <= buf.route /\ buf.route <= buf.ego[Len(buf.ego)]

(* _preprocess comes to its end: the model can be asked.                     *)
Prepares(buf, input) ==
  /\ Accepted(buf.ego, input.poses) = input.poses
  /\ HasContext(Ingest(buf, input))
=============================================================================
