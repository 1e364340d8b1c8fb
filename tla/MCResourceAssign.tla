-------------------------- MODULE MCResourceAssign --------------------------
(* Instances of ResourceAssign for TLC.                                    *)
EXTENDS ResourceAssign

CONSTANTS O1, O2, O3, G1, G2

ThreeOtf == <<O1, O2, O3>>

Low(supports) == [priority |-> 1, client |-> FALSE, supports |-> supports, load |-> 1]

(* An ordinary layer, one only the G2D can read, one the client asked for, *)
(* a video, and a protected layer.                                         *)
Kinds ==
  {Low(Otf \cup M2m),
   Low({Blending}),
   [Low({O1}) EXCEPT !.client = TRUE],
   [Low({O2, Single}) EXCEPT !.priority = PriorityHigh],
   [Low({O1, Single}) EXCEPT !.priority = PriorityMax]}
=============================================================================
