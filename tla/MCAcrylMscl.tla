---------------------------- MODULE MCAcrylMscl ----------------------------
(* Instances of AcrylMscl for TLC.                                         *)
EXTENDS AcrylMscl_proofs

Rect1(pos, size) == [pos |-> pos, size |-> size]

Canvas(dimension, type, protected, fence) ==
  [dimension |-> dimension, type |-> type, memory |-> "DMABUF",
   protected |-> protected, fence |-> fence]

Layer(c, crop, window, transform) ==
  [dimension |-> c.dimension, type |-> c.type, memory |-> c.memory,
   protected |-> c.protected, fence |-> c.fence, crop |-> crop,
   window |-> window, transform |-> transform]

(* Two of one size that differ in crop, window, transform and fence, one   *)
(* in another type and kind of memory, one that is protected, and one too  *)
(* large.                                                                  *)
FiveLayers ==
  {Layer(Canvas(2, "RGB", FALSE, TRUE), Whole(2), NoRect, {}),
   Layer(Canvas(2, "RGB", FALSE, FALSE), Rect1(1, 1), Rect1(0, 1), {"FLIP_H"}),
   Layer([Canvas(1, "BT601", FALSE, FALSE) EXCEPT !.memory = "USERPTR"],
         Whole(1), NoRect, {"FLIP_H", "ROT_90"}),
   Layer(Canvas(2, "BT709", TRUE, FALSE), Whole(2), Rect1(1, 1), {}),
   Layer(Canvas(9, "RGB", FALSE, FALSE), Whole(9), NoRect, {})}

(* Two that differ in protection and fence, and one of another size and    *)
(* type.                                                                   *)
ThreeCanvases ==
  {Canvas(2, "RGB", FALSE, TRUE), Canvas(2, "RGB", TRUE, FALSE),
   Canvas(1, "BT601", FALSE, FALSE)}

(* The requests after whose failure the session finds its way back.        *)
BothSides == {"STREAMOFF", "REQBUFS", "S_FMT", "S_CROP", "STREAMON",
              "QBUF", "DQBUF"}

Recoverable ==
  (BothSides \X Side)
  \cup ({"S_CTRL"} \X {"FLIP_H", "CSC_EQ", "CSC_RANGE", "PROTECTION"})

(* The instance is one the theorems are about.                             *)
ASSUME RecoversInstance == Recovers
=============================================================================
