------------------------------ MODULE MCGscM2m ------------------------------
(* Instances of GscM2m for TLC.                                            *)
EXTENDS GscM2m

Frame(type, geometry, format, colorspace, handle) ==
  [type |-> type, geometry |-> geometry, format |-> format,
   colorspace |-> colorspace, handle |-> handle]

(* A video, another one of the same size, one of another format, a         *)
(* protected one, and two secure ones of different sizes.                  *)
SixFrames ==
  {Frame("NORMAL", 1, "YUV", 601, "a"),
   Frame("NORMAL", 1, "YUV", 709, "b"),
   Frame("NORMAL", 1, "RGB", 601, "c"),
   Frame("NORMAL_DRM", 1, "YUV", 601, "d"),
   Frame("SECURE_DRM", 1, "YUV", 601, "e"),
   Frame("SECURE_DRM", 2, "YUV", 601, "f")}
=============================================================================
