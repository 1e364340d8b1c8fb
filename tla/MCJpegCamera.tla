---------------------------- MODULE MCJpegCamera ----------------------------
(* Instances of JpegCamera for TLC.                                        *)
EXTENDS JpegCamera_proofs

TwoFormats == [NV21 |-> 1, NV21M |-> 2]

(* A picture in one buffer comes as a descriptor, one in two by address.   *)
Kind(pix) == IF pix = "NV21" THEN "DMABUF" ELSE "USERPTR"

Shot(pix, thumb, given, hwfc, quality, room) ==
  [pix |-> pix, memory |-> Kind(pix), memory2 |-> Kind(pix), out |-> Kind(pix),
   thumb |-> thumb, given |-> given, hwfc |-> hwfc, quality |-> quality,
   room |-> room]

(* Without a thumbnail; with one of either size that is made by the        *)
(* encoder or given, with little room or much; and with one that is given  *)
(* in another kind of buffer.                                              *)
SixShots ==
  {Shot("NV21", 0, FALSE, FALSE, 1, 3),
   Shot("NV21M", 2, FALSE, FALSE, 1, 3),
   Shot("NV21", 1, FALSE, TRUE, 1, 1),
   Shot("NV21", 1, TRUE, FALSE, 1, 3),
   Shot("NV21M", 2, TRUE, TRUE, 2, 1),
   [Shot("NV21", 1, TRUE, FALSE, 1, 3) EXCEPT !.memory2 = "USERPTR"]}

(* The instance is one the theorems are about.                             *)
ASSUME OrderlyInstance == Orderly
=============================================================================
