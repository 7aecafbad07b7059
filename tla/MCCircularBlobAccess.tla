----------------------- MODULE MCCircularBlobAccess -----------------------
(* Instances of the circular storage backend for TLC. *)
EXTENDS CircularBlobAccess, TLC

MCDigests == {"d1", "d2"}
MCSlots == 0 .. 1
MCHash == [x \in (MCDigests \cup {"zero"}) \X (0 .. 2) |->
              IF x[1] = "d1" THEN x[2] % 2 ELSE (x[2] + 1) % 2]
MCCacheSlot == ("d1" :> 0) @@ ("d2" :> 0)
\* Blobs of one and two bytes; the latter may straddle the end of the data file.
MixedSizes == ("d1" :> 1) @@ ("d2" :> 2)
===========================================================================
