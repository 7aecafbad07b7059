------------------------- MODULE MCFileOffsetStore -------------------------
(* Instance of the offset store for TLC. *)
EXTENDS FileOffsetStore, TLC

MCDigests == {"d1", "d2", "d3"}
MCSlots == 0 .. 3
\* The slots that d1 prefers last are the first choices of d2 and d3, so that
\* their records push each other on and overwrite each other in their last slot.
\* d2 visits a slot twice, and the record of zeroes collides with d3.
MCHash ==
    [x \in (MCDigests \cup {"zero"}) \X (0 .. 2) |->
        CASE x[1] = "d1" -> x[2]
          [] x[1] = "d2" -> 1 + (x[2] % 2)
          [] x[1] = "d3" -> (x[2] + 2) % 4
          [] OTHER -> 3 - x[2]]
MCSizeBytes == ("d1" :> 1) @@ ("d2" :> 2) @@ ("d3" :> 0)
MCCacheSlot == ("d1" :> 0) @@ ("d2" :> 0) @@ ("d3" :> 1)
===========================================================================
