--------------------------- MODULE MCReadCaches ---------------------------
(* Instances of the read caches for TLC. *)
EXTENDS ReadCaches

MCDigests == {"d1", "d2"}
\* One of the files is larger than the cache may be.
MCSizeBytes == [d \in MCDigests |-> IF d = "d1" THEN 1 ELSE 3]
===========================================================================
