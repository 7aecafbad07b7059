------------------------- MODULE MCRemoteStorage -------------------------
(* Instances of the remote storage for TLC. *)
EXTENDS RemoteStorage, TLC

CONSTANTS c1, c2

MCSizeBytes == ("e" :> 0) @@ ("h" :> 1) @@ ("l" :> 2)
MCKind == ("A" :> "grpc") @@ ("B" :> "direct") @@ ("H" :> "remote")
Shard(b, w) == [backend |-> b, weight |-> w]
MCShards == [small |-> <<Shard("A", 1), Shard("drained", 2), Shard("B", 1)>>,
             large |-> <<Shard("B", 1), Shard("drained", 1), Shard("A", 2), Shard("H", 1)>>]
\* "e" and "h" are drawn for a drained shard first.
MCRandomSequence == ("e" :> <<6, 3>>) @@ ("h" :> <<1, 6, 4>>) @@ ("l" :> <<8>>)
\* c1 is a call of a worker, c2 one of a frontend or of Bazel.
MCUses == (c1 :> {"Put", "FindMissing"}) @@ (c2 :> {"Get", "Upload"})
Piece(i) == <<"l", i>>
MCBazelRequests ==
    {Request("l", 0, <<Piece(1)>>, FALSE), Request(NoName, 0, <<Piece(1)>>, FALSE),
     Request(NoName, 1, <<Piece(2)>>, TRUE)}
MCSpoilt == ("e" :> {<<Junk>>}) @@ ("h" :> {<<Junk>>}) @@ ("l" :> {<<Piece(1), Junk>>})
===========================================================================
