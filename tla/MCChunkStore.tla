---------------------------- MODULE MCChunkStore ----------------------------
(***************************************************************************)
(* ChunkStore for TLC: two contents that share a chunk.                    *)
(***************************************************************************)
EXTENDS ChunkStore, TLC

CONSTANTS x, y, a, b

MCContents == {x, y}
MCChunks == {a, b}
MCChunksOf == x :> {a, b} @@ y :> {b}

=============================================================================
