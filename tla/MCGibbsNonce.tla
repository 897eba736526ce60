---------------------------- MODULE MCGibbsNonce -----------------------------
(***************************************************************************)
(* GibbsNonce for TLC: reads that fill every chunk, or all but the last.   *)
(***************************************************************************)
EXTENDS GibbsNonce

NoEmptyChunk   == {}
LastChunkEmpty == {Blocks - 1}
=============================================================================
