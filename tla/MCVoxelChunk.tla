---------------------------- MODULE MCVoxelChunk ----------------------------
(* VoxelChunk with bytes of two bits. *)
EXTENDS VoxelChunk
=============================================================================
