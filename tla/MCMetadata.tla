----------------------------- MODULE MCMetadata -----------------------------
(* Instance of Metadata for TLC: a film of two editions, one file's alias, *)
(* two writers at a time.                                                  *)
EXTENDS Metadata, TLC

CONSTANTS hd, uhd, writer1, writer2

MCSymmetry == Permutations({writer1, writer2}) \cup Permutations({hd, uhd})

=============================================================================
