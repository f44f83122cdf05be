------------------------------ MODULE MCCache -------------------------------
(***************************************************************************)
(* The cache with one calling thread, two keys and a heap with room for    *)
(* both entries and one more, and with two threads.                        *)
(***************************************************************************)
EXTENDS CacheRefinement, TLC

Symmetry ==
  Permutations(Thread) \cup Permutations(Key) \cup Permutations(Entry)
    \cup Permutations(Payload)
=============================================================================
