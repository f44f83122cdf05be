----------------------------- MODULE MCMossoFS ------------------------------
(***************************************************************************)
(* The filesystem on one file and one directory. Both shrink with their    *)
(* first change and are deleted with their second; the directory fills     *)
(* more than one page before it shrinks.                                   *)
(***************************************************************************)
EXTENDS MossoFS, TLC

CONSTANTS file, dir

KeyOfFile == {<<"meta", file>>}
KeysOfTree == {<<"meta", file>>, <<"objects", dir>>}

ShrinksThenGone == [v \in 0..2 |-> CASE v = 0 -> 3 [] v = 1 -> 1 [] v = 2 -> NULL]
Shrinks == [v \in 0..1 |-> 3 - 2 * v]

Symmetry ==
  Permutations(Thread) \cup Permutations(Entry) \cup Permutations(Payload)
    \cup Permutations(Handle)
=============================================================================
