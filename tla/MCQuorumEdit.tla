---------------------------- MODULE MCQuorumEdit ----------------------------
(***************************************************************************)
(* A small instance of QuorumEdit: a document with another one below it.   *)
(***************************************************************************)
EXTENDS QuorumEdit

CONSTANTS upper, lower

Pair == [x \in Docs |-> IF x = upper THEN Docs \ {upper} ELSE {}]

=============================================================================
