----------------------------- MODULE MCOpcodeTbl -----------------------------
(***************************************************************************)
(* Instantiates OpcodeTbl for TLC: every table of one to three lines drawn *)
(* from three lines of the script's TBL (its first, second and last, the  *)
(* last being the one without a continuation).                            *)
(***************************************************************************)
EXTENDS OpcodeTbl

MCLines ==
  { [enum |-> "OP_AAA", name |-> "\"aaa\""],    \* line 3
    [enum |-> "OP_AAS", name |-> "\"aas\""],    \* line 4
    [enum |-> "OP_XOR", name |-> "\"xor\""] }   \* line 95

MCEntries == BoundedSeq(MCLines, 3) \ {<<>>}

=============================================================================
