----------------------------- MODULE MCLiterals -----------------------------
(***************************************************************************)
(* Instantiates Literals for TLC: every string of up to five characters   *)
(* over an alphabet that reaches each branch of the two parsers.  For       *)
(* types: a name character, both brackets, two digits and a sign.  For      *)
(* addresses: the overlay prefix, the separator, digits 0, 1 and f, a sign  *)
(* and the x of a 0x prefix.                                               *)
(***************************************************************************)
EXTENDS LiteralUse

MCLitPrimSizes == "u8" :> 1

MCTypeTexts == BoundedSeq({"a", "[", "]", "0", "1", "-"}, 5)

MCAddrTexts == BoundedSeq({"overlay_", ":", "0", "1", "f", "-", "x"}, 5)

=============================================================================
