------------------------------ MODULE Literals ------------------------------
(***************************************************************************)
(* The two literal forms of the annotation script, from                    *)
(* src/hydra/py/hydra/annotations.py: type expressions ("u16[4]", parsed    *)
(* by Type.from_str and printed by Type.__str__) and addresses             *)
(* ("overlay_1a2b:0010", parsed by Addr.__init__ and printed by            *)
(* Addr.__str__).  A string is a sequence of tokens: a character, or a     *)
(* word the code never looks inside (the prefix "overlay_", which the code *)
(* only tests and strips as a whole, and a type name).  Python's int() is  *)
(* modelled by the grammar it accepts over the characters the literals     *)
(* use: an optional sign, for base 16 an optional "0x", and at least one   *)
(* digit.  A parse returns [err, val]: err is "none" or the exception the  *)
(* constructor raises.                                                     *)
(***************************************************************************)
EXTENDS TypeExpr, Text

HexChars == <<"0","1","2","3","4","5","6","7","8","9","a","b","c","d","e","f">>
UpperHex == <<"A","B","C","D","E","F">>
HexVal ==
  [c \in ToSet(HexChars) |-> CHOOSE v \in 0..15 : HexChars[v+1] = c]
  @@ [c \in ToSet(UpperHex) |-> CHOOSE v \in 10..15 : UpperHex[v-9] = c]
DecVal == [c \in ToSet(SubSeq(HexChars, 1, 10)) |-> HexVal[c]]

\* int(cs, base): an optional sign, for base 16 an optional 0x, then one or
\* more digits of the base; anything else raises ValueError.
int_parse(cs, base) ==
  LET val    == IF base = 10 THEN DecVal ELSE HexVal
      signed == Len(cs) > 0 /\ cs[1] \in {"+", "-"}
      body   == IF signed THEN Tail(cs) ELSE cs
      ds     == IF base = 16 /\ Len(body) >= 2 /\ body[1] = "0" /\ body[2] \in {"x", "X"}
                  THEN SubSeq(body, 3, Len(body)) ELSE body
      mag    == FoldLeft(LAMBDA a, d : base * a + val[d], 0, ds)
  IN IF Len(ds) > 0 /\ \A i \in 1..Len(ds) : ds[i] \in DOMAIN val
       THEN [err |-> "none", val |-> IF signed /\ cs[1] = "-" THEN -mag ELSE mag]
       ELSE [err |-> "value_error", val |-> None]

\* str(n) in base 10, and f'{n:04x}': a sign, then the digits padded with
\* zeros to a width of four characters including the sign.
RECURSIVE digits_of(_, _)
digits_of(n, base) ==
  IF n < base THEN <<HexChars[n+1]>>
  ELSE digits_of(n \div base, base) \o <<HexChars[(n % base) + 1]>>

dec_str(n) == IF n < 0 THEN <<"-">> \o digits_of(-n, 10) ELSE digits_of(n, 10)

hex04(n) ==
  LET sign == IF n < 0 THEN <<"-">> ELSE <<>>
      ds   == digits_of(IF n < 0 THEN -n ELSE n, 16)
      pad  == 4 - Len(sign) - Len(ds)
  IN sign \o [i \in 1..(IF pad > 0 THEN pad ELSE 0) |-> "0"] \o ds

-----------------------------------------------------------------------------
(* Type.from_str and Type.__str__                                          *)

\* Mutant: a second '[' is not rejected; the text after it is ignored.
from_str_no_part_count(s) ==
  LET parts == Split(s, "[")
      left  == IF Len(parts) > 1 THEN parts[2] ELSE <<>>
      size  == IF left = <<>> THEN <<>> ELSE SubSeq(left, 1, Len(left) - 1)
      n     == int_parse(size, 10)
  IN CASE Len(parts) = 1                        -> [err |-> "none", val |-> Type(parts[1], FALSE, None)]
       [] left = <<>> \/ Last(left) # "]"       -> [err |-> "no_closing_brace", val |-> None]
       [] size = <<>>                           -> [err |-> "none", val |-> Type(parts[1], TRUE, None)]
       [] n.err # "none"                        -> [err |-> n.err, val |-> None]
       [] OTHER                                 -> [err |-> "none", val |-> Type(parts[1], TRUE, n.val)]

from_str(s) ==
  LET parts == Split(s, "[")
      left  == IF Len(parts) > 1 THEN parts[2] ELSE <<>>
      size  == IF left = <<>> THEN <<>> ELSE SubSeq(left, 1, Len(left) - 1)
      n     == int_parse(size, 10)
  IN CASE Len(parts) > 2                        -> [err |-> "invalid_type", val |-> None]
       [] Len(parts) = 1                        -> [err |-> "none", val |-> Type(parts[1], FALSE, None)]
       [] left = <<>> \/ Last(left) # "]"       -> [err |-> "no_closing_brace", val |-> None]
       [] size = <<>>                           -> [err |-> "none", val |-> Type(parts[1], TRUE, None)]
       [] n.err # "none"                        -> [err |-> n.err, val |-> None]
       [] OTHER                                 -> [err |-> "none", val |-> Type(parts[1], TRUE, n.val)]

\* Mutant: an unsized array prints without its brackets.
type_str_unsized_scalar(t) ==
  t.basetype \o (IF t.is_array /\ t.array_len # None
                   THEN <<"[">> \o dec_str(t.array_len) \o <<"]">> ELSE <<>>)

type_str(t) ==
  t.basetype \o (IF t.is_array
                   THEN <<"[">> \o (IF t.array_len = None THEN <<>> ELSE dec_str(t.array_len)) \o <<"]">>
                   ELSE <<>>)

-----------------------------------------------------------------------------
(* Addr.__init__ and Addr.__str__                                          *)

addr_parse(s) ==
  LET parts   == Split(s, ":")
      overlay == Len(parts) = 2 /\ Len(parts[1]) > 0 /\ parts[1][1] = "overlay_"
      seg_str == IF overlay THEN Tail(parts[1]) ELSE parts[1]
      seg     == int_parse(seg_str, 16)
      off     == IF Len(parts) = 2 THEN int_parse(parts[2], 16) ELSE seg
  IN CASE Len(parts) # 2     -> [err |-> "invalid_address", val |-> None]
       [] seg.err # "none"   -> [err |-> seg.err, val |-> None]
       [] off.err # "none"   -> [err |-> off.err, val |-> None]
       [] OTHER -> [err |-> "none", val |-> [overlay |-> overlay, seg |-> seg.val, off |-> off.val]]

\* Mutant: the overlay prefix is not printed.
addr_str_no_overlay(a) == hex04(a.seg) \o <<":">> \o hex04(a.off)

addr_str(a) ==
  (IF a.overlay THEN <<"overlay_">> ELSE <<>>) \o hex04(a.seg) \o <<":">> \o hex04(a.off)

=============================================================================
