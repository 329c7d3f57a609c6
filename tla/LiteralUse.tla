------------------------------ MODULE LiteralUse ------------------------------
(***************************************************************************)
(* One literal of the annotation script, in isolation: the constructor     *)
(* parses it (Type.from_str, Addr.__init__) and, when the parse succeeds,  *)
(* a generator prints the value back out.  The access_at address of a      *)
(* text region is the third kind: TextData keeps it as the script wrote it *)
(* and the dis86 generator prints it as it is.                             *)
(***************************************************************************)
EXTENDS Literals

CONSTANTS
  TypeTexts,   \* the type strings the script may write
  AddrTexts    \* the address strings the script may write, access_at included

VARIABLES
  src,     \* [kind: {"type", "addr", "access"}, text: the literal]
  parsed,  \* None, or [err, val]: what the constructor made of it
  shown    \* None, or the string the value prints as

lit_vars == <<src, parsed, shown>>

(* The script writes a literal; the constructor parses it; a generator     *)
(* prints the value.                                                       *)

LitInit ==
  /\ src \in [kind : {"type"}, text : TypeTexts] \cup [kind : {"addr", "access"}, text : AddrTexts]
  /\ parsed = None
  /\ shown = None

\* Type.from_str(typ), as Global, Member and TextData call it.
FromStr ==
  /\ src.kind = "type" /\ parsed = None
  /\ parsed' = from_str(src.text)
  /\ UNCHANGED <<src, shown>>

\* Addr(addr), as Function, TextData and CallstackConf call it.
ParseAddr ==
  /\ src.kind = "addr" /\ parsed = None
  /\ parsed' = addr_parse(src.text)
  /\ UNCHANGED <<src, shown>>

\* TextData(..., access_at): self.access_at = access_at, kept unparsed.
KeepAccess ==
  /\ src.kind = "access" /\ parsed = None
  /\ parsed' = [err |-> "none", val |-> src.text]
  /\ UNCHANGED <<src, shown>>

\* str(typ) / str(addr), as the generators print a value; gen_text_section
\* writes f'access {var.access_at} ', the kept text itself.
Show ==
  /\ parsed # None /\ parsed.err = "none" /\ shown = None
  /\ shown' = CASE src.kind = "type" -> type_str(parsed.val)
                 [] src.kind = "addr" -> addr_str(parsed.val)
                 [] OTHER             -> parsed.val
  /\ UNCHANGED <<src, parsed>>

LitNext == FromStr \/ ParseAddr \/ KeepAccess \/ Show

LitSpec == LitInit /\ [][LitNext]_lit_vars

-----------------------------------------------------------------------------
(* Properties                                                              *)

\* Spec 8, round trip: a type the parser built, printed and parsed again,
\* is the same type (basetype, array-ness and length), unsized arrays and
\* negative lengths included.
TypeRoundTrip ==
  shown # None /\ src.kind = "type" => from_str(shown) = parsed

\* An address printed as Addr.__str__ prints it parses back to the same
\* overlay flag, segment and offset, whatever width the fields print in.
AddrRoundTrip ==
  shown # None /\ src.kind = "addr" => addr_parse(shown) = parsed

\* Spec 4.1: Type.from_str accepts exactly a base name free of '[',
\* optionally followed by '[', an optional integer literal (sign, digits)
\* and a closing ']' that ends the string.
IntLiteral(cs) ==
  \E k \in 0..1 : /\ Len(cs) > k
                  /\ k = 1 => cs[1] \in {"+", "-"}
                  /\ \A i \in (k+1)..Len(cs) : cs[i] \in DOMAIN DecVal
TypeGrammar(s) ==
  \/ \A i \in 1..Len(s) : s[i] # "["
  \/ \E i \in 1..Len(s) :
       /\ s[i] = "[" /\ Len(s) > i /\ Last(s) = "]"
       /\ \A j \in 1..Len(s) : j # i => s[j] # "["
       /\ LET inner == SubSeq(s, i + 1, Len(s) - 1) IN inner = <<>> \/ IntLiteral(inner)
FromStrAcceptsGrammar ==
  parsed # None /\ src.kind = "type" => (parsed.err = "none" <=> TypeGrammar(src.text))

\* Spec 3, 4.2 and 7: every address literal the model keeps is a valid
\* Addr, and a malformed one is fatal; the offset of a plain address is
\* range-checked to [0, 0x10000).  Addr.__init__ takes int(off_str, 16)
\* as it comes, and TextData keeps access_at without parsing it at all.
AddrValid(s) ==
  LET a == addr_parse(s)
  IN a.err = "none" /\ (~a.val.overlay => a.val.off \in 0..65535)
AddrLiteralsChecked ==
  parsed # None /\ parsed.err = "none" /\ src.kind \in {"addr", "access"} => AddrValid(src.text)

=============================================================================
