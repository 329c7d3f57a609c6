---------------------------- MODULE MCAnnotations ----------------------------
(***************************************************************************)
(* Instantiates Annotations for TLC.  The data section shrinks from 1<<16  *)
(* slots to MemSize; offsets are chosen at both ends of it and one below   *)
(* zero, which Python's list indexing wraps.  Two primitive types (sizes 1 *)
(* and 2) and one struct name usable as a type, A_t, give nesting,         *)
(* self-reference and redefinition; B_t is a second struct name; "C" lacks *)
(* the '_t' suffix.  The script passes types and addresses as literals: a  *)
(* type name is one token, an address a string of characters.  Each kind   *)
(* of literal has one malformed member: "u8[" and "1".                     *)
(***************************************************************************)
EXTENDS Annotations, SequencesExt

MCPrimSizes == (<<"u8">> :> 1) @@ (<<"u16">> :> 2)

\* The struct names: two that end with '_t', one that does not.
A_t == <<"A_t">>
B_t == <<"B_t">>
MCStructNamesT == {A_t, B_t}

\* Addresses the script may write: seg:off, one in another segment, one in
\* an overlay, and one without the ':'.
A0   == <<"1", ":", "0">>
A2   == <<"1", ":", "2">>
A3   == <<"1", ":", "3">>
A4   == <<"1", ":", "4">>
B2   == <<"2", ":", "2">>
O2   == <<"overlay_", "1", ":", "2">>
Abad == <<"1">>

\* Types the script may write.
u8      == <<"u8">>
u16     == <<"u16">>
At      == <<"A_t">>
u8_     == <<"u8", "[", "]">>
u8_0    == <<"u8", "[", "0", "]">>
u8_neg  == <<"u8", "[", "-", "1", "]">>   \* int('-1') parses
u16_    == <<"u16", "[", "]">>
u16_1   == <<"u16", "[", "1", "]">>
u16_2   == <<"u16", "[", "2", "]">>
At_     == <<"A_t", "[", "]">>
u8_open == <<"u8", "[">>                  \* no closing bracket

\* Struct(...) calls: every name, size 0..3, up to two members of the
\* given types at offsets 0..2.
StructCalls(types) ==
  [name: {A_t, B_t, <<"C">>}, size: 0..3,
   members: BoundedSeq([name: {"m"}, typ: types, off: 0..2], 2)]

MemberTypesOK  == {u8, u16, At, u8_, u8_0}
MemberTypesNeg == MemberTypesOK \cup {u8_neg}
\* One Struct(...) call whose Member(...) type does not parse.
BadMemberStruct == [name |-> A_t, size |-> 1, members |-> <<[name |-> "m", typ |-> u8_open, off |-> 0]>>]
MCStructDecls    == StructCalls(MemberTypesOK) \cup {BadMemberStruct}
MCStructDeclsNeg == StructCalls(MemberTypesNeg)

MCGlobalDecls ==
  [name: {"g"}, typ: {u8, u16, At, u8_}, off: {-1, 0, 1, 3},
   flags: {"", "SKIP_VALIDATE"}]
  \cup {[name |-> "g", typ |-> u8_open, off |-> 0, flags |-> ""]}

\* TextData(...) calls.  Each candidate region is named after its declared
\* type, so a constructed region can be traced back to its declaration.
TextCalls(types, starts, ends) ==
  {[name |-> ty, typ |-> ty, start_addr |-> s, end_addr |-> e, access_at |-> None] :
     ty \in types, s \in starts, e \in ends}

MCTextDecls ==
  TextCalls({u8, u8_, u16_, u16_1, u16_2, At_}, {A0}, {A0, A3, A4, B2, O2})
  \cup TextCalls({u8_}, {A2}, {A0})
  \cup TextCalls({u8_open}, {A0}, {A4}) \cup TextCalls({u8_}, {A0}, {Abad})

MCFuncDecls ==
  [name: {"F_Foo"}, ret: {None}, args: {None}, start_addr: {A0}, end_addr: {None},
   entry_stub: {None}, flags: {"NONE"}, regargs: {None}, reimpl: {FALSE}]
  \cup [name: {"F_Foo"}, ret: {None}, args: {None}, start_addr: {Abad}, end_addr: {None},
         entry_stub: {None}, flags: {"NONE"}, regargs: {None}, reimpl: {FALSE}]

MCCallstackDecls == [name: {"c"}, typ: {"HANDLER", "BOGUS"}, addr: {A0}]
  \cup {[name |-> "c", typ |-> "HANDLER", addr |-> Abad]}

MCSegDecls == [seg: {1}, name: {"cs"}]

=============================================================================
