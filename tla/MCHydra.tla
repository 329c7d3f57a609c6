------------------------------- MODULE MCHydra -------------------------------
(***************************************************************************)
(* Instantiates Hydra for TLC.  A function name is a record: whether it    *)
(* starts with 'F_', its stem, and how many '_OVERLAY' suffixes it         *)
(* carries.  Three names suffice for both collisions the generator can     *)
(* meet: F_Foo against Foo once 'F_' is stripped, and an overlay entry     *)
(* F_Foo against a declared F_Foo_OVERLAY.                                 *)
(***************************************************************************)
EXTENDS Hydra, MCAnnotations

MCOverlayName(n) == [n EXCEPT !.ovl = @ + 1]
MCHasFPrefix(n)  == n.pre
MCDropFPrefix(n) == [n EXCEPT !.pre = FALSE]

F_Foo         == [pre |-> TRUE,  stem |-> "Foo", ovl |-> 0]
Foo           == [pre |-> FALSE, stem |-> "Foo", ovl |-> 0]
F_Foo_OVERLAY == [pre |-> TRUE,  stem |-> "Foo", ovl |-> 1]

\* Function(...) calls: every name at a plain or an overlay start, with or
\* without an entry stub, callable or a call location; and the remaining
\* arguments varied on one name, the empty end address "" included.
MCHydraFuncDecls ==
  [name: {F_Foo, Foo, F_Foo_OVERLAY}, ret: {None}, args: {None},
   start_addr: {A0, O2}, end_addr: {None}, entry_stub: {None, A2},
   flags: {"NONE", "INDIRECT_CALL_LOCATION"}, regargs: {None}, reimpl: {FALSE}]
  \cup
  [name: {F_Foo}, ret: {None, "u16"}, args: {None, -1, 2}, start_addr: {A0},
   end_addr: {A4}, entry_stub: {None}, flags: {"NEAR", "DONT_POP_ARGS"},
   regargs: {None, "ax,dx"}, reimpl: {FALSE}]
  \cup
  {[name |-> F_Foo, ret |-> None, args |-> None, start_addr |-> A0, end_addr |-> <<>>,
    entry_stub |-> None, flags |-> "NEAR", regargs |-> None, reimpl |-> FALSE]}

\* For the header's declarations: every name at a plain or an overlay
\* start, with or without an entry stub, reimplemented or not, callable
\* or a call location.
MCHeaderFuncDecls ==
  [name: {F_Foo, Foo, F_Foo_OVERLAY}, ret: {None}, args: {None},
   start_addr: {A0, O2}, end_addr: {None}, entry_stub: {None, A2},
   flags: {"NONE", "INDIRECT_CALL_LOCATION"}, regargs: {None}, reimpl: {FALSE, TRUE}]

\* Struct(...) calls for the header: sizes 0..3, up to two members of a
\* primitive, a zero-length array or (in B_t only) the struct type A_t.
\* A_t holding an A_t is the subject of struct_self_reference.
HeaderStructCalls(n, types) ==
  [name: {n}, size: 0..3, members: BoundedSeq([name: {"m"}, typ: types, off: 0..2], 2)]

MCHydraStructDecls ==
  HeaderStructCalls(A_t, {u8, u16, u8_0}) \cup HeaderStructCalls(B_t, {u8, u16, At, u8_0})

MCHydraGlobalDecls == [name: {"g"}, typ: {u8, u8_}, off: {0}, flags: {""}]

MCHydraTextDecls == TextCalls({u8_, u16_, u16_2}, {A0}, {A4})

MCHydraCallstackDecls == [name: {"c"}, typ: {"HANDLER"}, addr: {A0, O2}]

=============================================================================
