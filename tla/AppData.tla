------------------------------- MODULE AppData -------------------------------
(***************************************************************************)
(* The runtime glue generator, src/confgen/hydra/gen/appdata.py, as        *)
(* operators over the lists the annotation script built.  gen_hdr and      *)
(* gen_src print C text; here each returns the artifact's content, one     *)
(* record per emitted line or table row, in emission order.  Column        *)
(* padding, banners and the fixed #include lines carry nothing a property  *)
(* tells apart and are left out.                                           *)
(*                                                                         *)
(* Function names are opaque; the three string operations the generator    *)
(* applies to them are constants: name + "_OVERLAY", name.startswith('F_') *)
(* and name[2:].                                                           *)
(***************************************************************************)
EXTENDS Annotations

CONSTANTS
  OverlayName(_),  \* func.name + "_OVERLAY"
  HasFPrefix(_),   \* name.startswith('F_')
  DropFPrefix(_)   \* name[2:]

\* FuncData.__init__: one call-stub target of func, under name, at entry.
\* An absent return type becomes "u32" ("assume worst case"), an absent
\* or negative argument count the token "IGNORE".
FuncData(func, name, entry) ==
  [name    |-> name,
   ret     |-> IF func.ret = None THEN "u32" ELSE func.ret,
   args    |-> IF func.args = None THEN "IGNORE"
               ELSE IF func.args < 0 THEN "IGNORE" ELSE func.args,
   overlay |-> entry.overlay,
   seg     |-> entry.seg,
   off     |-> entry.off,
   flags   |-> func.flags]

\* Mutant: a call location is not skipped.
RECURSIVE build_func_data_keep_indirect(_)
build_func_data_keep_indirect(functions) ==
  IF functions = <<>> THEN <<>>
  ELSE LET func == Head(functions)
           rest == build_func_data_keep_indirect(Tail(functions))
       IN IF is_overlay_entry(func)
            THEN <<FuncData(func, func.name, func.entry_stub),
                   FuncData(func, OverlayName(func.name), func.start_addr)>> \o rest
            ELSE <<FuncData(func, func.name, func.start_addr)>> \o rest

\* build_func_data: call locations are dropped; an overlay entry gives the
\* stub target under its name and the overlay body under name_OVERLAY.
RECURSIVE build_func_data(_)
build_func_data(functions) ==
  IF functions = <<>> THEN <<>>
  ELSE LET func == Head(functions)
           rest == build_func_data(Tail(functions))
       IN CASE func.flags = "INDIRECT_CALL_LOCATION" -> rest
            [] is_overlay_entry(func) ->
                 <<FuncData(func, func.name, func.entry_stub),
                   FuncData(func, OverlayName(func.name), func.start_addr)>> \o rest
            [] OTHER -> <<FuncData(func, func.name, func.start_addr)>> \o rest

\* Type.get_ctype_str_parts raises for an array without a length.
ctype_ok(t) == ~t.is_array \/ t.array_len # None

\* The hook registration name of a reimplemented function: 'F_' stripped.
hook_name(func) == IF HasFPrefix(func.name) THEN DropFPrefix(func.name) ELSE func.name

\* gen_hdr: call stubs, IS_OVERLAY_ENTRY flags, packed structs with their
\* size assertion, data-section pointer macros, hook registrations.  A
\* struct member the C formatter cannot print raises in the struct loop,
\* after the call stubs and flags are printed; the artifact is then only
\* the error, as the run ends there.
gen_hdr ==
  IF \E k \in DOMAIN Structures : \E i \in DOMAIN Structures[k].members :
       ~ctype_ok(Structures[k].members[i].typ)
  THEN [error |-> "no_array_length"]
  ELSE
  [error     |-> "none",
   callstubs |-> build_func_data(Functions),
   overlay_flags |-> [i \in DOMAIN Functions |->
                        [name |-> Functions[i].name,
                         value |-> is_overlay_entry(Functions[i])]],
   structs   |-> [k \in DOMAIN Structures |->
                    [name |-> Structures[k].name,
                     members |-> [i \in DOMAIN Structures[k].members |->
                                    [name |-> Structures[k].members[i].name,
                                     typ  |-> Structures[k].members[i].typ,
                                     off  |-> Structures[k].members[i].off]],
                     static_assert |-> Structures[k].size]],
   globals   |-> [i \in DOMAIN DataSection |->
                    [name  |-> DataSection[i].name,
                     cast  |-> DataSection[i].typ.basetype,
                     deref |-> ~DataSection[i].typ.is_array,
                     off   |-> DataSection[i].off]],
   hooks     |-> LET reimpl == SelectSeq(Functions, LAMBDA f : f.reimpl)
                 IN [i \in DOMAIN reimpl |-> hook_name(reimpl[i])]]

\* gen_src: the function metadata table and the callstack table.  The
\* callstack rows are written with an overlay field of 0.
gen_src ==
  [error    |-> "none",
   metadata |-> LET fd == build_func_data(Functions) IN
                [i \in DOMAIN fd |-> [name |-> fd[i].name, overlay |-> fd[i].overlay,
                                      seg |-> fd[i].seg, off |-> fd[i].off]],
   callstack |-> [i \in DOMAIN Callstack |->
                    [typ |-> Callstack[i].typ, name |-> Callstack[i].name,
                     overlay |-> FALSE, seg |-> Callstack[i].addr.seg,
                     off |-> Callstack[i].addr.off]]]

=============================================================================
