-------------------------------- MODULE Dis86 --------------------------------
(***************************************************************************)
(* The disassembler configuration generator, src/confgen/hydra/gen/       *)
(* dis86.py, as one operator over the lists the annotation script built.   *)
(* gen_conf prints a nested 'name { key value ... }' document; here it     *)
(* returns one record per block entry, in emission order.  Addresses and   *)
(* types are kept as values: str(Addr) and str(Type) are injective, so two *)
(* entries print alike exactly when their values are equal.                *)
(***************************************************************************)
EXTENDS Annotations

\* The 'extra' string of gen_functions, as the keys it writes in order.
func_extras(func) ==
  (IF func.flags = "DONT_POP_ARGS" THEN <<"dont_pop_args">> ELSE <<>>)
  \o (IF func.flags = "INDIRECT_CALL_LOCATION" THEN <<"indirect_call_location">> ELSE <<>>)
  \o (IF func.entry_stub # None THEN <<"entry">> ELSE <<>>)
  \o (IF func.regargs # None THEN <<"regargs">> ELSE <<>>)

gen_code_segments(code_segments) ==
  [i \in DOMAIN code_segments |->
     [idx |-> i - 1, seg |-> code_segments[i].seg, name |-> code_segments[i].name]]

\* A start address always prints (an Addr is truthy); an absent end prints
\* as the empty string "".
gen_functions(functions) ==
  [i \in DOMAIN functions |->
     LET func == functions[i] IN
     [name   |-> func.name,
      start  |-> func.start_addr,
      end    |-> IF func.end_addr = None THEN "" ELSE func.end_addr,
      mode   |-> IF func.flags = "NEAR" THEN "near" ELSE "far",
      ret    |-> func.ret,
      args   |-> func.args,
      extras |-> func_extras(func)]]

gen_structures(structures) ==
  [k \in DOMAIN structures |->
     [name |-> structures[k].name, size |-> structures[k].size,
      members |-> [i \in DOMAIN structures[k].members |->
                     [name |-> structures[k].members[i].name,
                      typ  |-> structures[k].members[i].typ,
                      off  |-> structures[k].members[i].off]]]]

gen_data_section(datasection) ==
  [i \in DOMAIN datasection |->
     [name |-> datasection[i].name, off |-> datasection[i].off, typ |-> datasection[i].typ]]

gen_text_section(textsection) ==
  [i \in DOMAIN textsection |->
     [name   |-> textsection[i].name,
      start  |-> textsection[i].start_addr,
      end    |-> textsection[i].end_addr,
      typ    |-> textsection[i].typ,
      access |-> textsection[i].access_at]]

\* gen_conf: the dis86 block with its five sub-blocks, in this order.
gen_conf ==
  [error         |-> "none",
   code_segments |-> gen_code_segments(CodeSegments),
   functions     |-> gen_functions(Functions),
   structures    |-> gen_structures(Structures),
   globals       |-> gen_data_section(DataSection),
   text_section  |-> gen_text_section(TextSection)]

=============================================================================
