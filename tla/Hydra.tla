-------------------------------- MODULE Hydra --------------------------------
(***************************************************************************)
(* The whole generation run of src/hydra/py/generate.py: load.annotations  *)
(* executes the annotation script (module Annotations), then generate()    *)
(* calls the one generator the command line selected (modules AppData and  *)
(* Dis86), or none when no mode flag is given.  'out' is what that call    *)
(* wrote to the output stream.                                             *)
(***************************************************************************)
EXTENDS AppData, Dis86, SequencesExt

VARIABLE out  \* None until generate() has run, then [mode, art]

hydra_vars == <<vars, out>>

\* The command-line modes, in the order generate() tests them.
Modes == {"appdata_hdr", "appdata_src", "dis86_conf", "no_mode"}

HydraInit == Init /\ out = None

\* generate(args, data, out): the first mode flag set picks the generator.
Generate(m) ==
  /\ status = "loaded"
  /\ out = None
  /\ out' = [mode |-> m,
             art  |-> CASE m = "appdata_hdr" -> gen_hdr
                        [] m = "appdata_src" -> gen_src
                        [] m = "dis86_conf"  -> gen_conf
                        [] OTHER             -> [error |-> "none"]]
  /\ UNCHANGED vars

HydraNext ==
  \/ Next /\ UNCHANGED out
  \/ \E m \in Modes : Generate(m)

HydraSpec == HydraInit /\ [][HydraNext]_hydra_vars

-----------------------------------------------------------------------------
(* Properties                                                              *)

\* Spec 4.4, target expansion, stated per function: a call location gives
\* no target; an overlay entry (overlay start and an entry stub) gives the
\* stub under its own name and the overlay body under name_OVERLAY; any
\* other function gives its start address under its name.
Targets(f) ==
  IF f.flags = "INDIRECT_CALL_LOCATION" THEN <<>>
  ELSE IF f.start_addr.overlay /\ f.entry_stub # None
    THEN <<[name |-> f.name, addr |-> f.entry_stub],
           [name |-> OverlayName(f.name), addr |-> f.start_addr]>>
    ELSE <<[name |-> f.name, addr |-> f.start_addr]>>

ExpectedTargets == FlattenSeq([i \in DOMAIN Functions |-> Targets(Functions[i])])

\* A row of the callstub list or of the metadata table, as a target.
AsTarget(row) ==
  [name |-> row.name, addr |-> [overlay |-> row.overlay, seg |-> row.seg, off |-> row.off]]

\* The call stubs of the header and the metadata table of the source both
\* list exactly the expanded targets of the declared functions, in
\* declaration order, with the address each target is called at.
CallTargetsResolve ==
  /\ out # None /\ out.mode = "appdata_hdr" =>
       LET cs == out.art.callstubs IN
       [i \in DOMAIN cs |-> AsTarget(cs[i])] = ExpectedTargets
  /\ out # None /\ out.mode = "appdata_src" =>
       LET md == out.art.metadata IN
       [i \in DOMAIN md |-> AsTarget(md[i])] = ExpectedTargets

\* No two call stubs of the header share a name (each becomes a C
\* declaration HYDRA_DEFINE_CALLSTUB(name, ...)).
CallstubNamesUnique ==
  out # None /\ out.mode = "appdata_hdr" =>
    \A i, j \in DOMAIN out.art.callstubs :
      i # j => out.art.callstubs[i].name # out.art.callstubs[j].name

\* No two hook registrations of the header name the same hook (each
\* declares H_<name> and calls HYDRA_REGISTER(<name>)).
HookNamesUnique ==
  out # None /\ out.mode = "appdata_hdr" /\ out.art.error = "none" =>
    \A i, j \in DOMAIN out.art.hooks : i # j => out.art.hooks[i] # out.art.hooks[j]

\* The callstack table of the source keeps each configured address as the
\* script wrote it, overlay flag included.
CallstackAddrsPreserved ==
  out # None /\ out.mode = "appdata_src" =>
    \A i \in DOMAIN out.art.callstack :
      out.art.callstack[i].overlay = Callstack[i].addr.overlay

\* Every function the header registers a hook for is also one of its call
\* targets: a reimplemented function has a call stub under its own name
\* (spec 4.4 drops call locations from the targets because they are call
\* sites, not callable functions).
HookedFunctionsCallable ==
  out # None /\ out.mode = "appdata_hdr" /\ out.art.error = "none" =>
    \A i \in DOMAIN Functions : Functions[i].reimpl =>
      \E j \in DOMAIN out.art.callstubs : out.art.callstubs[j].name = Functions[i].name

\* C's view of the header's packed structs, independent of _TypeSizes:
\* sizeof a type once the structs printed before it are defined, None for
\* a type C cannot lay out (undefined or incomplete, or an array without a
\* non-negative length).  A packed struct's sizeof is the sum of its
\* members' sizes, each member following the one before with no padding.
CTypeSize(env, t) ==
  CASE t.basetype \notin DOMAIN env                  -> None
    [] ~t.is_array                                   -> env[t.basetype]
    [] t.array_len = None \/ t.array_len < 0          -> None
    [] OTHER                                         -> env[t.basetype] * t.array_len

RECURSIVE CSizes(_)
CSizes(ss) ==
  IF ss = <<>> THEN PrimSizes
  ELSE LET env == CSizes(Front(ss))
           szs == [i \in DOMAIN Last(ss).members |-> CTypeSize(env, Last(ss).members[i].typ)]
       IN IF \A i \in DOMAIN szs : szs[i] # None
            THEN (Last(ss).name :> FoldLeft(LAMBDA a, b : a + b, 0, szs)) @@ env
            ELSE env

\* The header gen_hdr writes compiles to the layout the model validated:
\* every member of every packed struct has a complete type where it is
\* declared, a C compiler places it at the offset the /* 0x.. */ comment
\* gives, and the static_assert on sizeof holds.  A gap the member walk
\* let through, a struct using itself or a later struct, or a size from a
\* stale registry entry all make the C layout differ from the comments.
HeaderStructsMatchC ==
  out # None /\ out.mode = "appdata_hdr" =>
    /\ out.art.error = "none"
    /\ \A k \in DOMAIN out.art.structs :
         LET s       == out.art.structs[k]
             env     == CSizes(SubSeq(out.art.structs, 1, k - 1))
             sz(i)   == CTypeSize(env, s.members[i].typ)
             coff(i) == FoldLeft(LAMBDA a, j : a + sz(j), 0, [j \in 1..(i - 1) |-> j])
         IN /\ \A i \in DOMAIN s.members : sz(i) # None /\ coff(i) = s.members[i].off
            /\ coff(Len(s.members) + 1) = s.static_assert

\* The header gen_hdr writes is a consistent set of C declarations: no
\* call stub name and no hook name is declared twice (the derived names
\* name + '_OVERLAY' and the F_-stripped hook name never pass through
\* _verify_unique), and every hook it registers has a call stub.
HeaderDeclarationsSound ==
  CallstubNamesUnique /\ HookNamesUnique /\ HookedFunctionsCallable

=============================================================================
