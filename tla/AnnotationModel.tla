--------------------------- MODULE AnnotationModel ---------------------------
(***************************************************************************)
(* What the annotation model promises (spec sections 3 and 4.3), with no  *)
(* registry, no cursor walk and no coverage map.  The model is six lists   *)
(* that grow one entity at a time.  An entity joins its list only when it *)
(* is valid against the model built so far:                                *)
(*   - a function's name is new;                                           *)
(*   - a struct's name ends in _t and names no type yet, and its members   *)
(*     exactly tile its size;                                              *)
(*   - a text region's byte span is a whole number of elements, and that   *)
(*     number becomes its array length.                                    *)
(* A data-section check may mark the globals as validated only when they   *)
(* are pairwise disjoint.  At any point the run may stop: with a fatal     *)
(* error, or with the model complete.                                      *)
(*                                                                         *)
(* Type sizes are not state here: they are the primitive sizes together    *)
(* with the declared sizes of the structs in the model.                    *)
(***************************************************************************)
EXTENDS TypeExpr, Sequences, TLC

CONSTANTS
  StructNamesT, FuncDecls, StructDecls, GlobalDecls, TextDecls, CallstackDecls, SegDecls

VARIABLES
  segments, functions, structs, globals, regions, stacks,
  phase,     \* "running", "failed" or "loaded"
  checked    \* how many globals the last data-section check covered

am_vars == <<segments, functions, structs, globals, regions, stacks, phase, checked>>

\* The type sizes the model defines.
Sizes == [n \in DOMAIN PrimSizes \cup {structs[k].name : k \in DOMAIN structs} |->
            IF n \in DOMAIN PrimSizes THEN PrimSizes[n]
            ELSE structs[CHOOSE k \in DOMAIN structs : structs[k].name = n].size]

Bytes(off, sz) == off .. (off + sz - 1)

\* Spec 8: the members, in offset order, tile [0, size) with no gap and no
\* overlap, under the sizes known once the struct itself is declared.
Packed(reg, s) ==
  LET ms == s.members
      sz(i) == size_in_bytes(reg, ms[i].typ)
  IN /\ \A i \in DOMAIN ms : sz(i) \in Nat
     /\ \A i, j \in DOMAIN ms : i < j =>
          ms[i].off <= ms[j].off /\ Bytes(ms[i].off, sz(i)) \cap Bytes(ms[j].off, sz(j)) = {}
     /\ UNION {Bytes(ms[i].off, sz(i)) : i \in DOMAIN ms} = 0 .. (s.size - 1)

\* Spec 3: a region in one address space whose byte span is n elements.
RegionLen(t) ==
  LET span == t.end_addr.off - t.start_addr.off
      elt  == size_in_bytes(Sizes, as_basetype(t.typ))
  IN {n \in 0..span : /\ t.start_addr.overlay = t.end_addr.overlay
                      /\ t.start_addr.seg = t.end_addr.seg
                      /\ t.typ.is_array /\ elt \in Nat \ {0}
                      /\ n * elt = span
                      /\ t.typ.array_len \in {None, n}}

\* Spec 8: no two checked globals, neither skipped, claim the same byte.
Disjoint ==
  \A i, j \in DOMAIN globals :
    LET si == size_in_bytes(Sizes, globals[i].typ)  sj == size_in_bytes(Sizes, globals[j].typ) IN
    (i # j /\ globals[i].flags # "SKIP_VALIDATE" /\ globals[j].flags # "SKIP_VALIDATE"
       /\ si # None /\ sj # None) => Bytes(globals[i].off, si) \cap Bytes(globals[j].off, sj) = {}

AMInit ==
  /\ segments = <<>> /\ functions = <<>> /\ structs = <<>>
  /\ globals = <<>> /\ regions = <<>> /\ stacks = <<>>
  /\ phase = "running" /\ checked = 0

Add(list, e) ==
  /\ phase = "running"
  /\ list' = Append(list, e)

AddSegment(c)  == Add(segments, c) /\ UNCHANGED <<functions, structs, globals, regions, stacks, phase, checked>>
AddFunction(f) ==
  /\ Add(functions, f)
  /\ \A k \in DOMAIN functions : functions[k].name # f.name
  /\ UNCHANGED <<segments, structs, globals, regions, stacks, phase, checked>>
AddStruct(s) ==
  /\ Add(structs, s)
  /\ s.name \in StructNamesT /\ s.name \notin DOMAIN Sizes
  /\ Packed((s.name :> s.size) @@ Sizes, s)
  /\ UNCHANGED <<segments, functions, globals, regions, stacks, phase, checked>>
AddGlobal(g)   == Add(globals, g) /\ UNCHANGED <<segments, functions, structs, regions, stacks, phase, checked>>
AddRegion(t) ==
  \E n \in RegionLen(t) :
    Add(regions, [t EXCEPT !.typ.array_len = n])
    /\ UNCHANGED <<segments, functions, structs, globals, stacks, phase, checked>>
AddStack(c) ==
  /\ Add(stacks, c)
  /\ c.typ \in {"HANDLER", "IGNORE_ADDR", "JUMPRET"}
  /\ UNCHANGED <<segments, functions, structs, globals, regions, phase, checked>>
Check ==
  /\ phase = "running" /\ Disjoint
  /\ checked' = Len(globals)
  /\ UNCHANGED <<segments, functions, structs, globals, regions, stacks, phase>>
Stop ==
  /\ phase = "running"
  /\ phase' \in {"failed", "loaded"}
  /\ UNCHANGED <<segments, functions, structs, globals, regions, stacks, checked>>

AMNext ==
  \/ Stop
  \/ Check
  \/ \E c \in SegDecls : AddSegment(c)
  \/ \E f \in FuncDecls : AddFunction(f)
  \/ \E g \in GlobalDecls : AddGlobal(g)
  \/ \E t \in TextDecls : AddRegion(t)
  \/ \E c \in CallstackDecls : AddStack(c)
  \/ \E s \in StructDecls : AddStruct(s)

AMSpec == AMInit /\ [][AMNext]_am_vars

=============================================================================
