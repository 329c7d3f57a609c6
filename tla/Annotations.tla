----------------------------- MODULE Annotations -----------------------------
(***************************************************************************)
(* The annotation model of src/hydra/py/hydra/annotations.py, as the       *)
(* annotation script drives it.  load.annotations (src/confgen/hydra/gen/  *)
(* load.py) executes the script; each top-level statement of the script    *)
(* constructs one entity (Function, Struct, Global, TextData,              *)
(* CallstackConf, CodeSegment) or calls validate_data_section.  A          *)
(* constructor that raises ends the process; one that returns adds the     *)
(* entity to the script's list for that kind.                              *)
(*                                                                         *)
(* Two pieces of state outlive a single constructor: the type registry     *)
(* _TypeSizes, which Struct.__init__ grows, and FUNCTION_ALL_NAMES, which  *)
(* Function.__init__ grows.  The script may run its statements in any      *)
(* order, so every order of the constructors below is a possible run.      *)
(*                                                                         *)
(* The script passes types and addresses as strings; the constructors      *)
(* parse them with Type.from_str and Addr (module Literals), and a parse   *)
(* error ends the process like any other exception.                        *)
(***************************************************************************)
EXTENDS Literals, FiniteSets, TLC

CONSTANTS
  MemSize,         \* slots of validate_data_section's coverage map (1<<16)
  StructNamesT,    \* the candidate struct names that end with '_t'
  FuncDecls,       \* arguments the script may pass to Function(...)
  StructDecls,     \* ... to Struct(...)
  GlobalDecls,     \* ... to Global(...)
  TextDecls,       \* ... to TextData(...)
  CallstackDecls,  \* ... to CallstackConf(...)
  SegDecls,        \* ... to CodeSegment(...)
  MaxCalls         \* bound on the statements the script executes

ASSUME MemSize \in Nat \ {0}
ASSUME MaxCalls \in Nat

\* CALLSTACK_CONF_VALID_TYPES
CALLSTACK_CONF_VALID_TYPES == {"HANDLER", "IGNORE_ADDR", "JUMPRET"}

VARIABLES
  TypeSizes,          \* _TypeSizes: type name -> byte size
  FUNCTION_ALL_NAMES, \* every function name constructed so far
  CodeSegments,       \* the script's lists, in construction order
  Functions,
  Structures,
  DataSection,
  TextSection,
  Callstack,
  status,             \* "running" | "failed" (an exception escaped) | "loaded"
  error,              \* the exception that ended the run, "none" before
  dsChecked,          \* history: DataSection entries the last successful
  dsReg,              \*   validate_data_section covered, and the registry it saw
  calls               \* statements executed, bounded by MaxCalls

model == <<CodeSegments, Functions, Structures, DataSection, TextSection, Callstack>>
vars == <<TypeSizes, FUNCTION_ALL_NAMES, model, status, error, dsChecked, dsReg, calls>>

-----------------------------------------------------------------------------
(* Addr                                                                    *)

\* Addr.bytes_since's assertions: both addresses in one overlay/segment space.
same_space(a, start) == a.overlay = start.overlay /\ a.seg = start.seg

\* Addr.bytes_since, once its assertions hold.
bytes_since(a, start) == a.off - start.off

\* Function.is_overlay_entry as the constructor computes it.
is_overlay_entry(f) == f.start_addr.overlay /\ f.entry_stub # None

-----------------------------------------------------------------------------
(* The literal arguments of the constructors, parsed in the order the      *)
(* constructors parse them.                                                *)

\* Every type and address literal the script may pass, with its parse.
\* A literal's parse does not depend on the state, so it is taken once.
TypeLiterals ==
  UNION {{s.members[i].typ : i \in DOMAIN s.members} : s \in StructDecls} \cup {g.typ : g \in GlobalDecls}
  \cup {t.typ : t \in TextDecls}
AddrLiterals ==
  {f.start_addr : f \in FuncDecls} \cup {f.end_addr : f \in FuncDecls} \cup {f.entry_stub : f \in FuncDecls}
  \cup {t.start_addr : t \in TextDecls} \cup {t.end_addr : t \in TextDecls} \cup {c.addr : c \in CallstackDecls}
TypeOf == [s \in TypeLiterals |-> from_str(s)]
AddrOf == [s \in AddrLiterals \ {None} |-> addr_parse(s)]

\* 'Addr(x) if x else None': no address for None or the empty string.
opt_addr(s) == IF s = None \/ s = <<>> THEN [err |-> "none", val |-> None] ELSE AddrOf[s]

\* The exception the first failing parse of a sequence raises, if any.
first_error(rs) ==
  LET bad == SelectSeq(rs, LAMBDA r : r.err # "none")
  IN IF bad = <<>> THEN "none" ELSE Head(bad).err

\* Function.__init__: start_addr, then end_addr, then entry.
function_addrs(f) == <<AddrOf[f.start_addr], opt_addr(f.end_addr), opt_addr(f.entry_stub)>>
with_addrs(f, rs) == [f EXCEPT !.start_addr = rs[1].val, !.end_addr = rs[2].val, !.entry_stub = rs[3].val]
parsed_function(f) == with_addrs(f, function_addrs(f))

\* Member(name, typ, off), once per member, before Struct(...) runs.
member_types(s) == [i \in DOMAIN s.members |-> TypeOf[s.members[i].typ]]
with_types(s, ts) ==
  [s EXCEPT !.members = [i \in DOMAIN s.members |-> [s.members[i] EXCEPT !.typ = ts[i].val]]]
parsed_struct(s) == with_types(s, member_types(s))

\* Global.__init__: Type.from_str(typ).
parsed_global(g) == [g EXCEPT !.typ = TypeOf[g.typ].val]

\* TextData.__init__: typ, start_addr, end_addr; access_at is kept as is.
text_literals(t) == <<TypeOf[t.typ], AddrOf[t.start_addr], AddrOf[t.end_addr]>>
with_literals(t, rs) == [t EXCEPT !.typ = rs[1].val, !.start_addr = rs[2].val, !.end_addr = rs[3].val]
parsed_text(t) == with_literals(t, text_literals(t))

\* CallstackConf.__init__: Addr(addr), after the kind check.
parsed_callstack(c) == [c EXCEPT !.addr = AddrOf[c.addr].val]

\* The arguments of each kind that parse, as the constructors store them.
ParsedFuncDecls      == {parsed_function(f) : f \in {f \in FuncDecls : first_error(function_addrs(f)) = "none"}}
ParsedStructDecls    == {parsed_struct(s) : s \in {s \in StructDecls : first_error(member_types(s)) = "none"}}
ParsedGlobalDecls    == {parsed_global(g) : g \in {g \in GlobalDecls : TypeOf[g.typ].err = "none"}}
ParsedTextDecls      == {parsed_text(t) : t \in {t \in TextDecls : first_error(text_literals(t)) = "none"}}
ParsedCallstackDecls == {parsed_callstack(c) : c \in {c \in CallstackDecls : AddrOf[c.addr].err = "none"}}

-----------------------------------------------------------------------------
(* Struct.__init__'s member walk.                                          *)

\* Mutant: the 'mbr.off > off' skipped-bytes check left out.
RECURSIVE member_walk_no_gap_check(_, _, _)
member_walk_no_gap_check(reg, ms, off) ==
  IF ms = <<>> THEN [err |-> "none", off |-> off]
  ELSE LET mbr == Head(ms)
           sz  == size_in_bytes(reg, mbr.typ)
       IN CASE mbr.off < off -> [err |-> "struct_overlap", off |-> off]
            [] sz = None     -> [err |-> "struct_member_unsized", off |-> off]
            [] OTHER         -> member_walk_no_gap_check(reg, Tail(ms), off + sz)

\* The loop over self.members with its byte cursor 'off': the cursor after
\* the last member, or the exception the loop raises first.
RECURSIVE member_walk(_, _, _)
member_walk(reg, ms, off) ==
  IF ms = <<>> THEN [err |-> "none", off |-> off]
  ELSE LET mbr == Head(ms)
           sz  == size_in_bytes(reg, mbr.typ)
       IN CASE mbr.off > off -> [err |-> "struct_skipped_bytes", off |-> off]
            [] mbr.off < off -> [err |-> "struct_overlap", off |-> off]
            [] sz = None     -> [err |-> "struct_member_unsized", off |-> off]
            [] OTHER         -> member_walk(reg, Tail(ms), off + sz)

\* Mutant: the final 'if off != self.size' check left out.
struct_error_no_size_check(reg, s) ==
  LET walk == member_walk((s.name :> s.size) @@ reg, s.members, 0) IN
  CASE s.name \notin StructNamesT -> "struct_name"
    [] s.name \in DOMAIN reg      -> "type_redefined"
    [] walk.err # "none"          -> walk.err
    [] OTHER                      -> "none"

\* Mutant: the 'name in _TypeSizes' check left out, so a struct may
\* re-register a type name with another size.
struct_error_redefine(reg, s) ==
  LET walk == member_walk((s.name :> s.size) @@ reg, s.members, 0) IN
  CASE s.name \notin StructNamesT -> "struct_name"
    [] walk.err # "none"          -> walk.err
    [] walk.off # s.size          -> "struct_size_mismatch"
    [] OTHER                      -> "none"

\* Mutant: the '_t' suffix check left out.
struct_error_any_name(reg, s) ==
  LET walk == member_walk((s.name :> s.size) @@ reg, s.members, 0) IN
  CASE s.name \in DOMAIN reg      -> "type_redefined"
    [] walk.err # "none"          -> walk.err
    [] walk.off # s.size          -> "struct_size_mismatch"
    [] OTHER                      -> "none"

\* The exception Struct.__init__ raises, "none" when it returns.  The
\* registry the walk sees already holds the struct itself: the name is
\* registered before the members are checked.
struct_error(reg, s) ==
  LET walk == member_walk((s.name :> s.size) @@ reg, s.members, 0) IN
  CASE s.name \notin StructNamesT -> "struct_name"
    [] s.name \in DOMAIN reg      -> "type_redefined"
    [] walk.err # "none"          -> walk.err
    [] walk.off # s.size          -> "struct_size_mismatch"
    [] OTHER                      -> "none"

-----------------------------------------------------------------------------
(* validate_data_section                                                   *)

\* mem[i] in Python: a negative index counts from the end of the list.
slot(i) == IF i < 0 THEN MemSize + i ELSE i

\* Mutant: the 'if mem[i] != 0' overlap test left out.
RECURSIVE mark_range_unchecked(_, _, _)
mark_range_unchecked(mem, i, hi) ==
  CASE i >= hi                         -> [err |-> "none", mem |-> mem]
    [] i >= MemSize \/ i < -MemSize    -> [err |-> "ds_index_error", mem |-> mem]
    [] OTHER                           -> mark_range_unchecked(mem \cup {slot(i)}, i + 1, hi)

\* The inner loop 'for i in range(off, off+sz)': marks mem slot by slot
\* and stops at the first index out of the list or already marked.
RECURSIVE mark_range(_, _, _)
mark_range(mem, i, hi) ==
  CASE i >= hi                         -> [err |-> "none", mem |-> mem]
    [] i >= MemSize \/ i < -MemSize    -> [err |-> "ds_index_error", mem |-> mem]
    [] slot(i) \in mem                 -> [err |-> "ds_overlap", mem |-> mem]
    [] OTHER                           -> mark_range(mem \cup {slot(i)}, i + 1, hi)

\* The outer loop over the globals: skipped ones and ones of unknown size
\* (a warning) leave mem alone.
RECURSIVE validate_globals(_, _, _)
validate_globals(reg, ds, mem) ==
  IF ds = <<>> THEN "none"
  ELSE LET g  == Head(ds)
           sz == size_in_bytes(reg, g.typ)
           r  == mark_range(mem, g.off, g.off + sz)
       IN CASE g.flags = "SKIP_VALIDATE" -> validate_globals(reg, Tail(ds), mem)
            [] sz = None                 -> validate_globals(reg, Tail(ds), mem)
            [] r.err # "none"            -> r.err
            [] OTHER                     -> validate_globals(reg, Tail(ds), r.mem)

-----------------------------------------------------------------------------
(* TextData.__init__'s array size inference.                               *)

\* Mutant: a declared length is overwritten without the "use it or
\* verify" comparison.
text_error_no_verify(reg, t) ==
  LET nbytes == bytes_since(t.end_addr, t.start_addr)
      eltsz  == size_in_bytes(reg, as_basetype(t.typ))
  IN CASE ~same_space(t.end_addr, t.start_addr)  -> "addr_space_mismatch"
       [] nbytes < 0                             -> "negative_region"
       [] ~t.typ.is_array                        -> "region_not_array"
       [] eltsz = None                           -> "type_error"
       [] eltsz = 0                              -> "zero_division"
       [] nbytes % eltsz # 0                     -> "region_not_multiple"
       [] OTHER                                  -> "none"

\* The exception TextData.__init__ raises, "none" when it returns.  A
\* basetype of unknown size reaches 'nbytes % eltsz' as None (TypeError),
\* one of size 0 divides by zero.
text_error(reg, t) ==
  LET nbytes == bytes_since(t.end_addr, t.start_addr)
      eltsz  == size_in_bytes(reg, as_basetype(t.typ))
  IN CASE ~same_space(t.end_addr, t.start_addr)  -> "addr_space_mismatch"
       [] nbytes < 0                             -> "negative_region"
       [] ~t.typ.is_array                        -> "region_not_array"
       [] eltsz = None                           -> "type_error"
       [] eltsz = 0                              -> "zero_division"
       [] nbytes % eltsz # 0                     -> "region_not_multiple"
       [] t.typ.array_len # None /\ t.typ.array_len # nbytes \div eltsz
                                                 -> "region_len_mismatch"
       [] OTHER                                  -> "none"

\* The element count the constructor stores into self.typ.array_len.
inferred_len(reg, t) ==
  bytes_since(t.end_addr, t.start_addr) \div size_in_bytes(reg, as_basetype(t.typ))

-----------------------------------------------------------------------------
(* The script's statements.                                                *)

Running == status = "running" /\ calls < MaxCalls

\* An exception escapes the constructor and ends the process.
Fail(e) == status' = "failed" /\ error' = e

Step == calls' = calls + 1

Init ==
  /\ TypeSizes = PrimSizes
  /\ FUNCTION_ALL_NAMES = {}
  /\ CodeSegments = <<>> /\ Functions = <<>> /\ Structures = <<>>
  /\ DataSection = <<>> /\ TextSection = <<>> /\ Callstack = <<>>
  /\ status = "running"
  /\ error = "none"
  /\ dsChecked = 0
  /\ dsReg = PrimSizes
  /\ calls = 0

\* CodeSegment(seg, name): stores its arguments.
NewCodeSegment(c) ==
  /\ Running /\ Step
  /\ CodeSegments' = Append(CodeSegments, c)
  /\ UNCHANGED <<TypeSizes, FUNCTION_ALL_NAMES, Functions, Structures, DataSection,
                 TextSection, Callstack, status, error, dsChecked, dsReg>>

\* Mutant: the membership test of _verify_unique left out.
verify_unique_never(names, name) == TRUE

\* _verify_unique(name): raises unless the name is new.
_verify_unique(names, name) == name \notin names

\* Function(...): _verify_unique, which records the name, then the
\* addresses; an address that does not parse raises with the name kept.
NewFunction(f) ==
  /\ Running /\ Step
  /\ IF ~_verify_unique(FUNCTION_ALL_NAMES, f.name)
       THEN Fail("duplicate_function") /\ UNCHANGED <<FUNCTION_ALL_NAMES, Functions>>
       ELSE /\ FUNCTION_ALL_NAMES' = FUNCTION_ALL_NAMES \cup {f.name}
            /\ LET rs == function_addrs(f)  e == first_error(rs) IN
               IF e # "none"
                 THEN Fail(e) /\ UNCHANGED Functions
                 ELSE Functions' = Append(Functions, with_addrs(f, rs)) /\ UNCHANGED <<status, error>>
  /\ UNCHANGED <<TypeSizes, CodeSegments, Structures, DataSection, TextSection,
                 Callstack, dsChecked, dsReg>>

\* Struct(name, size, [Member(...), ...]): the members' types are parsed
\* first; then the name checks, registration and the member walk.
NewStruct(s) ==
  /\ Running /\ Step
  /\ LET ts == member_types(s)  pe == first_error(ts) IN
     IF pe # "none"
       THEN Fail(pe) /\ UNCHANGED <<TypeSizes, Structures>>
       ELSE
     LET ps == with_types(s, ts)
         e  == struct_error(TypeSizes, ps)
     IN /\ TypeSizes' = IF e \in {"struct_name", "type_redefined"} THEN TypeSizes
                        ELSE (s.name :> s.size) @@ TypeSizes
        /\ IF e = "none"
             THEN Structures' = Append(Structures, ps) /\ UNCHANGED <<status, error>>
             ELSE Fail(e) /\ UNCHANGED Structures
  /\ UNCHANGED <<FUNCTION_ALL_NAMES, CodeSegments, Functions, DataSection, TextSection,
                 Callstack, dsChecked, dsReg>>

\* Global(name, typ, off, flags): parses typ and stores its arguments.
NewGlobal(g) ==
  /\ Running /\ Step
  /\ LET t == TypeOf[g.typ] IN
     IF t.err # "none"
       THEN Fail(t.err) /\ UNCHANGED DataSection
       ELSE DataSection' = Append(DataSection, [g EXCEPT !.typ = t.val]) /\ UNCHANGED <<status, error>>
  /\ UNCHANGED <<TypeSizes, FUNCTION_ALL_NAMES, CodeSegments, Functions, Structures,
                 TextSection, Callstack, dsChecked, dsReg>>

\* TextData(...): parses its literals, then infers the array length, or
\* checks the declared one.
NewTextData(t) ==
  /\ Running /\ Step
  /\ LET rs == text_literals(t)
         pt == with_literals(t, rs)
         e  == IF first_error(rs) # "none" THEN first_error(rs) ELSE text_error(TypeSizes, pt)
     IN IF e = "none"
          THEN /\ TextSection' = Append(TextSection,
                    [pt EXCEPT !.typ.array_len = inferred_len(TypeSizes, pt)])
               /\ UNCHANGED <<status, error>>
          ELSE Fail(e) /\ UNCHANGED TextSection
  /\ UNCHANGED <<TypeSizes, FUNCTION_ALL_NAMES, CodeSegments, Functions, Structures,
                 DataSection, Callstack, dsChecked, dsReg>>

\* CallstackConf(name, typ, addr): rejects an unknown kind, then parses
\* the address.
NewCallstackConf(c) ==
  /\ Running /\ Step
  /\ LET a == AddrOf[c.addr] IN
     CASE c.typ \notin CALLSTACK_CONF_VALID_TYPES ->
            Fail("callstack_type") /\ UNCHANGED Callstack
       [] a.err # "none" -> Fail(a.err) /\ UNCHANGED Callstack
       [] OTHER -> Callstack' = Append(Callstack, [c EXCEPT !.addr = a.val]) /\ UNCHANGED <<status, error>>
  /\ UNCHANGED <<TypeSizes, FUNCTION_ALL_NAMES, CodeSegments, Functions, Structures,
                 DataSection, TextSection, dsChecked, dsReg>>

\* validate_data_section(DataSection), called by the script on its list.
ValidateDataSection ==
  /\ Running /\ Step
  /\ LET e == validate_globals(TypeSizes, DataSection, {}) IN
     IF e = "none"
       THEN /\ dsChecked' = Len(DataSection) /\ dsReg' = TypeSizes
            /\ UNCHANGED <<status, error>>
       ELSE Fail(e) /\ UNCHANGED <<dsChecked, dsReg>>
  /\ UNCHANGED <<TypeSizes, FUNCTION_ALL_NAMES, model>>

\* The script ends; load.annotations returns the six lists.
Loaded ==
  /\ status = "running"
  /\ status' = "loaded"
  /\ UNCHANGED <<TypeSizes, FUNCTION_ALL_NAMES, model, error, dsChecked, dsReg, calls>>

Next ==
  \/ \E c \in SegDecls : NewCodeSegment(c)
  \/ \E f \in FuncDecls : NewFunction(f)
  \/ \E s \in StructDecls : NewStruct(s)
  \/ \E g \in GlobalDecls : NewGlobal(g)
  \/ \E t \in TextDecls : NewTextData(t)
  \/ \E c \in CallstackDecls : NewCallstackConf(c)
  \/ ValidateDataSection
  \/ Loaded

Spec == Init /\ [][Next]_vars

-----------------------------------------------------------------------------
(* Properties                                                              *)

\* The entities, the registry and the outcome have the shapes the
\* constructors give them.
TypeOK ==
  /\ DOMAIN PrimSizes \subseteq DOMAIN TypeSizes
  /\ \A n \in DOMAIN TypeSizes : TypeSizes[n] \in Int
  /\ FUNCTION_ALL_NAMES \subseteq {f.name : f \in FuncDecls}
  /\ CodeSegments \in Seq(SegDecls)
  /\ Functions \in Seq(ParsedFuncDecls)
  /\ Structures \in Seq(ParsedStructDecls)
  /\ \A k \in DOMAIN Structures : Structures[k].name \in StructNamesT
  /\ DataSection \in Seq(ParsedGlobalDecls)
  /\ \A i \in DOMAIN TextSection : TextSection[i].name \in {t.name : t \in TextDecls}
  /\ Callstack \in Seq(ParsedCallstackDecls)
  /\ status \in {"running", "failed", "loaded"}
  /\ (status = "failed") = (error # "none")
  /\ dsChecked \in 0..Len(DataSection)
  /\ calls \in 0..MaxCalls

\* The bytes a member (or a global) at offset off of size sz occupies.
span(off, sz) == off .. (off + sz - 1)

\* Reference definition of a packed struct: every member has a known,
\* non-negative size under the registry as it is now, members come in
\* offset order, no two share a byte, and together they cover 0..size-1.
Tiles(reg, s) ==
  LET ms == s.members
      sz(i) == size_in_bytes(reg, ms[i].typ)
  IN /\ \A i \in DOMAIN ms : sz(i) \in Nat
     /\ \A i, j \in DOMAIN ms : i < j =>
          /\ ms[i].off <= ms[j].off
          /\ span(ms[i].off, sz(i)) \cap span(ms[j].off, sz(j)) = {}
     /\ UNION {span(ms[i].off, sz(i)) : i \in DOMAIN ms} = 0 .. (s.size - 1)

\* Every struct the script constructed is exactly tiled by its members, as
\* the header's packed struct and its static_assert on the size require:
\* the cursor walk of Struct.__init__, together with the registry it and
\* later structs grow, must never let a gap, an overlap or a size drift in.
StructsTiled == \A k \in DOMAIN Structures : Tiles(TypeSizes, Structures[k])

\* No step changes the size of a member of a struct already accepted: the
\* registry is append-only, so a layout checked once stays checked.
AcceptedLayoutStable ==
  [][\A k \in DOMAIN Structures : \A i \in DOMAIN Structures[k].members :
       LET t == Structures[k].members[i].typ IN
       size_in_bytes(TypeSizes', t) = size_in_bytes(TypeSizes, t)]_TypeSizes

\* The globals validate_data_section checked, not skipped and of a size
\* known to it, occupy pairwise disjoint bytes of the data section.
DataSectionDisjoint ==
  \A i, j \in 1..dsChecked :
    LET gi == DataSection[i]  gj == DataSection[j]
        si == size_in_bytes(dsReg, gi.typ)  sj == size_in_bytes(dsReg, gj.typ)
    IN (i # j /\ gi.flags # "SKIP_VALIDATE" /\ gj.flags # "SKIP_VALIDATE"
          /\ si # None /\ sj # None)
         => span(gi.off, si) \cap span(gj.off, sj) = {}

\* Every global validate_data_section accepted, not skipped and of a size
\* known to it, lies inside the data section: gen_hdr writes its offset
\* as 0x%04x from the data-section base pointer.
DataSectionInBounds ==
  \A i \in 1..dsChecked :
    LET g == DataSection[i]  sz == size_in_bytes(dsReg, g.typ) IN
    (g.flags # "SKIP_VALIDATE" /\ sz # None) => span(g.off, sz) \subseteq 0 .. (MemSize - 1)

\* Every text region TextData constructed lies in one address space, its
\* element count times its element size is exactly its byte span, and a
\* length the script declared is the length the region got.
RegionsConsistent ==
  \A k \in DOMAIN TextSection :
    LET r == TextSection[k] IN
    /\ same_space(r.end_addr, r.start_addr)
    /\ r.typ.array_len * size_in_bytes(TypeSizes, as_basetype(r.typ))
         = bytes_since(r.end_addr, r.start_addr)
    /\ \E t \in ParsedTextDecls :
         /\ r = [t EXCEPT !.typ.array_len = r.typ.array_len]
         /\ t.typ.array_len \in {None, r.typ.array_len}

\* A model load.annotations hands to a generator has had every global
\* overlap-checked (spec 4.3: the validator runs at construction).
LoadedIsValidated == status = "loaded" => dsChecked = Len(DataSection)

\* The annotation model as spec 4.3 promises it (module AnnotationModel):
\* the registry is hidden, and the validated count is the one the last
\* successful validate_data_section covered.
AM == INSTANCE AnnotationModel WITH
        segments <- CodeSegments, functions <- Functions, structs <- Structures,
        globals <- DataSection, regions <- TextSection, stacks <- Callstack,
        phase <- status, checked <- dsChecked,
        FuncDecls <- ParsedFuncDecls, StructDecls <- ParsedStructDecls,
        GlobalDecls <- ParsedGlobalDecls, TextDecls <- ParsedTextDecls,
        CallstackDecls <- ParsedCallstackDecls

\* Every run of the annotation script is a run of the promised model: each
\* entity a constructor accepts is valid against what came before it, the
\* registry never disagrees with the structs accepted, and a successful
\* validate_data_section only ever covers disjoint globals.
ImplementsAnnotationModel == AM!AMSpec

\* Every member of a constructed struct is of a primitive type or of a
\* struct constructed before it: a struct never contains itself.
StructsWellFounded ==
  \A k \in DOMAIN Structures : \A i \in DOMAIN Structures[k].members :
    LET b == Structures[k].members[i].typ.basetype IN
    b \in DOMAIN PrimSizes \/ \E j \in 1..(k - 1) : Structures[j].name = b

=============================================================================
