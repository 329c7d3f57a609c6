# TLA+ models of the dis86 / hydra annotation compiler

These modules model the annotation compiler under `src/hydra/py/hydra/` and
`src/confgen/hydra/gen/`. The compiler takes a Python annotation script that
describes the memory layout of a real-mode binary. It builds a validated model
from the script and emits one of three artifacts: the hydra runtime header,
the hydra runtime source, or the dis86 disassembler configuration. TLC checks
the models.

## 1. Inventory

### Components

| Component | Source | State it keeps | Operations |
|---|---|---|---|
| TypeExpr | `annotations.py` 1-71 | `_TypeSizes`, the process-wide registry (name → byte size). It starts with u8/i8/u16/i16/u32/i32 and only `Struct` adds to it. | `Type.from_str`, `as_basetype`, `size_in_bytes`, `__str__`, `fmt_ctype_str` |
| AddrModel | `annotations.py` 73-104 | none | `Addr(str)`, `bytes_since` (asserts that both addresses share overlay flag and segment), the unused `Off` |
| AnnotationModel | `annotations.py` 106-226, `load.py` | `FUNCTION_ALL_NAMES` (process-wide); the script's six lists | `Function`, `Struct`, `Global`, `TextData`, `CallstackConf`, `CodeSegment` constructors; `validate_data_section` |
| RuntimeGlueGenerator | `appdata.py` | none | `build_func_data`, `gen_hdr`, `gen_src` |
| ConfigGenerator | `dis86.py` | the module-global `out` stream | `gen_conf` and its five block emitters |
| Driver | `generate.py`, `load.py` | none | `load.annotations` runs the script; `generate` calls one generator |
| OpcodeTableConverter | `scripts/opcode_tbl_cvt.py` | the `TBL` literal, `rows` | split `TBL` at `')   _('`, print each entry with `fmt_row` |
| InstrEncodingTableConverter | `old/v2/scripts/instr_encoding_tbl_cvt.py` | `TBL`, `tbl` | `pre_process`, `emit_c_ops`, `emit_c_opers`, `emit_c_fmt` in that order |
| Launcher, crash reader | `run.py`, `crash_info.py` | none | exec dosbox-x; print a backtrace |

### How the components interact

There are no threads, no callbacks and no messages. Data flows one way:
script → constructors → lists → one generator → text. Two pieces of state are
shared between calls, and both persist across the whole script:

* `_TypeSizes`. `Struct.__init__` writes it, and it does so *before* it checks
  the members. Every later size lookup reads it: struct members,
  `validate_data_section`, and `TextData`'s length inference.
* `FUNCTION_ALL_NAMES`. Only `Function.__init__` reads and writes it.

The script decides the order of its statements. It also decides whether
`validate_data_section` runs at all, and when. This order is where the hard
behaviour lives.

### What is hard here

* **Statement order.** A size depends on which structs were registered
  earlier. Registration happens before validation, so a struct sees itself.
  A global typed with a struct declared later is skipped by the overlap check.
* **Numeric edges.** `int('-1')` parses, so array lengths and sizes can be
  negative. Python's `mem[-1]` wraps instead of failing. Unknown or zero
  element sizes reach `%` as `None` or 0.
* **Derived names.** `name + "_OVERLAY"` and `name[2:]` produce names that
  nothing checks for uniqueness.

### What makes each component correct

* **AnnotationModel.** Accepted structs are exactly tiled by their members.
  Accepted layouts never drift. Validated globals are disjoint and inside the
  data section. Every region's length times its element size equals its
  span. Structs are well founded. A model handed to a generator has been
  validated.
* **RuntimeGlueGenerator.** Call stubs and metadata list exactly the expanded
  targets, in order. Emitted names are unique. Emitted addresses keep their
  overlay flag.
* **ConfigGenerator.** The config mirrors the model, with inferred region
  lengths.

## 2. Modules

| Module | Models | Composes |
|---|---|---|
| `TypeExpr.tla` | `Type`, the registry lookup, `as_basetype`, `size_in_bytes` (operators) | - |
| `Annotations.tla` | The script as a state machine: one action per constructor, one for `validate_data_section`, `Loaded` for `load.annotations` returning. Variables are `_TypeSizes` (`TypeSizes`), `FUNCTION_ALL_NAMES`, the six lists, `status`/`error` (the exception that ended the run), and the history variables `dsChecked`/`dsReg`. Constructors take types and addresses as literals and parse them. | Literals (and so TypeExpr, Text) |
| `AppData.tla` | `FuncData`, `build_func_data` (RECURSIVE, as the loop), `gen_hdr`, `gen_src`. Each generator returns the emitted rows as records. | Annotations |
| `Dis86.tla` | `gen_conf` and its five block emitters, one operator each | Annotations |
| `Hydra.tla` | `generate.py`: after `Loaded`, one `Generate(mode)` writes `out` | AppData, Dis86 |
| `AnnotationModel.tla` | What spec 3 and 4.3 promise of the model: six append-only lists, each entity valid against what came before it; no registry and no cursor walk | TypeExpr |
| `Text.tla` | `str.split` (one token, or a non-self-overlapping separator) and `str.strip` over token sequences | - |
| `Literals.tla` | `Type.from_str`, `Type.__str__`, `Addr.__init__`, `Addr.__str__`, and `int()` as a grammar (operators, no state) | TypeExpr, Text |
| `LiteralUse.tla` | One literal on its own: parsed (`FromStr`, `ParseAddr`), or kept raw as `TextData` keeps `access_at` (`KeepAccess`), and printed (`Show`) | Literals |
| `OpcodeTbl.tla` | `opcode_tbl_cvt.py`: `TBL` as its line-continued text, `SplitRows`, one `EmitRow` per loop iteration | Text |
| `InstrEncodingTbl.tla` | `instr_encoding_tbl_cvt.py`: one action per top-level statement, in program order | Text |
| `MCAnnotations.tla`, `MCHydra.tla`, `MCLiterals.tla`, `MCOpcodeTbl.tla`, `MCInstrEncodingTbl.tla` | Constants for TLC | - |

How the state and actions correspond to the code:

* **Each constructor is one action.** Its guard is `Running` (the script is
  still executing). It applies the constructor's checks in the code's order,
  and the first failing check ends the run with that exception (`Fail`).
  `struct_error`, `text_error` and `validate_globals`/`mark_range` are the
  loops of `Struct.__init__`, `TextData.__init__` and `validate_data_section`,
  written as recursive operators that keep the code's order of checks.
* **Constructors parse their literals.** The script passes types and
  addresses as strings. Each action parses them with the `Literals`
  operators, in the order the constructor does: `Function` calls
  `_verify_unique` (which records the name), then `Addr` on start, end and
  entry (`Addr(x) if x else None`, so `""` gives no address). Each
  `Member(...)` parses its type before `Struct(...)` runs. `TextData` parses
  its type, start and end, and keeps `access_at` as it is. `CallstackConf`
  checks the kind first, then parses the address. A parse error ends the
  run like any other exception. A literal's parse does not depend on the
  state, so `TypeOf` and `AddrOf` tabulate `from_str` and `addr_parse` once
  over the literals the MC module declares, and the actions look them up.
  This keeps `annotations_core` at the speed it had with pre-parsed
  arguments.
* **`NewStruct` registers the name.** It does this even when the member walk
  then raises, as line 185 does.
* **`NewTextData` stores the inferred length** in the region's type, as
  line 170 does.
* **The coverage map shrinks.** It has `MemSize` slots instead of 1<<16, and
  `slot(i)` is Python's negative indexing.
* **Names are abstract.** Function names in `MCHydra` are records (`F_`
  prefix, stem, number of `_OVERLAY` suffixes). `OverlayName`, `HasFPrefix`
  and `DropFPrefix` are the three string operations the generator applies.
* **Strings are token sequences.** In `Literals` a token is a character,
  except `overlay_`, which the code only ever compares whole. In the
  annotation script a type name (`u8`, `A_t`) is one token too, so a
  parsed basetype is the one-token sequence `<<"u8">>`. The registry and
  the struct names use the same values. In the table
  converters a token is a word, a comma, a parenthesis or one blank. A
  format's pad width is layout and becomes one blank on the side it pads.
  The blanks of the `')   _('` separator are kept exactly, because the split
  depends on them.
* **`int()` is a grammar.** An optional sign, for base 16 an optional `0x`,
  then one or more digits. Whitespace and `_` are outside the alphabets.
* **Table inputs are real.** The converters run on tables of up to three
  rows taken from the real `TBL` (opcode lines 3, 4 and 95; encoding rows on
  lines 3, 5, 9, 18 and 330). The error branches (assert, `IndexError`,
  `ValueError`) are modelled, but no real table reaches them.
* **Sort order and mnemonics are constants.** `Before`, `HasUnderscore` and
  `Mneumonic` in `InstrEncodingTbl` are string operations on a word, given
  per word in the MC module.

### Refinement

`Annotations` defines `AM == INSTANCE AnnotationModel WITH segments <-
CodeSegments, functions <- Functions, structs <- Structures, globals <-
DataSection, regions <- TextSection, stacks <- Callstack, phase <- status,
checked <- dsChecked`. `TypeSizes`, `FUNCTION_ALL_NAMES`, `error`, `dsReg`
and `calls` are hidden.

`AnnotationModel` knows no registry. A size is a primitive size or the
declared size of a struct already in the list. Its declarations are the
parsed forms of the script's arguments that parse (`ParsedFuncDecls`, ...). A struct joins only if its
name is new and ends in `_t`, and its members tile it (`Packed`, a set
statement, not the cursor walk). A region joins with the length its span
implies. `Check` sets `checked` only when the globals are disjoint. A failed
constructor, or the end of the script, is `Stop`.

The run `annotations_core` also checks `ImplementsAnnotationModel ==
AM!AMSpec`, on its own domain, which leaves out `u8[-1]`.
With `u8[-1]` the refinement fails, for the reason `struct_negative_len`
shows.

## 3. Runs

| Run | cfg | Expect | Checks |
|---|---|---|---|
| annotations_core | MCAnnotations.cfg | pass | TypeOK, StructsTiled, DataSectionDisjoint, RegionsConsistent, AcceptedLayoutStable, ImplementsAnnotationModel |
| struct_negative_len | MCAnnotations_negative_len.cfg | violation | StructsTiled with `u8[-1]` members |
| struct_self_reference | MCAnnotations_self_struct.cfg | violation | StructsWellFounded |
| data_section_unvalidated | MCAnnotations_unvalidated.cfg | violation | LoadedIsValidated |
| data_section_negative_offset | MCAnnotations_negative_offset.cfg | violation | DataSectionInBounds |
| generators | MCHydra.cfg | pass | CallTargetsResolve, HeaderStructsMatchC |
| header_declarations | MCHydra_header_decls.cfg | violation | HeaderDeclarationsSound |
| callstack_overlay_dropped | MCHydra_callstack_overlay.cfg | violation | CallstackAddrsPreserved |
| literals | MCLiterals.cfg | pass | TypeRoundTrip, AddrRoundTrip, FromStrAcceptsGrammar |
| addr_literals_unchecked | MCLiterals_offset_range.cfg | violation | AddrLiteralsChecked |
| opcode_table | MCOpcodeTbl.cfg | pass | RowsMatchLines, ConverterCompletes |
| encoding_table | MCInstrEncodingTbl.cfg | pass | EnumsDeclareUsedNames |

What the runs show:

* **Passing properties.**
  * `StructsTiled` checks the code's cursor walk against a set-based
    reference definition (`Tiles`). The reference is evaluated under the
    registry *as it is now*, so it also catches a size that drifts after a
    redefinition.
  * `AcceptedLayoutStable` is the action form: no step changes the size of a
    member of an accepted struct.
  * `DataSectionDisjoint` is stated over the sizes the validator knew
    (`dsReg`). Under those sizes it is exactly what the code promises. A
    global whose struct is declared after the call has no known size and
    is skipped with a warning (the gap spec 4.3 accepts); no property
    covers that skip.
  * `CallTargetsResolve` compares both emitted tables with the spec's own
    per-function statement of target expansion (`Targets`, `FlattenSeq`).
  * `HeaderStructsMatchC` lays out every struct the header prints the way
    a C compiler lays out a packed struct (`CSizes`, `CTypeSize`): a struct
    name is complete only after its own declaration, and a member's offset
    is the sum of the sizes before it. Every member lands at the offset its
    `/* 0x.. */` comment prints, and the `static_assert` size holds. This
    ties the Python cursor walk to the C compiler's view. The mutant
    `member_walk_no_gap_check` drops the gap test and breaks it.
  * `ImplementsAnnotationModel`: the registry, the cursor walk and the
    coverage map admit only what the abstract model admits.
  * `TypeRoundTrip` and `AddrRoundTrip`: every literal of up to five tokens
    that parses prints back to a string that parses to the same value.
    `FromStrAcceptsGrammar`: `from_str` accepts exactly the type grammar,
    signs included.
  * `RowsMatchLines`: a printed opcode row splits back into the fields of
    its source line. `EnumsDeclareUsedNames`: every op and
    operand a row names is declared exactly once.
  * `ConverterCompletes`: the opcode converter reaches its end.
* **Violations.** Each one is a finding in `PROJECT.json`:
  * negative array lengths defeat the packing check;
  * a struct may contain itself;
  * nothing but the script calls `validate_data_section`;
  * negative offsets wrap;
  * `HeaderDeclarationsSound` is the conjunction of `CallstubNamesUnique`,
    `HookNamesUnique` and `HookedFunctionsCallable`. Under
    `MCHeaderFuncDecls` each conjunct is violated on its own: `_OVERLAY`
    names and `F_`-stripped hook names can collide, and a reimplemented
    call location gets a hook but no call stub. TLC reports the shortest of
    the three, the call location;
  * callstack overlay flags are dropped;
  * `AddrLiteralsChecked`: every address literal the model keeps must be
    a valid `Addr`. It is violated in two ways. `Addr` accepts an offset
    outside 0..0xffff (`'1:-1'`). `TextData` stores `access_at` without
    parsing it, and the dis86 generator prints it as it is (`'-'`). TLC
    reports the first of the two. Restricting the initial literal to the
    `access` kind makes it report the second.

### Bounds and why they are enough

* **`MaxCalls = 3` script statements.** Every property here needs at most
  three: define, nest, redefine; or two functions and a generate.
* **`MemSize = 4`.** Offsets are -1, 0, 1 and 3. Together with sizes 1 and 2
  this covers wrap-around, an exact fit, overlap and running past the end.
* **Struct sizes and members.** Sizes run 0..3, with up to two members at
  offsets 0..2. The member types are u8, u16, A_t, u8[] and u8[0], plus
  u8[-1] in the violation run. This gives gaps, overlaps, unsized members,
  zero-length members, nesting and self-reference.
* **Text regions.** Spans of 0, 3 and 4 bytes, plus a negative span and
  another segment or overlay. Element sizes are 1, 2 and a struct's size,
  including 0.
* **Malformed script literals.** `MCAnnotations` adds one call per
  constructor whose literal does not parse: a `Global` and a `Member` typed
  `u8[`, a `TextData` typed `u8[` and one ending at `1` (no `:`), a
  `Function` starting at `1`, and a `CallstackConf` at `1`. One per kind is
  enough: every parse error ends the run the same way, and `LiteralUse`
  checks the parsers over all short strings. `MCHydra` adds one `Function`
  whose end address is `""`.
* **Literals.** All strings of up to five tokens over
  `a [ ] 0 1 -` (types) and `overlay_ : 0 1 f - x` (addresses). That covers
  a second `[`, a missing `]`, signs, `0x` and a negative offset.
* **Tables.** Every sequence of up to three rows from five real encoding
  rows, and every non-empty sequence of up to three of three real opcode
  lines. Duplicate ops, repeated and `-1` operands, and first/last-line
  handling all occur.
* **Header structs in `generators`.** `A_t` members are u8, u16 and
  u8[0]; `B_t` members may also be `A_t`. An `A_t` that contains an `A_t`
  is accepted by the code, but C rejects it. That case is the
  `struct_self_reference` violation, so the passing run leaves it out.
* **Domain split for `u8[-1]`.** The passing run leaves `u8[-1]` out of the
  member types. Its effect is the subject of the `struct_negative_len`
  violation run.

### Fairness and liveness

* **The annotation script and the generators assume no fairness.** The
  script may stop after any statement, so `loaded` is one of three possible
  ends and nothing must eventually happen. Every behaviour ends in
  `failed`, `loaded` or a generated `out` within `MaxCalls + 2` steps. Those
  end states are real stops, which is why the configs say
  `CHECK_DEADLOCK FALSE`.
* **`OpcodeTbl` assumes weak fairness of `SplitRows` and `EmitRow`.** The
  converter is a straight-line script with no input and no waiting: once a
  statement is reached it runs. `ConverterCompletes == <>(pc = "done")`
  then says the script ends without an exception. The mutant separator
  `SepTwoBlanks` breaks this: the unsplit text fails the unpack. The same
  end is reachable in `InstrEncodingTbl` only for tables without bad rows,
  and its properties are stated at `pc = "done"`.

## 4. Not modelled

* `fmt_ctype_str` and pad widths: layout only. In `Annotations` and the
  generators, inputs are parsed values; `Literals` checks the parsers
  separately.
* argparse and file output in `generate.py`.
* `run.py` builds a dosbox-x command line and execs it. `crash_info.py`
  runs `find` and prints a JSON backtrace. Both are I/O with no state a
  property could be about.
* The fixed C text the encoding converter prints around its rows.

## 5. Further work

1. **Global macros.** `gen_hdr` emits a pointer macro per global (cast,
   deref). A property could compare each macro's C view under `CSizes` with
   the bytes `validate_data_section` reserved. While the struct sizes agree
   with C (`HeaderStructsMatchC`), this adds little.
2. **Larger instances** of the annotation script (`MaxCalls = 4`). At three
   statements `annotations_core` takes about 2.5 minutes, and each extra
   statement multiplies the state space many times over.
