------------------------------ MODULE OpcodeTbl ------------------------------
(***************************************************************************)
(* The opcode table converter, src/scripts/opcode_tbl_cvt.py.  TBL is a    *)
(* string literal of X-macro lines                                         *)
(*     OP_AAA,     "aaa"     ) \                                           *)
(*       _(  OP_AAS,     "aas"     ) \                                     *)
(* in which every backslash-newline is a line continuation, so the lines   *)
(* run together as "...  )   _(  ...".  The script splits TBL at that      *)
(* separator and prints each entry as a four-column row.                   *)
(*                                                                         *)
(* Strings are token sequences as in module Text; runs of blanks inside a  *)
(* line are one blank, but the blanks the separator matches are kept       *)
(* exactly, since the split depends on them.                               *)
(***************************************************************************)
EXTENDS Text

CONSTANT Entries   \* candidate tables: sequences of [enum, name] words, one per line

VARIABLES
  lines,   \* the table as written, one [enum, name] per source line
  pc,      \* "split", "loop", "done" or "failed"
  rows,    \* the stripped pieces of TBL.split(')   _(')
  out      \* the rows printed so far

opc_vars == <<lines, pc, rows, out>>

\* The literal TBL: each line's entry, then, except after the last line,
\* the ") " that ends it and the "  _(  " that begins the next, joined by
\* the line continuation.  .rstrip() leaves the last entry as it is.
TblText(ls) ==
  FlattenSeq([i \in DOMAIN ls |->
                <<ls[i].enum, ",", " ", ls[i].name>>
                \o (IF i < Len(ls) THEN <<" ", ")", " ", " ", " ", "_(", " ">> ELSE <<>>)])

\* Mutant: the separator with two blanks, as if the continuation kept none.
SepTwoBlanks == <<")", " ", " ", "_(">>

\* ')   _(': a closing parenthesis, three blanks, the next '_('.
Sep == <<")", " ", " ", " ", "_(">>

\* Mutant: the fields are joined without their commas.
fmt_row_no_commas(elts) == FlattenSeq([i \in DOMAIN elts |-> elts[i] \o <<" ">>])

\* fmt_row(fmts, elts) with fmts = ['%-12s', '%-12s', '%-20s', '%-7s']:
\* every field padded on the right, all but the last with a comma.
fmt_row(elts) ==
  FlattenSeq([i \in DOMAIN elts |->
                elts[i] \o (IF i < Len(elts) THEN <<",">> ELSE <<>>) \o <<" ">>])

OpcInit ==
  /\ lines \in Entries
  /\ pc = "split"
  /\ rows = <<>>
  /\ out = <<>>

\* rows = [x.strip() for x in TBL.split(')   _(')]
SplitRows ==
  /\ pc = "split"
  /\ LET p == SplitOn(TblText(lines), Sep) IN rows' = [i \in DOMAIN p |-> Strip(p[i])]
  /\ pc' = "loop"
  /\ UNCHANGED <<lines, out>>

\* One iteration of 'for r in rows': unpacking r.split(',') into enum and
\* name raises ValueError unless there are exactly two pieces.
EmitRow ==
  /\ pc = "loop"
  /\ LET r     == rows[Len(out) + 1]
         parts == Split(r, ",")
     IN IF Len(parts) = 2
          THEN /\ out' = Append(out, fmt_row(<<Strip(parts[1]), Strip(parts[2]),
                                               <<"CODE_C_UNKNOWN">>, <<"\"\"">>>>))
               /\ pc' = IF Len(out) + 1 = Len(rows) THEN "done" ELSE "loop"
          ELSE pc' = "failed" /\ UNCHANGED out
  /\ UNCHANGED <<lines, rows>>

OpcNext == SplitRows \/ EmitRow

\* The script runs straight through: each statement, once reached, runs.
OpcSpec == OpcInit /\ [][OpcNext]_opc_vars /\ WF_opc_vars(SplitRows) /\ WF_opc_vars(EmitRow)

-----------------------------------------------------------------------------
(* Properties                                                              *)

\* The converter prints the whole table: it reaches its end without an
\* exception, whatever entries the table holds.
ConverterCompletes == <>(pc = "done")

\* Printed row i, split at its commas, is line i's enum and mnemonic string
\* followed by CODE_C_UNKNOWN and "": one row per line, in order.
RowsMatchLines ==
  pc = "done" =>
    /\ Len(out) = Len(lines)
    /\ \A i \in DOMAIN out :
         LET p == Split(out[i], ",") IN
         [k \in DOMAIN p |-> Strip(p[k])]
           = <<<<lines[i].enum>>, <<lines[i].name>>, <<"CODE_C_UNKNOWN">>, <<"\"\"">>>>

=============================================================================
