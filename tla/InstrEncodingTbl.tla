--------------------------- MODULE InstrEncodingTbl ---------------------------
(***************************************************************************)
(* The instruction encoding table converter,                               *)
(* src/old/v2/scripts/instr_encoding_tbl_cvt.py.  The script parses TBL,   *)
(* a list of row strings "(  OP_ADD, 0x00, -1, OPER_RM8, OPER_R8, -1 )",   *)
(* and prints three C fragments: the op enum with its mnemonic array, the  *)
(* operand enum, and the instr_tbl rows.  Its statements run in program    *)
(* order, one action each; 'pc' names the next one.                        *)
(*                                                                         *)
(* A row string is a sequence of tokens: "(", ")", ",", the blank " ", and *)
(* the words between them.  A format pads a field with blanks on one side; *)
(* the width is layout and is abstracted to a single blank.  The sort      *)
(* order of words and the mnemonic of an op are string operations on a     *)
(* word and are constants.                                                 *)
(***************************************************************************)
EXTENDS Text, FiniteSets

CONSTANTS
  Tables,          \* the TBL lists the model runs the script on
  Before(_, _),    \* a < b on words, as Python compares str
  HasUnderscore(_),\* len(op.split('_')) > 1
  Mneumonic(_)     \* op.split('_')[1].lower()

VARIABLES
  TBL,        \* the table the script holds
  pc,         \* "pre", "ops", "opers", "fmt", "done", or "failed"
  tbl,        \* pre_process(): one sequence of six fields per row
  ops_out,    \* the INSTR_OP_ARRAY entries printed: [op, mneumonic]
  opers_out,  \* the operand enumerators printed
  fmt_out     \* the instr_tbl rows printed

enc_vars == <<TBL, pc, tbl, ops_out, opers_out, fmt_out>>

\* The fields of one row string: t[1:-1].split(','), each stripped.
row_fields(t) == LET p == Split(SubSeq(t, 2, Len(t) - 1), ",") IN [i \in DOMAIN p |-> Strip(p[i])]

NoOper == <<"-1">>

\* fmt_row(fmts, elts): every field but the last formatted with a comma
\* appended, then the last one.  A format is [lead, trail]: whether it pads
\* on the left ('%4s', or a literal blank before it) or on the right ('%-12s').
fmt_row(fmts, elts) ==
  LET cell(i) == IF i < Len(elts) THEN elts[i] \o <<",">> ELSE elts[i]
  IN FlattenSeq([i \in DOMAIN elts |->
                   (IF fmts[i].lead THEN <<" ">> ELSE <<>>) \o cell(i)
                   \o (IF fmts[i].trail THEN <<" ">> ELSE <<>>)])

PadRight == [lead |-> FALSE, trail |-> TRUE]   \* '%-14s'
PadLeft == [lead |-> TRUE, trail |-> FALSE]   \* '%4s'
PadBoth == [lead |-> TRUE, trail |-> TRUE]    \* '   %-14s'

\* emit_c_ops's list: sorted(list(set(row[0] for row in tbl))).
all_ops(t) == SetToSortSeq({t[i][1] : i \in DOMAIN t}, Before)

\* Mutant: the third operand column is not collected.
all_opers_two_columns(t) ==
  SetToSortSeq({t[i][c] : i \in DOMAIN t, c \in 4..5} \ {NoOper}, Before)

\* emit_c_opers's list: every operand column entry other than '-1',
\* deduplicated and sorted.
all_opers(t) ==
  SetToSortSeq({t[i][c] : i \in DOMAIN t, c \in 4..6} \ {NoOper}, Before)

EncInit ==
  /\ TBL \in Tables
  /\ pc = "pre"
  /\ tbl = <<>> /\ ops_out = <<>> /\ opers_out = <<>> /\ fmt_out = <<>>

\* pre_process(): the assertion stops the script before it prints anything.
PreProcess ==
  /\ pc = "pre"
  /\ LET rows == [i \in DOMAIN TBL |-> row_fields(TBL[i])] IN
     IF \A i \in DOMAIN rows : Len(rows[i]) = 6
       THEN pc' = "ops" /\ tbl' = rows
       ELSE pc' = "failed" /\ UNCHANGED tbl
  /\ UNCHANGED <<TBL, ops_out, opers_out, fmt_out>>

\* emit_c_ops(tbl): one INSTR_OP_ARRAY entry per op; an op without '_'
\* raises IndexError after the entries before it are printed.
EmitCOps ==
  /\ pc = "ops"
  /\ LET ops  == all_ops(tbl)
         bad  == {k \in DOMAIN ops : ~HasUnderscore(ops[k][1])}
         upto == IF bad = {} THEN Len(ops) ELSE Min(bad) - 1
     IN /\ ops_out' = [k \in 1..upto |-> [op |-> ops[k], mn |-> Mneumonic(ops[k][1])]]
        /\ pc' = IF bad = {} THEN "opers" ELSE "failed"
  /\ UNCHANGED <<TBL, tbl, opers_out, fmt_out>>

\* emit_c_opers(tbl)
EmitCOpers ==
  /\ pc = "opers"
  /\ opers_out' = all_opers(tbl)
  /\ pc' = "fmt"
  /\ UNCHANGED <<TBL, tbl, ops_out, fmt_out>>

\* emit_c_fmt(tbl): fmts = ['%-14s', '%-9s', '%4s', '   %-14s', '%-14s', '%-14s'].
EmitCFmt ==
  /\ pc = "fmt"
  /\ fmt_out' = [i \in DOMAIN tbl |-> fmt_row(<<PadRight, PadRight, PadLeft, PadBoth, PadRight, PadRight>>, tbl[i])]
  /\ pc' = "done"
  /\ UNCHANGED <<TBL, tbl, ops_out, opers_out>>

EncNext == PreProcess \/ EmitCOps \/ EmitCOpers \/ EmitCFmt

EncSpec == EncInit /\ [][EncNext]_enc_vars

-----------------------------------------------------------------------------
(* Properties                                                              *)

\* The generated C compiles against its own enums: every op and every
\* operand an instr_tbl row names is declared exactly once, and the '-1'
\* placeholder is never declared.
EnumsDeclareUsedNames ==
  pc = "done" =>
    /\ \A i \in DOMAIN tbl :
         /\ Cardinality({k \in DOMAIN ops_out : ops_out[k].op = tbl[i][1]}) = 1
         /\ \A c \in 4..6 : tbl[i][c] # NoOper =>
              Cardinality({k \in DOMAIN opers_out : opers_out[k] = tbl[i][c]}) = 1
    /\ \A k \in DOMAIN opers_out : opers_out[k] # NoOper

=============================================================================
