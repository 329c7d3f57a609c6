------------------------- MODULE MCInstrEncodingTbl -------------------------
(***************************************************************************)
(* Instantiates InstrEncodingTbl for TLC: every TBL of up to three rows    *)
(* drawn from five rows of the script's own table.  They give two rows of  *)
(* one op, a one-operand op, an op with no operands, and the one row shape *)
(* that uses the third operand column.                                     *)
(***************************************************************************)
EXTENDS InstrEncodingTbl

\* A row string as the table writes it: "(", the fields with blanks around
\* them and commas between them, ")".
RowText(fs) ==
  <<"(">> \o FlattenSeq([i \in DOMAIN fs |-> <<" ", fs[i], " ">> \o (IF i < Len(fs) THEN <<",">> ELSE <<>>)])
  \o <<")">>

MCRows ==
  { RowText(<<"OP_ADD", "0x00", "-1", "OPER_RM8", "OPER_R8", "-1">>),      \* line 3
    RowText(<<"OP_ADD", "0x02", "-1", "OPER_R8", "OPER_RM8", "-1">>),      \* line 5
    RowText(<<"OP_PUSH", "0x06", "-1", "OPER_ES", "-1", "-1">>),           \* line 9
    RowText(<<"OP_INVAL", "0x0f", "-1", "-1", "-1", "-1">>),               \* line 18
    RowText(<<"OP_DIV", "0xf6", "6", "OPER_AH", "OPER_AL", "OPER_RM8">>) } \* line 330

MCTables == BoundedSeq(MCRows, 3)

\* The words in Python's str order.
MCWordOrder ==
  <<"-1", "0x00", "0x02", "0x06", "0x0f", "0xf6", "6", "OPER_AH", "OPER_AL",
    "OPER_ES", "OPER_R8", "OPER_RM8", "OP_ADD", "OP_DIV", "OP_INVAL", "OP_PUSH">>
MCRank(w) == CHOOSE i \in DOMAIN MCWordOrder : MCWordOrder[i] = w
MCBefore(a, b) == MCRank(a[1]) < MCRank(b[1])

MCHasUnderscore(w) == TRUE   \* every op of the table is OP_<name>
MCMneumonic(w) ==
  CASE w = "OP_ADD" -> "add" [] w = "OP_DIV" -> "div"
    [] w = "OP_INVAL" -> "inval" [] w = "OP_PUSH" -> "push"

=============================================================================
