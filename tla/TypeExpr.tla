------------------------------ MODULE TypeExpr ------------------------------
(***************************************************************************)
(* The Type class of src/hydra/py/hydra/annotations.py and the size lookup *)
(* in the process-wide type registry _TypeSizes.                           *)
(*                                                                         *)
(* A type is the record Type.__init__ builds: a basetype name, an array    *)
(* flag and an array length that is None when the text gave no length      *)
(* ("u8[]").  The registry is passed in as a function from type names to   *)
(* byte sizes, because Struct.__init__ grows it while the script runs.     *)
(***************************************************************************)
EXTENDS Integers

CONSTANTS
  None,       \* Python's None: an absent length, an absent size
  PrimSizes   \* the initial contents of _TypeSizes: u8, i8, u16, ... -> size

ASSUME None \notin Int
ASSUME \A n \in DOMAIN PrimSizes : PrimSizes[n] \in Nat \ {0}

\* Type(basetype, is_array, array_len), as Type.__init__ stores it.
Type(b, arr, len) == [basetype |-> b, is_array |-> arr, array_len |-> len]

\* basetype_size_in_bytes: the registry lookup, None for an unknown name.
basetype_size_in_bytes(reg, b) == IF b \in DOMAIN reg THEN reg[b] ELSE None

\* Type.as_basetype: the element type of an array type.
as_basetype(t) == Type(t.basetype, FALSE, None)

\* Type.size_in_bytes: a scalar's registry size; an array's element size
\* times its length when both are known, else None.  The length is taken
\* as parsed, so a negative length gives a negative size.
size_in_bytes(reg, t) ==
  LET basesz == basetype_size_in_bytes(reg, t.basetype) IN
  CASE ~t.is_array           -> basesz
    [] basesz = None         -> None
    [] t.array_len = None    -> None
    [] OTHER                 -> basesz * t.array_len

=============================================================================
