-------------------------------- MODULE Text --------------------------------
(***************************************************************************)
(* Python's str.split and str.strip over strings modelled as sequences of  *)
(* tokens (a token is a character, or a word the code never looks inside). *)
(* The parsers and table converters of the repository are built from      *)
(* these two calls.                                                        *)
(***************************************************************************)
EXTENDS Integers, Sequences, SequencesExt

\* s.split(c) for a one-token separator: the pieces between the
\* occurrences of c, empty pieces included.
Split(s, c) ==
  LET at  == SelectSeq([i \in 1..Len(s) |-> i], LAMBDA i : s[i] = c)
      cut == <<0>> \o at \o <<Len(s) + 1>>
  IN [k \in 1..Len(at) + 1 |-> SubSeq(s, cut[k] + 1, cut[k+1] - 1)]

\* s.split(sep) for a separator of several tokens that cannot overlap
\* itself (no proper prefix of it is also a suffix), so that every
\* occurrence is a split point.
SplitOn(s, sep) ==
  LET at   == SelectSeq([i \in 1..(Len(s) - Len(sep) + 1) |-> i],
                        LAMBDA i : SubSeq(s, i, i + Len(sep) - 1) = sep)
      from(k) == IF k = 1 THEN 1 ELSE at[k-1] + Len(sep)
      to(k)   == IF k = Len(at) + 1 THEN Len(s) ELSE at[k] - 1
  IN [k \in 1..Len(at) + 1 |-> SubSeq(s, from(k), to(k))]

\* s.strip(): leading and trailing blanks removed.
Strip(s) ==
  LET keep == {i \in 1..Len(s) : s[i] # " "}
  IN IF keep = {} THEN <<>> ELSE SubSeq(s, Min(keep), Max(keep))

=============================================================================
