-------------------------------- MODULE Lists --------------------------------
(***************************************************************************)
(* The list comprehensions of the code.  A filter is a fold: SelectSeq is  *)
(* a definition the proof system cannot open.                              *)
(***************************************************************************)
EXTENDS Integers, SequencesExt

\* [x for x in s if x in keep]
Only(s, keep) ==
    FoldLeft(LAMBDA kept, x : IF x \in keep THEN Append(kept, x) ELSE kept, <<>>, s)
=============================================================================
