--------------------------- MODULE MCNestedReplay ---------------------------
(***************************************************************************)
(* Up to three tries per set of maps, as contexts times keys, replayed by  *)
(* one or two lanes.  Three of them may decode, each to any of three       *)
(* structured and three unstructured outputs: enough to overfill a batch   *)
(* of two, and a result of one, with either sort.                          *)
(***************************************************************************)
EXTENDS NestedReplay

OutputSymmetry == Permutations(Structured) \union Permutations(Unstructured)
=============================================================================
