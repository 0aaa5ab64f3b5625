------------------------- MODULE MCCandidateReplay -------------------------
(***************************************************************************)
(* Three candidates on one to three lanes (four threads), so that a lane    *)
(* replays one, two or three of them.  Layouts: a coded block right after a *)
(* copied one, a coded block before the copied one in front of it, two      *)
(* coded blocks that overlap, and a block whose history no block writes.    *)
(***************************************************************************)
EXTENDS CandidateReplay

Copied(at, len)   == [at |-> at, len |-> len, coded |-> FALSE]
CodedAt(at, len)  == [at |-> at, len |-> len, coded |-> TRUE]

MCLayouts == {<<Copied(0, 1), CodedAt(1, 1)>>,
              <<CodedAt(1, 2), Copied(0, 1)>>,
              <<CodedAt(0, 2), CodedAt(1, 2)>>,
              <<CodedAt(2, 1)>>}
=============================================================================
