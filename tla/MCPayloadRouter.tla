-------------------------- MODULE MCPayloadRouter --------------------------
(***************************************************************************)
(* The real registry over two plans and two images, so that two controllers *)
(* can agree, differ in the plan alone and differ in the image alone.       *)
(***************************************************************************)
EXTENDS PayloadRouter

CONSTANTS p1, p2, i1, i2

MCPlans  == {p1, p2}
MCImages == {i1, i2}
=============================================================================
