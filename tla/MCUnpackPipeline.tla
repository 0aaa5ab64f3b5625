-------------------------- MODULE MCUnpackPipeline --------------------------
(***************************************************************************)
(* Every request: dry run or not, and each kind of output path.            *)
(***************************************************************************)
EXTENDS UnpackPipeline

AllRequests == RequestType

=============================================================================
