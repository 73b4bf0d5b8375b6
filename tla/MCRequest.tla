------------------------------ MODULE MCRequest ------------------------------
(***************************************************************************)
(* Instances of SourcesRequest for TLC.                                    *)
(***************************************************************************)
EXTENDS SourcesRequest

\* Numbers on both sides of 1, and what is no number; the default is 3.
MCSettings == {-1, 0, 1, 2, None}
=============================================================================
