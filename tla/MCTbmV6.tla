------------------------------ MODULE MCTbmV6 ------------------------------
(***************************************************************************)
(* A small instance of TbmV6 for TLC.                                      *)
(***************************************************************************)
EXTENDS TbmV6

\* Two long routes below one entry, and a short one above it.
LongInputs == {<<0>>, <<0,1,1>>, <<0,1,0,0,1>>}

=============================================================================
