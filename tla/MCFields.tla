------------------------------ MODULE MCFields ------------------------------
(* Values of the constants of Fields for TLC. *)
EXTENDS Fields

MCNames == {<<"a">>}
=============================================================================
