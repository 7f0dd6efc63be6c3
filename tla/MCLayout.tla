------------------------------ MODULE MCLayout ------------------------------
(***************************************************************************)
(* Layout for all terminals up to 160 by 160, with words of 11 bits: wide  *)
(* enough to tell a wrapped value from every size that occurs.             *)
(***************************************************************************)
EXTENDS Layout
=============================================================================
