------------------------------- MODULE MCCacher -------------------------------
(***************************************************************************)
(* Instances of Cacher for TLC.                                            *)
(***************************************************************************)
EXTENDS Cacher
===============================================================================
