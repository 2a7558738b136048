---------------------------- MODULE MCKekaClient ----------------------------
(***************************************************************************)
(* Instances of KekaClient for TLC.                                        *)
(***************************************************************************)
EXTENDS KekaClient
=============================================================================
