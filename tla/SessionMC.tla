----------------------------- MODULE SessionMC ------------------------------
(***************************************************************************)
(* Two browsers at one order desk.                                         *)
(***************************************************************************)
EXTENDS Session

CONSTANTS ann, bob

MCSessions == {ann, bob}
=============================================================================
