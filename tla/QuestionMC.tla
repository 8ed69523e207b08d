----------------------------- MODULE QuestionMC -----------------------------
(***************************************************************************)
(* An instance of Question: one of the lookups stands for the three, since *)
(* none of them changes anything.                                          *)
(***************************************************************************)
EXTENDS Question

MCLookups == {"search_catalog"}
=============================================================================
