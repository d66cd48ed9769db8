--------------------------- MODULE MCAutomations ---------------------------
(* Automations with two runs, which overlap when one is "Run now".          *)
EXTENDS Automations, TLC
=============================================================================
