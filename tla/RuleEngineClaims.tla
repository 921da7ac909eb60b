-------------------------- MODULE RuleEngineClaims --------------------------
(***************************************************************************)
(* What the module docstring of portal/rules.py says of the alert rules    *)
(* and the code does not do.                                               *)
(***************************************************************************)
EXTENDS RuleEngine

\* An ask rule is "put to the vision-language model every N seconds": the loop
\* that does it survives whatever the operator does to the rules meanwhile.
AskLoopSurvives == pc["ask"] # "dead"
=============================================================================
