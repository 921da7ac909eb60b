---------------------------- MODULE MCRuleEngine ----------------------------
(* RuleEngine for TLC: alert ids are interchangeable.                      *)
EXTENDS RuleEngine, TLC

IdSymmetry == Permutations(Ids)
=============================================================================
