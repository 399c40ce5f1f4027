------------------------------ MODULE MCRuleGraphs ------------------------------
\* Instances of RuleGraphs for TLC.
EXTENDS RuleGraphs, TLC

\* The accounts are interchangeable.
Permutable == Permutations(Accounts)
=============================================================================
