------------------------------- MODULE MCNode --------------------------------
(* Node for TLC, together with the decision of a row-level rule, which has a   *)
(* recursive definition and so stays out of the modules with proofs.  Without  *)
(* a reduction by symmetry, so that liveness can be checked.                   *)
EXTENDS Node

CONSTANT MaxTokens

VARIABLES tokens, auth

RuleTokens == {"true", "auth", "uid", ".", "!", "==", "&&", "||", "(", ")"}

\* Four years of two months; only the fourth has a third day in its first month.
FourYears == <<0, 2, 5, 7, 10, 12, 15, 18, 21>>
TwoYears == 0..39
Part(lo, hi, step) == [lo |-> lo, hi |-> hi, step |-> step]
Star == {Part(0, 0, 0)}
Only(v) == {Part(v, v, 1)}
Expressions == [minute : {Star, Only(1)}, hour : {Star, Only(0)},
                dom : {Star, Only(1), Only(3), {Part(1, 3, 2)}},
                month : {Star, Only(1)}, dow : {Star, Only(1)}]

Rule == INSTANCE Rules

ruleVars == <<tokens, auth>>

MCInit ==
  /\ focus \in Parts \cup {"rules"} /\ PartsInit /\ Rule!RuleInit
  /\ focus = "rules" \/ auth = <<"map", "map[]">>

RuleStep ==
  /\ focus = "rules" /\ Rule!RuleNext
  /\ UNCHANGED nodeVars

MCNext == (Next /\ UNCHANGED ruleVars) \/ RuleStep

MCSpec == MCInit /\ [][MCNext]_<<nodeVars, ruleVars>> /\ Worker!WorkerFairness

(* A rule decides what its grammar says, and is of its types.                  *)
DecisionsAreRight ==
  focus = "rules" => Rule!RuleTypeOK /\ Rule!DecidesAsWritten
==============================================================================
