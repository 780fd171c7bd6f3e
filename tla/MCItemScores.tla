---------------------------- MODULE MCItemScores ----------------------------
EXTENDS ItemScores, TLC

CONSTANTS Cheap, Dear

MCDetails == {Cheap, Dear}

\* Against the budgets below: a quarter or half of the points, and all of them.
MCPrice == (Cheap :> 75) @@ (Dear :> 400)

MCBudgets == {150, 300}

\* A rate above 1, as in scoring.engine.spec.ts:339, is what the cap is for.
\* With this one the totals go from half a point above 65, over half a point
\* above 70, where a band ends, to 108.
MCStats == {[regretRate |-> 240, sampleSize |-> 20]}

Symmetry == Permutations(Scorers) \union Permutations(Requests)

=============================================================================
