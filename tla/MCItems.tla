------------------------------ MODULE MCItems -------------------------------
EXTENDS Items, TLC

Symmetry == Permutations(Users) \union Permutations(Items)
            \union Permutations(Requests) \union Permutations(Details)

=============================================================================
