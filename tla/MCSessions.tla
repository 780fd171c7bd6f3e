----------------------------- MODULE MCSessions -----------------------------
(* Model values and sets for the runs of Sessions.                         *)
EXTENDS Sessions, TLC

CONSTANTS lower, Mixed, other

\* Two spellings of one address; lower is its canonical form.
MCAddresses == {lower, Mixed, other}
MCCanonical == [a \in MCAddresses |-> IF a = other THEN other ELSE lower]

\* One spelling, for the runs that are not about addresses.
MCOneAddresses == {lower}
MCOneCanonical == [a \in MCOneAddresses |-> a]

Symmetry == Permutations(Tokens) \union Permutations(Requests)
                \union Permutations(Passwords)

=============================================================================
