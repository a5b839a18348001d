------------------------ MODULE MCWriteAuthorization ------------------------
EXTENDS WriteAuthorization, TLC

\* No definition singles out a member of these sets and no property is a
\* liveness property, so they are all symmetric.
Symmetry == Permutations(Auths) \cup Permutations(Cards) \cup Permutations(Keys)
            \cup Permutations(Contexts) \cup Permutations(Ops)
=============================================================================
