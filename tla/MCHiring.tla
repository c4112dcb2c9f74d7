------------------------------- MODULE MCHiring -------------------------------
(* Instances of Hiring for TLC.                                               *)
EXTENDS Hiring, TLC

CONSTANTS a1, a2, a3, c1, c2

OneApplication    == {a1}
TwoApplications   == {a1, a2}
ThreeApplications == {a1, a2, a3}
OneCall  == {c1}
TwoCalls == {c1, c2}

Aborts   == {"abort"}

\* Bound: the application whose offer expires is alone, since its expiry job reads
\* and writes nothing of another one; the others compete for the post.
ExpiringIsAlone ==
  \A a \in Expires, b \in Applications \ Expires : stage[a] = "NONE" \/ stage[b] = "NONE"

Symmetry == Permutations(Calls) \cup Permutations(Applications \ Expires)
===============================================================================
