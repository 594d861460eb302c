-------------------------- MODULE MCRuntimePolicy --------------------------
EXTENDS RuntimePolicy, TLC

CONSTANTS a1, a2

TwoArtifacts == {a1, a2}
\* One that sees both patterns and passes the first, one whose measurements
\* do not bear out its claim.
MixedEvidence ==
  {[seen |-> {a1, a2}, passing |-> {a1}, measured |-> TRUE, claimed |-> TRUE],
   [seen |-> {a1, a2}, passing |-> {a2}, measured |-> FALSE, claimed |-> TRUE]}
Subjects == Permutations(Subject)
=============================================================================
