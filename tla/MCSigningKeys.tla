--------------------------- MODULE MCSigningKeys ---------------------------
\* The keystore, for TLC.
EXTENDS SigningKeys, TLC

\* Keys and replicas differ only in what happens to them.
KeySymmetry == Permutations(Keys) \cup Permutations(Replicas)

\* Bound: tokens are signed only while one of the keys has not been generated.
SignEarly ==
    (\E c \in Issuers : holds[c] # NoKey) \/ (\E k \in Keys : life[k] > 0) =>
        \E k \in Keys : state[k] = "NONE"
=============================================================================
