-------------------------- MODULE MCTaskSequencer --------------------------
(* Model-checking instances of TaskSequencer.                              *)
EXTENDS TaskSequencer, TLC

\* Names of generations are interchangeable, and so are two clients or two
\* producers: no property tells one from another.  Not for runs that check
\* liveness.
AllInterchangeable ==
    Permutations(Gen) \cup Permutations(Client) \cup Permutations(Producer)
    \cup Permutations(Recoverer)
=============================================================================
