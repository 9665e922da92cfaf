-------------------------- MODULE MCStandbyCandidate ---------------------------
EXTENDS StandbyCandidate, TLC

\* The processes are alike, and so are the candidates.
Symmetry == Permutations(Process) \cup Permutations(Candidate)
================================================================================
