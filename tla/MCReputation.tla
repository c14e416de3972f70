---------------------------- MODULE MCReputation ----------------------------
(* A small instance of Reputation: batches of two, so that an item can fail  *)
(* between two others' steps, and scores small enough to reach both ends.    *)
EXTENDS Reputation, TLC

Symmetry == Permutations(Check) \cup Permutations(Feedback) \cup Permutations(User)

=============================================================================
