----------------------------- MODULE MCSessions -----------------------------
(* A small instance of Sessions: enough requests for a registration, two     *)
(* overlapping refreshes of its token and a late one.                        *)
EXTENDS Sessions, TLC

Symmetry == Permutations(Request) \cup Permutations(Jti)

=============================================================================
