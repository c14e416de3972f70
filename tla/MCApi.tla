------------------------------- MODULE MCApi --------------------------------
(* A small instance of Api.  The unit of probability is a third of a         *)
(* hundredth, and replies are rounded to hundredths.                         *)
EXTENDS Api, TLC

CONSTANTS Writing, Reading

MCRequest == Writing \cup Reading

MCScore == (0 :> 15) @@ (1 :> 165) @@ (2 :> 246) @@ (3 :> 282)

(* As many hits of two rules by either classifier; more of the later rule by *)
(* the mock, where the pipeline has no hit and its model objects by a third  *)
(* of a hundredth; and a text nobody objects to.                             *)
MCText ==
  {[byMock |-> <<1, 1, 0>>, byRules |-> <<0, 1, 1>>, model |-> 0],
   [byMock |-> <<1, 2, 0>>, byRules |-> <<0, 0, 0>>, model |-> 241],
   [byMock |-> <<0, 0, 0>>, byRules |-> <<0, 0, 0>>, model |-> 0]}

(* The steps followed.  The limiter only lets a request in or not, whatever  *)
(* is behind it, so with a limit requests are followed up to the handlers.   *)
(* The tables do not depend on each other, readers and requests that leave   *)
(* no row change nothing: without a limit two checks, or one write to        *)
(* another table, and a reader are followed, up to the reader's answer.      *)
(* Neither time, the limiter nor a reader depends on which classifier has    *)
(* answered, so the mock is followed at one time, without a limit and alone. *)
Apart ==
  /\ perMinute > 0 => UNCHANGED <<route, reply>>
  /\ mock => perMinute = 0 /\ now' = 0 /\ \A r \in Reading : route'[r] = "none"
  /\ \A r \in Reading : reply[r] = "none" /\ route'[r] \notin Writes
  /\ \A r \in Writing :
       /\ route'[r] \in Writes \cup {"none"}
       /\ reply'[r] \in {"none", "ok"} \/ r \in messages' \cup sessions' \cup versions'
       /\ \A s \in Writing \ {r} : route'[r] \in {"analyze", "add version"} => route'[s] = "none"

Symmetry == Permutations(Writing)

=============================================================================
