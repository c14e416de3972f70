----------------------------- MODULE Classifier -----------------------------
(***************************************************************************)
(* What the backend's ml.Classifier answers: the rules of the Go mock, or  *)
(* the ML service behind gRPC, whose pipeline takes the worse of its rules *)
(* and its trained model.  The rules of both name the same categories in   *)
(* the same order, but each has triggers of its own; so a text is what     *)
(* they see of it: how many of either's triggers of each rule it contains, *)
(* and the model's probability.                                            *)
(* Probabilities are whole numbers of a unit below the last decimal place  *)
(* a reply keeps, which is Grain of them.                                  *)
(***************************************************************************)
EXTENDS Integers

CONSTANTS
  Text,                 \* texts, by their hits and the model's probability
  Rules,                \* how many rules there are; they are tried in order
  Score,                \* what 0, 1, 2 and 3 or more hits are worth
  ScamThreshold,        \* SCAM_THRESHOLD and
  SuspiciousThreshold,  \* SUSPICIOUS_THRESHOLD, the same in both services
  Grain                 \* the 0.0001 of the pipeline's round

ASSUME ClassifierAssumption ==
  /\ Rules \in Nat
  /\ Text \subseteq [byMock : [1..Rules -> Nat], byRules : [1..Rules -> Nat], model : Nat]
  /\ Score \in [0..3 -> Nat]
  /\ Grain \in Nat \ {0}
  /\ ScamThreshold \in {n * Grain : n \in 0..ScamThreshold}
  /\ SuspiciousThreshold \in Nat

Verdict == {"safe", "suspicious", "scam"}

(* scam_categories: one row per rule, and one for what no rule names. *)
NoCategory == 0
Other == Rules + 1
Category == NoCategory..Other

Result == [verdict : Verdict, category : Category, probability : Nat]

HitsOf(hits, rule) == IF rule = NoCategory THEN 0 ELSE hits[rule]

(* Mutant: a later rule with as many hits takes over. *)
NoWorse(hits, rule, than) == hits[rule] >= HitsOf(hits, than)

Better(hits, rule, than) == hits[rule] > HitsOf(hits, than)

(* The best rule, after none, one, two ... of them have been tried in order. *)
Leading(hits) ==
  LET best[i \in 0..Rules] ==
        IF i = 0 THEN NoCategory
        ELSE IF Better(hits, i, best[i - 1]) THEN i ELSE best[i - 1]
  IN  best

Best(hits) == Leading(hits)[Rules]

ScoreOf(n) == Score[IF n < 3 THEN n ELSE 3]

VerdictOf(p) ==
  IF p >= ScamThreshold THEN "scam"
  ELSE IF p >= SuspiciousThreshold THEN "suspicious" ELSE "safe"

(* The verdict is decided on p; q is what the reply says. *)
Judged(p, q, category) ==
  [verdict |-> VerdictOf(p), probability |-> q,
   category |-> IF VerdictOf(p) = "safe" THEN NoCategory ELSE category]

Mock(text) ==
  LET best == Best(text.byMock)
      p == ScoreOf(HitsOf(text.byMock, best))
  IN  {Judged(p, p, best)}

(* The nearest whole Grain; either of two as near. *)
Rounded(p) ==
  {q \in {n * Grain : n \in 0..p} : 2 * (p - q) <= Grain /\ 2 * (q - p) <= Grain}

Pipeline(text) ==
  LET best == Best(text.byRules)
      score == ScoreOf(HitsOf(text.byRules, best))
      p == IF score > text.model THEN score ELSE text.model
  IN  {Judged(p, q, IF best = NoCategory THEN Other ELSE best) : q \in Rounded(p)}

(* The rule a text is to be explained by: the first of those with the most   *)
(* hits.                                                                     *)
Foremost(hits) ==
  {i \in 1..Rules : /\ \A j \in 1..Rules : hits[j] <= hits[i]
                    /\ \A j \in 1..(i - 1) : hits[j] < hits[i]}

=============================================================================
