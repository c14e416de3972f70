----------------------------- MODULE ApiProofs ------------------------------
(***************************************************************************)
(* Proofs about Api, RateLimit and Classifier, for any number of requests, *)
(* addresses, rules and texts and any limit.                               *)
(***************************************************************************)
EXTENDS Api, FiniteSetTheorems, WellFoundedInduction, TLAPS

-----------------------------------------------------------------------------
(* Induction over a set of numbers, from the library's well-foundedness of < *)

Less == OpToRel(<, Nat)

LEMMA LessIsLess == \A x, y \in Nat : <<x, y>> \in Less <=> x < y
<1>1. Less = {ss \in Nat \X Nat : ss[1] < ss[2]}
  BY Zenon DEF Less, OpToRel
<1> QED
  BY <1>1

LEMMA LessIsWellFounded == IsWellFoundedOn(Less, Nat)
  BY NatLessThanWellFounded, Zenon DEF Less

LEMMA LeastNumber ==
  ASSUME NEW T, T \subseteq Nat, T # {}
  PROVE  \E x \in T : \A y \in T : x <= y
<1>1. PICK x \in T : \A y \in T : ~ (<<y, x>> \in Less)
  BY LessIsWellFounded, WFMin, Zenon
<1>2. ASSUME NEW y \in T PROVE x <= y
  <2>1. x \in Nat /\ y \in Nat
    OBVIOUS
  <2>2. ~ (y < x)
    BY <1>1, <2>1, LessIsLess
  <2> QED
    BY <2>1, <2>2
<1> QED
  BY <1>2

LEMMA Induction ==
  ASSUME NEW S, 0 \in S, \A n \in Nat : n \in S => n + 1 \in S
  PROVE  \A n \in Nat : n \in S
<1>1. SUFFICES ASSUME NEW T, T = {n \in Nat : n \notin S}, T # {} PROVE FALSE
  OBVIOUS
<1>2. PICK x \in T : \A y \in T : x <= y
  BY <1>1, LeastNumber
<1>3. x \in Nat /\ x # 0
  BY <1>1
<1>4. x - 1 \in Nat /\ x - 1 \notin T
  BY <1>2, <1>3
<1>5. x \in S
  BY <1>1, <1>3, <1>4
<1> QED
  BY <1>1, <1>5

-----------------------------------------------------------------------------
(* The classifier. *)

After(hits, f, i) ==
  IF i = 0 THEN NoCategory ELSE IF Better(hits, i, f[i - 1]) THEN i ELSE f[i - 1]

(* The recursion has a solution on every prefix of the rules. *)
LEMMA LeadingExists ==
  ASSUME NEW hits
  PROVE  \A n \in Nat : \E f : f = [i \in 0..n |-> After(hits, f, i)]
<1> DEFINE S == {n \in Nat : \E f : f = [i \in 0..n |-> After(hits, f, i)]}
<1>1. 0 \in S
  <2> DEFINE f == [i \in 0..0 |-> NoCategory]
  <2>1. f = [i \in 0..0 |-> After(hits, f, i)]
    BY DEF After
  <2> QED
    BY <2>1
<1>2. ASSUME NEW n \in Nat, n \in S PROVE n + 1 \in S
  <2>1. PICK f : f = [i \in 0..n |-> After(hits, f, i)]
    BY <1>2
  <2> DEFINE g == [i \in 0..(n + 1) |-> IF i <= n THEN f[i] ELSE After(hits, f, i)]
  <2>2. ASSUME NEW i \in 0..(n + 1) PROVE g[i] = After(hits, g, i)
    <3>1. i # 0 => g[i - 1] = f[i - 1]
      OBVIOUS
    <3>2. After(hits, g, i) = After(hits, f, i)
      BY <3>1 DEF After
    <3>3. i <= n => f[i] = After(hits, f, i)
      BY <2>1
    <3> QED
      BY <3>2, <3>3
  <2>3. g = [i \in 0..(n + 1) |-> After(hits, g, i)]
    BY <2>2
  <2>4. \E h : h = [i \in 0..(n + 1) |-> After(hits, h, i)]
    <3> HIDE DEF g
    <3> QED
      BY <2>3, Zenon
  <2> QED
    BY <2>4
<1>3. \A n \in Nat : n \in S
  <2> HIDE DEF S
  <2> QED
    BY <1>1, <1>2, Induction
<1> QED
  BY <1>3

LEMMA LeadingUnfolds ==
  ASSUME NEW hits
  PROVE  Leading(hits) = [i \in 0..Rules |-> After(hits, Leading(hits), i)]
<1>1. PICK f : f = [i \in 0..Rules |-> After(hits, f, i)]
  BY LeadingExists, ClassifierAssumption
<1>2. f = [i \in 0..Rules |-> IF i = 0 THEN NoCategory
                              ELSE IF Better(hits, i, f[i - 1]) THEN i ELSE f[i - 1]]
  BY <1>1, Zenon DEF After
<1>3. Leading(hits) =
        [i \in 0..Rules |-> IF i = 0 THEN NoCategory
                            ELSE IF Better(hits, i, Leading(hits)[i - 1]) THEN i
                                 ELSE Leading(hits)[i - 1]]
  BY <1>2, Zenon DEF Leading
<1> QED
  BY <1>3, Zenon DEF After

(* After i rules the leading one is the first of those with the most hits. *)
LeadsAfter(hits, b, i) ==
  /\ b \in 0..i
  /\ b = 0 => \A j \in 1..i : hits[j] = 0
  /\ b # 0 => /\ hits[b] > 0
              /\ \A j \in 1..i : hits[j] <= hits[b]
              /\ \A j \in 1..(b - 1) : hits[j] < hits[b]

LEMMA LeadingLeads ==
  ASSUME NEW hits \in [1..Rules -> Nat]
  PROVE  LeadsAfter(hits, Best(hits), Rules)
<1> DEFINE S == {n \in Nat : n <= Rules => LeadsAfter(hits, Leading(hits)[n], n)}
<1>0. Rules \in Nat
  BY ClassifierAssumption
<1> USE <1>0
<1>1. 0 \in S
  BY LeadingUnfolds DEF LeadsAfter, After, NoCategory
<1>2. ASSUME NEW n \in Nat, n \in S, n + 1 <= Rules
      PROVE  LeadsAfter(hits, Leading(hits)[n + 1], n + 1)
  <2> DEFINE b == Leading(hits)[n]
             c == Leading(hits)[n + 1]
  <2>1. LeadsAfter(hits, b, n)
    BY <1>2
  <2>2. c = IF Better(hits, n + 1, b) THEN n + 1 ELSE b
    BY <1>2, LeadingUnfolds DEF After
  <2>3. \A j \in 1..(n + 1) : hits[j] \in Nat
    BY <1>2
  <2>4. \A j \in 1..(n + 1) : j \in 1..n \/ j = n + 1
    OBVIOUS
  <2> HIDE DEF b, c
  <2>5. CASE Better(hits, n + 1, b)
    <3>1. c = n + 1 /\ hits[n + 1] > HitsOf(hits, b)
      BY <2>2, <2>5 DEF Better
    <3>2. \A j \in 1..n : hits[j] < hits[n + 1]
      BY <2>1, <2>3, <3>1 DEF LeadsAfter, HitsOf, NoCategory
    <3>3. hits[n + 1] > 0
      BY <2>1, <2>3, <3>1 DEF LeadsAfter, HitsOf, NoCategory
    <3> QED
      BY <2>3, <2>4, <3>1, <3>2, <3>3 DEF LeadsAfter, c
  <2>6. CASE ~ Better(hits, n + 1, b)
    <3>1. c = b /\ hits[n + 1] <= HitsOf(hits, b)
      BY <2>1, <2>2, <2>3, <2>6 DEF Better, HitsOf, LeadsAfter, NoCategory
    <3>2. b = 0 => hits[n + 1] = 0
      BY <2>3, <3>1 DEF HitsOf, NoCategory
    <3>3. b # 0 => hits[n + 1] <= hits[b]
      BY <3>1 DEF HitsOf, NoCategory
    <3>4. b \in 0..(n + 1)
      BY <2>1 DEF LeadsAfter
    <3>5. ASSUME b = 0, NEW j \in 1..(n + 1) PROVE hits[j] = 0
      BY <2>1, <2>4, <3>2, <3>5 DEF LeadsAfter
    <3>6. ASSUME b # 0, NEW j \in 1..(n + 1) PROVE hits[j] <= hits[b]
      BY <2>1, <2>4, <3>3, <3>6 DEF LeadsAfter
    <3>7. LeadsAfter(hits, b, n + 1)
      BY <2>1, <3>4, <3>5, <3>6 DEF LeadsAfter
    <3> QED
      BY <3>1, <3>7 DEF c
  <2> QED
    BY <2>5, <2>6
<1>3. \A n \in Nat : n \in S
  <2>1. ASSUME NEW n \in Nat, n \in S PROVE n + 1 \in S
    <3>1. n + 1 <= Rules => LeadsAfter(hits, Leading(hits)[n + 1], n + 1)
      BY <1>2, <2>1, Zenon
    <3> QED
      BY <3>1
  <2> HIDE DEF S
  <2> QED
    BY <1>1, <2>1, Induction
<1> QED
  BY <1>3 DEF Best

LEMMA BestIsForemost ==
  ASSUME NEW hits \in [1..Rules -> Nat]
  PROVE  /\ Best(hits) \in 0..Rules
         /\ (\A i \in 1..Rules : hits[i] = 0) => Best(hits) = NoCategory
         /\ ~ (\A i \in 1..Rules : hits[i] = 0) => Best(hits) \in Foremost(hits)
<1>0. Rules \in Nat
  BY ClassifierAssumption
<1> USE <1>0
<1>1. LeadsAfter(hits, Best(hits), Rules)
  BY LeadingLeads
<1>2. Best(hits) # 0 => Best(hits) \in 1..Rules
  BY <1>1 DEF LeadsAfter
<1> QED
  BY <1>1, <1>2 DEF LeadsAfter, Foremost, NoCategory

(* A probability at or over a threshold that replies can show is still there *)
(* after rounding.                                                           *)
LEMMA RoundedNotBelow ==
  ASSUME NEW p \in Nat, NEW q \in Rounded(p)
  PROVE  q \in Nat /\ (p >= ScamThreshold => q >= ScamThreshold)
<1>0. Grain \in Nat \ {0}
  BY ClassifierAssumption
<1> USE <1>0
<1>1. PICK t \in Nat : ScamThreshold = t * Grain
  <2>1. ScamThreshold \in {n * Grain : n \in 0..ScamThreshold}
    BY ClassifierAssumption, Zenon
  <2>2. \A n \in 0..ScamThreshold : n \in Nat
    OBVIOUS
  <2> QED
    BY <2>1, <2>2, Zenon
<1>2. PICK n \in Nat : q = n * Grain /\ 2 * (p - q) <= Grain
  <2>1. q \in {n * Grain : n \in 0..p} /\ 2 * (p - q) <= Grain
    BY Zenon DEF Rounded
  <2>2. \A n \in 0..p : n \in Nat
    OBVIOUS
  <2> QED
    BY <2>1, <2>2, Zenon
<1>3. q \in Nat /\ ScamThreshold \in Nat
  BY <1>1, <1>2
<1>4. ASSUME p >= ScamThreshold, n < t PROVE FALSE
  <2>1. n + 1 <= t
    BY <1>4
  <2>2. (n + 1) * Grain <= t * Grain
    BY <2>1
  <2>3. q + Grain <= ScamThreshold
    BY <1>1, <1>2, <2>2
  <2> QED
    BY <1>2, <1>3, <1>4, <2>3
<1>5. n >= t => n * Grain >= t * Grain
  OBVIOUS
<1> QED
  BY <1>1, <1>2, <1>3, <1>4, <1>5

(* What the classifier may answer is well formed, explained by the foremost  *)
(* rule, and does not lose a scam to rounding.                               *)
GoodResult(t, res) ==
  /\ res \in Result
  /\ res.verdict = "safe" => res.category = NoCategory
  /\ res.verdict # "safe" =>
       IF \A i \in 1..Rules : HitsIn(t)[i] = 0 THEN res.category = Other \/ mock
       ELSE res.category \in Foremost(HitsIn(t))
  /\ res.verdict = "scam" => res.probability >= ScamThreshold

LEMMA JudgedIsResult ==
  ASSUME NEW p \in Nat, NEW q \in Nat, NEW c \in Category
  PROVE  Judged(p, q, c) \in Result
<1>1. VerdictOf(p) \in Verdict
  BY DEF VerdictOf, Verdict
<1>2. NoCategory \in Category
  BY ClassifierAssumption DEF Category, NoCategory, Other
<1> QED
  BY <1>1, <1>2 DEF Judged, Result

LEMMA ClassifiedIsGood ==
  ASSUME NEW t \in Text, NEW res \in Classified(t)
  PROVE  GoodResult(t, res)
<1> USE ClassifierAssumption
<1> DEFINE best == Best(HitsIn(t))
           score == ScoreOf(HitsOf(HitsIn(t), best))
           p == IF score > t.model THEN score ELSE t.model
<1>1. HitsIn(t) \in [1..Rules -> Nat] /\ t.model \in Nat
  BY DEF HitsIn
<1>2. /\ best \in 0..Rules
      /\ (\A i \in 1..Rules : HitsIn(t)[i] = 0) => best = NoCategory
      /\ ~ (\A i \in 1..Rules : HitsIn(t)[i] = 0) => best \in Foremost(HitsIn(t))
  BY <1>1, BestIsForemost
<1>3. HitsOf(HitsIn(t), best) \in Nat
  BY <1>1, <1>2 DEF HitsOf, NoCategory
<1>4. score \in Nat
  BY <1>3 DEF ScoreOf
<1>5. p \in Nat
  BY <1>1, <1>4
<1>6. \A x \in Nat : VerdictOf(x) \in Verdict /\ (VerdictOf(x) = "scam" => x >= ScamThreshold)
  BY DEF VerdictOf, Verdict
<1>7. CASE mock
  <2>1. res = Judged(score, score, best)
    BY <1>7 DEF Classified, Mock, HitsIn
  <2> HIDE DEF best, score
  <2>2. res \in Result
    <3>1. best \in Category
      BY <1>2 DEF Category, Other, NoCategory
    <3> QED
      BY <1>4, <2>1, <3>1, JudgedIsResult
  <2>3. /\ res.verdict = VerdictOf(score) /\ res.probability = score
        /\ res.category = IF VerdictOf(score) = "safe" THEN NoCategory ELSE best
    BY <2>1 DEF Judged
  <2> QED
    BY <1>2, <1>4, <1>6, <1>7, <2>2, <2>3 DEF GoodResult
<1>8. CASE ~ mock
  <2> DEFINE c == IF best = NoCategory THEN Other ELSE best
  <2>1. PICK q \in Rounded(p) : res = Judged(p, q, c)
    BY <1>8 DEF Classified, Pipeline, HitsIn
  <2>2. q \in Nat /\ (p >= ScamThreshold => q >= ScamThreshold)
    BY <1>5, RoundedNotBelow
  <2>3. c \in Category
    BY <1>2 DEF Category, Other, NoCategory
  <2>4. IF \A i \in 1..Rules : HitsIn(t)[i] = 0 THEN c = Other ELSE c \in Foremost(HitsIn(t))
    <3>1. NoCategory \notin Foremost(HitsIn(t))
      BY DEF Foremost, NoCategory
    <3> QED
      BY <1>2, <3>1
  <2> HIDE DEF p, c
  <2>5. res \in Result
    BY <1>5, <2>1, <2>2, <2>3, JudgedIsResult
  <2> QED
    BY <1>5, <1>6, <2>1, <2>2, <2>4, <2>5 DEF Judged, GoodResult
<1> QED
  BY <1>7, <1>8

(* How grave a verdict is. *)
Gravity(v) == IF v = "scam" THEN 2 ELSE IF v = "suspicious" THEN 1 ELSE 0

LEMMA GraverVerdict ==
  ASSUME NEW p \in Nat, NEW q \in Nat, p <= q
  PROVE  Gravity(VerdictOf(p)) <= Gravity(VerdictOf(q))
<1>1. ScamThreshold \in Nat /\ SuspiciousThreshold \in Nat
  BY ClassifierAssumption
<1> QED
  BY <1>1 DEF Gravity, VerdictOf

(* What the rules make of a text, whose foremost rule has the most hits.     *)
LEMMA RulesScore ==
  ASSUME NEW hits \in [1..Rules -> Nat]
  PROVE  /\ HitsOf(hits, Best(hits)) \in Nat
         /\ \A i \in 1..Rules : hits[i] <= HitsOf(hits, Best(hits))
         /\ HitsOf(hits, Best(hits)) = 0 \/ \E i \in 1..Rules : HitsOf(hits, Best(hits)) = hits[i]
         /\ ScoreOf(HitsOf(hits, Best(hits))) \in Nat
<1>1. Rules \in Nat
  BY ClassifierAssumption
<1>2. /\ Best(hits) \in 0..Rules
      /\ (\A i \in 1..Rules : hits[i] = 0) => Best(hits) = NoCategory
      /\ ~ (\A i \in 1..Rules : hits[i] = 0) => Best(hits) \in Foremost(hits)
  BY <1>1, BestIsForemost
<1>3. HitsOf(hits, Best(hits)) \in Nat
  BY <1>1, <1>2 DEF HitsOf, NoCategory
<1>4. \A i \in 1..Rules : hits[i] <= HitsOf(hits, Best(hits))
  BY <1>1, <1>2, <1>3 DEF HitsOf, Foremost, NoCategory
<1>5. ScoreOf(HitsOf(hits, Best(hits))) \in Nat
  BY <1>3, ClassifierAssumption DEF ScoreOf
<1>6. HitsOf(hits, Best(hits)) = 0 \/ \E i \in 1..Rules : HitsOf(hits, Best(hits)) = hits[i]
  BY <1>1, <1>2 DEF HitsOf, NoCategory
<1> QED
  BY <1>3, <1>4, <1>5, <1>6

LEMMA TextTypes ==
  ASSUME NEW t \in Text
  PROVE  /\ t.byMock \in [1..Rules -> Nat] /\ t.byRules \in [1..Rules -> Nat]
         /\ HitsIn(t) \in [1..Rules -> Nat] /\ t.model \in Nat
  BY ClassifierAssumption DEF HitsIn

(* The pipeline is never milder than its own rules would be without a model, *)
(* nor than the model on its own: pipeline.py takes the larger probability.  *)
THEOREM PipelineNotMilder ==
  ASSUME NEW t \in Text, NEW res \in Pipeline(t)
  PROVE  /\ Gravity(VerdictOf(ScoreOf(HitsOf(t.byRules, Best(t.byRules))))) <= Gravity(res.verdict)
         /\ Gravity(VerdictOf(t.model)) <= Gravity(res.verdict)
<1> DEFINE score == ScoreOf(HitsOf(t.byRules, Best(t.byRules)))
           p == IF score > t.model THEN score ELSE t.model
<1>1. res.verdict = VerdictOf(p)
  BY DEF Pipeline, Judged
<1>2. score \in Nat /\ t.model \in Nat
  BY RulesScore, TextTypes
<1>3. p \in Nat /\ score <= p /\ t.model <= p
  BY <1>2
<1> HIDE DEF score, p
<1>4. /\ Gravity(VerdictOf(score)) <= Gravity(res.verdict)
      /\ Gravity(VerdictOf(t.model)) <= Gravity(res.verdict)
  BY <1>1, <1>2, <1>3, GraverVerdict
<1> QED
  BY <1>4 DEF score

(* A verdict is no milder than what the hits of any one rule are worth. *)
LEMMA VerdictOfHits ==
  ASSUME \A i, j \in 0..3 : i <= j => Score[i] <= Score[j],
         NEW t \in Text, NEW res \in Classified(t), NEW i \in 1..Rules
  PROVE  /\ ScoreOf(HitsIn(t)[i]) \in Nat
         /\ Gravity(VerdictOf(ScoreOf(HitsIn(t)[i]))) <= Gravity(res.verdict)
<1> DEFINE top == HitsOf(HitsIn(t), Best(HitsIn(t)))
           n == HitsIn(t)[i]
           p == IF ScoreOf(top) > t.model THEN ScoreOf(top) ELSE t.model
<1>1. n \in Nat /\ top \in Nat /\ n <= top /\ ScoreOf(top) \in Nat /\ t.model \in Nat
  <2>1. HitsIn(t) \in [1..Rules -> Nat] /\ t.model \in Nat
    BY TextTypes
  <2> QED
    BY <2>1, RulesScore
<1>2. res.verdict = VerdictOf(ScoreOf(top)) \/ res.verdict = VerdictOf(p)
  BY DEF Classified, Mock, Pipeline, Judged, HitsIn
<1> HIDE DEF top, n
<1>3. ScoreOf(n) \in Nat /\ ScoreOf(n) <= ScoreOf(top)
  <2> DEFINE a == IF n < 3 THEN n ELSE 3
             b == IF top < 3 THEN top ELSE 3
  <2>1. a \in 0..3 /\ b \in 0..3 /\ a <= b
    BY <1>1
  <2>2. ScoreOf(n) = Score[a] /\ ScoreOf(top) = Score[b]
    BY DEF ScoreOf
  <2>3. Score[a] \in Nat
    BY <2>1, ClassifierAssumption
  <2> HIDE DEF a, b
  <2> QED
    BY <2>1, <2>2, <2>3
<1>4. p \in Nat /\ ScoreOf(top) <= p
  BY <1>1
<1>5. ScoreOf(n) <= p
  BY <1>1, <1>3, <1>4
<1> HIDE DEF p
<1>6. /\ Gravity(VerdictOf(ScoreOf(n))) <= Gravity(VerdictOf(ScoreOf(top)))
      /\ Gravity(VerdictOf(ScoreOf(n))) <= Gravity(VerdictOf(p))
  BY <1>1, <1>3, <1>4, <1>5, GraverVerdict
<1> QED
  BY <1>2, <1>3, <1>6 DEF n

(* Whichever classifier is deployed and whatever the model sees, a text with *)
(* one of its triggers is not called safe, and one with two of the same rule *)
(* is called a scam: what one hit is worth is over SUSPICIOUS_THRESHOLD, and *)
(* two over SCAM_THRESHOLD (mock.go, rules.py).                              *)
THEOREM TriggersWarn ==
  ASSUME \A i, j \in 0..3 : i <= j => Score[i] <= Score[j],
         SuspiciousThreshold <= Score[1], ScamThreshold <= Score[2],
         NEW t \in Text, NEW res \in Classified(t), NEW i \in 1..Rules
  PROVE  /\ HitsIn(t)[i] >= 1 => res.verdict # "safe"
         /\ HitsIn(t)[i] >= 2 => res.verdict = "scam"
<1> DEFINE n == HitsIn(t)[i]
<1>1. n \in Nat
  BY TextTypes
<1>2. Gravity(VerdictOf(ScoreOf(n))) <= Gravity(res.verdict)
  BY VerdictOfHits
<1>3. res.verdict \in Verdict
  BY ClassifiedIsGood DEF GoodResult, Result
<1> HIDE DEF n
<1>4. ASSUME NEW k \in 1..3, n >= k PROVE Score[k] <= ScoreOf(n) /\ ScoreOf(n) \in Nat
  <2> DEFINE a == IF n < 3 THEN n ELSE 3
  <2>1. a \in 0..3 /\ k \in 0..3 /\ k <= a
    BY <1>1, <1>4
  <2>2. ScoreOf(n) = Score[a] /\ Score[a] \in Nat
    BY <2>1, ClassifierAssumption DEF ScoreOf
  <2> HIDE DEF a
  <2> QED
    BY <2>1, <2>2
<1>5. Score[1] \in Nat /\ Score[2] \in Nat /\ ScamThreshold \in Nat /\ SuspiciousThreshold \in Nat
  BY ClassifierAssumption
<1>6. ASSUME n >= 1 PROVE res.verdict # "safe"
  <2>1. ScoreOf(n) >= SuspiciousThreshold
    BY <1>4, <1>5, <1>6
  <2>2. Gravity(VerdictOf(ScoreOf(n))) >= 1
    BY <2>1 DEF VerdictOf, Gravity
  <2> QED
    BY <1>2, <1>3, <2>2 DEF Gravity, Verdict
<1>7. ASSUME n >= 2 PROVE res.verdict = "scam"
  <2>1. ScoreOf(n) >= ScamThreshold
    BY <1>4, <1>5, <1>7
  <2>2. Gravity(VerdictOf(ScoreOf(n))) = 2
    BY <2>1 DEF VerdictOf, Gravity
  <2> QED
    BY <1>2, <1>3, <2>2 DEF Gravity, Verdict
<1> QED
  BY <1>6, <1>7 DEF n

(* A text with more of the triggers of the classifier in use, which the      *)
(* model finds no better, is never judged milder, whatever rules the         *)
(* triggers are of.  The scores must not fall with the hits, as those of the code do  *)
(* not.                                                                      *)
THEOREM MoreTriggersNotMilder ==
  ASSUME \A i, j \in 0..3 : i <= j => Score[i] <= Score[j],
         NEW t \in Text, NEW u \in Text,
         \A i \in 1..Rules : HitsIn(t)[i] <= HitsIn(u)[i], t.model <= u.model,
         NEW a \in Classified(t), NEW b \in Classified(u)
  PROVE  Gravity(a.verdict) <= Gravity(b.verdict)
<1> DEFINE H(x) == HitsOf(HitsIn(x), Best(HitsIn(x)))
           score(x) == ScoreOf(H(x))
           p(x) == IF score(x) > x.model THEN score(x) ELSE x.model
<1>1. /\ H(t) \in Nat /\ H(u) \in Nat /\ score(t) \in Nat /\ score(u) \in Nat
      /\ t.model \in Nat /\ u.model \in Nat
      /\ \A i \in 1..Rules : HitsIn(u)[i] <= H(u)
  BY RulesScore, TextTypes
<1>2. H(t) <= H(u)
  <2>1. HitsIn(t) \in [1..Rules -> Nat] /\ HitsIn(u) \in [1..Rules -> Nat]
    BY TextTypes
  <2>2. H(t) = 0 \/ \E i \in 1..Rules : H(t) = HitsIn(t)[i]
    BY <2>1, RulesScore
  <2> HIDE DEF H
  <2>3. CASE H(t) = 0
    BY <1>1, <2>3
  <2>4. ASSUME NEW i \in 1..Rules, H(t) = HitsIn(t)[i] PROVE H(t) <= H(u)
    <3>1. HitsIn(t)[i] \in Nat /\ HitsIn(u)[i] \in Nat /\ HitsIn(t)[i] <= HitsIn(u)[i]
      BY <2>1
    <3>2. HitsIn(u)[i] <= H(u) /\ H(u) \in Nat
      BY <1>1
    <3> QED
      BY <2>4, <3>1, <3>2
  <2> QED
    BY <2>2, <2>3, <2>4
<1>3. score(t) <= score(u)
  <2> DEFINE i == IF H(t) < 3 THEN H(t) ELSE 3
             j == IF H(u) < 3 THEN H(u) ELSE 3
  <2>1. i \in 0..3 /\ j \in 0..3 /\ i <= j
    BY <1>1, <1>2
  <2>2. score(t) = Score[i] /\ score(u) = Score[j]
    BY DEF ScoreOf
  <2> HIDE DEF i, j, score
  <2> QED
    BY <2>1, <2>2
<1>4. p(t) \in Nat /\ p(u) \in Nat /\ p(t) <= p(u)
  <2> HIDE DEF score
  <2> QED
    BY <1>1, <1>3
<1>5. \/ mock /\ a.verdict = VerdictOf(score(t)) /\ b.verdict = VerdictOf(score(u))
      \/ ~mock /\ a.verdict = VerdictOf(p(t)) /\ b.verdict = VerdictOf(p(u))
  BY DEF Classified, Mock, Pipeline, Judged, HitsIn
<1> HIDE DEF score, p
<1> QED
  BY <1>1, <1>3, <1>4, <1>5, GraverVerdict

-----------------------------------------------------------------------------
(* Types, for which a request that is being counted must have a counter. *)

KeyHeld == \A r \in Request : at[r] \in {"incr", "expire"} => key[r] \in Key

TypeInv == TypeOK /\ KeyHeld

(* The limiter's steps leave the handlers' state alone and the other way     *)
(* around; a handler moves its request on to one of its own steps.           *)
Behind == Steps \ {"new", "incr", "expire", "auth"}

Moves(r) ==
  /\ UNCHANGED limitVars
  /\ at[r] \in Steps \ {"new", "incr", "expire", "done"}
  /\ \E step \in Behind : at' = [at EXCEPT ![r] = step]

LEMMA DispatchMoves ==
  ASSUME NEW r \in Request, NEW u, NEW d \in Route, Dispatch(r, u, d)
  PROVE  Moves(r)
<1>1. at[r] \in Steps \ {"new", "incr", "expire", "done"} /\ UNCHANGED limitVars
  BY DEF Dispatch, Steps
<1>2. \E step \in Behind : Goto(r, step)
  BY DEF Dispatch, Answer, Proceed, Behind, Steps, Route, AdminRoute
<1> QED
  BY <1>1, <1>2 DEF Moves, Goto

LEMMA WriterMoves ==
  ASSUME NEW r \in Request, Writer(r)
  PROVE  Moves(r)
<1>1. at[r] \in Steps \ {"new", "incr", "expire", "done"}
  BY DEF Writer, Classify, InsertMessage, InsertDetection, SaveSession, CreateVersion,
         Steps, Route, AdminRoute
<1>2. UNCHANGED limitVars
  BY DEF Writer, Classify, InsertMessage, InsertDetection, SaveSession, CreateVersion
<1>3. \E step \in Behind : Goto(r, step)
  BY DEF Writer, Classify, InsertMessage, InsertDetection, SaveSession, CreateVersion,
         Answer, Proceed, Behind, Steps
<1> QED
  BY <1>1, <1>2, <1>3 DEF Moves, Goto

LEMMA ReaderMoves ==
  ASSUME NEW r \in Request, Reader(r)
  PROVE  Moves(r)
<1>1. at[r] \in Steps \ {"new", "incr", "expire", "done"}
  BY DEF Reader, ListHistory, ListMessages, ListVersions, CountOwn, ListThreats, CountAll,
         CountCategories, Steps, Route, AdminRoute
<1>2. UNCHANGED limitVars
  BY DEF Reader, ListHistory, ListMessages, ListVersions, CountOwn, ListThreats, CountAll,
         CountCategories
<1>3. \E step \in Behind : Goto(r, step)
  BY DEF Reader, ListHistory, ListMessages, ListVersions, CountOwn, ListThreats, CountAll,
         CountCategories, Answer, Proceed, Behind, Steps
<1> QED
  BY <1>1, <1>2, <1>3 DEF Moves, Goto

LEMMA MoveTypes ==
  ASSUME TypeInv, NEW r \in Request, Moves(r)
  PROVE  LimitTypeOK' /\ at' \in [Request -> Steps] /\ KeyHeld'
<1>1. LimitTypeOK'
  BY DEF TypeInv, TypeOK, LimitTypeOK, Moves, limitVars
<1>2. at' \in [Request -> Steps]
  BY DEF TypeInv, TypeOK, Moves, Behind
<1>3. KeyHeld'
  BY DEF TypeInv, TypeOK, KeyHeld, Moves, Behind, Steps, Key, limitVars
<1> QED
  BY <1>1, <1>2, <1>3

LEMMA LimiterTypes ==
  ASSUME TypeInv, NEW r \in Request, Limiter(r)
  PROVE  LimitTypeOK' /\ at' \in [Request -> Steps] /\ KeyHeld'
<1> USE RateLimitAssumption DEF TypeInv, TypeOK, LimitTypeOK, KeyHeld,
      clockVars, redisVars, limitHistory, Goto, Enter, Steps
<1>1. ASSUME NEW a \in Address, Arrive(r, a)
      PROVE  LimitTypeOK' /\ at' \in [Request -> Steps] /\ KeyHeld'
  <2>1. <<a, minute>> \in Key
    BY DEF Key
  <2> QED
    BY <1>1, <2>1 DEF Arrive
<1>2. ASSUME Incr(r) PROVE LimitTypeOK' /\ at' \in [Request -> Steps] /\ KeyHeld'
  <2>1. key[r] \in Key
    BY <1>2 DEF Incr
  <2>2. count' \in [Key -> Nat] /\ ends' \in [Key -> Nat]
    BY <1>2 DEF Incr, Counted, CountUnseen, Increment
  <2>3. troubled' \subseteq Key
    BY <1>2, <2>1 DEF Incr, CountUnseen
  <2>4. at' \in [Request -> Steps]
    BY <1>2 DEF Incr, Counted
  <2>5. entry' \in [Request -> {"none", "counted", "late", "open", "refused"}]
    BY <1>2 DEF Incr, Counted
  <2>6. KeyHeld'
    BY <1>2, <2>1 DEF Incr, Counted
  <2> QED
    BY <1>2, <2>2, <2>3, <2>4, <2>5, <2>6 DEF Incr
<1>3. ASSUME ResendIncr(r) PROVE LimitTypeOK' /\ at' \in [Request -> Steps] /\ KeyHeld'
  BY <1>3 DEF ResendIncr, CountUnseen, Increment
<1>4. ASSUME SetExpiry(r) PROVE LimitTypeOK' /\ at' \in [Request -> Steps] /\ KeyHeld'
  BY <1>4 DEF SetExpiry, Window
<1> QED
  BY <1>1, <1>2, <1>3, <1>4 DEF Limiter

LEMMA ClockTypes ==
  ASSUME TypeInv, Tick \/ RedisRestart
  PROVE  LimitTypeOK' /\ at' \in [Request -> Steps] /\ KeyHeld'
<1> USE RateLimitAssumption DEF TypeInv, TypeOK, LimitTypeOK, KeyHeld,
      clockVars, limitHistory
<1>1. CASE Tick
  BY <1>1 DEF Tick
<1>2. CASE RedisRestart
  BY <1>2 DEF RedisRestart
<1> QED
  BY <1>1, <1>2

LEMMA DispatchTypes ==
  ASSUME TypeInv, NEW r \in Request, NEW u \in User \cup {NoOne}, NEW d \in Route,
         Dispatch(r, u, d)
  PROVE  HandlerTypeOK'
<1> USE DEF TypeInv, TypeOK, HandlerTypeOK
<1>1. UNCHANGED <<mock, tables, rowVars, readVars>>
  BY DEF Dispatch
<1>2. route' \in [Request -> Route \cup {"none"}] /\ caller' \in [Request -> User \cup {NoOne}]
  BY DEF Dispatch
<1>3. filter' \in [Request -> {"any", "call"} \cup Verdict]
  <2>1. Filters(d) \subseteq {"any", "call"} \cup Verdict
    BY DEF Filters
  <2> QED
    BY <2>1 DEF Dispatch
<1>4. before' \in [Request -> SUBSET Request] /\ stored' \in [Request -> SUBSET Request]
  BY DEF Dispatch, Answered
<1>5. reply' \in [Request -> {"none", "ok", "invalid", "unauthorized", "forbidden", "failed"}]
  BY DEF Dispatch, Answer, Proceed
<1> QED
  BY <1>1, <1>2, <1>3, <1>4, <1>5 DEF tables, rowVars, readVars

LEMMA WriterTypes ==
  ASSUME TypeInv, NEW r \in Request, Writer(r)
  PROVE  HandlerTypeOK'
<1> USE DEF TypeInv, TypeOK, HandlerTypeOK
<1>1. reply' \in [Request -> {"none", "ok", "invalid", "unauthorized", "forbidden", "failed"}]
  BY DEF Writer, Classify, InsertMessage, InsertDetection, SaveSession, CreateVersion,
         Answer, Proceed
<1>2. UNCHANGED <<askVars, readVars>>
  BY DEF Writer, Classify, InsertMessage, InsertDetection, SaveSession, CreateVersion
<1>3. text' \in [Request -> Text \cup {NoText}] /\ result' \in [Request -> Result]
  <2>1. CASE Classify(r)
    <3>1. ASSUME NEW t \in Text, NEW res \in Classified(t) PROVE res \in Result
      BY ClassifiedIsGood DEF GoodResult
    <3> QED
      BY <2>1, <3>1 DEF Classify
  <2>2. CASE ~ Classify(r)
    BY <2>2 DEF Writer, InsertMessage, InsertDetection, SaveSession, CreateVersion, rowVars
  <2> QED
    BY <2>1, <2>2
<1>4. created' \in [Request -> 0..MaxTime]
  BY DEF Writer, Classify, InsertMessage, InsertDetection, SaveSession, CreateVersion, rowVars,
         LimitTypeOK
<1>5. messages' \subseteq Request /\ detections' \subseteq Request
  BY DEF Writer, Classify, InsertMessage, InsertDetection, SaveSession, CreateVersion, tables, Inserts
<1>6. sessions' \subseteq Request /\ versions' \subseteq Request
  BY DEF Writer, Classify, InsertMessage, InsertDetection, SaveSession, CreateVersion, tables, Inserts
<1> QED
  BY <1>1, <1>2, <1>3, <1>4, <1>5, <1>6 DEF askVars, readVars

LEMMA IdIsCategory == \A name \in Category : IdByName(name) \in Category
  BY ClassifierAssumption DEF IdByName, Category, Other, NoCategory

LEMMA RowTypes ==
  ASSUME TypeInv, NEW S \in SUBSET Request
  PROVE  {WithCategory(m) : m \in S} \subseteq Row
<1>1. ASSUME NEW m \in Request PROVE WithCategory(m) \in Row
  <2>1. result[m].category \in Category
    BY DEF TypeInv, TypeOK, HandlerTypeOK, Result
  <2>2. IdByName(result[m].category) \in Category
    BY <2>1, IdIsCategory
  <2>3. NoCategory \in Category
    BY ClassifierAssumption DEF Category, Other, NoCategory
  <2> QED
    BY <2>2, <2>3 DEF WithCategory, Row
<1> QED
  BY <1>1

LEMMA ShowTypes ==
  ASSUME TypeInv, NEW r \in Request, NEW S \in SUBSET Request, NEW n \in Nat, Show(r, S, n)
  PROVE  limit' \in [Request -> Nat] /\ shown' \in [Request -> SUBSET Row]
<1>1. PICK T \in Newest(S, n) : shown' = [shown EXCEPT ![r] = {WithCategory(m) : m \in T}]
  BY Zenon DEF Show
<1>2. T \in SUBSET Request
  BY <1>1 DEF Newest
<1>3. {WithCategory(m) : m \in T} \subseteq Row
  BY <1>2, RowTypes
<1>4. limit' \in [Request -> Nat]
  BY DEF Show, TypeInv, TypeOK, HandlerTypeOK
<1> QED
  BY <1>1, <1>3, <1>4 DEF TypeInv, TypeOK, HandlerTypeOK

LEMMA ReaderTypes ==
  ASSUME TypeInv, NEW r \in Request, Reader(r)
  PROVE  HandlerTypeOK'
<1> USE DEF TypeInv, TypeOK, HandlerTypeOK
<1>1. reply' \in [Request -> {"none", "ok", "invalid", "unauthorized", "forbidden", "failed"}]
  BY DEF Reader, ListHistory, ListMessages, ListVersions, CountOwn, ListThreats, CountAll,
         CountCategories, Answer, Proceed
<1>2. UNCHANGED <<askVars, tables, rowVars>>
  BY DEF Reader, ListHistory, ListMessages, ListVersions, CountOwn, ListThreats, CountAll,
         CountCategories
<1>3. since' \in [Request -> Int]
  <2>1. \A raw \in 0..(MaxDays + 1) : SummarySince(raw) \in Int
    BY ApiAssumption DEF SummarySince, LimitTypeOK
  <2> QED
    BY <2>1 DEF Reader, ListHistory, ListMessages, ListVersions, CountOwn, ListThreats, CountAll,
         CountCategories
<1>4. counted' \in [Request -> SUBSET Request]
  BY DEF Reader, ListHistory, ListMessages, ListVersions, CountOwn, ListThreats, CountAll,
         CountCategories, OwnMessages
<1>5. limit' \in [Request -> Nat] /\ shown' \in [Request -> SUBSET Row]
  <2>1. OwnMessages(r) \in SUBSET Request /\ ThreatsTo(r) \in SUBSET Request
    BY DEF OwnMessages, ThreatsTo, Unsafe
  <2>0. Threats \in Nat /\ \A raw \in 0..MaxLimit : LimitOf(raw) \in Nat
    BY ApiAssumption DEF LimitOf
  <2>2. CASE ListHistory(r)
    <3>1. (IF filter[r] = "call" THEN {} ELSE OwnMessages(r)) \in SUBSET Request
      BY <2>1
    <3> QED
      BY <2>0, <2>2, <3>1, ShowTypes DEF ListHistory
  <2>3. CASE ListMessages(r)
    <3>1. {m \in messages : filter[r] \in {"any", result[m].verdict}} \in SUBSET Request
      OBVIOUS
    <3> QED
      BY <2>0, <2>3, <3>1, ShowTypes DEF ListMessages
  <2>4. CASE ListThreats(r)
    BY <2>0, <2>1, <2>4, ShowTypes DEF ListThreats
  <2>5. CASE ListVersions(r)
    <3>1. NoCategory \in Category
      BY ClassifierAssumption DEF Category, Other, NoCategory
    <3>2. {<<v, NoCategory>> : v \in versions} \subseteq Row
      BY <3>1 DEF Row
    <3> QED
      BY <2>5, <3>2 DEF ListVersions
  <2>6. CASE CountCategories(r)
    <3>1. {x \in detections : IdByName(result[x].category) # NoCategory} \in SUBSET Request
      OBVIOUS
    <3>2. {WithCategory(d) : d \in {x \in detections : IdByName(result[x].category) # NoCategory}}
            \subseteq Row
      BY <3>1, RowTypes
    <3> QED
      BY <2>6, <3>2 DEF CountCategories
  <2>7. CASE CountOwn(r) \/ CountAll(r)
    BY <2>7 DEF CountOwn, CountAll
  <2> QED
    BY <2>2, <2>3, <2>4, <2>5, <2>6, <2>7 DEF Reader
<1> QED
  BY <1>1, <1>2, <1>3, <1>4, <1>5 DEF askVars, tables, rowVars

LEMMA InitTypes == Init => TypeInv
<1> SUFFICES ASSUME Init PROVE TypeInv
  OBVIOUS
<1> USE RateLimitAssumption, ClassifierAssumption, ApiAssumption DEF Init, LimitInit
<1>1. LimitTypeOK
  BY DEF LimitTypeOK
<1>2. Judged(0, 0, NoCategory) \in Result
  BY DEF Judged, Result, Verdict, VerdictOf, Category, NoCategory, Other
<1>3. HandlerTypeOK
  BY <1>2 DEF HandlerTypeOK
<1>4. at \in [Request -> Steps] /\ KeyHeld
  BY DEF Steps, KeyHeld
<1> QED
  BY <1>1, <1>3, <1>4 DEF TypeInv, TypeOK

LEMMA TypeStep == TypeInv /\ [Next]_vars => TypeInv'
<1> SUFFICES ASSUME TypeInv, [Next]_vars PROVE TypeInv'
  OBVIOUS
<1>1. UNCHANGED handlerVars => HandlerTypeOK'
  BY DEF TypeInv, TypeOK, HandlerTypeOK, handlerVars, askVars, rowVars, tables, readVars
<1>2. ASSUME NEW r \in Request, Limiter(r), UNCHANGED handlerVars PROVE TypeInv'
  BY <1>1, <1>2, LimiterTypes DEF TypeInv, TypeOK
<1>3. ASSUME NEW r \in Request, NEW u \in User \cup {NoOne}, NEW d \in Route, Dispatch(r, u, d)
      PROVE  TypeInv'
  BY <1>3, DispatchMoves, MoveTypes, DispatchTypes DEF TypeInv, TypeOK
<1>4. ASSUME NEW r \in Request, Writer(r) PROVE TypeInv'
  BY <1>4, WriterMoves, MoveTypes, WriterTypes DEF TypeInv, TypeOK
<1>5. ASSUME NEW r \in Request, Reader(r) PROVE TypeInv'
  BY <1>5, ReaderMoves, MoveTypes, ReaderTypes DEF TypeInv, TypeOK
<1>6. ASSUME Tick \/ RedisRestart, UNCHANGED handlerVars PROVE TypeInv'
  BY <1>1, <1>6, ClockTypes DEF TypeInv, TypeOK
<1>7. CASE UNCHANGED vars
  BY <1>7 DEF TypeInv, TypeOK, LimitTypeOK, HandlerTypeOK, KeyHeld, vars, Key
<1> QED
  BY <1>2, <1>3, <1>4, <1>5, <1>6, <1>7 DEF Next

LEMMA TypeInvariant == Spec => []TypeInv
<1> QED
  BY InitTypes, TypeStep, PTL DEF Spec

(* Every variable of the API keeps its type. *)
THEOREM TypeCorrect == Spec => []TypeOK
<1>1. TypeInv => TypeOK
  BY DEF TypeInv
<1> QED
  BY <1>1, TypeInvariant, PTL

-----------------------------------------------------------------------------
(* The limiter.  A counter of the present minute cannot have expired, so it  *)
(* has counted whatever it let in; and unless an INCR was sent twice, it has *)
(* counted each of its requests no more than once.                           *)

LetIn(k) == {r \in Request : key[r] = k /\ entry[r] = "counted"}

On(k) == {s \in Request : key[s] = k}

Sent(k) == {s \in Request : key[s] = k /\ at[s] # "incr"}

Clock == minute <= now /\ now < minute + Minute

Known ==
  \A r \in Request :
    /\ at[r] \in {"new", "incr"} => entry[r] = "none"
    /\ at[r] = "new" => key[r] = NoKey
    /\ key[r] \in Key => key[r][2] <= minute /\ perMinute > 0

Lives == \A k \in Key : ends[k] > 0 => ends[k] >= k[2] + Minute

Full ==
  \A k \in Key \ lost : perMinute > 0 =>
    /\ Cardinality(LetIn(k)) <= perMinute
    /\ k[2] = minute => Cardinality(LetIn(k)) <= count[k]

Once == \A k \in Key \ resent : count[k] <= Cardinality(Sent(k))

Refusals ==
  \A r \in Request : entry[r] = "refused" =>
    /\ key[r] \in Key
    /\ key[r] \in resent \/ Cardinality(On(key[r])) > perMinute

LimitInv == Clock /\ Known /\ Lives /\ CountersEnd /\ Full /\ Once /\ Refusals

LEMMA Sizes ==
  ASSUME NEW k
  PROVE  /\ IsFiniteSet(LetIn(k)) /\ Cardinality(LetIn(k)) \in Nat
         /\ IsFiniteSet(On(k)) /\ Cardinality(On(k)) \in Nat
         /\ IsFiniteSet(Sent(k)) /\ Cardinality(Sent(k)) \in Nat
         /\ Cardinality(Sent(k)) <= Cardinality(On(k))
<1>1. LetIn(k) \subseteq Request /\ On(k) \subseteq Request /\ Sent(k) \subseteq On(k)
  BY DEF LetIn, On, Sent
<1>2. IsFiniteSet(LetIn(k)) /\ IsFiniteSet(On(k)) /\ IsFiniteSet(Sent(k))
  BY <1>1, RateLimitAssumption, FS_Subset
<1> QED
  BY <1>1, <1>2, FS_CardinalityType, FS_Subset

LEMMA SizesPrimed ==
  ASSUME NEW k
  PROVE  /\ IsFiniteSet(LetIn(k)') /\ Cardinality(LetIn(k)') \in Nat
         /\ IsFiniteSet(On(k)') /\ Cardinality(On(k)') \in Nat
         /\ IsFiniteSet(Sent(k)') /\ Cardinality(Sent(k)') \in Nat
         /\ Cardinality(Sent(k)') <= Cardinality(On(k)')
<1>1. LetIn(k)' \subseteq Request /\ On(k)' \subseteq Request /\ Sent(k)' \subseteq On(k)'
  BY DEF LetIn, On, Sent
<1>2. IsFiniteSet(LetIn(k)') /\ IsFiniteSet(On(k)') /\ IsFiniteSet(Sent(k)')
  BY <1>1, RateLimitAssumption, FS_Subset
<1> QED
  BY <1>1, <1>2, FS_CardinalityType, FS_Subset

(* Requests of their own the limiter does not move keep it as it is. *)
LEMMA MoveLimit ==
  ASSUME TypeInv, LimitInv, NEW r \in Request, Moves(r)
  PROVE  LimitInv'
<1> USE DEF LimitInv, TypeInv, TypeOK, LimitTypeOK, Moves, limitVars, Behind, Steps
<1>2. ASSUME NEW s \in Request
      PROVE  /\ at'[s] \in {"new", "incr", "expire"} => at'[s] = at[s]
             /\ at[s] \in {"new", "incr", "expire"} => at'[s] = at[s]
  OBVIOUS
<1>3. Clock' /\ Lives'
  BY DEF Clock, Lives, Key
<1>4. Known'
  BY <1>2 DEF Known, Key
<1>5. CountersEnd'
  BY <1>2 DEF CountersEnd, Key
<1>6. \A k : LetIn(k)' = LetIn(k) /\ On(k)' = On(k) /\ Sent(k)' = Sent(k)
  BY <1>2 DEF LetIn, On, Sent
<1>7. Full' /\ Once' /\ Refusals'
  BY <1>6 DEF Full, Once, Refusals, Key
<1> QED
  BY <1>3, <1>4, <1>5, <1>7

LEMMA Added ==
  ASSUME NEW S, IsFiniteSet(S), NEW x, x \notin S
  PROVE  Cardinality(S \cup {x}) = Cardinality(S) + 1
  BY FS_AddElement

LEMMA ArriveLimit ==
  ASSUME TypeInv, LimitInv, NEW r \in Request, NEW a \in Address, Arrive(r, a)
  PROVE  LimitInv'
<1> USE RateLimitAssumption DEF LimitInv, TypeInv, TypeOK, LimitTypeOK, Arrive, Goto, Enter,
      clockVars, redisVars, limitHistory
<1>0. perMinute \in Int
  OBVIOUS
<1>1. key[r] = NoKey /\ entry[r] = "none" /\ NoKey \notin Key
  BY DEF Known
<1>2. Clock' /\ Lives'
  BY DEF Clock, Lives, Key
<1>3. Known'
  <2>1. <<a, minute>> \in Key /\ <<a, minute>>[2] = minute
    BY DEF Key
  <2>2. ASSUME NEW s \in Request, s # r
        PROVE  at'[s] = at[s] /\ entry'[s] = entry[s] /\ key'[s] = key[s]
    BY <2>2
  <2>3. /\ at'[r] \in {"incr", "auth"}
        /\ at'[r] = "incr" => entry'[r] = "none"
        /\ key'[r] \in Key => key'[r][2] = minute /\ perMinute > 0
    BY <1>1, <2>1
  <2>4. minute \in Nat
    OBVIOUS
  <2> QED
    BY <2>2, <2>3, <2>4 DEF Known
<1>4. CountersEnd'
  BY <1>1 DEF CountersEnd, Key
<1>5. ASSUME NEW k \in Key PROVE LetIn(k)' = LetIn(k) /\ Sent(k)' = Sent(k) /\ On(k) \subseteq On(k)'
  <2>1. ASSUME NEW s \in Request, s # r
        PROVE  at'[s] = at[s] /\ entry'[s] = entry[s] /\ key'[s] = key[s]
    BY <2>1
  <2>2. entry'[r] # "counted" /\ key[r] # k /\ (key'[r] = k => at'[r] = "incr")
    BY <1>1
  <2> QED
    BY <1>1, <2>1, <2>2 DEF LetIn, Sent, On
<1>6. Full' /\ Once'
  BY <1>5 DEF Full, Once, Key
<1>7. Refusals'
  <2>1. ASSUME NEW s \in Request, entry'[s] = "refused"
        PROVE  key'[s] = key[s] /\ entry[s] = "refused"
    BY <1>1, <2>1
  <2>2. ASSUME NEW k \in Key PROVE Cardinality(On(k)) <= Cardinality(On(k)')
    BY <1>5, SizesPrimed, FS_Subset
  <2>3. ASSUME NEW k \in Key, Cardinality(On(k)) > perMinute
        PROVE  Cardinality(On(k)') > perMinute
    BY <1>0, <2>2, <2>3, Sizes, SizesPrimed
  <2> QED
    BY <2>1, <2>3 DEF Refusals, Key
<1> QED
  BY <1>2, <1>3, <1>4, <1>6, <1>7

(* The three ways an INCR can take its request on; each counts it at most    *)
(* once.                                                                     *)
LEMMA IncrLimit ==
  ASSUME TypeInv, LimitInv, NEW r \in Request, Incr(r)
  PROVE  LimitInv'
<1> USE RateLimitAssumption DEF LimitInv, TypeInv, TypeOK, LimitTypeOK
<1>0. perMinute \in Int /\ \A x \in Key : count[x] \in Nat /\ ends[x] \in Nat
  OBVIOUS
<1>k. PICK k : k = key[r]
  OBVIOUS
<1>1. /\ at[r] = "incr" /\ k \in Key /\ entry[r] = "none" /\ k = key[r]
      /\ k[2] <= minute /\ perMinute > 0
  BY <1>k DEF Incr, KeyHeld, Known
<1>2. UNCHANGED <<perMinute, now, minute, ends, key, resent, lost>>
  BY DEF Incr, Counted, CountUnseen, Increment, clockVars, redisVars
<1>3. /\ \A x \in Key : x # k => count'[x] = count[x]
      /\ count'[k] \in {count[k], count[k] + 1}
  BY <1>1 DEF Incr, Counted, CountUnseen, Increment, redisVars
<1>4. ASSUME NEW s \in Request, s # r PROVE at'[s] = at[s] /\ entry'[s] = entry[s]
  BY <1>4 DEF Incr, Counted, Goto, Enter
<1>5. at'[r] \in {"done", "expire", "auth"}
  BY DEF Incr, Counted, Goto
<1>6. /\ entry'[r] \in {"refused", "counted", "late", "open"}
      /\ entry'[r] = "counted" => k[2] = minute /\ count'[k] = count[k] + 1 /\ count'[k] <= perMinute
      /\ entry'[r] = "refused" => count'[k] = count[k] + 1 /\ count'[k] > perMinute
  <2>1. CASE Counted(r)
    <3>1. count'[k] = count[k] + 1 /\ count'[k] \in Int
      BY <1>1, <2>1 DEF Counted, Increment
    <3>2. CASE Within(count[k] + 1)
      <4>1. entry'[r] \in {"counted", "late"} /\ (entry'[r] = "counted" => k[2] = minute)
        BY <1>1, <2>1, <3>2 DEF Counted, Enter
      <4> QED
        BY <3>1, <3>2, <4>1 DEF Within
    <3>3. CASE ~ Within(count[k] + 1)
      <4>1. entry'[r] = "refused"
        BY <1>1, <2>1, <3>3 DEF Counted, Enter
      <4> QED
        BY <1>0, <3>1, <3>3, <4>1 DEF Within
    <3> QED
      BY <3>2, <3>3
  <2>2. CASE Enter(r, "open")
    BY <2>2 DEF Enter
  <2> QED
    BY <2>1, <2>2 DEF Incr
<1>7. Clock' /\ Lives'
  BY <1>2 DEF Clock, Lives, Key
<1>8. Known'
  BY <1>1, <1>2, <1>4, <1>5 DEF Known, Key
<1>9. CountersEnd'
  <2>1. ASSUME NEW x \in Key, x # k, count'[x] > 0, ends'[x] = 0
        PROVE  x \in troubled' \/ \E s \in Request : at'[s] = "expire" /\ key'[s] = x
    <3>1. x \in troubled \/ \E s \in Request : at[s] = "expire" /\ key[s] = x
      BY <1>2, <1>3, <2>1 DEF CountersEnd
    <3>2. troubled \subseteq troubled'
      BY DEF Incr, CountUnseen
    <3> QED
      BY <1>1, <1>2, <1>4, <3>1, <3>2
  <2>2. ASSUME count'[k] > 0, ends'[k] = 0
        PROVE  k \in troubled' \/ \E s \in Request : at'[s] = "expire" /\ key'[s] = k
    <3>1. CASE count[k] > 0
      <4>1. k \in troubled \/ \E s \in Request : at[s] = "expire" /\ key[s] = k
        BY <1>1, <1>2, <2>2, <3>1 DEF CountersEnd
      <4>2. troubled \subseteq troubled'
        BY DEF Incr, CountUnseen
      <4> QED
        BY <1>1, <1>2, <1>4, <4>1, <4>2
    <3>2. CASE count[k] = 0
      <4>1. CASE Counted(r)
        <5>1. Within(count[k] + 1) /\ Created(count[k] + 1)
          BY <1>0, <1>1, <3>2 DEF Within, Created
        <5>2. at'[r] = "expire"
          BY <1>1, <4>1, <5>1 DEF Counted, Goto
        <5> QED
          BY <1>1, <1>2, <5>2
      <4>2. CASE CountUnseen(k)
        BY <3>2, <4>2 DEF CountUnseen
      <4>3. CASE UNCHANGED <<redisVars, troubled>>
        BY <1>0, <1>1, <2>2, <3>2, <4>3 DEF redisVars
      <4> QED
        BY <1>1, <4>1, <4>2, <4>3 DEF Incr
    <3> QED
      BY <1>0, <1>1, <3>1, <3>2
  <2> QED
    BY <2>1, <2>2 DEF CountersEnd, Key
<1>10. ASSUME NEW x \in Key
       PROVE  /\ On(x)' = On(x)
              /\ x # k => LetIn(x)' = LetIn(x) /\ Sent(x)' = Sent(x)
  BY <1>1, <1>2, <1>4 DEF On, LetIn, Sent
<1>11. /\ entry'[r] # "counted" => LetIn(k)' = LetIn(k)
       /\ entry'[r] = "counted" => LetIn(k)' = LetIn(k) \cup {r}
       /\ r \notin LetIn(k)
  BY <1>1, <1>2, <1>4 DEF LetIn
<1>12. Sent(k)' = Sent(k) \cup {r} /\ r \notin Sent(k)
  BY <1>1, <1>2, <1>4, <1>5 DEF Sent
<1>13. entry'[r] = "counted" => Cardinality(LetIn(k)') = Cardinality(LetIn(k)) + 1
  BY <1>11, Added, Sizes
<1>14. Cardinality(Sent(k)') = Cardinality(Sent(k)) + 1
  BY <1>12, Added, Sizes
<1>15. Full'
  <2>1. ASSUME NEW x \in Key \ lost
        PROVE  /\ Cardinality(LetIn(x)') <= perMinute
               /\ x[2] = minute => Cardinality(LetIn(x)') <= count'[x]
    <3>1. /\ Cardinality(LetIn(x)) <= perMinute
          /\ x[2] = minute => Cardinality(LetIn(x)) <= count[x]
      BY <1>1, <2>1 DEF Full
    <3>2. CASE x # k
      BY <1>3, <1>10, <3>1, <3>2
    <3>3. CASE x = k /\ entry'[r] # "counted"
      <4>1. Cardinality(LetIn(k)) \in Nat
        BY Sizes
      <4> QED
        BY <1>0, <1>1, <1>3, <1>11, <3>1, <3>3, <4>1
    <3>4. CASE x = k /\ entry'[r] = "counted"
      <4>1. Cardinality(LetIn(k)) \in Nat
        BY Sizes
      <4> QED
        BY <1>0, <1>1, <1>6, <1>13, <3>1, <3>4, <4>1
    <3> QED
      BY <3>2, <3>3, <3>4
  <2> QED
    BY <1>2, <2>1 DEF Full, Key
<1>16. Once'
  <2>1. ASSUME NEW x \in Key \ resent PROVE count'[x] <= Cardinality(Sent(x)')
    <3>1. count[x] <= Cardinality(Sent(x)) /\ Cardinality(Sent(x)) \in Nat /\ count[x] \in Nat
      BY <1>0, <2>1, Sizes DEF Once
    <3> QED
      BY <1>3, <1>10, <1>14, <3>1
  <2> QED
    BY <1>2, <2>1 DEF Once, Key
<1>17. Refusals'
  <2>1. ASSUME NEW s \in Request, s # r, entry'[s] = "refused", NEW x, x = key[s]
        PROVE  x \in Key /\ (x \in resent \/ Cardinality(On(x)') > perMinute)
    <3>1. x \in Key /\ (x \in resent \/ Cardinality(On(x)) > perMinute)
      BY <1>4, <2>1 DEF Refusals
    <3> QED
      BY <1>10, <3>1
  <2>2. ASSUME entry'[r] = "refused", k \notin resent PROVE Cardinality(On(k)') > perMinute
    <3>1. count'[k] <= Cardinality(Sent(k)')
      BY <1>1, <1>2, <1>16, <2>2 DEF Once, Key
    <3>2. Cardinality(Sent(k)') <= Cardinality(On(k)') /\ Cardinality(Sent(k)') \in Nat /\ Cardinality(On(k)') \in Nat
      BY SizesPrimed
    <3>3. count'[k] > perMinute /\ count'[k] \in Int
      BY <1>0, <1>1, <1>6, <2>2
    <3> QED
      BY <1>0, <3>1, <3>2, <3>3
  <2>3. ASSUME NEW s \in Request, entry'[s] = "refused", NEW x, x = key[s]
        PROVE  x \in Key /\ (x \in resent \/ Cardinality(On(x)') > perMinute)
    BY <1>1, <2>1, <2>2, <2>3
  <2> QED
    BY <1>2, <2>3 DEF Refusals, Key
<1> QED
  BY <1>7, <1>8, <1>9, <1>15, <1>16, <1>17

LEMMA ResendLimit ==
  ASSUME TypeInv, LimitInv, NEW r \in Request, ResendIncr(r)
  PROVE  LimitInv'
<1> USE RateLimitAssumption DEF LimitInv, TypeInv, TypeOK, LimitTypeOK, ResendIncr, CountUnseen, Increment, clockVars
<1>1. key[r] \in Key
  BY DEF KeyHeld
<1>2. \A x \in Key : count[x] <= count'[x] /\ count[x] \in Nat /\ count'[x] \in Nat
  BY <1>1
<1>3. \A x \in Key : x # key[r] => count'[x] = count[x]
  OBVIOUS
<1>4. Clock' /\ Lives' /\ Known'
  BY DEF Clock, Lives, Known, Key
<1>5. CountersEnd'
  <2>1. ASSUME NEW x \in Key, count'[x] > 0, ends'[x] = 0
        PROVE  x \in troubled' \/ \E s \in Request : at'[s] = "expire" /\ key'[s] = x
    <3>1. CASE x = key[r] /\ count[x] = 0
      BY <3>1
    <3>2. CASE count[x] > 0
      BY <2>1, <3>2 DEF CountersEnd
    <3> QED
      BY <1>2, <1>3, <2>1, <3>1, <3>2
  <2> QED
    BY <2>1 DEF CountersEnd, Key
<1>6. \A x : LetIn(x)' = LetIn(x) /\ On(x)' = On(x) /\ Sent(x)' = Sent(x)
  BY DEF LetIn, On, Sent
<1>7. Full'
  <2>1. ASSUME NEW x \in Key \ lost, perMinute > 0
        PROVE  /\ Cardinality(LetIn(x)') <= perMinute
               /\ x[2] = minute => Cardinality(LetIn(x)') <= count'[x]
    <3>1. Cardinality(LetIn(x)) \in Nat /\ count[x] \in Nat /\ count[x] <= count'[x] /\ count'[x] \in Nat
      BY <1>2, Sizes
    <3> QED
      BY <1>6, <2>1, <3>1 DEF Full
  <2> QED
    BY <2>1 DEF Full, Key
<1>8. Once'
  BY <1>3, <1>6 DEF Once, Key
<1>9. Refusals'
  BY <1>6 DEF Refusals, Key
<1> QED
  BY <1>4, <1>5, <1>7, <1>8, <1>9

LEMMA ExpiryLimit ==
  ASSUME TypeInv, LimitInv, NEW r \in Request, SetExpiry(r)
  PROVE  LimitInv'
<1> USE RateLimitAssumption DEF LimitInv, TypeInv, TypeOK, LimitTypeOK, SetExpiry, Window, clockVars
<1>1. key[r] \in Key /\ at[r] = "expire" /\ key[r][2] <= minute /\ minute <= now
  BY DEF KeyHeld, Known, Clock
<1>2. ASSUME NEW s \in Request
      PROVE  /\ at'[s] = IF s = r THEN "auth" ELSE at[s]
             /\ key'[s] = key[s] /\ entry'[s] = entry[s]
  BY DEF Goto
<1>3. \A x \in Key : count'[x] = count[x] /\ (x # key[r] => ends'[x] = ends[x])
  OBVIOUS
<1>4. ends'[key[r]] \in {ends[key[r]], now + Minute}
  BY <1>1
<1>5. Clock'
  BY DEF Clock
<1>6. Lives'
  <2>1. \A x \in Key : x[2] \in Nat /\ ends[x] \in Nat
    BY DEF Key
  <2>2. now \in Nat /\ minute \in Nat
    OBVIOUS
  <2>3. now + Minute >= key[r][2] + Minute
    BY <1>1, <2>1, <2>2
  <2> QED
    BY <1>3, <1>4, <2>3 DEF Lives, Key
<1>7. Known'
  BY <1>1, <1>2 DEF Known, Key
<1>8. CountersEnd'
  <2>1. ASSUME NEW x \in Key, count'[x] > 0, ends'[x] = 0, x # key[r]
        PROVE  x \in troubled' \/ \E s \in Request : at'[s] = "expire" /\ key'[s] = x
    BY <1>2, <1>3, <2>1 DEF CountersEnd
  <2>2. ASSUME count'[key[r]] > 0, ends'[key[r]] = 0
        PROVE  key[r] \in troubled'
    <3>1. now + Minute # 0 /\ count[key[r]] > 0
      BY <1>1, <1>3, <2>2
    <3>2. ~ (ends' = [ends EXCEPT ![key[r]] = IF count[key[r]] > 0 THEN now + Minute ELSE @])
      BY <1>1, <2>2, <3>1
    <3> QED
      BY <3>2
  <2> QED
    BY <2>1, <2>2 DEF CountersEnd, Key
<1>9. \A x \in Key : LetIn(x)' = LetIn(x) /\ On(x)' = On(x) /\ Sent(x)' = Sent(x)
  BY <1>1, <1>2 DEF LetIn, On, Sent
<1>10. Full' /\ Once' /\ Refusals'
  BY <1>9 DEF Full, Once, Refusals, Key
<1> QED
  BY <1>5, <1>6, <1>7, <1>8, <1>10

LEMMA TickLimit ==
  ASSUME TypeInv, LimitInv, Tick
  PROVE  LimitInv'
<1> USE RateLimitAssumption DEF LimitInv, TypeInv, TypeOK, LimitTypeOK, Tick, limitHistory
<1>0. now \in Nat /\ minute \in Nat /\ now' = now + 1 /\ minute' \in Nat
  OBVIOUS
<1>1. Clock' /\ minute <= minute' /\ minute' \in {minute, now + 1}
  BY <1>0 DEF Clock
<1>2. \A x \in Key : count[x] \in Nat /\ ends[x] \in Nat /\ x[2] \in Nat
  BY DEF Key
<1>3. \A x \in Key : /\ Expired(x) => count'[x] = 0 /\ ends'[x] = 0
                     /\ ~ Expired(x) => count'[x] = count[x] /\ ends'[x] = ends[x]
  OBVIOUS
<1>4. Lives'
  BY <1>3 DEF Lives, Key
<1>5. Known'
  BY <1>0, <1>1, <1>2 DEF Known, Key
<1>6. CountersEnd'
  BY <1>3 DEF CountersEnd, Key
<1>7. \A x : LetIn(x)' = LetIn(x) /\ On(x)' = On(x) /\ Sent(x)' = Sent(x)
  BY DEF LetIn, On, Sent
<1>8. Full'
  <2>1. ASSUME NEW x \in Key \ lost, perMinute > 0, x[2] = minute'
        PROVE  Cardinality(LetIn(x)) <= count'[x]
    <3>1. CASE minute' = minute
      <4>1. now + 1 < minute + Minute
        BY <1>0, <3>1 DEF Clock
      <4>2. ~ Expired(x)
        BY <1>0, <1>2, <2>1, <3>1, <4>1 DEF Expired, Lives
      <4> QED
        BY <1>3, <2>1, <3>1, <4>2 DEF Full
    <3>2. CASE minute' = now + 1
      <4>1. LetIn(x) = {}
        BY <1>0, <2>1, <3>2 DEF LetIn, Known, Clock
      <4>2. Cardinality(LetIn(x)) = 0
        BY <4>1, FS_EmptySet
      <4> QED
        BY <1>2, <1>3, <4>2
    <3> QED
      BY <1>1, <3>1, <3>2
  <2> QED
    BY <1>7, <2>1 DEF Full, Key
<1>9. Once'
  <2>1. ASSUME NEW x \in Key \ resent PROVE count'[x] <= Cardinality(Sent(x))
    <3>1. Cardinality(Sent(x)) \in Nat /\ count[x] <= Cardinality(Sent(x))
      BY Sizes DEF Once
    <3> QED
      BY <1>2, <1>3, <3>1
  <2> QED
    BY <1>7, <2>1 DEF Once, Key
<1>10. Refusals'
  BY <1>7 DEF Refusals, Key
<1> QED
  BY <1>1, <1>4, <1>5, <1>6, <1>8, <1>9, <1>10

LEMMA RestartLimit ==
  ASSUME TypeInv, LimitInv, RedisRestart
  PROVE  LimitInv'
<1> USE RateLimitAssumption DEF LimitInv, TypeInv, TypeOK, LimitTypeOK, RedisRestart, clockVars
<1>1. \A x \in Key : count'[x] = 0 /\ ends'[x] = 0 /\ count[x] \in Nat
  OBVIOUS
<1>2. \A x : LetIn(x)' = LetIn(x) /\ On(x)' = On(x) /\ Sent(x)' = Sent(x)
  BY DEF LetIn, On, Sent
<1>3. Clock' /\ Known'
  BY DEF Clock, Known, Key
<1>4. Lives' /\ CountersEnd'
  BY <1>1 DEF Lives, CountersEnd, Key
<1>5. Full'
  <2>1. \A x \in Key \ lost' : x \notin lost /\ count'[x] = count[x]
    BY <1>1
  <2> QED
    BY <1>2, <2>1 DEF Full, Key
<1>6. Once'
  <2>1. ASSUME NEW x \in Key PROVE count'[x] <= Cardinality(Sent(x))
    <3>1. Cardinality(Sent(x)) \in Nat
      BY Sizes
    <3> QED
      BY <1>1, <3>1
  <2> QED
    BY <1>2, <2>1 DEF Once, Key
<1>7. Refusals'
  BY <1>2 DEF Refusals, Key
<1> QED
  BY <1>3, <1>4, <1>5, <1>6, <1>7

LEMMA InitLimit == Init => LimitInv
<1> SUFFICES ASSUME Init PROVE LimitInv
  OBVIOUS
<1> USE RateLimitAssumption DEF Init, LimitInit
<1>1. \A k : LetIn(k) = {}
  BY DEF LetIn
<1>2. \A k : Cardinality(LetIn(k)) = 0
  BY <1>1, FS_EmptySet
<1>3. Clock /\ Known /\ Lives /\ CountersEnd /\ Refusals
  BY DEF Clock, Known, Lives, CountersEnd, Refusals
<1>4. Full
  BY <1>2 DEF Full
<1>5. Once
  <2>1. ASSUME NEW k \in Key PROVE count[k] <= Cardinality(Sent(k))
    BY Sizes
  <2> QED
    BY <2>1 DEF Once
<1> QED
  BY <1>3, <1>4, <1>5 DEF LimitInv

LEMMA LimitStep == TypeInv /\ LimitInv /\ [Next]_vars => LimitInv'
<1> SUFFICES ASSUME TypeInv, LimitInv, [Next]_vars PROVE LimitInv'
  OBVIOUS
<1>1. ASSUME NEW r \in Request, Limiter(r) PROVE LimitInv'
  BY <1>1, ArriveLimit, IncrLimit, ResendLimit, ExpiryLimit DEF Limiter
<1>2. ASSUME NEW r \in Request, NEW u \in User \cup {NoOne}, NEW d \in Route, Dispatch(r, u, d)
      PROVE  LimitInv'
  BY <1>2, DispatchMoves, MoveLimit
<1>3. ASSUME NEW r \in Request, Writer(r) \/ Reader(r) PROVE LimitInv'
  BY <1>3, WriterMoves, ReaderMoves, MoveLimit
<1>4. CASE Tick \/ RedisRestart
  BY <1>4, TickLimit, RestartLimit
<1>5. CASE UNCHANGED vars
  <2>1. \A k : LetIn(k)' = LetIn(k) /\ On(k)' = On(k) /\ Sent(k)' = Sent(k)
    BY <1>5 DEF LetIn, On, Sent, vars
  <2>2. Clock' /\ Known' /\ Lives' /\ CountersEnd'
    BY <1>5 DEF LimitInv, Clock, Known, Lives, CountersEnd, vars, Key
  <2>3. Full' /\ Once' /\ Refusals'
    BY <1>5, <2>1 DEF LimitInv, Full, Once, Refusals, vars, Key
  <2> QED
    BY <2>2, <2>3 DEF LimitInv
<1> QED
  BY <1>1, <1>2, <1>3, <1>4, <1>5 DEF Next

LEMMA LimitInvariant == Spec => [](TypeInv /\ LimitInv)
<1> QED
  BY InitTypes, TypeStep, InitLimit, LimitStep, PTL DEF Spec

(* No minute lets more of an address in than the limit, however the INCRs,   *)
(* the EXPIREs and the end of the minute fall (ratelimit.go).                *)
THEOREM LimitHolds == Spec => []WithinLimit
<1>1. LimitInv => WithinLimit
  BY DEF LimitInv, Full, WithinLimit, LetIn
<1> QED
  BY <1>1, LimitInvariant, PTL

(* Who is refused has exceeded the limit, or was counted twice. *)
THEOREM RefusalsJustified == Spec => []RefusedIsOverLimit
<1>1. LimitInv => RefusedIsOverLimit
  BY DEF LimitInv, Refusals, RefusedIsOverLimit, On
<1> QED
  BY <1>1, LimitInvariant, PTL

(* Counters do not stay in Redis for good. *)
THEOREM CountersExpire == Spec => []CountersEnd
<1>1. LimitInv => CountersEnd
  BY DEF LimitInv
<1> QED
  BY <1>1, LimitInvariant, PTL

-----------------------------------------------------------------------------
(* The handlers.  How far a request has come says what it is about, which    *)
(* tables its row is in and what it has been answered.                       *)

Early == {"new", "incr", "expire", "auth"}

Path(r) ==
  /\ at[r] \in Early => route[r] = "none"
  /\ at[r] \in Route => route[r] = at[r]
  /\ at[r] \in {"insert", "category"} => route[r] = "check"
  /\ at[r] = "save" => route[r] = "analyze"
  /\ at[r] = "threats" => route[r] = "summary"
  /\ at[r] = "distribution" => route[r] = "metrics"
  /\ at[r] # "done" => reply[r] = "none"

Filed(r) ==
  /\ r \in messages => route[r] = "check" /\ at[r] \in {"category", "done"} /\ text[r] # NoText
  /\ r \in sessions => route[r] = "analyze" /\ at[r] = "done" /\ text[r] # NoText
  /\ r \in versions => route[r] = "add version" /\ at[r] = "done"
  /\ r \in detections => r \in messages /\ at[r] = "done"
  /\ at[r] = "category" => r \in messages
  /\ reply[r] = "ok" =>
       /\ route[r] = "check" => r \in detections
       /\ route[r] = "analyze" => r \in sessions
       /\ route[r] = "add version" => r \in versions

Judgement(r) ==
  /\ at[r] \in Early \cup Route => text[r] = NoText
  /\ at[r] \in {"insert", "category", "save"} => text[r] # NoText
  /\ text[r] = NoText => result[r].category = NoCategory
  /\ text[r] # NoText => GoodResult(text[r], result[r]) /\ route[r] \in {"check", "analyze"}

Course == \A r \in Request : Path(r) /\ Filed(r) /\ Judgement(r)

(* A step of a handler concerns its request only. *)
Same(s) ==
  /\ at'[s] = at[s] /\ route'[s] = route[s] /\ caller'[s] = caller[s]
  /\ filter'[s] = filter[s] /\ before'[s] = before[s] /\ reply'[s] = reply[s]
  /\ text'[s] = text[s] /\ result'[s] = result[s] /\ created'[s] = created[s]
  /\ since'[s] = since[s] /\ counted'[s] = counted[s]
  /\ limit'[s] = limit[s] /\ shown'[s] = shown[s] /\ stored'[s] = stored[s]
  /\ (s \in messages') <=> (s \in messages)
  /\ (s \in detections') <=> (s \in detections)
  /\ (s \in sessions') <=> (s \in sessions)
  /\ (s \in versions') <=> (s \in versions)

Moved(s) == at'[s] = at[s] /\ reply'[s] = reply[s]

LEMMA SameCourse ==
  ASSUME NEW s \in Request, Path(s), Filed(s), Judgement(s), Same(s), mock' = mock
  PROVE  Path(s)' /\ Filed(s)' /\ Judgement(s)'
<1>1. Path(s)' /\ Filed(s)'
  BY DEF Path, Filed, Same
<1>2. Judgement(s)'
  BY DEF Judgement, Same, GoodResult, HitsIn
<1> QED
  BY <1>1, <1>2

LEMMA MovesOne ==
  ASSUME TypeInv, NEW r \in Request
  PROVE  /\ \A step : Proceed(r, step) => \A s \in Request \ {r} : Moved(s)
         /\ \A how : Answer(r, how) => \A s \in Request \ {r} : Moved(s)
  BY DEF Answer, Proceed, Goto, Moved, TypeInv, TypeOK, HandlerTypeOK

LEMMA DispatchLocal ==
  ASSUME TypeInv, NEW r \in Request, NEW u \in User \cup {NoOne}, NEW d \in Route,
         Dispatch(r, u, d)
  PROVE  mock' = mock /\ \A s \in Request \ {r} : Same(s)
<1>1. \A s \in Request \ {r} : Moved(s)
  BY MovesOne DEF Dispatch
<1>2. \A s \in Request \ {r} :
        /\ route'[s] = route[s] /\ caller'[s] = caller[s]
        /\ filter'[s] = filter[s] /\ before'[s] = before[s] /\ stored'[s] = stored[s]
  BY DEF Dispatch, TypeInv, TypeOK, HandlerTypeOK
<1>3. mock' = mock /\ UNCHANGED <<tables, rowVars, readVars>>
  BY DEF Dispatch
<1> QED
  BY <1>1, <1>2, <1>3 DEF Moved, tables, rowVars, readVars, Same

LEMMA WriterLocal ==
  ASSUME TypeInv, NEW r \in Request, Writer(r)
  PROVE  mock' = mock /\ \A s \in Request \ {r} : Same(s)
<1>0. \A s \in Request \ {r} : Moved(s)
  BY MovesOne DEF Writer, Classify, InsertMessage, InsertDetection, SaveSession, CreateVersion
<1> USE <1>0 DEF Inserts, askVars, tables, rowVars, readVars, Moved, Same,
      TypeInv, TypeOK, HandlerTypeOK
<1>1. CASE Classify(r)
  BY <1>1 DEF Classify
<1>2. CASE InsertMessage(r)
  BY <1>2 DEF InsertMessage
<1>3. CASE InsertDetection(r)
  BY <1>3 DEF InsertDetection
<1>4. CASE SaveSession(r)
  BY <1>4 DEF SaveSession
<1>5. CASE CreateVersion(r)
  BY <1>5 DEF CreateVersion
<1> QED
  BY <1>1, <1>2, <1>3, <1>4, <1>5 DEF Writer

LEMMA ReaderLocal ==
  ASSUME TypeInv, NEW r \in Request, Reader(r)
  PROVE  UNCHANGED <<askVars, tables, rowVars>> /\ \A s \in Request \ {r} : Same(s)
<1>0. \A s \in Request \ {r} : Moved(s)
  BY MovesOne DEF Reader, ListHistory, ListMessages, ListVersions, CountOwn, ListThreats,
     CountAll, CountCategories
<1> USE <1>0 DEF Show, askVars, tables, rowVars, Moved, Same,
      TypeInv, TypeOK, HandlerTypeOK
<1>1. CASE ListHistory(r)
  BY <1>1 DEF ListHistory
<1>2. CASE ListMessages(r)
  BY <1>2 DEF ListMessages
<1>3. CASE ListVersions(r)
  BY <1>3 DEF ListVersions
<1>4. CASE CountOwn(r)
  BY <1>4 DEF CountOwn
<1>5. CASE ListThreats(r)
  BY <1>5 DEF ListThreats
<1>6. CASE CountAll(r)
  BY <1>6 DEF CountAll
<1>7. CASE CountCategories(r)
  BY <1>7 DEF CountCategories
<1> QED
  BY <1>1, <1>2, <1>3, <1>4, <1>5, <1>6, <1>7 DEF Reader

(* The limiter and the clock. *)
LEMMA OutsideLocal ==
  ASSUME TypeInv, UNCHANGED handlerVars, NEW r \in Request, Limiter(r)
  PROVE  /\ mock' = mock /\ \A s \in Request \ {r} : Same(s)
         /\ at[r] \in {"new", "incr", "expire"} /\ at'[r] \in {"incr", "expire", "auth", "done"}
<1>1. \A s \in Request \ {r} : at'[s] = at[s]
  BY DEF Limiter, Arrive, Incr, Counted, ResendIncr, SetExpiry, Goto, TypeInv, TypeOK
<1>2. at[r] \in {"new", "incr", "expire"} /\ at'[r] \in {"incr", "expire", "auth", "done"}
  BY DEF Limiter, Arrive, Incr, Counted, ResendIncr, SetExpiry, Goto, TypeInv, TypeOK
<1>3. UNCHANGED <<mock, route, caller, filter, before, stored, reply>>
  BY DEF handlerVars, askVars
<1>4. UNCHANGED <<text, result, created, messages, detections, sessions, versions>>
  BY DEF handlerVars, rowVars, tables
<1>5. UNCHANGED <<since, counted, limit, shown>>
  BY DEF handlerVars, readVars
<1> QED
  BY <1>1, <1>2, <1>3, <1>4, <1>5 DEF Same

LEMMA ClockLocal ==
  ASSUME UNCHANGED handlerVars, Tick \/ RedisRestart
  PROVE  mock' = mock /\ \A s \in Request : Same(s)
<1>1. at' = at
  BY DEF Tick, RedisRestart
<1>2. UNCHANGED <<mock, route, caller, filter, before, stored, reply>>
  BY DEF handlerVars, askVars
<1>3. UNCHANGED <<text, result, created, messages, detections, sessions, versions>>
  BY DEF handlerVars, rowVars, tables
<1>4. UNCHANGED <<since, counted, limit, shown>>
  BY DEF handlerVars, readVars
<1> QED
  BY <1>1, <1>2, <1>3, <1>4 DEF Same

LEMMA OutsideCourse ==
  ASSUME TypeInv, NEW r \in Request, Path(r), Filed(r), Judgement(r),
         UNCHANGED handlerVars, Limiter(r)
  PROVE  Path(r)' /\ Filed(r)' /\ Judgement(r)'
<1>1. at[r] \in {"new", "incr", "expire"} /\ at'[r] \in {"incr", "expire", "auth", "done"}
  BY OutsideLocal
<1>2. UNCHANGED <<mock, route, reply>>
  BY DEF handlerVars, askVars
<1>3. UNCHANGED <<text, result, messages, detections, sessions, versions>>
  BY DEF handlerVars, rowVars, tables
<1>4. Path(r)' /\ Filed(r)'
  BY <1>1, <1>2, <1>3 DEF Path, Filed, Early, Route, AdminRoute
<1>5. Judgement(r)'
  BY <1>1, <1>2, <1>3 DEF Judgement, Early, Route, AdminRoute, GoodResult, HitsIn
<1> QED
  BY <1>4, <1>5

LEMMA DispatchCourse ==
  ASSUME TypeInv, NEW r \in Request, Path(r), Filed(r), Judgement(r),
         NEW u \in User \cup {NoOne}, NEW d \in Route, Dispatch(r, u, d)
  PROVE  Path(r)' /\ Filed(r)' /\ Judgement(r)'
<1> USE DEF TypeInv, TypeOK, HandlerTypeOK
<1>1. at[r] = "auth" /\ UNCHANGED <<mock, text, result, messages, detections, sessions, versions>>
  BY DEF Dispatch, tables, rowVars
<1>2. /\ route[r] = "none" /\ reply[r] = "none" /\ text[r] = NoText
      /\ r \notin messages \cup detections \cup sessions \cup versions
  BY <1>1 DEF Path, Filed, Judgement, Early
<1>3. \/ at'[r] = d /\ route'[r] = d /\ reply'[r] = "none"
      \/ at'[r] = "done" /\ route'[r] = "none" /\ reply'[r] \in {"forbidden", "unauthorized"}
  BY <1>2 DEF Dispatch, Answer, Proceed, Goto
<1>4. Path(r)' /\ Filed(r)'
  BY <1>1, <1>2, <1>3 DEF Path, Filed, Early, Route, AdminRoute
<1>5. Judgement(r)'
  BY <1>1, <1>2, <1>3 DEF Judgement, Early, Route, AdminRoute
<1> QED
  BY <1>4, <1>5

LEMMA WriterCourse ==
  ASSUME TypeInv, NEW r \in Request, Path(r), Filed(r), Judgement(r), Writer(r)
  PROVE  Path(r)' /\ Filed(r)' /\ Judgement(r)'
<1> USE DEF TypeInv, TypeOK, HandlerTypeOK, Answer, Proceed, Goto, Inserts,
      askVars, tables, rowVars, Early, Route, AdminRoute
<1>1. CASE Classify(r)
  <2>1. /\ at[r] \in {"check", "analyze"} /\ route[r] = at[r] /\ reply[r] = "none"
        /\ text[r] = NoText /\ r \notin messages \cup detections \cup sessions \cup versions
    BY <1>1 DEF Classify, Path, Filed, Judgement
  <2>2. UNCHANGED <<mock, route, messages, detections, sessions, versions>>
    BY <1>1 DEF Classify
  <2>3. CASE at'[r] = "done" /\ reply'[r] = "failed" /\ text' = text /\ result' = result
    <3>1. Path(r)' /\ Filed(r)'
      BY <2>1, <2>2, <2>3 DEF Path, Filed
    <3>2. Judgement(r)'
      BY <2>1, <2>2, <2>3 DEF Judgement
    <3> QED
      BY <3>1, <3>2
  <2>4. ASSUME NEW t \in Text, NEW res \in Classified(t), text' = [text EXCEPT ![r] = t],
               result' = [result EXCEPT ![r] = res], reply' = reply,
               at' = [at EXCEPT ![r] = IF at[r] = "check" THEN "insert" ELSE "save"]
        PROVE  Path(r)' /\ Filed(r)' /\ Judgement(r)'
    <3>1. GoodResult(t, res) /\ t # NoText
      BY ClassifiedIsGood, ApiAssumption
    <3>2. GoodResult(t, res)'
      BY <2>2, <3>1 DEF GoodResult, HitsIn
    <3>3. text'[r] = t /\ result'[r] = res
      BY <2>4
    <3>4. Path(r)' /\ Filed(r)'
      BY <2>1, <2>2, <2>4, <3>1, <3>3 DEF Path, Filed
    <3>5. Judgement(r)'
      BY <2>1, <2>2, <2>4, <3>1, <3>2, <3>3 DEF Judgement, GoodResult, HitsIn
    <3> QED
      BY <3>4, <3>5
  <2> QED
    BY <1>1, <2>3, <2>4 DEF Classify
<1>2. CASE InsertMessage(r)
  <2>1. at[r] = "insert" /\ at'[r] \in {"category", "done"} /\ UNCHANGED <<mock, route, text, result>>
    BY <1>2 DEF InsertMessage
  <2>0. /\ route[r] = "check" /\ text[r] # NoText /\ reply[r] = "none"
        /\ r \notin detections \cup sessions \cup versions
    BY <2>1 DEF Path, Filed, Judgement
  <2>2. Path(r)' /\ Filed(r)'
    BY <1>2, <2>0, <2>1 DEF InsertMessage, Path, Filed
  <2>3. Judgement(r)'
    BY <2>1 DEF Judgement, GoodResult, HitsIn
  <2> QED
    BY <2>2, <2>3
<1>3. CASE InsertDetection(r)
  <2>1. at[r] = "category" /\ at'[r] = "done" /\ UNCHANGED <<mock, route, text, result>>
    BY <1>3 DEF InsertDetection
  <2>2. Path(r)' /\ Filed(r)'
    BY <1>3, <2>1 DEF InsertDetection, Path, Filed, Judgement
  <2>3. Judgement(r)'
    BY <2>1 DEF Judgement, GoodResult, HitsIn
  <2> QED
    BY <2>2, <2>3
<1>4. CASE SaveSession(r)
  <2>1. at[r] = "save" /\ at'[r] = "done" /\ UNCHANGED <<mock, route, text, result>>
    BY <1>4 DEF SaveSession
  <2>0. /\ route[r] = "analyze" /\ text[r] # NoText
        /\ r \notin messages \cup detections \cup versions
    BY <2>1 DEF Path, Filed, Judgement
  <2>2. Path(r)' /\ Filed(r)'
    BY <1>4, <2>0, <2>1 DEF SaveSession, Path, Filed
  <2>3. Judgement(r)'
    BY <2>1 DEF Judgement, GoodResult, HitsIn
  <2> QED
    BY <2>2, <2>3
<1>5. CASE CreateVersion(r)
  <2>1. at[r] = "add version" /\ at'[r] = "done" /\ UNCHANGED <<mock, route, text, result>>
    BY <1>5 DEF CreateVersion
  <2>2. Path(r)' /\ Filed(r)'
    BY <1>5, <2>1 DEF CreateVersion, Path, Filed, Judgement
  <2>3. Judgement(r)'
    BY <2>1 DEF Judgement, GoodResult, HitsIn
  <2> QED
    BY <2>2, <2>3
<1> QED
  BY <1>1, <1>2, <1>3, <1>4, <1>5 DEF Writer

LEMMA ReaderCourse ==
  ASSUME TypeInv, NEW r \in Request, Path(r), Filed(r), Judgement(r), Reader(r)
  PROVE  Path(r)' /\ Filed(r)' /\ Judgement(r)'
<1>1. UNCHANGED <<mock, route, text, result, messages, detections, sessions, versions>>
  BY ReaderLocal DEF askVars, tables, rowVars
<1>2. /\ \/ at[r] \in {"history", "messages", "versions", "threats", "distribution"} /\ at'[r] = "done"
         \/ at[r] = "summary" /\ at'[r] \in {"threats", "done"}
         \/ at[r] = "metrics" /\ at'[r] \in {"distribution", "done"}
      /\ at'[r] # "done" => reply'[r] = reply[r]
  BY DEF Reader, ListHistory, ListMessages, ListVersions, CountOwn, ListThreats, CountAll,
         CountCategories, Answer, Proceed, Goto, TypeInv, TypeOK
<1>5. /\ route[r] \in {"history", "summary", "messages", "versions", "metrics"} /\ reply[r] = "none"
      /\ text[r] = NoText
      /\ at[r] \in {"summary", "threats"} => route[r] = "summary"
      /\ at[r] \in {"metrics", "distribution"} => route[r] = "metrics"
      /\ r \notin messages \cup detections \cup sessions \cup versions
  BY <1>2 DEF Path, Filed, Judgement, Early, Route, AdminRoute
<1>3. Path(r)' /\ Filed(r)'
  <2>1. Path(r)'
    BY <1>1, <1>2, <1>5 DEF Path, Early, Route, AdminRoute
  <2> QED
    BY <1>1, <1>2, <1>5, <2>1 DEF Filed
<1>4. Judgement(r)'
  BY <1>1, <1>2, <1>5 DEF Judgement, Early, Route, AdminRoute
<1> QED
  BY <1>3, <1>4

LEMMA InitCourse == Init => Course
<1> SUFFICES ASSUME Init, NEW r \in Request PROVE Path(r) /\ Filed(r) /\ Judgement(r)
  BY DEF Course
<1>1. Path(r) /\ Filed(r)
  BY DEF Init, Path, Filed, Early, Route, AdminRoute
<1>2. Judgement(r)
  BY DEF Init, Judgement, Judged, Early, Route, AdminRoute
<1> QED
  BY <1>1, <1>2

LEMMA CourseStep == TypeInv /\ Course /\ [Next]_vars => Course'
<1> SUFFICES ASSUME TypeInv, Course, [Next]_vars PROVE Course'
  OBVIOUS
<1>1. ASSUME NEW r \in Request, mock' = mock, \A s \in Request \ {r} : Same(s),
             Path(r)' /\ Filed(r)' /\ Judgement(r)'
      PROVE  Course'
  BY <1>1, SameCourse DEF Course
<1>2. ASSUME mock' = mock, \A s \in Request : Same(s) PROVE Course'
  BY <1>2, SameCourse DEF Course
<1>3. ASSUME NEW r \in Request, Limiter(r), UNCHANGED handlerVars PROVE Course'
  BY <1>1, <1>3, OutsideLocal, OutsideCourse DEF Course
<1>4. ASSUME NEW r \in Request, NEW u \in User \cup {NoOne}, NEW d \in Route, Dispatch(r, u, d)
      PROVE  Course'
  BY <1>1, <1>4, DispatchLocal, DispatchCourse DEF Course
<1>5. ASSUME NEW r \in Request, Writer(r) PROVE Course'
  BY <1>1, <1>5, WriterLocal, WriterCourse DEF Course
<1>6. ASSUME NEW r \in Request, Reader(r) PROVE Course'
  <2>1. mock' = mock
    BY <1>6, ReaderLocal DEF askVars
  <2> QED
    BY <1>1, <1>6, <2>1, ReaderLocal, ReaderCourse DEF Course
<1>7. ASSUME Tick \/ RedisRestart, UNCHANGED handlerVars PROVE Course'
  BY <1>2, <1>7, ClockLocal
<1>8. CASE UNCHANGED vars
  BY <1>2, <1>8 DEF vars, Same
<1> QED
  BY <1>3, <1>4, <1>5, <1>6, <1>7, <1>8 DEF Next

-----------------------------------------------------------------------------
(* The readers.  Rows that are there stay as they are, and so does all that  *)
(* belongs to a request that is answered.                                    *)

Row4(s) == <<route[s], caller[s], result[s], created[s]>>

LEMMA Settled ==
  ASSUME TypeInv, Course, [Next]_vars
  PROVE  /\ \A s \in Request : at[s] = "done" => Same(s)
         /\ messages \subseteq messages' /\ versions \subseteq versions'
         /\ \A s \in messages \cup versions :
              /\ route'[s] = route[s] /\ caller'[s] = caller[s]
              /\ result'[s] = result[s] /\ created'[s] = created[s]
<1>0. messages \subseteq Request /\ versions \subseteq Request
  BY DEF TypeInv, TypeOK, HandlerTypeOK
<1>1. ASSUME NEW r \in Request, \A s \in Request \ {r} : Same(s), at[r] # "done",
             r \in messages => r \in messages', r \notin versions,
             r \in messages => Row4(r)' = Row4(r)
      PROVE  /\ \A s \in Request : at[s] = "done" => Same(s)
             /\ messages \subseteq messages' /\ versions \subseteq versions'
             /\ \A s \in messages \cup versions :
                  /\ route'[s] = route[s] /\ caller'[s] = caller[s]
                  /\ result'[s] = result[s] /\ created'[s] = created[s]
  BY <1>0, <1>1 DEF Same, Row4
<1>2. ASSUME NEW r \in Request, at[r] # "done" PROVE r \notin versions
  BY <1>2 DEF Course, Filed
<1>3. ASSUME NEW r \in Request, at[r] \notin {"category", "done"} PROVE r \notin messages
  BY <1>3 DEF Course, Filed
<1>4. ASSUME NEW r \in Request, Limiter(r), UNCHANGED handlerVars
      PROVE  at[r] \notin {"category", "done"} /\ \A s \in Request \ {r} : Same(s)
  BY <1>4, OutsideLocal
<1>5. ASSUME NEW r \in Request, NEW u \in User \cup {NoOne}, NEW d \in Route, Dispatch(r, u, d)
      PROVE  at[r] \notin {"category", "done"} /\ \A s \in Request \ {r} : Same(s)
  BY <1>5, DispatchLocal DEF Dispatch
<1>6. ASSUME NEW r \in Request, Reader(r)
      PROVE  at[r] \notin {"category", "done"} /\ \A s \in Request \ {r} : Same(s)
  BY <1>6, ReaderLocal DEF Reader, ListHistory, ListMessages, ListVersions, CountOwn, ListThreats,
         CountAll, CountCategories
<1>7. ASSUME NEW r \in Request, Writer(r)
      PROVE  /\ \A s \in Request \ {r} : Same(s)
             /\ at[r] # "done"
             /\ r \in messages => r \in messages' /\ Row4(r)' = Row4(r)
  <2>1. at[r] # "done"
    BY <1>7, WriterMoves DEF Moves
  <2>2. ASSUME r \in messages PROVE r \in messages' /\ Row4(r)' = Row4(r)
    <3>1. InsertDetection(r)
      BY <1>7, <2>1, <2>2, <1>3 DEF Writer, Classify, InsertMessage, SaveSession, CreateVersion
    <3> QED
      BY <2>2, <3>1 DEF InsertDetection, askVars, rowVars, Row4
  <2> QED
    BY <1>7, <2>1, <2>2, WriterLocal
<1>8. ASSUME NEW r \in Request, at[r] \notin {"category", "done"}, \A s \in Request \ {r} : Same(s)
      PROVE  /\ \A s \in Request : at[s] = "done" => Same(s)
             /\ messages \subseteq messages' /\ versions \subseteq versions'
             /\ \A s \in messages \cup versions :
                  /\ route'[s] = route[s] /\ caller'[s] = caller[s]
                  /\ result'[s] = result[s] /\ created'[s] = created[s]
  BY <1>1, <1>2, <1>3, <1>8
<1>9. ASSUME \A s \in Request : Same(s)
      PROVE  /\ \A s \in Request : at[s] = "done" => Same(s)
             /\ messages \subseteq messages' /\ versions \subseteq versions'
             /\ \A s \in messages \cup versions :
                  /\ route'[s] = route[s] /\ caller'[s] = caller[s]
                  /\ result'[s] = result[s] /\ created'[s] = created[s]
  BY <1>0, <1>9 DEF Same
<1>10. ASSUME Tick \/ RedisRestart, UNCHANGED handlerVars PROVE \A s \in Request : Same(s)
  BY <1>10, ClockLocal
<1>11. UNCHANGED vars => \A s \in Request : Same(s)
  BY DEF vars, Same
<1>a. CASE \E r \in Request : Limiter(r) /\ UNCHANGED handlerVars
  BY <1>4, <1>8, <1>a
<1>b. CASE \E r \in Request : \E u \in User \cup {NoOne}, d \in Route : Dispatch(r, u, d)
  BY <1>5, <1>8, <1>b
<1>c. CASE \E r \in Request : Reader(r)
  BY <1>6, <1>8, <1>c
<1>d. CASE \E r \in Request : Writer(r)
  BY <1>1, <1>2, <1>7, <1>d
<1>e. CASE (Tick \/ RedisRestart) /\ UNCHANGED handlerVars
  BY <1>9, <1>10, <1>e
<1>f. CASE UNCHANGED vars
  BY <1>9, <1>11, <1>f
<1> QED
  BY <1>a, <1>b, <1>c, <1>d, <1>e, <1>f DEF Next

(* What has been read, from the statement that reads it on. *)
Told(r) ==
  reply[r] = "ok" =>
    \A s \in stored[r] \cup before[r] : Matches(r, s) =>
      \/ /\ s \in Listed(r)
         /\ s \in before[r] => <<s, result[s].category>> \in shown[r]
      \/ Filled(r) /\ \A m \in Listed(r) : created[m] >= created[s]

Summed(r) ==
  at[r] = "threats" \/ (route[r] = "summary" /\ reply[r] = "ok") =>
    /\ counted[r] \subseteq OwnMessages(r)
    /\ \A s \in before[r] :
         route[s] = "check" /\ caller[s] = caller[r] /\ created[s] >= since[r]
           => s \in counted[r]

Threatened(r) ==
  route[r] = "summary" /\ reply[r] = "ok" =>
    \/ Cardinality(Listed(r)) >= Cardinality(Unsafe(counted[r]))
    \/ Cardinality(Listed(r)) = Threats

Overseen(r) ==
  at[r] = "distribution" \/ (route[r] = "metrics" /\ reply[r] = "ok") =>
    \A s \in before[r] :
      /\ route[s] = "check" => s \in counted[r]
      /\ route[s] = "analyze" /\ result[s].verdict = "scam" => s \in counted[r]

Distributed(r) ==
  route[r] = "metrics" /\ reply[r] = "ok" =>
    \A s \in before[r] :
      route[s] = "check" /\ result[s].category # NoCategory => <<s, result[s].category>> \in shown[r]

Seen(r) ==
  /\ before[r] \subseteq Answered
  /\ stored[r] \subseteq messages \cup versions
  /\ Listed(r) \subseteq messages \cup versions

Read(r) == Told(r) /\ Summed(r) /\ Threatened(r) /\ Overseen(r) /\ Distributed(r)

LEMMA AnsweredStays ==
  ASSUME TypeInv, Course, [Next]_vars
  PROVE  /\ Answered \subseteq Answered'
         /\ \A s \in Answered : Same(s) /\ at[s] = "done"
<1>1. \A s \in Answered : s \in Request /\ at[s] = "done"
  BY DEF Answered, Course, Path
<1>2. \A s \in Answered : Same(s)
  BY <1>1, Settled
<1> QED
  BY <1>1, <1>2 DEF Answered, Same

(* Steps of other requests leave it as it was read. *)
LEMMA ReadStays ==
  ASSUME TypeInv, Course, [Next]_vars, NEW r \in Request, Seen(r), Read(r), Same(r)
  PROVE  Seen(r)' /\ Read(r)'
<1>1. /\ messages \subseteq messages' /\ versions \subseteq versions'
      /\ \A s \in messages \cup versions :
           /\ route'[s] = route[s] /\ caller'[s] = caller[s]
           /\ result'[s] = result[s] /\ created'[s] = created[s]
  BY Settled
<1>2. /\ Answered \subseteq Answered'
      /\ \A s \in before[r] :
           /\ route'[s] = route[s] /\ caller'[s] = caller[s]
           /\ result'[s] = result[s] /\ created'[s] = created[s]
  BY AnsweredStays DEF Seen, Same
<1>3. /\ at'[r] = at[r] /\ route'[r] = route[r] /\ caller'[r] = caller[r]
      /\ filter'[r] = filter[r] /\ before'[r] = before[r] /\ reply'[r] = reply[r]
      /\ since'[r] = since[r] /\ counted'[r] = counted[r] /\ shown'[r] = shown[r]
      /\ limit'[r] = limit[r] /\ stored'[r] = stored[r]
  BY DEF Same
<1>4. Seen(r)'
  BY <1>1, <1>2, <1>3 DEF Seen, Listed
<1>5. Told(r)'
  <2>1. ASSUME NEW s \in stored[r] \cup before[r]
        PROVE  /\ Matches(r, s)' <=> Matches(r, s)
               /\ result'[s] = result[s] /\ created'[s] = created[s]
    <3>1. /\ route'[s] = route[s] /\ caller'[s] = caller[s]
          /\ result'[s] = result[s] /\ created'[s] = created[s]
      BY <1>1, <1>2 DEF Seen
    <3> QED
      BY <1>3, <3>1 DEF Matches
  <2>2. \A m \in Listed(r) : created'[m] = created[m]
    BY <1>1 DEF Seen
  <2>3. Listed(r)' = Listed(r) /\ Filled(r)' = Filled(r)
    BY <1>3 DEF Listed, Filled
  <2> QED
    BY <1>3, <2>1, <2>2, <2>3 DEF Read, Told
<1>6. Summed(r)'
  BY <1>1, <1>2, <1>3 DEF Read, Summed, OwnMessages
<1>7. Threatened(r)'
  <2>1. Listed(r)' = Listed(r)
    BY <1>3 DEF Listed
  <2>2. route[r] = "summary" /\ reply[r] = "ok" => Unsafe(counted[r])' = Unsafe(counted[r])
    BY <1>1, <1>3 DEF Read, Summed, OwnMessages, Unsafe
  <2> QED
    BY <1>3, <2>1, <2>2 DEF Read, Threatened
<1>8. Overseen(r)' /\ Distributed(r)'
  BY <1>2, <1>3 DEF Read, Overseen, Distributed
<1> QED
  BY <1>4, <1>5, <1>6, <1>7, <1>8 DEF Read

(* A step of the request that reads nothing, or fails to. *)
LEMMA Unread ==
  ASSUME NEW r \in Request, at'[r] \notin {"threats", "distribution"},
         reply'[r] # "ok" \/ route'[r] \in Writes
  PROVE  Read(r)'
  BY DEF Read, Told, Summed, Threatened, Overseen, Distributed, Matches, Writes

(* What a request has told is in the tables. *)
LEMMA AnsweredIsFiled ==
  ASSUME TypeInv, Course, NEW s \in Answered
  PROVE  /\ s \in Request
         /\ route[s] = "check" => s \in messages /\ s \in detections
         /\ route[s] = "analyze" => s \in sessions
         /\ route[s] = "add version" => s \in versions /\ result[s].category = NoCategory
         /\ route[s] \in {"check", "analyze", "add version"}
<1>1. s \in Request /\ reply[s] = "ok" /\ route[s] \in {"check", "analyze", "add version"}
  BY DEF Answered, Writes
<1>2. Path(s) /\ Filed(s) /\ Judgement(s)
  BY <1>1 DEF Course
<1> QED
  BY <1>1, <1>2 DEF Filed, Judgement

LEMMA NamedId ==
  ASSUME TypeInv, NEW s \in Request
  PROVE  IdByName(result[s].category) = result[s].category
<1>1. result[s].category \in NoCategory..Other
  BY DEF TypeInv, TypeOK, HandlerTypeOK, Result, Category
<1>2. Other \in Int
  BY ClassifierAssumption DEF Other
<1> QED
  BY <1>1, <1>2 DEF IdByName, NoCategory

LEMMA NewestIsFull ==
  ASSUME NEW S, S \subseteq Request, NEW n \in Nat \ {0}, NEW T \in Newest(S, n)
  PROVE  /\ T \subseteq S /\ IsFiniteSet(T) /\ IsFiniteSet(S)
         /\ Cardinality(T) = n \/ Cardinality(T) = Cardinality(S)
         /\ \A s \in S : s \in T \/ (Cardinality(T) = n /\ \A t \in T : created[t] >= created[s])
<1>1. T \subseteq S /\ Cardinality(T) = IF Cardinality(S) < n THEN Cardinality(S) ELSE n
  BY DEF Newest
<1>2. IsFiniteSet(S) /\ IsFiniteSet(T)
  BY <1>1, RateLimitAssumption, FS_Subset
<1>3. ASSUME NEW s \in S, s \notin T
      PROVE  Cardinality(T) = n /\ \A t \in T : created[t] >= created[s]
  <2>1. \A t \in T : created[t] >= created[s]
    BY <1>3 DEF Newest
  <2>2. Cardinality(T) # Cardinality(S)
    BY <1>1, <1>2, <1>3, FS_Subset
  <2> QED
    BY <1>1, <2>1, <2>2
<1> QED
  BY <1>1, <1>2, <1>3

(* What a list shows of the rows it is taken from. *)
Reached(r, S, n, T) ==
  /\ T \in Newest(S, n) /\ Listed(r)' = T /\ limit'[r] = n
  /\ \A s \in S :
       \/ s \in T /\ (s \in Answered /\ route[s] = "check" => <<s, result[s].category>> \in shown'[r])
       \/ Cardinality(T) = n /\ \A t \in T : created[t] >= created[s]

LEMMA Shows ==
  ASSUME TypeInv, Course, NEW r \in Request, NEW S, S \subseteq messages,
         NEW n \in Nat \ {0}, Show(r, S, n)
  PROVE  \E T : Reached(r, S, n, T)
<1>1. PICK T \in Newest(S, n) : shown' = [shown EXCEPT ![r] = {WithCategory(m) : m \in T}]
  BY Zenon DEF Show
<1>2. shown'[r] = {WithCategory(m) : m \in T}
  BY <1>1 DEF TypeInv, TypeOK, HandlerTypeOK
<1>3. \A m : WithCategory(m)[1] = m
  BY DEF WithCategory
<1>4. Listed(r)' = T
  BY <1>2, <1>3 DEF Listed
<1>5. S \subseteq Request
  BY DEF TypeInv, TypeOK, HandlerTypeOK
<1>6. limit'[r] = n
  BY DEF Show, TypeInv, TypeOK, HandlerTypeOK
<1>7. \A s \in S : s \in T \/ (Cardinality(T) = n /\ \A t \in T : created[t] >= created[s])
  BY <1>1, <1>5, NewestIsFull
<1>8. ASSUME NEW s \in T, s \in Answered, route[s] = "check"
      PROVE  <<s, result[s].category>> \in shown'[r]
  <2>1. s \in Request /\ s \in detections
    BY <1>8, AnsweredIsFiled
  <2>2. WithCategory(s) = <<s, result[s].category>>
    BY <2>1, NamedId DEF WithCategory
  <2> QED
    BY <1>2, <2>2
<1> QED
  BY <1>1, <1>4, <1>6, <1>7, <1>8 DEF Reached

(* A request that has been told of a list reached like that is well told. *)
LEMMA ReachedIsTold ==
  ASSUME NEW r \in Request, NEW S, NEW n \in Nat \ {0}, NEW T, Reached(r, S, n, T), Seen(r),
         UNCHANGED <<route, caller, filter, before, stored, result, created>>,
         \A s \in stored[r] \cup before[r] : Matches(r, s) => route[s] = "check" /\ s \in S
  PROVE  Told(r)'
<1>1. \A s \in stored[r] \cup before[r] : Matches(r, s)' <=> Matches(r, s)
  BY DEF Matches
<1>2. Filled(r)' <=> Cardinality(T) = n
  BY DEF Filled, Reached
<1>3. ASSUME NEW s \in stored[r] \cup before[r], Matches(r, s)
      PROVE  \/ s \in T /\ (s \in before[r] => <<s, result[s].category>> \in shown'[r])
             \/ Filled(r)' /\ \A m \in T : created[m] >= created[s]
  BY <1>2, <1>3 DEF Reached, Seen
<1> QED
  BY <1>1, <1>3 DEF Told, Reached

(* What a list may hold that was there or answered is still there. *)
LEMMA Standing ==
  ASSUME TypeInv, Course, NEW r \in Request, Seen(r), NEW s \in stored[r] \cup before[r]
  PROVE  /\ s \in Request
         /\ route[s] = "check" => s \in messages
         /\ route[s] = "add version" => s \in versions
<1>1. CASE s \in before[r]
  BY <1>1, AnsweredIsFiled DEF Seen
<1>2. CASE s \in stored[r]
  <2>1. s \in messages \cup versions /\ s \in Request
    BY <1>2 DEF Seen, TypeInv, TypeOK, HandlerTypeOK
  <2> QED
    BY <2>1 DEF Course, Filed
<1> QED
  BY <1>1, <1>2

LEMMA Limited == \A raw \in 0..MaxLimit : LimitOf(raw) \in Nat \ {0}
  BY ApiAssumption DEF LimitOf

(* What every reading step of a request leaves as it is. *)
LEMMA ReaderFacts ==
  ASSUME TypeInv, NEW r \in Request, Reader(r)
  PROVE  /\ UNCHANGED <<route, caller, filter, before, stored, text, result, created,
                        messages, detections, sessions, versions>>
         /\ Answered' \subseteq Answered \cup {r} /\ Answered \subseteq Answered' \cup {r}
<1>1. UNCHANGED <<route, caller, filter, before, stored, text, result, created,
                  messages, detections, sessions, versions>>
  BY ReaderLocal DEF askVars, tables, rowVars
<1>2. \A s \in Request \ {r} : reply'[s] = reply[s]
  BY ReaderLocal DEF Same
<1> QED
  BY <1>1, <1>2 DEF Answered

LEMMA ListReads ==
  ASSUME TypeInv, Course, NEW r \in Request, Seen(r),
         ListHistory(r) \/ ListMessages(r) \/ ListVersions(r)
  PROVE  Listed(r)' \subseteq messages \cup versions /\ Read(r)'
<1> USE DEF TypeInv, TypeOK, HandlerTypeOK
<1>1. UNCHANGED <<route, caller, filter, before, stored, text, result, created,
                  messages, detections, sessions, versions>>
  BY ReaderFacts DEF Reader
<1>2. at'[r] = "done" /\ reply'[r] \in {"ok", "failed"} /\ UNCHANGED counted
  BY DEF ListHistory, ListMessages, ListVersions, Answer, Goto
<1>3. route[r] = at[r] /\ at[r] \in {"history", "messages", "versions"}
  BY DEF ListHistory, ListMessages, ListVersions, Course, Path, Route, AdminRoute
<1>4. Summed(r)' /\ Threatened(r)' /\ Overseen(r)' /\ Distributed(r)'
  BY <1>1, <1>2, <1>3 DEF Summed, Threatened, Overseen, Distributed
<1>5. CASE UNCHANGED shown /\ reply'[r] = "failed"
  BY <1>1, <1>4, <1>5 DEF Seen, Listed, Read, Told
<1>6. ASSUME NEW S, S \subseteq messages, NEW raw \in 0..MaxLimit, Show(r, S, LimitOf(raw)),
             \A s \in stored[r] \cup before[r] : Matches(r, s) => route[s] = "check" /\ s \in S
      PROVE  Listed(r)' \subseteq messages \cup versions /\ Read(r)'
  <2>1. LimitOf(raw) \in Nat \ {0}
    BY <1>6, Limited
  <2>2. PICK T : Reached(r, S, LimitOf(raw), T)
    BY <1>6, <2>1, Shows
  <2>3. Listed(r)' \subseteq messages
    BY <1>6, <2>2 DEF Reached, Newest
  <2>4. Told(r)'
    BY <1>1, <1>6, <2>1, <2>2, ReachedIsTold
  <2> QED
    BY <1>4, <2>3, <2>4 DEF Read
<1>7. CASE ListHistory(r) /\ reply'[r] = "ok"
  <2> DEFINE S == IF filter[r] = "call" THEN {} ELSE OwnMessages(r)
  <2>1. PICK raw \in 0..MaxLimit : Show(r, S, LimitOf(raw))
    BY <1>7 DEF ListHistory, Answer
  <2>2. S \subseteq messages
    BY DEF OwnMessages
  <2>3. ASSUME NEW s \in stored[r] \cup before[r], Matches(r, s) PROVE route[s] = "check" /\ s \in S
    <3>1. route[s] = "check" /\ caller[s] = caller[r] /\ filter[r] # "call"
      BY <1>3, <1>7, <2>3 DEF Matches, ListHistory
    <3>2. s \in messages
      BY <3>1, Standing
    <3> QED
      BY <3>1, <3>2 DEF OwnMessages
  <2> QED
    BY <1>6, <2>1, <2>2, <2>3
<1>8. CASE ListMessages(r) /\ reply'[r] = "ok"
  <2> DEFINE S == {m \in messages : filter[r] \in {"any", result[m].verdict}}
  <2>1. PICK raw \in 0..MaxLimit : Show(r, S, LimitOf(raw))
    BY <1>8 DEF ListMessages, Answer
  <2>3. ASSUME NEW s \in stored[r] \cup before[r], Matches(r, s) PROVE route[s] = "check" /\ s \in S
    <3>1. route[s] = "check" /\ filter[r] \in {"any", result[s].verdict}
      BY <1>3, <1>8, <2>3 DEF Matches, ListMessages
    <3>2. s \in messages
      BY <3>1, Standing
    <3> QED
      BY <3>1, <3>2
  <2> QED
    BY <1>6, <2>1, <2>3
<1>9. CASE ListVersions(r) /\ reply'[r] = "ok"
  <2>1. shown'[r] = {<<v, NoCategory>> : v \in versions}
    BY <1>9 DEF ListVersions, Answer
  <2>2. Listed(r)' \subseteq versions
    BY <2>1 DEF Listed
  <2>3. ASSUME NEW s \in stored[r] \cup before[r], Matches(r, s)'
        PROVE  s \in Listed(r)' /\ (s \in before[r] => <<s, result[s].category>> \in shown'[r])
    <3>1. route[s] = "add version"
      BY <1>1, <1>3, <1>9, <2>3 DEF Matches, ListVersions
    <3>2. s \in versions
      BY <3>1, Standing
    <3>3. <<s, NoCategory>> \in shown'[r] /\ s \in Listed(r)'
      <4>1. <<s, NoCategory>> \in shown'[r] /\ <<s, NoCategory>>[1] = s
        BY <2>1, <3>2
      <4> QED
        BY <4>1 DEF Listed
    <3>4. s \in before[r] => result[s].category = NoCategory
      BY <3>1, AnsweredIsFiled DEF Seen
    <3> QED
      BY <3>3, <3>4
  <2>4. Told(r)'
    BY <1>1, <2>3 DEF Told
  <2> QED
    BY <1>4, <2>2, <2>4 DEF Read
<1>10. reply'[r] = "failed" => UNCHANGED shown
  BY DEF ListHistory, ListMessages, ListVersions, Answer
<1> QED
  BY <1>2, <1>5, <1>7, <1>8, <1>9, <1>10

LEMMA CountOwnReads ==
  ASSUME TypeInv, Course, NEW r \in Request, Seen(r), CountOwn(r)
  PROVE  Listed(r)' \subseteq messages \cup versions /\ Read(r)'
<1> USE DEF TypeInv, TypeOK, HandlerTypeOK
<1>1. UNCHANGED <<route, caller, filter, before, stored, text, result, created,
                  messages, detections, sessions, versions>>
  BY ReaderFacts DEF Reader
<1>2. UNCHANGED shown /\ reply'[r] # "ok" /\ at'[r] \in {"threats", "done"}
  BY DEF CountOwn, Answer, Proceed, Goto, Course, Path
<1>3. Listed(r)' \subseteq messages \cup versions
  BY <1>2 DEF Seen, Listed
<1>4. Told(r)' /\ Threatened(r)' /\ Overseen(r)' /\ Distributed(r)'
  BY <1>2 DEF Told, Threatened, Overseen, Distributed
<1>5. ASSUME at'[r] = "threats"
      PROVE  /\ counted'[r] \subseteq OwnMessages(r)
             /\ \A s \in before[r] :
                  route[s] = "check" /\ caller[s] = caller[r] /\ created[s] >= since'[r]
                    => s \in counted'[r]
  <2>1. PICK raw \in 0..(MaxDays + 1) :
          /\ since' = [since EXCEPT ![r] = SummarySince(raw)]
          /\ counted' = [counted EXCEPT ![r] = {m \in OwnMessages(r) : created[m] >= SummarySince(raw)}]
    BY <1>5 DEF CountOwn, Answer, Goto
  <2>2. since'[r] = SummarySince(raw) /\ counted'[r] = {m \in OwnMessages(r) : created[m] >= since'[r]}
    BY <2>1
  <2>3. \A s \in before[r] : route[s] = "check" => s \in messages
    BY AnsweredIsFiled DEF Seen
  <2> QED
    BY <2>2, <2>3 DEF OwnMessages
<1>6. Summed(r)'
  BY <1>1, <1>2, <1>5 DEF Summed, OwnMessages
<1> QED
  BY <1>3, <1>4, <1>6 DEF Read

LEMMA ThreatsRead ==
  ASSUME TypeInv, Course, NEW r \in Request, Seen(r), Read(r), ListThreats(r)
  PROVE  Listed(r)' \subseteq messages \cup versions /\ Read(r)'
<1> USE DEF TypeInv, TypeOK, HandlerTypeOK
<1>1. UNCHANGED <<route, caller, filter, before, stored, text, result, created,
                  messages, detections, sessions, versions>>
  BY ReaderFacts DEF Reader
<1>2. at[r] = "threats" /\ at'[r] = "done" /\ reply'[r] \in {"ok", "failed"} /\ UNCHANGED <<since, counted>>
  BY DEF ListThreats, Answer, Goto
<1>3. route[r] = "summary"
  BY <1>2 DEF Course, Path
<1>4. Summed(r)'
  BY <1>1, <1>2 DEF Read, Summed, OwnMessages
<1>5. Overseen(r)' /\ Distributed(r)'
  BY <1>1, <1>2, <1>3 DEF Overseen, Distributed
<1>6. CASE UNCHANGED shown /\ reply'[r] = "failed"
  BY <1>4, <1>5, <1>6 DEF Seen, Listed, Read, Told, Threatened
<1>7. CASE Show(r, ThreatsTo(r), Threats)
  <2>1. Threats \in Nat \ {0}
    BY ApiAssumption
  <2>2. ThreatsTo(r) \subseteq messages /\ messages \subseteq Request
    BY DEF ThreatsTo, Unsafe, OwnMessages
  <2>3. PICK T : Reached(r, ThreatsTo(r), Threats, T)
    BY <1>7, <2>1, <2>2, Shows
  <2>4. /\ T \subseteq ThreatsTo(r) /\ IsFiniteSet(ThreatsTo(r))
        /\ Cardinality(T) = Threats \/ Cardinality(T) = Cardinality(ThreatsTo(r))
    <3>1. ASSUME NEW S, S \subseteq Request, T \in Newest(S, Threats)
          PROVE  /\ T \subseteq S /\ IsFiniteSet(S)
                 /\ Cardinality(T) = Threats \/ Cardinality(T) = Cardinality(S)
      BY <2>1, <3>1, NewestIsFull
    <3>2. ThreatsTo(r) \subseteq Request
      BY <2>2
    <3>3. T \in Newest(ThreatsTo(r), Threats)
      BY <2>3 DEF Reached
    <3> QED
      BY <3>1, <3>2, <3>3, Zenon
  <2>5. Unsafe(counted[r])' = Unsafe(counted[r])
    BY <1>1, <1>2 DEF Unsafe
  <2>6. Unsafe(counted[r]) \subseteq ThreatsTo(r)
    BY <1>2 DEF Read, Summed, ThreatsTo, Unsafe
  <2>7. Cardinality(Unsafe(counted[r])) <= Cardinality(ThreatsTo(r))
    BY <2>4, <2>6, FS_Subset
  <2>8. Threatened(r)'
    BY <2>3, <2>4, <2>5, <2>7 DEF Threatened, Reached
  <2>9. ASSUME NEW s \in stored[r] \cup before[r], Matches(r, s)
        PROVE  route[s] = "check" /\ s \in ThreatsTo(r)
    <3>1. route[s] = "check" /\ caller[s] = caller[r] /\ result[s].verdict # "safe"
      BY <1>1, <1>3, <2>9 DEF Matches
    <3>2. s \in messages /\ s \in Request
      BY <3>1, Standing
    <3>3. result[s].verdict \in {"scam", "suspicious"}
      BY <3>1, <3>2 DEF Result, Verdict
    <3> QED
      BY <3>1, <3>2, <3>3 DEF ThreatsTo, Unsafe, OwnMessages
  <2>10. Told(r)'
    BY <1>1, <2>1, <2>3, <2>9, ReachedIsTold
  <2> QED
    BY <1>4, <1>5, <2>2, <2>3, <2>4, <2>8, <2>10 DEF Read, Reached
<1> QED
  BY <1>6, <1>7 DEF ListThreats, Answer

LEMMA OverviewReads ==
  ASSUME TypeInv, Course, NEW r \in Request, Seen(r), Read(r), CountAll(r) \/ CountCategories(r)
  PROVE  Listed(r)' \subseteq messages \cup versions /\ Read(r)'
<1> USE DEF TypeInv, TypeOK, HandlerTypeOK
<1>1. UNCHANGED <<route, caller, filter, before, stored, text, result, created,
                  messages, detections, sessions, versions>>
  BY ReaderFacts DEF Reader
<1>2. route[r] = "metrics" /\ at'[r] \in {"distribution", "done"}
  BY DEF CountAll, CountCategories, Answer, Proceed, Goto, Course, Path, Route, AdminRoute
<1>3. Told(r)' /\ Summed(r)' /\ Threatened(r)'
  BY <1>1, <1>2 DEF Told, Matches, Summed, Threatened
<1>4. CASE CountAll(r)
  <2>1. UNCHANGED shown /\ reply'[r] # "ok"
    BY <1>4 DEF CountAll, Answer, Proceed, Goto, Course, Path, Route, AdminRoute
  <2>2. Listed(r)' \subseteq messages \cup versions
    BY <2>1 DEF Seen, Listed
  <2>3. Distributed(r)'
    BY <2>1 DEF Distributed
  <2>4. ASSUME at'[r] = "distribution", NEW s \in before[r]
        PROVE  /\ route[s] = "check" => s \in counted'[r]
               /\ route[s] = "analyze" /\ result[s].verdict = "scam" => s \in counted'[r]
    <3>1. counted'[r] = messages \cup {x \in sessions : Alert(x)}
      BY <1>4, <2>4 DEF CountAll, Answer, Goto
    <3>2. /\ s \in Request
          /\ route[s] = "check" => s \in messages
          /\ route[s] = "analyze" => s \in sessions
      BY <2>4, AnsweredIsFiled DEF Seen
    <3>3. s \in sessions /\ result[s].verdict = "scam" => Alert(s)
      BY <3>2 DEF Course, Filed, Judgement, GoodResult, HitsIn, Alert
    <3> QED
      BY <3>1, <3>2, <3>3
  <2>5. Overseen(r)'
    BY <1>1, <2>1, <2>4 DEF Overseen
  <2> QED
    BY <1>3, <2>2, <2>3, <2>5 DEF Read
<1>5. CASE CountCategories(r)
  <2> DEFINE D == {x \in detections : IdByName(result[x].category) # NoCategory}
  <2>1. at[r] = "distribution" /\ UNCHANGED counted
    BY <1>5 DEF CountCategories
  <2>2. Overseen(r)'
    BY <1>1, <2>1 DEF Read, Overseen
  <2>3. CASE UNCHANGED shown /\ reply'[r] = "failed"
    BY <1>3, <2>2, <2>3 DEF Seen, Listed, Read, Distributed
  <2>4. CASE shown' = [shown EXCEPT ![r] = {WithCategory(d) : d \in D}]
    <3>1. shown'[r] = {WithCategory(d) : d \in D}
      BY <2>4
    <3>2. \A d : WithCategory(d)[1] = d
      BY DEF WithCategory
    <3>3. D \subseteq messages
      BY DEF Course, Filed
    <3>4. Listed(r)' \subseteq messages
      BY <3>1, <3>2, <3>3 DEF Listed
    <3>5. ASSUME NEW s \in before[r], route[s] = "check", result[s].category # NoCategory
          PROVE  <<s, result[s].category>> \in shown'[r]
      <4>1. s \in Request /\ s \in detections
        BY <3>5, AnsweredIsFiled DEF Seen
      <4>2. s \in D /\ WithCategory(s) = <<s, result[s].category>>
        BY <3>5, <4>1, NamedId DEF WithCategory
      <4> QED
        BY <3>1, <4>2
    <3>6. Distributed(r)'
      BY <1>1, <3>5 DEF Distributed
    <3> QED
      BY <1>3, <2>2, <3>4, <3>6 DEF Read
  <2> QED
    BY <1>5, <2>3, <2>4 DEF CountCategories, Answer
<1> QED
  BY <1>4, <1>5

LEMMA ReadStep ==
  ASSUME TypeInv, Course, [Next]_vars, \A r \in Request : Seen(r) /\ Read(r)
  PROVE  \A r \in Request : Seen(r)' /\ Read(r)'
<1> SUFFICES ASSUME NEW r \in Request PROVE Seen(r)' /\ Read(r)'
  OBVIOUS
<1>0. Answered \subseteq Answered' /\ Seen(r) /\ Read(r)
  BY AnsweredStays
<1>1. CASE Same(r)
  BY <1>1, ReadStays
<1>2. ASSUME NEW s \in Request, s # r, \A x \in Request \ {s} : Same(x) PROVE Seen(r)' /\ Read(r)'
  BY <1>1, <1>2
<1>3. messages \subseteq messages' /\ versions \subseteq versions'
  BY Settled
<1>4. ASSUME UNCHANGED <<before, stored, shown>>, at'[r] \notin {"threats", "distribution"},
             reply'[r] # "ok" \/ route'[r] \in Writes
      PROVE  Seen(r)' /\ Read(r)'
  BY <1>0, <1>3, <1>4, Unread DEF Seen, Listed
<1>5. ASSUME Limiter(r), UNCHANGED handlerVars PROVE Seen(r)' /\ Read(r)'
  <2>1. at[r] \in {"new", "incr", "expire"} /\ at'[r] \in {"incr", "expire", "auth", "done"}
    BY <1>5, OutsideLocal
  <2>2. UNCHANGED <<before, stored, shown, reply>>
    BY <1>5 DEF handlerVars, askVars, readVars
  <2>3. reply[r] = "none"
    BY <2>1 DEF Course, Path
  <2> QED
    BY <1>4, <2>1, <2>2, <2>3
<1>6. ASSUME NEW u \in User \cup {NoOne}, NEW d \in Route, Dispatch(r, u, d)
      PROVE  Seen(r)' /\ Read(r)'
  <2>1. /\ UNCHANGED shown /\ (before'[r] = before[r] \/ before'[r] \in {{}, Answered})
        /\ stored'[r] = stored[r] \/ stored'[r] \in {{}, messages \cup versions}
    BY <1>6 DEF Dispatch, readVars, TypeInv, TypeOK, HandlerTypeOK
  <2>2. Seen(r)'
    BY <1>0, <1>3, <2>1 DEF Seen, Listed
  <2>3. reply'[r] # "ok" /\ at'[r] \notin {"threats", "distribution"}
    BY <1>6 DEF Dispatch, Answer, Proceed, Goto, Course, Path, TypeInv, TypeOK, HandlerTypeOK,
                Route, AdminRoute
  <2> QED
    BY <2>2, <2>3, Unread
<1>7. ASSUME Writer(r) PROVE Seen(r)' /\ Read(r)'
  <2>1. UNCHANGED <<before, stored, shown, route>>
    BY <1>7 DEF Writer, Classify, InsertMessage, InsertDetection, SaveSession, CreateVersion,
                askVars, readVars
  <2>2. at[r] \in {"check", "analyze", "insert", "category", "save", "add version"}
    BY <1>7 DEF Writer, Classify, InsertMessage, InsertDetection, SaveSession, CreateVersion
  <2>3. route[r] \in Writes
    BY <2>2 DEF Course, Path, Writes, Route, AdminRoute
  <2>4. at'[r] \notin {"threats", "distribution"}
    BY <1>7 DEF Writer, Classify, InsertMessage, InsertDetection, SaveSession, CreateVersion,
                Answer, Proceed, Goto, TypeInv, TypeOK
  <2> QED
    BY <1>4, <2>1, <2>3, <2>4
<1>8. ASSUME Reader(r) PROVE Seen(r)' /\ Read(r)'
  <2>1. Listed(r)' \subseteq messages \cup versions /\ Read(r)'
    BY <1>0, <1>8, ListReads, CountOwnReads, ThreatsRead, OverviewReads DEF Reader
  <2>2. UNCHANGED <<before, stored>>
    BY <1>8, ReaderFacts
  <2> QED
    BY <1>0, <1>3, <2>1, <2>2 DEF Seen
<1>9. CASE \E s \in Request : Limiter(s) /\ UNCHANGED handlerVars
  BY <1>2, <1>5, <1>9, OutsideLocal
<1>10. CASE \E s \in Request : \E u \in User \cup {NoOne}, d \in Route : Dispatch(s, u, d)
  BY <1>2, <1>6, <1>10, DispatchLocal
<1>11. CASE \E s \in Request : Writer(s)
  BY <1>2, <1>7, <1>11, WriterLocal
<1>12. CASE \E s \in Request : Reader(s)
  BY <1>2, <1>8, <1>12, ReaderLocal
<1>13. CASE (Tick \/ RedisRestart) /\ UNCHANGED handlerVars
  BY <1>1, <1>13, ClockLocal
<1>14. CASE UNCHANGED vars
  BY <1>1, <1>14 DEF vars, Same
<1> QED
  BY <1>9, <1>10, <1>11, <1>12, <1>13, <1>14 DEF Next

LEMMA InitRead == Init => \A r \in Request : Seen(r) /\ Read(r)
  BY DEF Init, Seen, Listed, Read, Told, Summed, Threatened, Overseen, Distributed

HandlerInv == Course /\ \A r \in Request : Seen(r) /\ Read(r)

LEMMA HandlerInvariant == Spec => [](TypeInv /\ HandlerInv)
<1>1. Init => TypeInv /\ HandlerInv
  BY InitTypes, InitCourse, InitRead DEF HandlerInv
<1>2. TypeInv /\ HandlerInv /\ [Next]_vars => TypeInv' /\ HandlerInv'
  BY TypeStep, CourseStep, ReadStep DEF HandlerInv
<1> QED
  BY <1>1, <1>2, PTL DEF Spec

(* A text is filed under the rule that explains it, whatever the number of   *)
(* rules and their order (mock.go, rules.py).                                *)
THEOREM FiledForemost == Spec => []CategoryIsForemost
<1>1. HandlerInv => CategoryIsForemost
  BY DEF HandlerInv, Course, Judgement, GoodResult, HitsIn, CategoryIsForemost
<1> QED
  BY <1>1, HandlerInvariant, PTL

(* A scam call raises its alert although the probability has been rounded    *)
(* since (pipeline.py, calls/handler.go).                                    *)
THEOREM ScamAlerts == Spec => []ScamRaisesAlert
<1>1. TypeInv /\ HandlerInv => ScamRaisesAlert
  BY DEF TypeInv, TypeOK, HandlerTypeOK, HandlerInv, Course, Filed, Judgement, GoodResult, HitsIn,
         ScamRaisesAlert, Alert
<1> QED
  BY <1>1, HandlerInvariant, PTL

(* Whatever is written while a list is read, it has every row that was there *)
(* when it was asked for, or it is full of rows as new (store/messages.go).  *)
THEOREM ListsAreCurrent == Spec => []ListIsCurrent
<1>1. HandlerInv => ListIsCurrent
  BY DEF HandlerInv, Read, Told, ListIsCurrent
<1> QED
  BY <1>1, HandlerInvariant, PTL

(* The summary's two statements agree, however the checks fall between them. *)
THEOREM SummariesAgree == Spec => []SummaryAgrees
<1>1. HandlerInv => SummaryAgrees
  BY DEF HandlerInv, Read, Summed, Threatened, SummaryAgrees
<1> QED
  BY <1>1, HandlerInvariant, PTL

(* The overview's two statements miss nothing answered before it. *)
THEOREM OverviewsAgree == Spec => []OverviewAgrees
<1>1. HandlerInv => OverviewAgrees
  BY DEF HandlerInv, Read, Overseen, Distributed, OverviewAgrees
<1> QED
  BY <1>1, HandlerInvariant, PTL

-----------------------------------------------------------------------------
(* Whose rows an answer is made of. *)

Sees(r) == Listed(r) \cup counted[r]

Private(r) ==
  /\ route[r] \in {"none", "check", "analyze"} => Sees(r) = {}
  /\ route[r] # "none" => caller[r] \in User
  /\ route[r] \in AdminRoute => caller[r] \in Admin
  /\ route[r] \in {"history", "summary"} => Sees(r) \subseteq OwnMessages(r)

(* Rows never change hands, so what a request has seen stays its caller's.   *)
LEMMA PrivateStays ==
  ASSUME TypeInv, Course, [Next]_vars, NEW r \in Request, Private(r), Same(r)
  PROVE  Private(r)'
<1>1. Sees(r)' = Sees(r) /\ route'[r] = route[r] /\ caller'[r] = caller[r]
  BY DEF Sees, Listed, Same
<1>2. messages \subseteq messages' /\ \A m \in messages : caller'[m] = caller[m]
  BY Settled
<1>3. OwnMessages(r) \subseteq OwnMessages(r)'
  BY <1>1, <1>2 DEF OwnMessages
<1> QED
  BY <1>1, <1>3 DEF Private

(* The routes only the middleware opens: it looks at the token first.        *)
LEMMA PrivateDispatch ==
  ASSUME TypeInv, Course, NEW r \in Request, Private(r),
         NEW u \in User \cup {NoOne}, NEW d \in Route, Dispatch(r, u, d)
  PROVE  Private(r)'
<1> USE DEF TypeInv, TypeOK, HandlerTypeOK
<1>1. Sees(r)' = {}
  <2>1. route[r] = "none"
    BY DEF Dispatch, Course, Path, Early
  <2>2. UNCHANGED <<shown, counted>>
    BY DEF Dispatch, readVars
  <2> QED
    BY <2>1, <2>2 DEF Private, Sees, Listed
<1>2. \/ route'[r] = d /\ caller'[r] = u /\ u \in User /\ (d \in AdminRoute => u \in Admin)
      \/ UNCHANGED <<route, caller>>
  BY DEF Dispatch, Authorized, MayAsk
<1> QED
  BY <1>1, <1>2 DEF Private

LEMMA PrivateWrite ==
  ASSUME TypeInv, NEW r \in Request, Private(r), Writer(r), Course
  PROVE  Private(r)'
<1>1. UNCHANGED <<route, caller, shown, counted>>
  BY DEF Writer, Classify, InsertMessage, InsertDetection, SaveSession, CreateVersion,
         askVars, readVars
<1>2. at[r] \in {"check", "analyze", "insert", "category", "save", "add version"}
  BY DEF Writer, Classify, InsertMessage, InsertDetection, SaveSession, CreateVersion
<1>3. route[r] \in Writes
  BY <1>2 DEF Course, Path, Writes, Route, AdminRoute
<1>4. Sees(r)' = Sees(r)
  BY <1>1 DEF Sees, Listed
<1> QED
  BY <1>1, <1>3, <1>4 DEF Private, Writes

LEMMA PrivateRead ==
  ASSUME TypeInv, Course, NEW r \in Request, Private(r), Reader(r)
  PROVE  Private(r)'
<1> USE DEF TypeInv, TypeOK, HandlerTypeOK
<1>1. UNCHANGED <<route, caller, messages>>
  BY ReaderFacts
<1>2. OwnMessages(r)' = OwnMessages(r)
  BY <1>1 DEF OwnMessages
<1>3. ASSUME route[r] \in AdminRoute PROVE Private(r)'
  BY <1>1, <1>3 DEF Private, AdminRoute
<1>4. ASSUME route[r] \in {"history", "summary"}, Sees(r)' \subseteq OwnMessages(r)
      PROVE  Private(r)'
  BY <1>1, <1>2, <1>4 DEF Private, AdminRoute
<1>5. ASSUME NEW S, S \subseteq OwnMessages(r), NEW n \in Nat \ {0}, Show(r, S, n)
      PROVE  Listed(r)' \subseteq OwnMessages(r)
  <2>1. S \subseteq messages
    BY <1>5 DEF OwnMessages
  <2>2. PICK T : Reached(r, S, n, T)
    BY <1>5, <2>1, Shows
  <2> QED
    BY <1>5, <2>2 DEF Reached, Newest
<1>6. CASE ListMessages(r) \/ ListVersions(r) \/ CountAll(r) \/ CountCategories(r)
  <2>1. route[r] \in AdminRoute
    BY <1>6 DEF ListMessages, ListVersions, CountAll, CountCategories, Course, Path, Route, AdminRoute
  <2> QED
    BY <1>3, <2>1
<1>7. CASE ListHistory(r)
  <2>1. route[r] = "history" /\ UNCHANGED counted
    BY <1>7 DEF ListHistory, Course, Path, Route
  <2>2. Sees(r) \subseteq OwnMessages(r)
    BY <2>1 DEF Private
  <2>3. Listed(r)' \subseteq OwnMessages(r)
    <3>1. CASE UNCHANGED shown
      BY <2>2, <3>1 DEF Sees, Listed
    <3>2. ASSUME NEW raw \in 0..MaxLimit,
                 Show(r, IF filter[r] = "call" THEN {} ELSE OwnMessages(r), LimitOf(raw))
          PROVE  Listed(r)' \subseteq OwnMessages(r)
      <4> DEFINE S == IF filter[r] = "call" THEN {} ELSE OwnMessages(r)
      <4>1. S \subseteq OwnMessages(r) /\ Show(r, S, LimitOf(raw))
        BY <3>2
      <4>2. LimitOf(raw) \in Nat \ {0}
        BY Limited
      <4> HIDE DEF S
      <4> QED
        BY <1>5, <4>1, <4>2
    <3> QED
      BY <1>7, <3>1, <3>2 DEF ListHistory
  <2> QED
    BY <1>4, <2>1, <2>2, <2>3 DEF Sees
<1>8. CASE CountOwn(r)
  <2>1. route[r] = "summary" /\ UNCHANGED shown
    BY <1>8 DEF CountOwn, Course, Path, Route
  <2>2. Sees(r) \subseteq OwnMessages(r)
    BY <2>1 DEF Private
  <2>3. counted'[r] \subseteq counted[r] \cup OwnMessages(r)
    BY <1>8 DEF CountOwn
  <2>4. Listed(r)' = Listed(r)
    BY <2>1 DEF Listed
  <2> QED
    BY <1>4, <2>1, <2>2, <2>3, <2>4 DEF Sees
<1>9. CASE ListThreats(r)
  <2>1. route[r] = "summary" /\ UNCHANGED counted
    BY <1>9 DEF ListThreats, Course, Path
  <2>2. Sees(r) \subseteq OwnMessages(r)
    BY <2>1 DEF Private
  <2>3. Listed(r)' \subseteq OwnMessages(r)
    <3>1. CASE UNCHANGED shown
      BY <2>2, <3>1 DEF Sees, Listed
    <3>2. CASE Show(r, ThreatsTo(r), Threats)
      <4>1. ThreatsTo(r) \subseteq OwnMessages(r) /\ Threats \in Nat \ {0}
        BY ApiAssumption DEF ThreatsTo, Unsafe
      <4> QED
        BY <1>5, <3>2, <4>1
    <3> QED
      BY <1>9, <3>1, <3>2 DEF ListThreats
  <2> QED
    BY <1>4, <2>1, <2>2, <2>3 DEF Sees
<1> QED
  BY <1>6, <1>7, <1>8, <1>9 DEF Reader

LEMMA PrivateStep ==
  ASSUME TypeInv, Course, [Next]_vars, \A r \in Request : Private(r)
  PROVE  \A r \in Request : Private(r)'
<1>1. ASSUME NEW r \in Request, \A s \in Request \ {r} : Same(s), Private(r)'
      PROVE  \A s \in Request : Private(s)'
  BY <1>1, PrivateStays
<1>2. ASSUME \A s \in Request : Same(s) PROVE \A s \in Request : Private(s)'
  BY <1>2, PrivateStays
<1>3. ASSUME NEW r \in Request, Limiter(r), UNCHANGED handlerVars
      PROVE  \A s \in Request : Private(s)'
  <2>1. UNCHANGED <<route, caller, shown, counted, messages>>
    BY <1>3 DEF handlerVars, askVars, tables, readVars
  <2>2. Private(r)'
    BY <2>1 DEF Private, Sees, Listed, OwnMessages
  <2> QED
    BY <1>1, <1>3, <2>2, OutsideLocal
<1>4. CASE \E r \in Request : Limiter(r) /\ UNCHANGED handlerVars
  BY <1>3, <1>4
<1>5. CASE \E r \in Request : \E u \in User \cup {NoOne}, d \in Route : Dispatch(r, u, d)
  BY <1>1, <1>5, DispatchLocal, PrivateDispatch
<1>6. CASE \E r \in Request : Writer(r)
  BY <1>1, <1>6, WriterLocal, PrivateWrite
<1>7. CASE \E r \in Request : Reader(r)
  BY <1>1, <1>7, ReaderLocal, PrivateRead
<1>8. CASE (Tick \/ RedisRestart) /\ UNCHANGED handlerVars
  BY <1>2, <1>8, ClockLocal
<1>9. CASE UNCHANGED vars
  BY <1>2, <1>9 DEF vars, Same
<1> QED
  BY <1>4, <1>5, <1>6, <1>7, <1>8, <1>9 DEF Next

(* Nobody reads a row of another user but an administrator on an             *)
(* administrator's route, whose summary and history are his own too; and     *)
(* nobody adds a version but one (history/handler.go:44, RequireAdmin).      *)
AnswersAreCallers ==
  \A r \in Request :
    /\ \A s \in Sees(r) :
         \/ caller[s] = caller[r] /\ caller[r] \in User
         \/ caller[r] \in Admin /\ route[r] \in AdminRoute
    /\ r \in versions => caller[r] \in Admin

(* Whatever interleaves with the statements of a request.                    *)
THEOREM RowsAreCallers == Spec => []AnswersAreCallers
<1> DEFINE Mine == \A r \in Request : Private(r)
<1>1. Init => Mine
  BY DEF Init, Private, Sees, Listed, AdminRoute
<1>2. TypeInv /\ HandlerInv /\ Mine /\ [Next]_vars => Mine'
  BY PrivateStep DEF HandlerInv
<1>3. TypeInv /\ HandlerInv /\ Mine => AnswersAreCallers
  <2> SUFFICES ASSUME TypeInv, HandlerInv, Mine PROVE AnswersAreCallers
    OBVIOUS
  <2> SUFFICES ASSUME NEW r \in Request
               PROVE  /\ \A s \in Sees(r) :
                           \/ caller[s] = caller[r] /\ caller[r] \in User
                           \/ caller[r] \in Admin /\ route[r] \in AdminRoute
                      /\ r \in versions => caller[r] \in Admin
    BY DEF AnswersAreCallers
  <2>1. route[r] \in {"none", "check", "analyze", "history", "summary"} \cup AdminRoute
    BY DEF TypeInv, TypeOK, HandlerTypeOK, Route
  <2>2. r \in versions => route[r] \in AdminRoute
    BY DEF HandlerInv, Course, Filed, AdminRoute
  <2> QED
    BY <2>1, <2>2 DEF Private, OwnMessages
<1> HIDE DEF Mine
<1> QED
  BY <1>1, <1>2, <1>3, HandlerInvariant, PTL DEF Spec

=============================================================================
