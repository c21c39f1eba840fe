--------------------------- MODULE HydroXLSampler ---------------------------
(***************************************************************************)
(* src/hydroxl/HydroXLSampler.cpp: the choice of the next token.  Logits   *)
(* are integers, a function of the token ids 0..V-1; the exponential has   *)
(* base 2 and probabilities are the weights before they are divided by     *)
(* their sum.                                                              *)
(***************************************************************************)
EXTENDS Integers, Sequences, FiniteSets
LOCAL INSTANCE SequencesExt
LOCAL INSTANCE FiniteSetsExt

CONSTANTS
    Penalty,    \* repeat_penalty
    TopK,       \* top_k
    TopP        \* top_p, in percent

\* The penalty is applied once for every occurrence of a token.
Penalised(logits, past) ==
    FoldLeft(LAMBDA s, t : IF t \in DOMAIN s
                           THEN [s EXCEPT ![t] = IF @ > 0 THEN @ \div Penalty ELSE @ * Penalty]
                           ELSE s,
             logits, past)

\* max_element returns the first maximum.
Greedy(scores) ==
    CHOOSE t \in DOMAIN scores :
        \A u \in DOMAIN scores : scores[u] < scores[t] \/ (scores[u] = scores[t] /\ t <= u)

\* Softmax with temperature 1; the exponents are cut at -8, where float weights no
\* longer count.
Weights(scores) ==
    LET max == scores[Greedy(scores)]
    IN  [t \in DOMAIN scores |-> IF scores[t] < max - 8 THEN 0 ELSE 2^(scores[t] - max + 8)]

\* The tokens by falling weight.  partial_sort leaves the order of equal weights open:
\* up and down stand for its choices.
Order(w, up) ==
    LET Before(a, b) == w[a] > w[b] \/ (w[a] = w[b] /\ (IF up THEN a < b ELSE a > b))
        place == [t \in DOMAIN w |-> 1 + Cardinality({u \in DOMAIN w : Before(u, t)})]
    IN  [i \in 1..Cardinality(DOMAIN w) |-> CHOOSE t \in DOMAIN w : place[t] = i]

Mass(w, seq) == FoldLeft(LAMBDA s, t : s + w[t], 0, seq)

\* The candidates that top-k and top-p leave of an order.
Candidates(w, order) ==
    LET k == IF TopK > 0 /\ TopK < Len(order) THEN TopK ELSE Len(order)
        total == Mass(w, order)
        enough == {n \in 1..k : 100 * Mass(w, SubSeq(order, 1, n)) >= TopP * total}
    IN  SubSeq(order, 1, IF TopP < 100 /\ enough # {} THEN Min(enough) ELSE k)

\* What the walk over the candidates can return.  nextRandom divides 31 bits by
\* UINT32_MAX, so that r is at most half of the candidates' mass.
Drawn(w, cands) ==
    {cands[i] : i \in {i \in DOMAIN cands :
                          i = 1 \/ 2 * Mass(w, SubSeq(cands, 1, i - 1)) < Mass(w, cands)}}

\* The tokens that sample may return; greedy when the temperature is 0.
sample(logits, past, greedy) ==
    LET scores == Penalised(logits, past)
        w == Weights(scores)
    IN  IF greedy THEN {Greedy(scores)}
        ELSE UNION {Drawn(w, Candidates(w, Order(w, up))) : up \in BOOLEAN}
=============================================================================
