----------------------------- MODULE LayerSplit -----------------------------
(***************************************************************************)
(* How PipelineService.assignLayers splits the layers of a model over its  *)
(* nodes: in proportion to their weights, each share rounded to the        *)
(* nearest layer, the last node taking what is left.                       *)
(***************************************************************************)
EXTENDS Integers, Sequences

\* Math.round(p / q), p and q not negative: halves are rounded up.  (The code
\* divides in floating point first, which may turn an exact half down.)
Round(p, q) == (2 * p + q) \div (2 * q)

\* The sum of the first i numbers of a sequence.
Sum(s) ==
  LET upTo[i \in 0..Len(s)] == IF i = 0 THEN 0 ELSE upTo[i - 1] + s[i]
  IN  upTo

\* The layers of node i are split[i].first up to, not including, split[i].last.
Split(weights, layers) ==
  LET n     == Len(weights)
      total == Sum(weights)[n]
      count == [i \in 1..n - 1 |-> Round(layers * weights[i], total)]
      start == Sum(count)
  IN  [i \in 1..n |->
         [first |-> start[i - 1], last |-> IF i = n THEN layers ELSE start[i]]]
=============================================================================
