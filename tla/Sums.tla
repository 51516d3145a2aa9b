-------------------------------- MODULE Sums --------------------------------
(* The running sums of zeros3.go's loops over chunks.                      *)
EXTENDS Integers

\* w[1] + ... + w[n]
SumTo(w, n) ==
  LET sum[k \in 0 .. n] == IF k = 0 THEN 0 ELSE sum[k - 1] + w[k]
  IN sum[n]
=============================================================================
