--------------------------- MODULE MCRetryScheduling ---------------------------
(* Constants of the TLC run of RetryScheduling. *)
EXTENDS RetryScheduling, TLC

Policy(strategy, base, max, multiplier) ==
  [strategy |-> strategy, base |-> base, max |-> max, multiplier |-> multiplier]

\* The policy the migration inserts, one whose product overflows (in 12 bits, from
\* the sixth attempt), one without cap and multiplier.
ThreePolicies == {Policy("exponential", 10, 300, 2), Policy("linear", 400, 0, 0),
                  Policy("exponential", 10, 0, 0)}
=============================================================================
