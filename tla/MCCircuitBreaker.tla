---- MODULE MCCircuitBreaker ----
(* Four reply goroutines and a breaker that opens after two failures.      *)
EXTENDS CircuitBreaker

CONSTANTS c1, c2, c3, c4
====
