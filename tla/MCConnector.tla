---------------------------- MODULE MCConnector -----------------------------
(* Instances of Connector for TLC. *)
EXTENDS Connector

\* The table of RetryAfterMillis, against its definition.
ASSUME RetryTable == \A n \in 0..30 : RetryAfterMillis(n) = 500 * Smaller(10000, 2^n)
=============================================================================
