-------------------------- MODULE MCOracleService ---------------------------
(* Small instances of OracleService for TLC. *)
EXTENDS OracleService, TLC

CONSTANTS q1, q2

=============================================================================
