-------------------------- MODULE MCPolicyDecision --------------------------
(***************************************************************************)
(* PolicyDecision for TLC.  The classifications, the evidence types, the   *)
(* IDs and the issuers enter the rules only through equality.              *)
(***************************************************************************)
EXTENDS PolicyDecision

=============================================================================
