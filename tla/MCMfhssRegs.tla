------------------------------ MODULE MCMfhssRegs ------------------------------
(* The register files that the two programs of the checked instance use. *)
EXTENDS MfhssRegs, TLC

CONSTANTS shell, tool

MCAccess == (shell :> {"sr", "ir", "ce"}) @@ (tool :> {"ir", "ce"})
=============================================================================
