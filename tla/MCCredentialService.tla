---- MODULE MCCredentialService ----
(* CredentialService for the model checker.                                *)
EXTENDS CredentialService
====
