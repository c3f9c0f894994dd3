-------------------------- MODULE MCPasswordAging --------------------------
(* Instances of PasswordAging for TLC. *)
EXTENDS PasswordAging

MCAges == {-1, 0, 1, 2, 3}
MCWarnings == {0, 1, 2, 4}
============================================================================
