---------------------------- MODULE MCSingleShell ---------------------------
(* Values for the constants of SingleShell. *)
EXTENDS SingleShell

ThreeCodes == {0, 1, 255}
=============================================================================
