------------------------------ MODULE MCCopyUi ------------------------------
(* Three copies in a row: a running one, and two that wind down.           *)
EXTENDS CopyUi
=============================================================================
