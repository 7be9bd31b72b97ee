--------------------------- MODULE MCExecRecovery ---------------------------
(***************************************************************************)
(* A model of ExecRecovery for TLC.                                        *)
(***************************************************************************)
EXTENDS ExecRecovery
=============================================================================
