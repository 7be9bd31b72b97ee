----------------------------- MODULE MCCellActor -----------------------------
(***************************************************************************)
(* The instance of CellActor that TLC checks: the observation that comes   *)
(* with the cell and another one, the calls of terminate, and a script     *)
(* with few events.                                                        *)
(***************************************************************************)
EXTENDS CellActor, TLC
=============================================================================
