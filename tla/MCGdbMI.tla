------------------------------ MODULE MCGdbMI ------------------------------
(* Small instances of GdbMI. *)
EXTENDS GdbMI
=============================================================================
