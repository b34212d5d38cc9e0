--------------------------- MODULE MCRemoteMemory ---------------------------
(* Small instances of RemoteMemory. *)
EXTENDS RemoteMemory

CONSTANTS r1, r2, v0, v1

TwoRegisters == <<r1, r2>>

(* Of two states with no value in common it is seen which one a register is *)
(* of.                                                                      *)
TwoStates == {[r \in Registers |-> v0], [r \in Registers |-> v1]}
=============================================================================
