---------------------------- MODULE MCAvatarStub ----------------------------
(* Small instances of AvatarStub. *)
EXTENDS AvatarStub, TLC

(* Client threads are interchangeable. *)
ClientSymmetry == Permutations(Clients)
=============================================================================
