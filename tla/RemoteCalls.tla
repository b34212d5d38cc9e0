---------------------------- MODULE RemoteCalls ----------------------------
(***************************************************************************)
(* What the methods of AvatarProtocol (set_register, get_register,         *)
(* read_memory, ..., cont) promise to the threads that call them: a call   *)
(* is performed by the stub at most once, between its start and its        *)
(* return, and it ends the way the stub's answer to that very call says.   *)
(* The queue, the two protocol threads, the condition variables and the    *)
(* wire are not visible here.                                              *)
(***************************************************************************)
EXTENDS StubMessages

CONSTANTS Callers,      \* the threads that call the stub
          Ops           \* the operations they use

VARIABLES doing,    \* doing[c]: the operation c is calling, or "none"
          answer,   \* answer[c]: what the stub answered to it, or "none"
          outcome   \* outcome[c]: how c's last finished call ended

vars == <<doing, answer, outcome>>

Init == /\ doing = [c \in Callers |-> "none"]
        /\ answer = [c \in Callers |-> "none"]
        /\ outcome = [c \in Callers |-> "none"]

(* A thread enters one of the methods. *)
Issue(c, op) ==
  /\ doing[c] = "none"
  /\ doing' = [doing EXCEPT ![c] = op]
  /\ UNCHANGED <<answer, outcome>>

(* The stub performs the operation and says so, or refuses it. *)
Perform(c) ==
  /\ doing[c] # "none"
  /\ answer[c] = "none"
  /\ \E name \in Answers(doing[c]) : answer' = [answer EXCEPT ![c] = name]
  /\ UNCHANGED <<doing, outcome>>

(* The method returns or raises. *)
Return(c) ==
  /\ doing[c] # "none"
  /\ answer[c] # "none"
  /\ outcome' = [outcome EXCEPT ![c] = Outcome(doing[c], answer[c])]
  /\ doing' = [doing EXCEPT ![c] = "none"]
  /\ answer' = [answer EXCEPT ![c] = "none"]

Next == \E c \in Callers : \/ \E op \in Ops : Issue(c, op)
                           \/ Perform(c)
                           \/ Return(c)

Spec == Init /\ [][Next]_vars
=============================================================================
