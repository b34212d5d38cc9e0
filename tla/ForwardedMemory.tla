-------------------------- MODULE ForwardedMemory --------------------------
(***************************************************************************)
(* What the emulator may rely on when its memory accesses are forwarded to *)
(* the target (RemoteMemoryInterface and EmulatorTargetCallProxy): the     *)
(* requests are performed one after the other in the order in which they   *)
(* were made, each at most once and at a single moment; what a read        *)
(* answers is what the target's memory held at that moment.  A request may *)
(* fail, and then has no answer.                                           *)
(***************************************************************************)
EXTENDS Sequences

CONSTANTS Addrs, Vals,
          Requests   \* records with cmd, and address and value if they have

VARIABLES todo,      \* requests not performed yet
          mem,       \* the memory of the target
          answer     \* the answer on its way, as a sequence of at most one

vars == <<todo, mem, answer>>

Init == /\ todo = <<>>
        /\ mem \in [Addrs -> Vals]
        /\ answer = <<>>

Issue == /\ \E r \in Requests : todo' = Append(todo, r)
         /\ UNCHANGED <<mem, answer>>

Read == /\ todo # <<>> /\ Head(todo).cmd = "read"
        /\ todo' = Tail(todo)
        /\ answer' = <<[cmd |-> "read", value |-> mem[Head(todo).address]]>>
        /\ UNCHANGED mem

Write == /\ todo # <<>> /\ Head(todo).cmd = "write"
         /\ todo' = Tail(todo)
         /\ mem' = [mem EXCEPT ![Head(todo).address] = Head(todo).value]
         /\ UNCHANGED answer

(* What is not about memory, or fails. *)
Other == /\ todo # <<>>
         /\ todo' = Tail(todo)
         /\ UNCHANGED <<mem, answer>>

(* The emulator has the answer, or will never have it. *)
Forget == /\ answer # <<>>
          /\ answer' = <<>>
          /\ UNCHANGED <<todo, mem>>

(* The target runs, or somebody else writes to its memory. *)
Change == /\ \E a \in Addrs, v \in Vals : mem' = [mem EXCEPT ![a] = v]
          /\ UNCHANGED <<todo, answer>>

Next == Issue \/ Read \/ Write \/ Other \/ Forget \/ Change

Spec == Init /\ [][Next]_vars
=============================================================================
