---------------------------- MODULE StubMessages ----------------------------
(***************************************************************************)
(* The vocabulary of the Avatar stub protocol: the operations the server   *)
(* asks of the stub, the message that answers each, the messages the stub  *)
(* sends unasked, and how a method of AvatarProtocol ends once it has an   *)
(* answer (interfaces/avatar_stub/avatar_protocol.py).                     *)
(***************************************************************************)
EXTENDS Naturals

(* The methods of AvatarProtocol, by the reply each of them expects. *)
ReplyOf == [set_register         |-> "OK",
            get_register         |-> "GET_REGISTER",
            read_memory          |-> "READ_MEMORY",
            write_memory         |-> "OK",
            read_memory_untyped  |-> "READ_UNTYPED_MEMORY",
            write_memory_untyped |-> "OK",
            execute_codelet      |-> "CODELET_EXECUTION_FINISHED",
            cont                 |-> "OK"]

Operations == {"set_register", "get_register", "read_memory", "write_memory",
               "read_memory_untyped", "write_memory_untyped",
               "execute_codelet", "cont"}

(* What the stub may answer: it performs the operation, or refuses it. *)
Answers(op) == {ReplyOf[op], "ERROR"}

(* expected_replies of a command. *)
ExpectedNoError(op) == {ReplyOf[op]}   \* seeded fault: error reply forgotten
Expected(op) == {ReplyOf[op], "ERROR"}

(* Every message name that is put in the queue of synchronous messages. *)
ReplyNames == {"OK", "GET_REGISTER", "READ_MEMORY", "READ_UNTYPED_MEMORY",
               "CODELET_EXECUTION_FINISHED", "ERROR"}

(* ASYNCHRONOUS_MESSAGES *)
AsyncNames == {"STATE", "PAGEFAULT", "INFO_EXCEPTION"}

(* Every method raises AvatarRemoteError on an error reply, except          *)
(* set_register, which never looks at the reply.                            *)
Outcome(op, name) ==
  IF name = "ERROR" /\ op # "set_register" THEN "raised" ELSE "returned"
=============================================================================
