----------------------------- MODULE AvatarStub -----------------------------
(***************************************************************************)
(* The connection to the debug stub running on the embedded target:        *)
(* AvatarProtocol and AvatarLowlevelProtocol (interfaces/avatar_stub) with *)
(* the asynchronous-message handler of AvatarstubTarget (targets).         *)
(*                                                                         *)
(* Any number of threads call the methods of AvatarProtocol.  A call holds *)
(* a condition variable of its own, queues its command and waits without a *)
(* timeout.  The send thread takes one command at a time, sends it, waits  *)
(* for one synchronous message, and wakes the caller if its name is one of *)
(* the expected ones.  The receive thread sorts what arrives: replies to   *)
(* the queue of synchronous messages, the rest to a handler that it runs   *)
(* itself; AvatarstubTarget's handler calls get_register, so the receive   *)
(* thread (Rx) is one more caller.  The stub and the wire are external.    *)
(*                                                                         *)
(* Not modelled: message contents other than the name (see the README),    *)
(* _state (written, never read), and _send_lock: only the send thread gets *)
(* to take it, because the page-fault branch raises before it would.       *)
(***************************************************************************)
EXTENDS StubMessages, Sequences, FiniteSets

CONSTANTS
  Clients,          \* threads of the program that use the target
  Rx,               \* the receive thread
  Ops,              \* operations they call
  HandlerCallsBack, \* TRUE: AvatarstubTarget's handler; FALSE: the default one
  TimelyStub,       \* TRUE: an answer that can arrive does so in less than
                    \* RESPONSE_TIMEOUT
  StartRunning,     \* TRUE: the target runs when the server connects
  MayStop,          \* TRUE: AvatarProtocol.stop may be called
  MayDisconnect,    \* TRUE: the stub may close the connection
  MayRaise,         \* TRUE: sending may raise although it is open
  MaxCalls,         \* bound: calls made by each client
  MaxHalts,         \* bound: asynchronous messages the target sends
  MaxLost,          \* bound: messages dropped for a wrong checksum
  MaxDup            \* bound: replies the stub sends twice

ASSUME StubAssumption ==
  /\ Rx \notin Clients
  /\ Ops \subseteq Operations
  /\ HandlerCallsBack \in BOOLEAN /\ TimelyStub \in BOOLEAN
  /\ StartRunning \in BOOLEAN
  /\ MayStop \in BOOLEAN /\ MayDisconnect \in BOOLEAN
  /\ MayRaise \in BOOLEAN
  /\ MaxCalls \in Nat /\ MaxHalts \in Nat
  /\ MaxLost \in Nat /\ MaxDup \in Nat

Callers == Clients \cup {Rx}

(* A command as the send thread sees it.  The pair <<caller, n>> stands for *)
(* the condition variable and the Reference of the call; n also tells one   *)
(* call of a thread from the next and is not sent.                          *)
Commands == [caller : Callers, n : Nat, op : Operations]
NoCommand == [caller |-> Rx, n |-> 0, op |-> "get_register"]

(* A message from the stub.  cmd, the command it answers, is not on the     *)
(* wire: the code cannot look at it, the properties do.                     *)
Messages == [name : ReplyNames \cup AsyncNames \cup {"none"}, cmd : Commands]
NoMessage == [name |-> "none", cmd |-> NoCommand]
Async(name) == [name |-> name, cmd |-> NoCommand]

(* Messages that go to the queue of synchronous messages: all but the       *)
(* ASYNCHRONOUS_MESSAGES.                                                   *)
NotSorted(msg) == TRUE                 \* seeded fault: no test of the name
IsReply(msg) == msg.name \in ReplyNames

VARIABLES
  phase,      \* how far the constructors are
  terminate,  \* the two _terminate flags, set by stop
  pc,         \* pc[c]: where caller c is in a method
  calls,      \* calls[c]: calls c has started
  op,         \* op[c]: the operation of c's current call
  cvFree,     \* cvFree[c]: nobody holds the lock of c's condition variable
  notified,   \* notified[c]: c was waiting when it was notified
  ref,        \* ref[c]: what the Reference of c's call holds
  outcome,    \* outcome[c]: how c's last finished call ended
  queue,      \* _queued_commands
  tx,         \* where the send thread is
  cur,        \* the command it is working on
  got,        \* the reply it is handing over
  inbox,      \* _received_synchronous_messages
  rx,         \* whether the receive thread is alive
  toStub,     \* the wire, server to stub
  fromStub,   \* the wire, stub to server
  up,         \* the connection is open
  running,    \* the target runs (as opposed to: is halted in the stub)
  answered,   \* answered[c]: the answer the stub gave to c's current call
  abandoned,  \* callers whose command was given up on an unexpected message
  halts,      \* asynchronous messages the target has sent
  hits,       \* those of them that say that a breakpoint was hit
  reported,   \* EVENT_BREAKPOINT events posted to the System
  lost, dups  \* messages lost, replies duplicated

callVars == <<pc, calls, op, cvFree, notified, ref, outcome>>
txVars == <<tx, cur, got, abandoned>>
stubVars == <<running, answered, halts, hits, dups>>
vars == <<phase, terminate, callVars, queue, txVars, inbox, rx, toStub,
          fromStub, up, stubVars, reported, lost>>

Init ==
  /\ phase = "reader"
  /\ terminate = FALSE
  /\ pc = [c \in Callers |-> "idle"]
  /\ calls = [c \in Callers |-> 0]
  /\ op = [c \in Callers |-> "none"]
  /\ cvFree = [c \in Callers |-> TRUE]
  /\ notified = [c \in Callers |-> FALSE]
  /\ ref = [c \in Callers |-> NoMessage]
  /\ outcome = [c \in Callers |-> "none"]
  /\ queue = <<>>
  /\ tx = "unborn"
  /\ cur = NoCommand
  /\ got = NoMessage
  /\ inbox = <<>>
  /\ rx = "alive"
  /\ toStub = <<>>
  /\ fromStub = <<>>
  /\ up = TRUE
  /\ running = StartRunning
  /\ answered = [c \in Callers |-> "none"]
  /\ abandoned = {}
  /\ halts = 0 /\ hits = 0 /\ reported = 0 /\ lost = 0 /\ dups = 0

-----------------------------------------------------------------------------
(* Construction.  The receive thread runs before anything else is set:      *)
(* "reader" (thread started), "handler" (_received_message_handler set),    *)
(* "protocol" (send thread started), "ready" (the target has stored the     *)
(* connection).                                                             *)
Construct ==
  /\ \/ phase = "reader" /\ phase' = "handler" /\ UNCHANGED tx
     \/ phase = "handler" /\ phase' = "protocol" /\ tx' = "get"
     \/ phase = "protocol" /\ phase' = "ready" /\ UNCHANGED tx
  /\ UNCHANGED <<terminate, callVars, queue, cur, got, abandoned, inbox, rx,
                 toStub, fromStub, up, stubVars, reported, lost>>

-----------------------------------------------------------------------------
(* The callers.  The command c is executing now: *)
Current(c) == [caller |-> c, n |-> calls[c], op |-> op[c]]

(* cv.acquire(): the lock is new, nobody else can hold it. *)
CvForgotten(c) == cvFree               \* seeded fault: acquired in wait only
CvAcquired(c) == [cvFree EXCEPT ![c] = FALSE]

(* cv.acquire(); _queued_commands.put(...). *)
Put(c, o) ==
  /\ pc[c] = "idle"
  /\ pc' = [pc EXCEPT ![c] = "put"]
  /\ calls' = [calls EXCEPT ![c] = @ + 1]
  /\ op' = [op EXCEPT ![c] = o]
  /\ cvFree' = CvAcquired(c)
  /\ notified' = [notified EXCEPT ![c] = FALSE]
  /\ ref' = [ref EXCEPT ![c] = NoMessage]
  /\ queue' = Append(queue, [caller |-> c, n |-> calls[c] + 1, op |-> o])
  /\ answered' = [answered EXCEPT ![c] = "none"]
  /\ UNCHANGED outcome

Call(c, o) ==
  /\ phase = "ready"
  /\ calls[c] < MaxCalls
  /\ Put(c, o)
  /\ UNCHANGED <<phase, terminate, txVars, inbox, rx, toStub, fromStub, up,
                 running, halts, hits, dups, reported, lost>>

(* cv.wait() gives up the lock and starts to wait for a notification. *)
Wait(c) ==
  /\ pc[c] = "put"
  /\ pc' = [pc EXCEPT ![c] = "waiting"]
  /\ cvFree' = [cvFree EXCEPT ![c] = TRUE]
  /\ UNCHANGED <<phase, terminate, calls, op, notified, ref, outcome, queue,
                 txVars, inbox, rx, toStub, fromStub, up, stubVars, reported,
                 lost>>

(* wait() returns only when notified: it is given no timeout. *)
WaitTimedOut(c) == TRUE                \* seeded fault: wait(timeout)
WaitReturns(c) == notified[c]

(* Once notified, wait() takes the lock again and returns; the method lets  *)
(* go of it and returns or raises.  The receive thread called from its      *)
(* handler, which goes on to post the event if get_register returned.       *)
Return(c) ==
  /\ pc[c] = "waiting"
  /\ WaitReturns(c)
  /\ cvFree[c]
  /\ pc' = [pc EXCEPT ![c] = "idle"]
  /\ notified' = [notified EXCEPT ![c] = FALSE]
  /\ outcome' = [outcome EXCEPT ![c] = Outcome(op[c], ref[c].name)]
  /\ reported' = IF c = Rx /\ outcome'[c] = "returned"
                 THEN reported + 1 ELSE reported
  /\ UNCHANGED <<phase, terminate, calls, op, cvFree, ref, queue, txVars,
                 inbox, rx, toStub, fromStub, up, stubVars, lost>>

-----------------------------------------------------------------------------
(* The send thread (run_send). *)

(* Take a command and send it.  On a connection closed by the stub, the     *)
(* bytes may just vanish, or send raises, which ends the thread; so does an *)
(* argument that does not fit its field, or a timeout of the socket.        *)
TxSend ==
  /\ tx = "get"
  /\ queue # <<>>
  /\ cur' = Head(queue)
  /\ queue' = Tail(queue)
  /\ \/ /\ tx' = "await"
        /\ toStub' = IF up THEN Append(toStub, Head(queue)) ELSE toStub
     \/ /\ MayRaise \/ ~up
        /\ tx' = "dead"
        /\ UNCHANGED toStub
  /\ UNCHANGED <<phase, terminate, callVars, got, abandoned, inbox, rx,
                 fromStub, up, stubVars, reported, lost>>

(* A synchronous message is there and its name is one of the expected. *)
TxMatch ==
  /\ tx = "await"
  /\ inbox # <<>>
  /\ Head(inbox).name \in Expected(cur.op)
  /\ got' = Head(inbox)
  /\ inbox' = Tail(inbox)
  /\ tx' = "notify"
  /\ UNCHANGED <<phase, terminate, callVars, queue, cur, abandoned, rx, toStub,
                 fromStub, up, stubVars, reported, lost>>

(* It is not: a warning is logged and the next command is taken. *)
TxUnexpected ==
  /\ tx = "await"
  /\ inbox # <<>>
  /\ Head(inbox).name \notin Expected(cur.op)
  /\ inbox' = Tail(inbox)
  /\ tx' = "get"
  /\ abandoned' = abandoned \cup {cur.caller}
  /\ UNCHANGED <<phase, terminate, callVars, queue, cur, got, rx, toStub,
                 fromStub, up, stubVars, reported, lost>>

(* cv.acquire(); set_value; notify; release.  notify wakes a thread only if *)
(* it is in wait() by then.                                                 *)
TxNotify ==
  /\ tx = "notify"
  /\ cvFree[cur.caller]
  /\ ref' = [ref EXCEPT ![cur.caller] = got]
  /\ notified' = [notified EXCEPT ![cur.caller] = pc[cur.caller] = "waiting"]
  /\ tx' = "get"
  /\ UNCHANGED <<phase, terminate, pc, calls, op, cvFree, outcome, queue, cur,
                 got, abandoned, inbox, rx, toStub, fromStub, up, stubVars,
                 reported, lost>>

(* Whether the answer to the current command can still get to the inbox. *)
AnswerComing ==
  /\ rx = "alive" /\ pc[Rx] = "idle"
  /\ \/ toStub # <<>>
     \/ \E i \in DOMAIN fromStub : IsReply(fromStub[i])

(* get(timeout = RESPONSE_TIMEOUT) raises Empty, which nothing catches. *)
EmptyCaught == "get"                   \* seeded fault: next command is taken
NoTimeout == "await"                   \* seeded fault: get without a timeout
AfterTimeout == "dead"

TxTimeout ==
  /\ tx = "await"
  /\ inbox = <<>>
  /\ TimelyStub => ~AnswerComing
  /\ tx' = AfterTimeout
  /\ UNCHANGED <<phase, terminate, callVars, queue, cur, got, abandoned, inbox,
                 rx, toStub, fromStub, up, stubVars, reported, lost>>

TxEnd ==
  /\ tx = "get"
  /\ terminate
  /\ tx' = "ended"
  /\ UNCHANGED <<phase, terminate, callVars, queue, cur, got, abandoned, inbox,
                 rx, toStub, fromStub, up, stubVars, reported, lost>>

-----------------------------------------------------------------------------
(* The receive thread (AvatarLowlevelProtocol.run, parse_message and        *)
(* _handle_received_message).  It can only take a message when it is not    *)
(* itself in a method of AvatarProtocol.                                    *)
RxFree == rx = "alive" /\ pc[Rx] = "idle"

RxReply ==
  /\ RxFree
  /\ fromStub # <<>>
  /\ IsReply(Head(fromStub))
  /\ inbox' = Append(inbox, Head(fromStub))
  /\ fromStub' = Tail(fromStub)
  /\ UNCHANGED <<phase, terminate, callVars, queue, txVars, rx, toStub, up,
                 stubVars, reported, lost>>

(* AvatarstubTarget._handle_asynchronous_message asks for pc before it      *)
(* posts the event.                                                         *)
RxState ==
  /\ RxFree
  /\ fromStub # <<>>
  /\ Head(fromStub).name = "STATE"
  /\ HandlerCallsBack /\ phase = "ready"
  /\ fromStub' = Tail(fromStub)
  /\ Put(Rx, "get_register")
  /\ UNCHANGED <<phase, terminate, txVars, inbox, rx, toStub, up, running,
                 halts, hits, dups, reported, lost>>

(* Messages that have no effect: the handler does nothing, an attribute is  *)
(* not there yet (AttributeError, logged), or the branch of the message     *)
(* uses a handler that does not exist (page faults and exceptions).         *)
RxIgnore ==
  /\ RxFree
  /\ fromStub # <<>>
  /\ \/ Head(fromStub).name \in {"PAGEFAULT", "INFO_EXCEPTION"}
     \/ Head(fromStub).name = "STATE" /\ ~(HandlerCallsBack /\ phase = "ready")
  /\ fromStub' = Tail(fromStub)
  /\ UNCHANGED <<phase, terminate, callVars, queue, txVars, inbox, rx, toStub,
                 up, stubVars, reported, lost>>

(* The checksum is wrong: the message is dropped. *)
RxCorrupt ==
  /\ RxFree
  /\ fromStub # <<>>
  /\ lost < MaxLost
  /\ lost' = lost + 1
  /\ fromStub' = Tail(fromStub)
  /\ UNCHANGED <<phase, terminate, callVars, queue, txVars, inbox, rx, toStub,
                 up, stubVars, reported>>

(* recv returns no byte and the subscript raises; or the flag is set. *)
RxEnd ==
  /\ RxFree
  /\ \/ ~up /\ fromStub = <<>> /\ rx' = "dead"
     \/ terminate /\ rx' = "ended"
  /\ UNCHANGED <<phase, terminate, callVars, queue, txVars, inbox, toStub,
                 fromStub, up, stubVars, reported, lost>>

(* AvatarProtocol.stop *)
Stop ==
  /\ MayStop /\ phase = "ready"
  /\ ~terminate
  /\ terminate' = TRUE
  /\ UNCHANGED <<phase, callVars, queue, txVars, inbox, rx, toStub, fromStub,
                 up, stubVars, reported, lost>>

-----------------------------------------------------------------------------
(* The stub, the target and the wire: external. *)

(* The stub performs a command or refuses it, and answers; it may answer    *)
(* twice.                                                                   *)
StubAnswer ==
  /\ toStub # <<>>
  /\ \E name \in Answers(Head(toStub).op), twice \in BOOLEAN :
       LET cmd == Head(toStub)
           reply == [name |-> name, cmd |-> cmd]
       IN /\ twice => dups < MaxDup
          /\ dups' = IF twice THEN dups + 1 ELSE dups
          /\ fromStub' = IF twice THEN Append(Append(fromStub, reply), reply)
                                  ELSE Append(fromStub, reply)
          /\ answered' = [answered EXCEPT ![cmd.caller] = name]
          /\ running' = (running \/ (cmd.op = "cont" /\ name = "OK"))
  /\ toStub' = Tail(toStub)
  /\ UNCHANGED <<phase, terminate, callVars, queue, txVars, inbox, rx, up,
                 halts, hits, reported, lost>>

(* The stub drops a command whose checksum is wrong. *)
StubCorrupt ==
  /\ toStub # <<>>
  /\ lost < MaxLost
  /\ lost' = lost + 1
  /\ toStub' = Tail(toStub)
  /\ UNCHANGED <<phase, terminate, callVars, queue, txVars, inbox, rx, fromStub,
                 up, stubVars, reported>>

(* The target stops at a breakpoint, or on a fault, and the stub says so. *)
TargetHalts ==
  /\ up /\ running
  /\ halts < MaxHalts
  /\ \E name \in AsyncNames :
       /\ fromStub' = Append(fromStub, Async(name))
       /\ hits' = IF name = "STATE" THEN hits + 1 ELSE hits
  /\ halts' = halts + 1
  /\ running' = FALSE
  /\ UNCHANGED <<phase, terminate, callVars, queue, txVars, inbox, rx, toStub,
                 up, answered, dups, reported, lost>>

Disconnect ==
  /\ MayDisconnect /\ up
  /\ up' = FALSE
  /\ toStub' = <<>>
  /\ UNCHANGED <<phase, terminate, callVars, queue, txVars, inbox, rx, fromStub,
                 stubVars, reported, lost>>

-----------------------------------------------------------------------------
CallerStep(c) == Wait(c) \/ Return(c)
TxStep == TxSend \/ TxMatch \/ TxUnexpected \/ TxNotify \/ TxTimeout \/ TxEnd
RxStep == RxReply \/ RxState \/ RxIgnore \/ RxEnd

Next ==
  \/ Construct
  \/ \E c \in Clients, o \in Ops : Call(c, o)
  \/ \E c \in Callers : CallerStep(c)
  \/ TxStep
  \/ RxStep
  \/ RxCorrupt
  \/ Stop
  \/ StubAnswer
  \/ StubCorrupt
  \/ TargetHalts
  \/ Disconnect

(* Threads that can run do; the stub answers what it receives.  Nobody has  *)
(* to call, stop or halt anything, and nothing has to fail.                 *)
Fairness == /\ WF_vars(Construct)
            /\ \A c \in Callers : WF_vars(CallerStep(c))
            /\ WF_vars(TxStep)
            /\ WF_vars(RxStep)
            /\ WF_vars(StubAnswer)

Spec == Init /\ [][Next]_vars
FairSpec == Spec /\ Fairness

-----------------------------------------------------------------------------
(* Type invariant, by groups of variables.  Only replies reach the queue of *)
(* synchronous messages.                                                    *)
CallTypes ==
  /\ pc \in [Callers -> {"idle", "put", "waiting"}]
  /\ calls \in [Callers -> Nat]
  /\ op \in [Callers -> Operations \cup {"none"}]
  /\ cvFree \in [Callers -> BOOLEAN]
  /\ notified \in [Callers -> BOOLEAN]
  /\ ref \in [Callers -> Messages]
  /\ outcome \in [Callers -> {"none", "returned", "raised"}]

QueueTypes ==
  /\ queue \in Seq(Commands)
  /\ inbox \in Seq([name : ReplyNames, cmd : Commands])
  /\ toStub \in Seq(Commands)
  /\ fromStub \in Seq(Messages)

ThreadTypes ==
  /\ phase \in {"reader", "handler", "protocol", "ready"}
  /\ terminate \in BOOLEAN /\ up \in BOOLEAN
  /\ tx \in {"unborn", "get", "await", "notify", "dead", "ended"}
  /\ cur \in Commands
  /\ got \in Messages
  /\ abandoned \subseteq Callers
  /\ rx \in {"alive", "dead", "ended"}

StubTypes ==
  /\ running \in BOOLEAN
  /\ answered \in [Callers -> ReplyNames \cup {"none"}]
  /\ halts \in Nat /\ hits \in Nat /\ reported \in Nat
  /\ lost \in Nat /\ dups \in Nat

TypeOK == CallTypes /\ QueueTypes /\ ThreadTypes /\ StubTypes

(* A method never hands its caller the answer to another command, of this   *)
(* thread or of another, in spite of timeouts, lost and late messages: the  *)
(* replies carry no identifier, the code relies on their order alone.  (If  *)
(* the stub answers a command twice, it does.)                              *)
ReplyRouted ==
  dups = 0 => \A c \in Callers :
                ref[c] # NoMessage => /\ ref[c].cmd = Current(c)
                                      /\ ref[c].name = answered[c]

(* From the moment the send thread has sent a command, at most one message  *)
(* about it is anywhere between it and its return to the queue: this is     *)
(* what makes matching replies by their order right.                        *)
OneInFlight ==
  dups = 0 =>
    /\ Len(toStub) <= 1
    /\ Len(inbox) <= 1
    /\ \A i, j \in DOMAIN fromStub :
         IsReply(fromStub[i]) /\ IsReply(fromStub[j]) => i = j
    /\ toStub # <<>> => inbox = <<>>
    /\ \A i \in DOMAIN fromStub :
         IsReply(fromStub[i]) => toStub = <<>> /\ inbox = <<>>

(* No wake-up is lost: a thread inside a method that has not been notified  *)
(* is one whose command is still queued, or is the one the send thread      *)
(* works on (or died on), or was given up on an unexpected message.         *)
WaitersAccounted ==
  \A c \in Callers :
    pc[c] # "idle" /\ ~notified[c] =>
      \/ \E i \in DOMAIN queue : queue[i] = Current(c)
      \/ cur = Current(c) /\ tx \in {"await", "notify", "dead"}
      \/ c \in abandoned

(* The "Unexpected message received" branch, which leaves its caller        *)
(* blocked for ever, is taken only if the stub answered a command twice.    *)
NoneAbandoned == abandoned # {} => dups > 0

(* The protocol implements the remote calls its callers rely on. *)
Doing == [c \in Callers |-> IF pc[c] = "idle" THEN "none" ELSE op[c]]
Answer == [c \in Callers |-> IF pc[c] = "idle" THEN "none" ELSE answered[c]]
Remote == INSTANCE RemoteCalls WITH doing <- Doing, answer <- Answer,
                                    Ops <- Ops \cup {"get_register"}
RemoteSpec == Remote!Spec

(* Every call ends, if the stub answers in time, keeps the connection and   *)
(* nobody calls stop.                                                       *)
CallsReturn == \A c \in Callers : pc[c] # "idle" ~> pc[c] = "idle"

(* After stop both threads come to their end, but for a receive thread that *)
(* waits in a call its own handler made: stop does not reach it there.      *)
StopEndsThreads ==
  terminate ~> /\ tx \in {"ended", "dead"}
               /\ rx = "alive" => pc[Rx] = "waiting" /\ ~notified[Rx]

(* Breakpoint.wait, "Wait until this breakpoint is hit": once the stub has  *)
(* said that the target stopped, the event that wakes the waiter is posted. *)
HitsReported == \A n \in 1..MaxHalts : hits >= n ~> reported >= n

-----------------------------------------------------------------------------
(* The inductive invariant behind the safety properties. *)

(* The send thread has a command that it has not finished with. *)
Busy == tx \in {"await", "notify", "dead"}

(* Command cmd is the one its caller waits for, and still unanswered.       *)
Pending(cmd) == /\ cmd = Current(cmd.caller)
                /\ pc[cmd.caller] # "idle"
                /\ ~notified[cmd.caller]
                /\ ref[cmd.caller] = NoMessage

(* A caller holds its condition variable's lock exactly until it waits, and *)
(* is notified only while it waits, with an answer in its Reference.        *)
CallsInv ==
  \A c \in Callers :
    /\ cvFree[c] <=> pc[c] # "put"
    /\ notified[c] => pc[c] = "waiting" /\ ref[c].name \in ReplyNames
    /\ pc[c] # "idle" => op[c] \in Operations

(* The send thread starts late in the construction. *)
BornInv == phase \in {"reader", "handler"} <=> tx = "unborn"

(* Queued commands are pending, at most one per caller. *)
QueueInv ==
  /\ \A i \in DOMAIN queue : Pending(queue[i])
  /\ \A i, j \in DOMAIN queue : queue[i].caller = queue[j].caller => i = j

(* So is the command of the send thread; a matched reply is a reply. *)
CurInv ==
  /\ Busy => /\ Pending(cur)
             /\ \A i \in DOMAIN queue : queue[i].caller # cur.caller
  /\ tx = "notify" => got.name \in ReplyNames

(* msg is the stub's answer to the command the send thread works on. *)
AnswersCur(msg) == /\ msg.cmd = cur
                   /\ msg.name = answered[cur.caller]
                   /\ msg.name \in Answers(cur.op)

(* While the stub repeats itself nowhere, what is under way belongs to the  *)
(* command of the send thread, and the stub knows none of those queued.     *)
WireInv ==
  /\ \A i \in DOMAIN queue : answered[queue[i].caller] = "none"
  /\ toStub # <<>> \/ inbox # <<>> => tx \in {"await", "dead"}
  /\ toStub # <<>> => toStub[1] = cur /\ answered[cur.caller] = "none"
  /\ \A i \in DOMAIN fromStub :
       IsReply(fromStub[i]) => /\ tx \in {"await", "dead"}
                               /\ AnswersCur(fromStub[i])
  /\ inbox # <<>> => AnswersCur(inbox[1])
  /\ tx = "notify" => AnswersCur(got)

IInv == /\ TypeOK /\ BornInv /\ CallsInv /\ QueueInv /\ CurInv
        /\ WaitersAccounted /\ ReplyRouted /\ OneInFlight /\ NoneAbandoned
        /\ dups = 0 => WireInv
=============================================================================
