---------------------------- MODULE RemoteMemory ----------------------------
(***************************************************************************)
(* Requests of the emulator to the target: the server thread of            *)
(* S2ERemoteMemoryInterface (interfaces/s2e_remote_memory.py), the         *)
(* handlers of Emulator (emulators/emulator.py), EmulatorTargetCallProxy   *)
(* (call_proxy.py), the end of the S2E process (s2e_emulator.py), and      *)
(* MemoryRangeIdentifier (plugins), which watches the requests from the    *)
(* event thread.                                                           *)
(*                                                                         *)
(* The target is a GDB server (gdbserver_target.py): a target without      *)
(* get_checksum cannot be started with the RemoteMemory plugin.  A call of *)
(* the target is one step, in which GDB performs or refuses it (GdbMI has  *)
(* the calls in detail).  The script may use the target meanwhile.         *)
(*                                                                         *)
(* Not modelled: the text of requests, accesses of several bytes, access   *)
(* counts of the plugin, and monitors that change the parameters.          *)
(***************************************************************************)
EXTENDS Naturals, Sequences

CONSTANTS
  Addrs, Vals,  \* addresses, values of memory and registers
  Zero,         \* the value get_register returns when GDB refuses
  RegOrder,     \* registers but cpsr, in the order they are transferred
  Cpsr,         \* flags, mode and T bit: never transferred
  CpuStates,    \* CPU states the emulator may hand over
  MayRefuse,    \* TRUE: GDB may refuse what a halted target could do
  MayRaise,     \* TRUE: monitors may raise an exception
  MayDie,       \* TRUE: the S2E process may end or be killed
  MayMiss,      \* TRUE: an event may pass MemoryRangeIdentifier by
  MaxRequests,  \* bound: requests the emulator makes
  MaxOthers     \* bound: changes the script or the running target makes

Regs == {RegOrder[i] : i \in DOMAIN RegOrder}
Registers == Regs \cup {Cpsr}

ASSUME MemoryAssumption ==
  /\ Zero \in Vals
  /\ RegOrder \in Seq(Regs) /\ RegOrder # <<>> /\ Cpsr \notin Regs
  /\ CpuStates \subseteq [Registers -> Vals]
  /\ MayRefuse \in BOOLEAN /\ MayRaise \in BOOLEAN /\ MayDie \in BOOLEAN
  /\ MayMiss \in BOOLEAN
  /\ MaxRequests \in Nat /\ MaxOthers \in Nat

(* Requests; "other" stands for those no branch answers: unknown commands,  *)
(* JSON without "cmd", and write_buffer, whose handler does not exist.      *)
Requests ==
  [cmd : {"read"}, address : Addrs] \cup
  [cmd : {"write"}, address : Addrs, value : Vals] \cup
  [cmd : {"set_cpu_state"}, state : CpuStates] \cup
  [cmd : {"get_cpu_state", "continue", "get_checksum", "other"}]
NoRequest == [cmd |-> "none"]

(* The emulator waits for a reply to all but these. *)
Unanswered == {"write", "other"}

VARIABLES
  emulator,  \* S2E: runs, waits for a reply, or is dead
  asked,     \* the request it waits on
  launcher,  \* run_s2e_process: is connecting GDB to S2E, waits for S2E to
             \* end, or has given up
  inward,    \* the socket, from the emulator
  outward,   \* the socket, to the emulator
  server,    \* where the server thread is
  tries,     \* failed attempts to connect
  request,   \* the request it works on
  done,      \* registers it has transferred for it
  value,     \* what the target returned to it
  stopped,   \* _stop
  memory, registers, running, \* the target
  events,    \* System._events
  tracked,   \* data of MemoryRangeIdentifier
  unseen,    \* addresses whose last write handled it was not given
  made,      \* requests the emulator has made
  others,    \* changes made by the script or the target
  written,   \* written[a]: what the emulator last wrote to a
  wanted,    \* wanted[r]: the value the emulator last gave for r, or "none"
             \* if it gave none or somebody else changed r since
  failed     \* a request was refused or failed

emuVars == <<emulator, asked, made, written>>
targetVars == <<memory, registers, running>>
pluginVars == <<events, tracked, unseen>>
vars == <<emuVars, launcher, inward, outward, server, tries, request, done, value,
          stopped, targetVars, pluginVars, others, wanted, failed>>

Init ==
  /\ emulator = "runs" /\ asked = NoRequest /\ launcher = "connecting"
  /\ inward = <<>> /\ outward = <<>>
  /\ server = "connect" /\ tries = 0
  /\ request = NoRequest /\ done = <<>> /\ value = Zero
  /\ stopped = FALSE
  /\ memory = [a \in Addrs |-> Zero]
  /\ registers = [r \in Registers |-> Zero]
  /\ running = FALSE
  /\ events = <<>>
  /\ tracked = [a \in Addrs |-> "none"] /\ unseen = {}
  /\ made = 0 /\ others = 0
  /\ written = [a \in Addrs |-> "none"]
  /\ wanted = [r \in Registers |-> "none"]
  /\ failed = FALSE

-----------------------------------------------------------------------------
(* The emulator: external.  It makes requests once the server is connected. *)
Request(r) ==
  /\ emulator = "runs" /\ server \notin {"connect", "gaveUp"}
  /\ made < MaxRequests
  /\ made' = made + 1
  /\ inward' = Append(inward, r)
  /\ IF r.cmd \in Unanswered
     THEN UNCHANGED <<emulator, asked>>
     ELSE emulator' = "waits" /\ asked' = r
  /\ written' = IF r.cmd = "write" THEN [written EXCEPT ![r.address] = r.value]
                ELSE written
  /\ wanted' = IF r.cmd = "set_cpu_state" THEN r.state ELSE wanted
  /\ UNCHANGED <<launcher, outward, server, tries, request, done, value,
                 stopped, targetVars, pluginVars, others, failed>>

TakeReply ==
  /\ emulator = "waits" /\ outward # <<>>
  /\ emulator' = "runs"
  /\ asked' = NoRequest
  /\ outward' = Tail(outward)
  /\ UNCHANGED <<made, written, launcher, inward, server, tries, request, done,
                 value, stopped, targetVars, pluginVars, others, wanted, failed>>

Die ==
  /\ MayDie /\ emulator # "dead"
  /\ emulator' = "dead"
  /\ outward' = <<>>
  /\ UNCHANGED <<asked, made, written, launcher, inward, server, tries, request,
                 done, value, stopped, targetVars, pluginVars, others, wanted,
                 failed>>

(* run_s2e_process.  Connecting GDB succeeds or, after ten attempts, raises *)
(* an exception, which ends the thread.                                     *)
Launch ==
  /\ launcher = "connecting"
  /\ \/ emulator # "dead" /\ launcher' = "waiting"
     \/ launcher' = "gaveUp"
  /\ UNCHANGED <<emuVars, inward, outward, server, tries, request, done, value,
                 stopped, targetVars, pluginVars, others, wanted, failed>>

(* It has waited for the end of the process; exit stops the interface.      *)
NeverStopped == FALSE                  \* seeded fault: exit does nothing
StopSet == TRUE

Exit ==
  /\ launcher = "waiting" /\ emulator = "dead" /\ ~stopped
  /\ stopped' = StopSet
  /\ UNCHANGED <<emuVars, launcher, inward, outward, server, tries, request,
                 done, value, targetVars, pluginVars, others, wanted, failed>>

-----------------------------------------------------------------------------
(* The server thread (_run).  It sets its counter to the limit once it is   *)
(* connected.                                                               *)
Attempts == 9

Connect ==
  /\ server = "connect"
  /\ \/ emulator # "dead" /\ server' = "read" /\ tries' = Attempts
     \/ /\ tries' = tries + 1
        /\ server' = IF tries' = Attempts THEN "gaveUp" ELSE "connect"
  /\ UNCHANGED <<emuVars, launcher, inward, outward, request, done, value,
                 stopped, targetVars, pluginVars, others, wanted, failed>>

(* A whole request has arrived.  Reads and writes are posted as events      *)
(* before they are performed.                                               *)
NoChecksum(cmd) ==                     \* seeded fault: an unknown command
  IF cmd \in {"other", "get_checksum"} THEN "read"
  ELSE IF cmd \in {"read", "write"} THEN "before" ELSE "call"
Branch(cmd) ==
  IF cmd = "other" THEN "read"
  ELSE IF cmd \in {"read", "write"} THEN "before" ELSE "call"

PostedReads(r) ==                      \* seeded fault: writes not posted
  IF r.cmd = "read" THEN Append(events, r) ELSE events
Posted(r) == IF r.cmd \in {"read", "write"} THEN Append(events, r) ELSE events

Receive ==
  /\ server = "read" /\ ~stopped
  /\ inward # <<>>
  /\ inward' = Tail(inward)
  /\ LET r == Head(inward)
     IN /\ server' = Branch(r.cmd)
        /\ request' = IF server' = "read" THEN NoRequest ELSE r
        /\ events' = Posted(r)
  /\ UNCHANGED <<emuVars, launcher, outward, tries, done, value, stopped,
                 targetVars, tracked, unseen, others, wanted, failed>>

(* _stop is looked at before each byte.  (After the emulator's end recv     *)
(* returns nothing, over and over, until _stop is set.)                     *)
End ==
  /\ server = "read" /\ stopped
  /\ server' = "ended"
  /\ UNCHANGED <<emuVars, launcher, inward, outward, tries, request, done,
                 value, stopped, targetVars, pluginVars, others, wanted, failed>>

(* An exception in a handler is logged, and the next request is read.       *)
DoneKept == done                       \* seeded fault: list not reset
NoneDone == <<>>
Back == /\ server' = "read" /\ request' = NoRequest
        /\ done' = NoneDone /\ value' = Zero

FailedButReplies ==                    \* seeded fault: reply in any case
  /\ Back /\ failed' = TRUE
  /\ outward' = Append(outward, [cmd |-> request.cmd, value |-> value])
Failed == Back /\ failed' = TRUE /\ UNCHANGED outward

(* The reply is sent; nobody is left to have it if the emulator is dead.    *)
Reply(v) ==
  /\ Back
  /\ outward' = IF emulator = "dead" THEN outward
                ELSE Append(outward, [cmd |-> request.cmd, value |-> v])
  /\ UNCHANGED failed

(* Monitors before the access, which may raise ... *)
Before ==
  /\ server = "before"
  /\ \/ /\ server' = "call"
        /\ UNCHANGED <<request, done, value, outward, failed>>
     \/ MayRaise /\ Failed
  /\ UNCHANGED <<emuVars, launcher, inward, tries, stopped, targetVars,
                 pluginVars, others, wanted>>

(* ... and after it.  A write has no reply. *)
FinishAll == Reply(value)              \* seeded fault: it has
Finish == IF request.cmd = "read" THEN Reply(value)
          ELSE Back /\ UNCHANGED <<outward, failed>>

After ==
  /\ server = "after"
  /\ \/ Finish
     \/ MayRaise /\ Failed
  /\ UNCHANGED <<emuVars, launcher, inward, tries, stopped, targetVars,
                 pluginVars, others, wanted>>

-----------------------------------------------------------------------------
(* Calls of the target.  GDB refuses everything while the target runs.      *)
Performs == ~running
Refuses == running \/ MayRefuse

Calling(cmd) == server = "call" /\ request.cmd = cmd
callUnchanged == <<emuVars, launcher, inward, tries, stopped, pluginVars, others>>

Read ==
  /\ Calling("read")
  /\ \/ /\ Performs
        /\ value' = memory[request.address]
        /\ server' = "after"
        /\ UNCHANGED <<request, done, outward, failed>>
     \/ Refuses /\ Failed
  /\ UNCHANGED <<callUnchanged, targetVars, wanted>>

Write ==
  /\ Calling("write")
  /\ \/ /\ Performs
        /\ memory' = [memory EXCEPT ![request.address] = request.value]
        /\ server' = "after"
        /\ UNCHANGED <<request, done, value, outward, failed>>
     \/ Refuses /\ Failed /\ UNCHANGED memory
  /\ UNCHANGED <<callUnchanged, registers, running, wanted>>

(* One register after the other; one that is refused ends the request.      *)
Register == RegOrder[Len(done) + 1]
Transferred(v) ==
  IF Len(done) + 1 = Len(RegOrder)
  THEN Reply(Append(done, v))
  ELSE /\ done' = Append(done, v)
       /\ UNCHANGED <<server, request, value, outward, failed>>

SetRefusedIgnored == Transferred(Zero) \* seeded fault: GDB's error ignored
SetRefused == Failed

SetRegister ==
  /\ Calling("set_cpu_state")
  /\ \/ /\ Performs
        /\ registers' = [registers EXCEPT ![Register] = request.state[Register]]
        /\ Transferred(request.state[Register])
     \/ Refuses /\ SetRefused /\ UNCHANGED registers
  /\ UNCHANGED <<callUnchanged, memory, running, wanted>>

(* get_register catches what is raised and returns 0, but for what is       *)
(* raised while the name of the register is looked up.                      *)
GetRegister ==
  /\ Calling("get_cpu_state")
  /\ \/ Performs /\ Transferred(registers[Register])
     \/ Refuses /\ Transferred(Zero)
     \/ Refuses /\ Failed
  /\ UNCHANGED <<callUnchanged, targetVars, wanted>>

(* The target is started and the reply sent: "here we should wait for the   *)
(* breakpoint to be hit", says the code.                                    *)
Continue ==
  /\ Calling("continue")
  /\ \/ Performs /\ running' = TRUE /\ Reply(Zero)
     \/ Refuses /\ Failed /\ UNCHANGED running
  /\ UNCHANGED <<callUnchanged, memory, registers, wanted>>

Checksum ==
  /\ Calling("get_checksum")
  /\ \/ Performs /\ Reply(memory)
     \/ Refuses /\ Failed
  /\ UNCHANGED <<callUnchanged, targetVars, wanted>>

-----------------------------------------------------------------------------
(* The script uses the target, and the target stops at a breakpoint after   *)
(* it has changed this or that.                                             *)
otherUnchanged == <<emuVars, launcher, inward, outward, server, tries, request,
                    done, value, stopped, pluginVars, failed>>

ScriptWrites ==
  /\ others < MaxOthers /\ ~running
  /\ others' = others + 1
  /\ \/ \E a \in Addrs, v \in Vals :
          /\ memory' = [memory EXCEPT ![a] = v]
          /\ UNCHANGED <<registers, wanted>>
     \/ \E r \in Registers, v \in Vals :
          /\ registers' = [registers EXCEPT ![r] = v]
          /\ wanted' = [wanted EXCEPT ![r] = "none"]
          /\ UNCHANGED memory
  /\ UNCHANGED <<otherUnchanged, running>>

Halt ==
  /\ running
  /\ running' = FALSE
  /\ \E a \in Addrs, r \in Registers, v \in Vals :
       /\ memory' = [memory EXCEPT ![a] = v]
       /\ registers' = [registers EXCEPT ![r] = v]
  /\ wanted' = [r \in Registers |-> "none"]
  /\ UNCHANGED <<otherUnchanged, others>>

(* The event thread hands a request to MemoryRangeIdentifier, which keeps   *)
(* the data of writes; of reads it is not given the value.  It misses a     *)
(* write when a listener before it in the list is removed meanwhile         *)
(* (EventDispatch), and fails an assertion on one of an odd size or across  *)
(* two pages, which is logged.                                              *)
Observe ==
  /\ events # <<>>
  /\ events' = Tail(events)
  /\ LET r == Head(events)
     IN \/ r.cmd = "read" /\ UNCHANGED <<tracked, unseen>>
        \/ /\ r.cmd = "write"
           /\ tracked' = [tracked EXCEPT ![r.address] = r.value]
           /\ unseen' = unseen \ {r.address}
        \/ /\ r.cmd = "write" /\ MayMiss
           /\ unseen' = unseen \cup {r.address}
           /\ UNCHANGED tracked
  /\ UNCHANGED <<emuVars, launcher, inward, outward, server, tries, request,
                 done, value, stopped, targetVars, others, wanted, failed>>

-----------------------------------------------------------------------------
ServerStep == \/ Connect \/ Receive \/ End \/ Before \/ After
              \/ Read \/ Write \/ SetRegister \/ GetRegister \/ Continue
              \/ Checksum

Next == \/ \E r \in Requests : Request(r)
        \/ TakeReply \/ Die \/ Launch \/ Exit
        \/ ServerStep
        \/ ScriptWrites \/ Halt
        \/ Observe

Spec == Init /\ [][Next]_vars

(* Threads that can run do, GDB answers, and S2E reads its replies.         *)
FairSpec == /\ Spec
            /\ WF_vars(ServerStep) /\ WF_vars(TakeReply)
            /\ WF_vars(Launch) /\ WF_vars(Exit)

-----------------------------------------------------------------------------
Replies == [cmd : {"read"}, value : Vals] \cup
           [cmd : {"set_cpu_state", "get_cpu_state"}, value : Seq(Vals)] \cup
           [cmd : {"continue"}, value : Vals] \cup
           [cmd : {"get_checksum"}, value : [Addrs -> Vals]]

TypeOK ==
  /\ emulator \in {"runs", "waits", "dead"}
  /\ asked \in Requests \cup {NoRequest}
  /\ launcher \in {"connecting", "waiting", "gaveUp"}
  /\ inward \in Seq(Requests) /\ outward \in Seq(Replies)
  /\ server \in {"connect", "read", "before", "call", "after", "ended",
                "gaveUp"}
  /\ tries \in 0..Attempts
  /\ request \in Requests \cup {NoRequest}
  /\ done \in Seq(Vals) /\ Len(done) < Len(RegOrder)
  /\ done # <<>> => request.cmd \in {"set_cpu_state", "get_cpu_state"}
  /\ value \in Vals
  /\ stopped \in BOOLEAN /\ running \in BOOLEAN /\ failed \in BOOLEAN
  /\ memory \in [Addrs -> Vals] /\ registers \in [Registers -> Vals]
  /\ events \in Seq(Requests)
  /\ tracked \in [Addrs -> Vals \cup {"none"}] /\ unseen \subseteq Addrs
  /\ made \in Nat /\ others \in Nat
  /\ written \in [Addrs -> Vals \cup {"none"}]
  /\ wanted \in [Registers -> Vals \cup {"none"}]

(* A reply is there only while the emulator waits for it: nothing that      *)
(* failed, and no write, leaves a reply behind for the next request.        *)
ReplyInStep ==
  outward # <<>> => /\ Len(outward) = 1
                    /\ emulator = "waits"
                    /\ asked.cmd = outward[1].cmd

(* When the target is about to be continued for the emulator, it has every  *)
(* register but cpsr of the last CPU state the emulator gave it, unless     *)
(* somebody else has changed the register since: execution never moves with *)
(* half of the registers, or with those of an earlier state.  The cpsr is   *)
(* skipped (call_proxy.py:65): the target goes on with its own flags and    *)
(* its own T bit, and nothing is promised of them.                          *)
RegistersHandedOver ==
  Calling("continue") =>
    \A r \in Regs : wanted[r] \in {registers[r], "none"}

(* Once the event thread has seen to all that was posted, the data that     *)
(* MemoryRangeIdentifier keeps for an address is what the emulator wrote    *)
(* there last, unless it was not given that very write.  It catches up with *)
(* the ones it missed before.                                               *)
Tracked ==
  events = <<>> /\ (\A i \in DOMAIN inward : inward[i].cmd # "write")
    => \A a \in Addrs \ unseen : tracked[a] = written[a]

(* Every request that the emulator waits on is answered, unless one was     *)
(* refused or failed (the failed one is never answered).                    *)
Answered == emulator = "waits" ~> emulator # "waits" \/ failed

(* The server thread does not outlive the emulator, once GDB has been       *)
(* connected to it: if connecting was given up, exit is never called.       *)
ServerEnds ==
  emulator = "dead" ~> server \in {"ended", "gaveUp"} \/ launcher = "gaveUp"

(* Reads and writes are performed in order, at most once, at one moment:    *)
(* server thread, socket and target implement ForwardedMemory.              *)
Todo == (IF server \in {"before", "call"} THEN <<request>> ELSE <<>>) \o inward
ReadAnswer ==
  IF server = "after" /\ request.cmd = "read"
  THEN <<[cmd |-> "read", value |-> value]>>
  ELSE IF outward # <<>> /\ outward[1].cmd = "read" THEN outward ELSE <<>>
Forwarded == INSTANCE ForwardedMemory WITH todo <- Todo, mem <- memory,
                                           answer <- ReadAnswer
ForwardedSpec == Forwarded!Spec
=============================================================================
