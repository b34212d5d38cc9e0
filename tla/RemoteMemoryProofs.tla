------------------------- MODULE RemoteMemoryProofs -------------------------
(***************************************************************************)
(* Proofs about RemoteMemory, for any addresses, values, registers and     *)
(* number of requests: replies stay in step with requests, the target is   *)
(* continued with all registers of the CPU state but cpsr, the tracker     *)
(* ends up with what was written but for the writes it was not given, and  *)
(* the server thread, the socket and the target implement ForwardedMemory. *)
(***************************************************************************)
EXTENDS RemoteMemory, SequenceTheorems, TLAPS

Awaited(r) == r.cmd \notin Unanswered \cup {"none"}

(* Where the server thread is with its request.                             *)
ServerInv ==
  /\ request # NoRequest <=> server \in {"before", "call", "after"}
  /\ server \in {"before", "after"} => request.cmd \in {"read", "write"}
  /\ server = "connect" => tries < Attempts

(* The request the emulator waits on is the last one it made.  It is in the *)
(* socket, in work, answered, or failed.                                    *)
AskedInv ==
  /\ emulator = "runs" => asked = NoRequest
  /\ \A i \in DOMAIN inward : Awaited(inward[i]) =>
       i = Len(inward) /\ inward[i] = asked
  /\ Awaited(request) => request = asked /\ inward = <<>>
  /\ outward # <<>> => /\ emulator = "waits" /\ Len(outward) = 1
                       /\ asked.cmd = outward[1].cmd
                       /\ inward = <<>> /\ request = NoRequest

(* A register has the value the emulator wants, or somebody changed it.     *)
Same(r) == wanted[r] \in {registers[r], "none"}
Agrees(state) == \A r \in Regs : wanted[r] \in {state[r], "none"}

(* All registers do, but while a CPU state is on its way or has failed.     *)
HandoverInv ==
  /\ \A i \in DOMAIN inward :
       inward[i].cmd = "set_cpu_state" => Agrees(inward[i].state)
  /\ request.cmd = "set_cpu_state" =>
       Agrees(request.state) /\ \A i \in 1..Len(done) : Same(RegOrder[i])
  /\ asked.cmd # "set_cpu_state" \/ outward # <<>> => \A r \in Regs : Same(r)

(* What was last written to an address is in the last write to it on its    *)
(* way to the server, or else in the last one posted, or else tracked (or   *)
(* was not given to the tracker).                                           *)
WriteTo(r, a) == r.cmd = "write" /\ r.address = a
NoWrite(s, a) == \A i \in DOMAIN s : ~WriteTo(s[i], a)
LastWrite(s, a, i) == /\ i \in DOMAIN s /\ WriteTo(s[i], a)
                      /\ \A j \in DOMAIN s : j > i => ~WriteTo(s[j], a)

TrackedInv ==
  \A a \in Addrs :
    /\ \A i \in DOMAIN inward :
         LastWrite(inward, a, i) => written[a] = inward[i].value
    /\ NoWrite(inward, a) =>
         /\ \A i \in DOMAIN events :
              LastWrite(events, a, i) => written[a] = events[i].value
         /\ NoWrite(events, a) /\ a \notin unseen => tracked[a] = written[a]

IInv == TypeOK /\ ServerInv /\ AskedInv /\ HandoverInv /\ TrackedInv
-----------------------------------------------------------------------------
(* Requests and replies. *)
LEMMA RequestKinds ==
  /\ \A r \in Requests :
       /\ r.cmd \in {"read", "write", "set_cpu_state", "get_cpu_state", "continue",
                     "get_checksum", "other"}
       /\ r.cmd = "read" => r.address \in Addrs
       /\ r.cmd = "write" => r.address \in Addrs /\ r.value \in Vals
       /\ r.cmd = "set_cpu_state" => r.state \in [Registers -> Vals]
  /\ NoRequest \notin Requests /\ NoRequest.cmd = "none"
BY MemoryAssumption DEF Requests, NoRequest

LEMMA ReplyKinds ==
  /\ \A v \in Vals : /\ [cmd |-> "read", value |-> v] \in Replies
                     /\ [cmd |-> "continue", value |-> v] \in Replies
  /\ \A v \in Seq(Vals) : /\ [cmd |-> "set_cpu_state", value |-> v] \in Replies
                          /\ [cmd |-> "get_cpu_state", value |-> v] \in Replies
  /\ \A v \in [Addrs -> Vals] : [cmd |-> "get_checksum", value |-> v] \in Replies
BY DEF Replies

(* Sequences, element by element. *)
LEMMA Appended ==
  ASSUME NEW S, NEW s \in Seq(S), NEW e \in S
  PROVE  /\ Append(s, e) \in Seq(S)
         /\ Len(s) \in Nat /\ DOMAIN s = 1 .. Len(s)
         /\ Len(Append(s, e)) = Len(s) + 1
         /\ DOMAIN Append(s, e) = 1 .. Len(s) + 1
         /\ \A j \in 1 .. Len(s) : Append(s, e)[j] = s[j]
         /\ Append(s, e)[Len(s) + 1] = e
<1>1. Append(s, e) \in Seq(S) /\ Len(s) \in Nat /\ DOMAIN s = 1 .. Len(s)
  BY AppendProperties, LenProperties
<1>2. DOMAIN Append(s, e) = 1 .. Len(s) + 1
  BY <1>1, AppendProperties, LenProperties
<1> QED
  BY <1>1, <1>2, AppendProperties

LEMMA Taken ==
  ASSUME NEW S, NEW s \in Seq(S), s # <<>>
  PROVE  /\ Head(s) \in S /\ Head(s) = s[1] /\ Tail(s) \in Seq(S)
         /\ Len(s) \in Nat \ {0} /\ DOMAIN s = 1 .. Len(s)
         /\ Len(Tail(s)) = Len(s) - 1
         /\ DOMAIN Tail(s) = 1 .. Len(s) - 1
         /\ \A j \in 1 .. Len(s) - 1 : Tail(s)[j] = s[j + 1]
<1>1. Len(s) \in Nat /\ DOMAIN s = 1 .. Len(s) /\ Len(s) # 0
  BY EmptySeq, LenProperties
<1>2. /\ Head(s) \in S /\ Tail(s) \in Seq(S) /\ Len(Tail(s)) = Len(s) - 1
      /\ \A j \in 1 .. Len(Tail(s)) : Tail(s)[j] = s[j + 1]
  BY HeadTailProperties
<1>3. DOMAIN Tail(s) = 1 .. Len(s) - 1
  BY <1>2, LenProperties
<1> QED
  BY <1>1, <1>2, <1>3

LEMMA RegistersOrdered ==
  /\ Len(RegOrder) \in Nat \ {0} /\ DOMAIN RegOrder = 1 .. Len(RegOrder)
  /\ \A i \in 1 .. Len(RegOrder) : RegOrder[i] \in Regs
  /\ \A r \in Regs : \E i \in 1 .. Len(RegOrder) : RegOrder[i] = r
<1>1. Len(RegOrder) \in Nat /\ DOMAIN RegOrder = 1 .. Len(RegOrder)
  BY MemoryAssumption, LenProperties
<1>2. Len(RegOrder) # 0
  BY MemoryAssumption, EmptySeq
<1> QED
  BY <1>1, <1>2 DEF Regs
-----------------------------------------------------------------------------
LEMMA InitInv == Init => IInv
<1> SUFFICES ASSUME Init PROVE IInv
  OBVIOUS
<1>1. DOMAIN inward = {} /\ DOMAIN events = {} /\ Len(done) = 0
  BY DEF Init
<1>2. TypeOK
  <2>1. /\ inward \in Seq(Requests) /\ outward \in Seq(Replies) /\ events \in Seq(Requests)
        /\ done \in Seq(Vals)
    BY DEF Init
  <2>2. Len(done) < Len(RegOrder) /\ Zero \in Vals
    BY <1>1, RegistersOrdered, MemoryAssumption
  <2>3. /\ memory \in [Addrs -> Vals] /\ registers \in [Registers -> Vals]
        /\ tracked \in [Addrs -> Vals \cup {"none"}] /\ written \in [Addrs -> Vals \cup {"none"}]
        /\ wanted \in [Registers -> Vals \cup {"none"}]
    BY <2>2 DEF Init
  <2>6. launcher = "connecting" /\ unseen = {}
    BY DEF Init
  <2>4. /\ emulator = "runs" /\ asked = NoRequest /\ server = "connect" /\ request = NoRequest
        /\ value \in Vals /\ done = <<>>
        /\ stopped \in BOOLEAN /\ running \in BOOLEAN /\ failed \in BOOLEAN
    BY <2>2 DEF Init
  <2>5. tries \in 0 .. Attempts /\ made \in Nat /\ others \in Nat
    BY DEF Init, Attempts
  <2> QED
    BY <2>1, <2>2, <2>3, <2>4, <2>5, <2>6, <1>1 DEF TypeOK
<1>3. ServerInv /\ AskedInv
  BY <1>1, RequestKinds DEF Init, ServerInv, AskedInv, Attempts, Awaited
<1>4. HandoverInv
  <2>1. request.cmd = "none" /\ asked.cmd = "none"
    BY RequestKinds DEF Init
  <2>2. \A r \in Registers : Same(r)
    BY DEF Init, Same
  <2> QED
    BY <1>1, <2>1, <2>2 DEF HandoverInv, Registers
<1>5. TrackedInv
  BY <1>1 DEF Init, TrackedInv
<1> QED
  BY <1>2, <1>3, <1>4, <1>5 DEF IInv
-----------------------------------------------------------------------------
(* What the server thread does with the request it has: it goes on, or is   *)
(* done with it, with or without a reply.                                   *)
GoesOn == /\ request # NoRequest
          /\ server' \in {"call", "after"} /\ UNCHANGED <<request, outward>>
          /\ server' = "after" => request.cmd \in {"read", "write"}
GivesUp == request # NoRequest /\ Back /\ UNCHANGED outward
Replied == \E v : /\ request # NoRequest /\ Awaited(request) /\ Back
                  /\ emulator # "dead"
                  /\ outward' = Append(outward, [cmd |-> request.cmd, value |-> v])

Handling == \/ Before \/ After \/ Read \/ Write \/ SetRegister \/ GetRegister
            \/ Continue \/ Checksum

LEMMA HandlingKinds ==
  ASSUME TypeOK, ServerInv, Handling
  PROVE  /\ GoesOn \/ GivesUp \/ Replied
         /\ UNCHANGED <<callUnchanged, wanted>>
<1>1. request \in Requests \cup {NoRequest}
  BY DEF TypeOK
<1>2. CASE Before
  <2>1. request # NoRequest /\ request.cmd \in {"read", "write"}
    BY <1>2 DEF Before, ServerInv
  <2> QED
    BY <1>2, <2>1 DEF Before, Failed, GoesOn, GivesUp, callUnchanged
<1>3. CASE After
  <2>1. request # NoRequest /\ request.cmd \in {"read", "write"}
    BY <1>3 DEF After, ServerInv
  <2>2. request.cmd = "read" => Awaited(request)
    BY DEF Awaited, Unanswered
  <2> QED
    BY <1>3, <2>1, <2>2 DEF After, Finish, Reply, Failed, GivesUp, Replied, callUnchanged
<1>4. CASE Read \/ Write
  <2>1. request # NoRequest /\ request.cmd \in {"read", "write"}
    BY <1>4 DEF Read, Write, Calling, ServerInv
  <2> QED
    BY <1>4, <2>1 DEF Read, Write, Failed, GoesOn, GivesUp, callUnchanged
<1>5. CASE SetRegister \/ GetRegister
  <2>1. request # NoRequest /\ Awaited(request) /\ server = "call"
    BY <1>5 DEF SetRegister, GetRegister, Calling, ServerInv, Awaited, Unanswered
  <2>2. \/ \E v : Transferred(v)
        \/ Failed
    BY <1>5 DEF SetRegister, GetRegister, SetRefused
  <2>3. ASSUME NEW v, Transferred(v)
        PROVE  GoesOn \/ GivesUp \/ Replied
    BY <2>1, <2>3 DEF Transferred, Reply, GoesOn, GivesUp, Replied
  <2>4. Failed => GivesUp
    BY <2>1 DEF Failed, GivesUp
  <2> QED
    BY <1>5, <2>2, <2>3, <2>4 DEF SetRegister, GetRegister
<1>6. CASE Continue \/ Checksum
  <2>1. request # NoRequest /\ Awaited(request)
    BY <1>6 DEF Continue, Checksum, Calling, ServerInv, Awaited, Unanswered
  <2> QED
    BY <1>6, <2>1 DEF Continue, Checksum, Reply, Failed, GivesUp, Replied
<1> QED
  BY <1>2, <1>3, <1>4, <1>5, <1>6 DEF Handling

LEMMA ServerSteps ==
  ASSUME TypeOK, ServerInv, Next
  PROVE  ServerInv'
<1>0. /\ request \in Requests \cup {NoRequest} /\ tries \in 0 .. Attempts
      /\ \A r \in Requests : r # NoRequest
  BY RequestKinds DEF TypeOK
<1>1. CASE Handling
  <2>1. UNCHANGED tries /\ (GoesOn \/ GivesUp \/ Replied)
    BY <1>1, HandlingKinds DEF callUnchanged
  <2>2. CASE GoesOn
    BY <2>1, <2>2 DEF GoesOn, ServerInv
  <2>3. CASE GivesUp \/ Replied
    BY <2>1, <2>3 DEF GivesUp, Replied, Back, ServerInv
  <2> QED
    BY <2>1, <2>2, <2>3
<1>2. CASE Receive
  <2>1. Head(inward) \in Requests /\ server = "read"
    BY <1>2, Taken DEF Receive, TypeOK
  <2>2. server' = Branch(Head(inward).cmd) /\ UNCHANGED tries
        /\ request' = IF server' = "read" THEN NoRequest ELSE Head(inward)
    BY <1>2 DEF Receive
  <2> QED
    BY <1>0, <2>1, <2>2 DEF Branch, ServerInv
<1>3. CASE Connect
  BY <1>0, <1>3 DEF Connect, ServerInv, Attempts
<1>4. CASE End
  BY <1>4 DEF End, ServerInv
<1>5. CASE UNCHANGED <<server, tries, request>>
  BY <1>5 DEF ServerInv
<1> QED
  BY <1>1, <1>2, <1>3, <1>4, <1>5
     DEF Next, Request, TakeReply, Die, Launch, Exit, ServerStep, Handling, ScriptWrites, Halt, Observe,
         otherUnchanged
-----------------------------------------------------------------------------
LEMMA DoneNext ==
  ASSUME TypeOK, NEW v \in Vals
  PROVE  /\ Append(done, v) \in Seq(Vals) /\ Len(Append(done, v)) = Len(done) + 1
         /\ Append(done, v) # <<>>
         /\ Len(done) \in Nat /\ Len(done) + 1 \in 1 .. Len(RegOrder)
         /\ Register \in Regs
         /\ Len(done) + 1 # Len(RegOrder) => Len(Append(done, v)) < Len(RegOrder)
<1>1. done \in Seq(Vals) /\ Len(done) < Len(RegOrder)
  BY DEF TypeOK
<1>2. /\ Append(done, v) \in Seq(Vals) /\ Len(Append(done, v)) = Len(done) + 1
      /\ Len(done) \in Nat
  BY <1>1, Appended
<1>3. Append(done, v) # <<>>
  BY <1>2, EmptySeq
<1>4. Len(done) + 1 \in 1 .. Len(RegOrder)
  BY <1>1, <1>2, RegistersOrdered
<1>5. Register \in Regs
  BY <1>4, RegistersOrdered DEF Register
<1>6. Len(done) + 1 # Len(RegOrder) => Len(Append(done, v)) < Len(RegOrder)
  <2>1. Len(RegOrder) \in Int
    BY RegistersOrdered
  <2> QED
    BY <1>2, <1>4, <2>1
<1> QED
  BY <1>2, <1>3, <1>4, <1>5, <1>6

LEMMA TypeStep ==
  ASSUME TypeOK, ServerInv, Next
  PROVE  TypeOK'
<1>0. /\ Zero \in Vals /\ <<>> \in Seq(Vals) /\ Len(<<>>) = 0 /\ 0 < Len(RegOrder)
      /\ request \in Requests \cup {NoRequest} /\ NoRequest.cmd = "none"
  BY MemoryAssumption, RegistersOrdered, RequestKinds DEF TypeOK
<1>1. ASSUME NEW r \in Requests, Request(r)
      PROVE  TypeOK'
  <2>1. inward' \in Seq(Requests) /\ made' \in Nat
    BY <1>1, Appended DEF Request, TypeOK
  <2>2. written' \in [Addrs -> Vals \cup {"none"}]
    BY <1>1, RequestKinds DEF Request, TypeOK
  <2>3. wanted' \in [Registers -> Vals \cup {"none"}]
    <3>1. CASE r.cmd = "set_cpu_state"
      <4>1. r.state \in [Registers -> Vals] /\ wanted' = r.state
        BY <1>1, <3>1, RequestKinds DEF Request
      <4> QED
        BY <4>1
    <3>2. CASE r.cmd # "set_cpu_state"
      BY <1>1, <3>2 DEF Request, TypeOK
    <3> QED
      BY <3>1, <3>2
  <2>4. emulator' \in {"runs", "waits", "dead"} /\ asked' \in Requests \cup {NoRequest}
    BY <1>1 DEF Request, TypeOK
  <2> QED
    BY <1>1, <2>1, <2>2, <2>3, <2>4 DEF Request, TypeOK, targetVars, pluginVars
<1>2. CASE TakeReply
  BY <1>2, Taken DEF TakeReply, TypeOK, targetVars, pluginVars
<1>3. CASE Die
  BY <1>3 DEF Die, TypeOK, targetVars, pluginVars
<1>4. CASE Launch \/ Exit \/ End
  <2>1. launcher' \in {"connecting", "waiting", "gaveUp"}
    BY <1>4 DEF Launch, Exit, End, TypeOK
  <2>2. stopped' \in BOOLEAN /\ server' \in {server, "ended"}
    BY <1>4 DEF Launch, Exit, StopSet, End, TypeOK
  <2>3. UNCHANGED <<emuVars, inward, outward, tries, request, done, value, targetVars, pluginVars,
                    others, wanted, failed>>
    BY <1>4 DEF Launch, Exit, End
  <2> QED
    BY <2>1, <2>2, <2>3 DEF TypeOK, emuVars, targetVars, pluginVars
<1>5. CASE Connect
  <2>1. tries \in 0 .. Attempts /\ tries < Attempts
    BY <1>5 DEF Connect, ServerInv, TypeOK
  <2>2. tries' \in 0 .. Attempts /\ server' \in {"read", "gaveUp", "connect"}
    BY <1>5, <2>1 DEF Connect, Attempts
  <2> QED
    BY <1>5, <2>2 DEF Connect, TypeOK, emuVars, targetVars, pluginVars
<1>6. CASE Receive
  <2>1. /\ Head(inward) \in Requests /\ inward' \in Seq(Requests)
        /\ server' \in {"read", "before", "call"}
        /\ request' \in Requests \cup {NoRequest}
        /\ events' \in Seq(Requests)
    BY <1>6, Taken, Appended DEF Receive, Branch, Posted, TypeOK
  <2>2. done = <<>>
    <3>1. request = NoRequest
      BY <1>0, <1>6 DEF Receive, ServerInv
    <3> QED
      BY <1>0, <3>1 DEF TypeOK
  <2> QED
    BY <1>6, <2>1, <2>2 DEF Receive, TypeOK, emuVars, targetVars
(* Handing back a request, with any reply that fits it.                     *)
<1>7. ASSUME Back, outward' \in Seq(Replies), UNCHANGED callUnchanged, failed' \in BOOLEAN,
             memory' \in [Addrs -> Vals], registers' \in [Registers -> Vals], running' \in BOOLEAN,
             UNCHANGED wanted
      PROVE  TypeOK'
  <2>1. /\ server' = "read" /\ request' = NoRequest /\ done' = <<>> /\ value' = Zero
        /\ UNCHANGED <<emulator, asked, launcher, made, written, inward, tries, stopped, events,
                       tracked, unseen, others>>
    BY <1>7 DEF Back, NoneDone, callUnchanged, emuVars, pluginVars
  <2> QED
    BY <1>0, <1>7, <2>1 DEF TypeOK
<1>8. ASSUME NEW v, Reply(v), [cmd |-> request.cmd, value |-> v] \in Replies
      PROVE  outward' \in Seq(Replies) /\ failed' \in BOOLEAN
  BY <1>8, Appended DEF Reply, TypeOK
<1>9. /\ outward \in Seq(Replies) /\ failed \in BOOLEAN /\ memory \in [Addrs -> Vals]
      /\ registers \in [Registers -> Vals] /\ running \in BOOLEAN /\ value \in Vals
  BY DEF TypeOK
<1>10. CASE Before \/ After
  <2>1. CASE Failed
    BY <1>7, <1>9, <1>10, <2>1 DEF Before, After, Failed, callUnchanged, targetVars
  <2>2. CASE Before /\ ~Failed
    BY <2>2 DEF Before, TypeOK, emuVars, targetVars, pluginVars
  <2>3. CASE After /\ ~Failed
    <3>1. CASE request.cmd = "read"
      <4>1. Reply(value) /\ [cmd |-> request.cmd, value |-> value] \in Replies
        BY <1>9, <2>3, <3>1, ReplyKinds DEF After, Finish
      <4> QED
        BY <1>7, <1>8, <1>9, <2>3, <4>1 DEF After, Reply, callUnchanged, targetVars
    <3>2. CASE request.cmd # "read"
      BY <1>7, <1>9, <2>3, <3>2 DEF After, Finish, callUnchanged, targetVars
    <3> QED
      BY <3>1, <3>2
  <2> QED
    BY <1>10, <2>1, <2>2, <2>3
<1>11. CASE Read
  <2>1. CASE Failed
    BY <1>7, <1>9, <1>11, <2>1 DEF Read, Failed, targetVars
  <2>2. CASE ~Failed
    <3>1. request.address \in Addrs
      BY <1>0, <1>11, RequestKinds DEF Read, Calling
    <3>2. value' \in Vals
      BY <1>9, <1>11, <2>2, <3>1 DEF Read
    <3> QED
      BY <1>11, <2>2, <3>2 DEF Read, TypeOK, callUnchanged, emuVars, targetVars, pluginVars
  <2> QED
    BY <2>1, <2>2
<1>12. CASE Write
  <2>1. CASE Failed
    BY <1>7, <1>9, <1>12, <2>1 DEF Write, Failed, Back
  <2>2. CASE ~Failed
    <3>1. request.address \in Addrs /\ request.value \in Vals
      BY <1>0, <1>12, RequestKinds DEF Write, Calling
    <3>2. memory' \in [Addrs -> Vals]
      BY <1>9, <1>12, <2>2, <3>1 DEF Write
    <3> QED
      BY <1>12, <2>2, <3>2 DEF Write, TypeOK, callUnchanged, emuVars, pluginVars
  <2> QED
    BY <2>1, <2>2
<1>13. ASSUME request.cmd \in {"set_cpu_state", "get_cpu_state"}, server = "call",
              NEW v \in Vals, Transferred(v), UNCHANGED <<callUnchanged, memory, running, wanted>>,
              registers' \in [Registers -> Vals]
       PROVE  TypeOK'
  <2>1. CASE Len(done) + 1 = Len(RegOrder)
    <3>1. /\ Reply(Append(done, v))
          /\ [cmd |-> request.cmd, value |-> Append(done, v)] \in Replies
      BY <1>13, <2>1, DoneNext, ReplyKinds DEF Transferred
    <3> QED
      BY <1>7, <1>8, <1>9, <1>13, <3>1 DEF Reply
  <2>2. CASE Len(done) + 1 # Len(RegOrder)
    <3>1. /\ done' = Append(done, v) /\ UNCHANGED <<server, request, value, outward, failed>>
          /\ done' \in Seq(Vals) /\ Len(done') < Len(RegOrder)
      BY <1>13, <2>2, DoneNext DEF Transferred
    <3> QED
      BY <1>13, <3>1 DEF TypeOK, callUnchanged, emuVars, pluginVars
  <2> QED
    BY <2>1, <2>2
<1>14. CASE SetRegister
  <2>1. request.state[Register] \in Vals /\ Register \in Regs
    BY <1>0, <1>14, DoneNext, RequestKinds DEF SetRegister, Calling, Registers
  <2>2. CASE /\ registers' = [registers EXCEPT ![Register] = request.state[Register]]
             /\ Transferred(request.state[Register])
    <3>1. registers' \in [Registers -> Vals]
      BY <1>9, <2>1, <2>2
    <3> QED
      BY <1>13, <1>14, <2>1, <2>2, <3>1 DEF SetRegister, Calling
  <2>3. CASE Failed /\ UNCHANGED registers
    BY <1>7, <1>9, <1>14, <2>3 DEF SetRegister, Failed
  <2> QED
    BY <1>14, <2>2, <2>3 DEF SetRegister, SetRefused
<1>15. CASE GetRegister
  <2>1. registers[Register] \in Vals
    BY <1>0, <1>9, DoneNext DEF Registers
  <2> QED
    <3>1. CASE Failed
      BY <1>7, <1>9, <1>15, <3>1 DEF GetRegister, Failed, targetVars
    <3>2. CASE ~Failed
      BY <1>0, <1>9, <1>13, <1>15, <2>1, <3>2 DEF GetRegister, Calling, targetVars
    <3> QED
      BY <3>1, <3>2
<1>16. CASE Continue
  <2>1. CASE Failed
    BY <1>7, <1>9, <1>16, <2>1 DEF Continue, Failed
  <2>2. CASE ~Failed
    <3>1. Reply(Zero) /\ [cmd |-> request.cmd, value |-> Zero] \in Replies /\ running' = TRUE
      BY <1>0, <1>16, <2>2, ReplyKinds DEF Continue, Calling
    <3> QED
      BY <1>7, <1>8, <1>9, <1>16, <3>1 DEF Continue, Reply
  <2> QED
    BY <2>1, <2>2
<1>17. CASE Checksum
  <2>1. CASE Failed
    BY <1>7, <1>9, <1>17, <2>1 DEF Checksum, Failed, targetVars
  <2>2. CASE ~Failed
    <3>1. Reply(memory) /\ [cmd |-> request.cmd, value |-> memory] \in Replies
      BY <1>9, <1>17, <2>2, ReplyKinds DEF Checksum, Calling
    <3> QED
      BY <1>7, <1>8, <1>9, <1>17, <3>1 DEF Checksum, Reply, targetVars
  <2> QED
    BY <2>1, <2>2
<1>18. CASE ScriptWrites
  <2>1. /\ memory' \in [Addrs -> Vals] /\ registers' \in [Registers -> Vals]
        /\ wanted' \in [Registers -> Vals \cup {"none"}] /\ others' \in Nat
    BY <1>18 DEF ScriptWrites, TypeOK
  <2> QED
    BY <1>18, <2>1 DEF ScriptWrites, TypeOK, otherUnchanged, emuVars, pluginVars
<1>19. CASE Halt
  <2>1. /\ memory' \in [Addrs -> Vals] /\ registers' \in [Registers -> Vals]
        /\ wanted' \in [Registers -> Vals \cup {"none"}]
    BY <1>19 DEF Halt, TypeOK
  <2> QED
    <3>1. /\ running' = FALSE
          /\ UNCHANGED <<emulator, asked, made, written, launcher, inward, outward, server, tries,
                         request, done, value, stopped, events, tracked, unseen, failed, others>>
      BY <1>19 DEF Halt, otherUnchanged, emuVars, pluginVars
    <3>2. /\ emulator' \in {"runs", "waits", "dead"} /\ asked' \in Requests \cup {NoRequest}
          /\ launcher' \in {"connecting", "waiting", "gaveUp"}
          /\ inward' \in Seq(Requests) /\ outward' \in Seq(Replies)
          /\ server' \in {"connect", "read", "before", "call", "after", "ended", "gaveUp"}
          /\ tries' \in 0..Attempts
      BY <3>1 DEF TypeOK
    <3>3. /\ request' \in Requests \cup {NoRequest}
          /\ done' \in Seq(Vals) /\ Len(done') < Len(RegOrder)
          /\ done' # <<>> => request'.cmd \in {"set_cpu_state", "get_cpu_state"}
          /\ value' \in Vals /\ stopped' \in BOOLEAN /\ failed' \in BOOLEAN
      BY <3>1 DEF TypeOK
    <3>4. /\ events' \in Seq(Requests) /\ unseen' \subseteq Addrs
          /\ tracked' \in [Addrs -> Vals \cup {"none"}]
          /\ written' \in [Addrs -> Vals \cup {"none"}]
          /\ made' \in Nat /\ others' \in Nat
      BY <3>1 DEF TypeOK
    <3> QED
      BY <2>1, <3>1, <3>2, <3>3, <3>4 DEF TypeOK
<1>20. CASE Observe
  <2>1. events' \in Seq(Requests) /\ Head(events) \in Requests
    BY <1>20, Taken DEF Observe, TypeOK
  <2>2. tracked' \in [Addrs -> Vals \cup {"none"}]
    BY <1>20, <2>1, RequestKinds DEF Observe, TypeOK
  <2> QED
    <3>1. unseen' \subseteq Addrs
      BY <1>20, <2>1, RequestKinds DEF Observe, TypeOK
    <3> QED
      BY <1>20, <2>1, <2>2, <3>1 DEF Observe, TypeOK, emuVars, targetVars
<1> QED
  BY <1>1, <1>2, <1>3, <1>4, <1>5, <1>6, <1>10, <1>11, <1>12, <1>14, <1>15, <1>16, <1>17, <1>18,
     <1>19, <1>20 DEF Next, ServerStep
-----------------------------------------------------------------------------
LEMMA AskedStep ==
  ASSUME TypeOK, ServerInv, AskedInv, Next
  PROVE  AskedInv'
<1>0. /\ inward \in Seq(Requests) /\ outward \in Seq(Replies)
      /\ request \in Requests \cup {NoRequest}
      /\ Len(inward) \in Nat /\ DOMAIN inward = 1 .. Len(inward)
      /\ \A i \in DOMAIN inward : inward[i] \in Requests
      /\ \A r \in Requests : r # NoRequest /\ r.cmd # "none"
      /\ NoRequest.cmd = "none" /\ ~Awaited(NoRequest)
  BY LenProperties, ElementOfSeq, RequestKinds DEF TypeOK, Awaited
<1>1. ASSUME NEW r \in Requests, Request(r)
      PROVE  AskedInv'
  <2>1. /\ emulator = "runs" /\ asked = NoRequest /\ outward = <<>> /\ ~Awaited(request)
        /\ \A i \in DOMAIN inward : ~Awaited(inward[i])
    BY <1>0, <1>1 DEF Request, AskedInv
  <2>2. /\ inward' = Append(inward, r) /\ UNCHANGED <<outward, request>>
        /\ IF Awaited(r) THEN emulator' = "waits" /\ asked' = r ELSE UNCHANGED <<emulator, asked>>
    BY <1>0, <1>1 DEF Request, Awaited
  <2>3. /\ DOMAIN inward' = 1 .. Len(inward) + 1 /\ Len(inward') = Len(inward) + 1
        /\ \A i \in 1 .. Len(inward) : inward'[i] = inward[i]
        /\ inward'[Len(inward) + 1] = r
    BY <1>0, <2>2, Appended
  <2>4. ASSUME NEW i \in DOMAIN inward', Awaited(inward'[i])
        PROVE  i = Len(inward') /\ inward'[i] = asked'
    <3>1. i = Len(inward) + 1
      <4>1. i \notin 1 .. Len(inward)
        BY <1>0, <2>1, <2>3, <2>4
      <4> QED
        BY <1>0, <2>3, <4>1
    <3> QED
      BY <2>2, <2>3, <2>4, <3>1
  <2>5. \A i \in DOMAIN inward' : Awaited(inward[i])' <=> Awaited(inward'[i])
    BY DEF Awaited
  <2>6. Awaited(request)' <=> Awaited(request)
    BY <2>2 DEF Awaited
  <2> QED
    BY <2>1, <2>2, <2>4, <2>5, <2>6 DEF AskedInv
<1>2. CASE TakeReply
  <2>1. /\ asked' = NoRequest /\ inward = <<>> /\ request = NoRequest
        /\ UNCHANGED <<inward, request>> /\ Len(outward) = 1
    BY <1>2 DEF TakeReply, AskedInv
  <2>2. outward' = <<>>
    BY <1>0, <1>2, <2>1, HeadTailProperties, EmptySeq DEF TakeReply
  <2> QED
    BY <1>0, <2>1, <2>2 DEF AskedInv, Awaited
<1>3. CASE Die
  BY <1>3 DEF Die, AskedInv, Awaited
<1>4. CASE Receive
  <2>1. /\ Head(inward) = inward[1] /\ Head(inward) \in Requests /\ inward' = Tail(inward)
        /\ DOMAIN inward' = 1 .. Len(inward) - 1 /\ Len(inward') = Len(inward) - 1
        /\ \A i \in 1 .. Len(inward) - 1 : inward'[i] = inward[i + 1]
        /\ Len(inward) # 0 /\ inward' \in Seq(Requests)
    BY <1>0, <1>4, Taken DEF Receive
  <2>2. UNCHANGED <<emulator, asked, outward>> /\ outward = <<>>
    <3>1. inward # <<>>
      BY <1>4 DEF Receive
    <3> QED
      BY <1>4, <3>1 DEF Receive, AskedInv, emuVars
  <2>3. request' \in {NoRequest, Head(inward)}
    BY <1>4 DEF Receive
  <2>4. Awaited(request') => request' = asked /\ inward' = <<>>
    <3>1. SUFFICES ASSUME Awaited(request') PROVE request' = asked /\ inward' = <<>>
      OBVIOUS
    <3>2. request' = inward[1] /\ Awaited(inward[1])
      BY <1>0, <2>1, <2>3, <3>1
    <3>3. 1 = Len(inward) /\ inward[1] = asked
      BY <1>0, <2>1, <3>2 DEF AskedInv
    <3>4. inward' = <<>>
      BY <2>1, <3>3, EmptySeq
    <3> QED
      BY <3>2, <3>3, <3>4
  <2>5. ASSUME NEW i \in DOMAIN inward', Awaited(inward'[i])
        PROVE  i = Len(inward') /\ inward'[i] = asked
    <3>1. i + 1 \in DOMAIN inward /\ inward'[i] = inward[i + 1]
      BY <1>0, <2>1
    <3>2. i + 1 = Len(inward) /\ inward[i + 1] = asked
      BY <2>5, <3>1 DEF AskedInv
    <3> QED
      BY <1>0, <2>1, <3>1, <3>2
  <2>6. /\ \A i \in DOMAIN inward' : Awaited(inward[i])' <=> Awaited(inward'[i])
        /\ Awaited(request)' <=> Awaited(request')
    BY DEF Awaited
  <2> QED
    BY <2>2, <2>4, <2>5, <2>6 DEF AskedInv
<1>5. CASE Handling
  <2>1. UNCHANGED <<emulator, asked, inward>> /\ outward = <<>>
    <3>1. request # NoRequest
      BY <1>5, HandlingKinds DEF GoesOn, GivesUp, Replied
    <3> QED
      BY <1>5, <3>1, HandlingKinds DEF callUnchanged, emuVars, AskedInv
  <2>2. CASE GoesOn
    BY <2>1, <2>2 DEF GoesOn, AskedInv, Awaited
  <2>3. CASE GivesUp
    BY <1>0, <2>1, <2>3 DEF GivesUp, Back, AskedInv, Awaited
  <2>4. CASE Replied
    <3>1. PICK v : outward' = Append(<<>>, [cmd |-> request.cmd, value |-> v])
      BY <2>1, <2>4 DEF Replied
    <3> DEFINE reply == [cmd |-> request.cmd, value |-> v]
    <3> HIDE DEF reply
    <3>4. Append(<<>>, reply) \in Seq({reply}) /\ Len(Append(<<>>, reply)) = 1
          /\ Append(<<>>, reply)[1] = reply
      BY Appended, EmptySeq
    <3>5. Len(outward') = 1 /\ outward'[1].cmd = request.cmd
      BY <3>1, <3>4 DEF reply
    <3>2. /\ request = asked /\ inward = <<>> /\ request # NoRequest /\ emulator # "dead"
          /\ request' = NoRequest
      BY <2>4 DEF Replied, Back, AskedInv
    <3>3. emulator = "waits"
      BY <3>2 DEF AskedInv, TypeOK
    <3> QED
      BY <1>0, <2>1, <3>2, <3>3, <3>5 DEF AskedInv, Awaited
  <2> QED
    BY <1>5, <2>2, <2>3, <2>4, HandlingKinds
<1>6. CASE UNCHANGED <<emulator, asked, inward, outward, request>>
  BY <1>6 DEF AskedInv, Awaited
<1> QED
  BY <1>1, <1>2, <1>3, <1>4, <1>5, <1>6
     DEF Next, Launch, Exit, ServerStep, Handling, Connect, End, ScriptWrites, Halt, Observe,
         otherUnchanged, emuVars

LEMMA HandoverStep ==
  ASSUME TypeOK, ServerInv, AskedInv, HandoverInv, Next
  PROVE  HandoverInv'
<1>0. /\ inward \in Seq(Requests)
      /\ request \in Requests \cup {NoRequest}
      /\ Len(inward) \in Nat /\ DOMAIN inward = 1 .. Len(inward)
      /\ \A i \in DOMAIN inward : inward[i] \in Requests
      /\ NoRequest.cmd = "none" /\ ~Awaited(NoRequest)
      /\ Len(done) \in Nat
      /\ \A r : r.cmd = "set_cpu_state" => Awaited(r)
  BY LenProperties, ElementOfSeq, RequestKinds DEF TypeOK, Awaited, Unanswered
<1>1. ASSUME NEW r \in Requests, Request(r)
      PROVE  HandoverInv'
  <2>1. /\ asked = NoRequest /\ outward = <<>> /\ request.cmd # "set_cpu_state"
        /\ \A i \in DOMAIN inward : inward[i].cmd # "set_cpu_state"
        /\ \A q \in Regs : Same(q)
    <3>1. asked = NoRequest /\ outward = <<>>
      BY <1>1 DEF Request, AskedInv
    <3>2. request.cmd # "set_cpu_state"
      BY <1>0, <3>1 DEF AskedInv
    <3>3. \A i \in DOMAIN inward : inward[i].cmd # "set_cpu_state"
      BY <1>0, <3>1 DEF AskedInv
    <3>4. \A q \in Regs : Same(q)
      BY <1>0, <3>1 DEF HandoverInv
    <3> QED
      BY <3>1, <3>2, <3>3, <3>4
  <2>2. /\ inward' = Append(inward, r) /\ UNCHANGED <<outward, request, done, registers>>
        /\ wanted' = IF r.cmd = "set_cpu_state" THEN r.state ELSE wanted
        /\ asked' \in {asked, r} /\ (r.cmd = "set_cpu_state" => asked' = r)
    BY <1>1 DEF Request, targetVars, Unanswered
  <2>3. /\ DOMAIN inward' = 1 .. Len(inward) + 1
        /\ \A i \in 1 .. Len(inward) : inward'[i] = inward[i]
        /\ inward'[Len(inward) + 1] = r
    BY <1>0, <2>2, Appended
  <2>4. ASSUME NEW i \in DOMAIN inward', inward'[i].cmd = "set_cpu_state"
        PROVE  \A q \in Regs : wanted'[q] \in {inward'[i].state[q], "none"}
    <3>1. i \notin 1 .. Len(inward)
      BY <1>0, <2>1, <2>3, <2>4
    <3>2. i = Len(inward) + 1
      BY <1>0, <2>3, <3>1
    <3> QED
      BY <2>2, <2>3, <2>4, <3>2
  <2>5. asked'.cmd # "set_cpu_state" => \A q \in Regs : Same(q)'
    BY <2>1, <2>2 DEF Same
  <2> QED
    BY <2>1, <2>2, <2>4, <2>5 DEF HandoverInv, Agrees
<1>2. CASE TakeReply
  <2>1. /\ outward # <<>> /\ UNCHANGED <<inward, request, done, registers, wanted>>
        /\ inward = <<>> /\ request = NoRequest
    BY <1>2 DEF TakeReply, AskedInv, targetVars
  <2> QED
    BY <1>0, <2>1 DEF HandoverInv, Same
<1>3. CASE Die
  BY <1>3 DEF Die, HandoverInv, Same, Agrees, targetVars
<1>4. CASE Receive
  <2>1. /\ Head(inward) = inward[1] /\ inward' = Tail(inward)
        /\ DOMAIN inward' = 1 .. Len(inward) - 1
        /\ \A i \in 1 .. Len(inward) - 1 : inward'[i] = inward[i + 1]
        /\ Len(inward) # 0
        /\ UNCHANGED <<asked, outward, done, registers, wanted>>
        /\ request' \in {NoRequest, Head(inward)}
    BY <1>0, <1>4, Taken DEF Receive, emuVars, targetVars
  <2>2. \A i \in DOMAIN inward' : i + 1 \in DOMAIN inward /\ inward'[i] = inward[i + 1]
    BY <1>0, <2>1
  <2>3. 1 \in DOMAIN inward /\ done = <<>>
    <3>1. request = NoRequest
      BY <1>0, <1>4 DEF Receive, ServerInv
    <3> QED
      BY <1>0, <2>1, <3>1 DEF TypeOK
  <2>4. \A i \in 1 .. Len(done) : FALSE
    BY <2>3
  <2> QED
    BY <1>0, <2>1, <2>2, <2>3, <2>4 DEF HandoverInv, Same, Agrees
(* The registers and what is wanted of them stay.                           *)
<1>5. ASSUME UNCHANGED <<asked, inward, registers, wanted>>,
             \/ UNCHANGED <<request, outward, done>>
             \/ request' = NoRequest /\ UNCHANGED outward
             \/ request' = NoRequest /\ asked.cmd # "set_cpu_state"
             \/ request.cmd # "set_cpu_state" /\ UNCHANGED <<request, outward>>
      PROVE  HandoverInv'
  BY <1>0, <1>5 DEF HandoverInv, Same, Agrees
<1>6. CASE SetRegister
  <2> DEFINE n == Len(done) + 1
  <2>1. /\ request.cmd = "set_cpu_state" /\ request \in Requests /\ request = asked
        /\ inward = <<>> /\ outward = <<>> /\ Agrees(request.state)
        /\ \A i \in 1 .. Len(done) : Same(RegOrder[i])
        /\ UNCHANGED <<asked, inward, wanted>>
    <3>1. request.cmd = "set_cpu_state" /\ request # NoRequest /\ Awaited(request)
      BY <1>0, <1>6 DEF SetRegister, Calling
    <3> QED
      BY <1>0, <1>6, <3>1 DEF SetRegister, AskedInv, HandoverInv, callUnchanged, emuVars
  <2>2. CASE Failed /\ UNCHANGED registers
    BY <1>5, <2>1, <2>2 DEF Failed, Back
  <2>3. CASE /\ registers' = [registers EXCEPT ![Register] = request.state[Register]]
             /\ Transferred(request.state[Register])
    <3>1. /\ registers \in [Registers -> Vals] /\ request.state[Register] \in Vals
          /\ Register \in Regs /\ Regs \subseteq Registers
      BY <2>1, DoneNext, RequestKinds, MemoryAssumption DEF TypeOK, Registers
    <3>2. \A q \in Regs : Same(q) \/ q = Register => Same(q)'
      BY <2>1, <2>3, <3>1 DEF Same, Agrees
    <3>3. ASSUME NEW i \in 1 .. n
          PROVE  Same(RegOrder[i])'
      <4>1. i \in 1 .. Len(done) \/ RegOrder[i] = Register
        BY <1>0 DEF Register
      <4>2. i \in 1 .. Len(RegOrder)
        <5>1. Len(done) < Len(RegOrder) /\ Len(RegOrder) \in Nat
          BY RegistersOrdered DEF TypeOK
        <5> QED
          BY <1>0, <5>1
      <4> QED
        BY <2>1, <3>2, <4>1, <4>2, RegistersOrdered
    <3>4. CASE n = Len(RegOrder)
      <4>1. \A q \in Regs : Same(q)'
        BY <3>3, <3>4, RegistersOrdered
      <4>2. request' = NoRequest
        BY <2>3, <3>4 DEF Transferred, Reply, Back
      <4> QED
        BY <1>0, <2>1, <4>1, <4>2 DEF HandoverInv
    <3>5. CASE n # Len(RegOrder)
      <4>1. /\ UNCHANGED <<request, outward>> /\ done' = Append(done, request.state[Register])
        BY <2>3, <3>5 DEF Transferred
      <4>2. Len(done') = n
        BY <3>1, <4>1, DoneNext
      <4>3. Agrees(request.state)'
        BY <2>1, <4>1 DEF Agrees
      <4> QED
        BY <2>1, <3>3, <4>1, <4>2, <4>3 DEF HandoverInv
    <3> QED
      BY <3>4, <3>5
  <2> QED
    BY <1>6, <2>2, <2>3 DEF SetRegister, SetRefused
<1>7. CASE Handling /\ ~SetRegister
  <2>1. request.cmd # "set_cpu_state" /\ UNCHANGED registers
    BY <1>7 DEF Handling, Before, After, Read, Write, GetRegister, Continue, Checksum, Calling,
       ServerInv, targetVars
  <2>2. UNCHANGED <<asked, inward, wanted>> /\ (GoesOn \/ GivesUp \/ Replied)
    BY <1>7, HandlingKinds DEF callUnchanged, emuVars
  <2>3. CASE GoesOn
    BY <1>5, <2>1, <2>2, <2>3 DEF GoesOn
  <2>4. CASE GivesUp
    BY <1>5, <2>1, <2>2, <2>4 DEF GivesUp, Back
  <2>5. CASE Replied
    <3>1. request = asked
      BY <2>5 DEF Replied, AskedInv
    <3> QED
      BY <1>5, <2>1, <2>2, <2>5, <3>1 DEF Replied, Back
  <2> QED
    BY <2>2, <2>3, <2>4, <2>5
(* Somebody else changes registers, which are then no longer wanted.        *)
<1>8. CASE ScriptWrites \/ Halt
  <2>1. UNCHANGED <<asked, inward, outward, request, done>>
    BY <1>8 DEF ScriptWrites, Halt, otherUnchanged, emuVars
  <2>2. \A q \in Regs : /\ wanted'[q] \in {wanted[q], "none"}
                        /\ registers'[q] = registers[q] \/ wanted'[q] = "none"
    BY <1>8 DEF ScriptWrites, Halt, TypeOK, Registers
  <2>3. \A q \in Regs : Same(q) => Same(q)'
    BY <2>2 DEF Same
  <2>4. \A i \in 1 .. Len(done) : RegOrder[i] \in Regs
    <3>1. Len(done) < Len(RegOrder) /\ Len(RegOrder) \in Nat
      BY RegistersOrdered DEF TypeOK
    <3>2. \A i \in 1 .. Len(done) : i \in 1 .. Len(RegOrder)
      BY <1>0, <3>1
    <3> QED
      BY <3>2, RegistersOrdered
  <2>5. \A i \in 1 .. Len(done) : Same(RegOrder[i]) => Same(RegOrder[i])'
    BY <2>3, <2>4
  <2>6. \A i \in DOMAIN inward : Agrees(inward[i].state) => Agrees(inward[i].state)'
    BY <2>1, <2>2 DEF Agrees
  <2>7. Agrees(request.state) => Agrees(request.state)'
    BY <2>1, <2>2 DEF Agrees
  <2> QED
    BY <2>1, <2>3, <2>5, <2>6, <2>7 DEF HandoverInv
<1>9. CASE Connect \/ End \/ Launch \/ Exit \/ Observe
  BY <1>5, <1>9 DEF Connect, End, Launch, Exit, Observe, emuVars, targetVars
<1> QED
  BY <1>1, <1>2, <1>3, <1>4, <1>6, <1>7, <1>8, <1>9 DEF Next, ServerStep, Handling
-----------------------------------------------------------------------------
LEMMA TrackedStep ==
  ASSUME TypeOK, TrackedInv, Next
  PROVE  TrackedInv'
<1>0. /\ inward \in Seq(Requests) /\ events \in Seq(Requests)
      /\ Len(inward) \in Nat /\ DOMAIN inward = 1 .. Len(inward)
      /\ Len(events) \in Nat /\ DOMAIN events = 1 .. Len(events)
      /\ written \in [Addrs -> Vals \cup {"none"}]
      /\ tracked \in [Addrs -> Vals \cup {"none"}]
  BY LenProperties DEF TypeOK
<1>1. ASSUME NEW r \in Requests, Request(r)
      PROVE  TrackedInv'
  <2> SUFFICES ASSUME NEW a \in Addrs
               PROVE  /\ \A i \in DOMAIN inward' :
                           LastWrite(inward', a, i) => written'[a] = inward'[i].value
                      /\ NoWrite(inward', a) =>
                           /\ \A i \in DOMAIN events :
                                LastWrite(events, a, i) => written'[a] = events[i].value
                           /\ NoWrite(events, a) /\ a \notin unseen => tracked[a] = written'[a]
    <3>1. UNCHANGED <<events, tracked, unseen>>
      BY <1>1 DEF Request, pluginVars
    <3> QED
      BY <3>1 DEF TrackedInv, LastWrite, NoWrite, WriteTo
  <2>1. /\ DOMAIN inward' = 1 .. Len(inward) + 1
        /\ \A i \in 1 .. Len(inward) : inward'[i] = inward[i]
        /\ inward'[Len(inward) + 1] = r
    BY <1>0, <1>1, Appended DEF Request
  <2>2. written'[a] = IF WriteTo(r, a) THEN r.value ELSE written[a]
    BY <1>0, <1>1, RequestKinds DEF Request, WriteTo
  <2>3. CASE WriteTo(r, a)
    <3>1. ~NoWrite(inward', a)
      BY <1>0, <2>1, <2>3 DEF NoWrite
    <3>2. \A i \in DOMAIN inward' : LastWrite(inward', a, i) => i = Len(inward) + 1
      BY <1>0, <2>1, <2>3 DEF LastWrite
    <3> QED
      BY <2>1, <2>2, <2>3, <3>1, <3>2
  <2>4. CASE ~WriteTo(r, a)
    <3>1. NoWrite(inward', a) => NoWrite(inward, a)
      BY <1>0, <2>1 DEF NoWrite
    <3>2. ASSUME NEW i \in DOMAIN inward', LastWrite(inward', a, i)
          PROVE  written'[a] = inward'[i].value
      <4>1. i \in 1 .. Len(inward) /\ inward'[i] = inward[i]
        <5>1. i # Len(inward) + 1
          BY <2>1, <2>4, <3>2 DEF LastWrite
        <5>2. i \in 1 .. Len(inward)
          BY <1>0, <2>1, <5>1
        <5> QED
          BY <2>1, <5>2
      <4>2. LastWrite(inward, a, i)
        BY <1>0, <2>1, <3>2, <4>1 DEF LastWrite
      <4> QED
        BY <1>0, <2>2, <2>4, <4>1, <4>2 DEF TrackedInv
    <3> QED
      BY <2>2, <2>4, <3>1, <3>2 DEF TrackedInv
  <2> QED
    BY <2>3, <2>4
<1>2. CASE Receive
  <2> DEFINE r == Head(inward)
  <2>1. /\ r \in Requests /\ r = inward[1] /\ Len(inward) # 0
        /\ DOMAIN inward' = 1 .. Len(inward) - 1
        /\ \A i \in 1 .. Len(inward) - 1 : inward'[i] = inward[i + 1]
    BY <1>0, <1>2, Taken DEF Receive
  <2>2. UNCHANGED <<written, tracked, unseen>> /\ events' = Posted(r)
    BY <1>2 DEF Receive, emuVars
  <2> HIDE DEF r
  <2> SUFFICES ASSUME NEW a \in Addrs
               PROVE  /\ \A i \in DOMAIN inward' :
                           LastWrite(inward', a, i) => written[a] = inward'[i].value
                      /\ NoWrite(inward', a) =>
                           /\ \A i \in DOMAIN events' :
                                LastWrite(events', a, i) => written[a] = events'[i].value
                           /\ NoWrite(events', a) /\ a \notin unseen => tracked[a] = written[a]
    BY <2>2 DEF TrackedInv, LastWrite, NoWrite, WriteTo
  <2>3. ASSUME NEW i \in DOMAIN inward', LastWrite(inward', a, i)
        PROVE  written[a] = inward'[i].value
    <3>1. i + 1 \in DOMAIN inward /\ inward'[i] = inward[i + 1]
      BY <1>0, <2>1
    <3>2. ASSUME NEW j \in DOMAIN inward, j > i + 1
          PROVE  ~WriteTo(inward[j], a)
      <4>1. j - 1 \in DOMAIN inward' /\ j - 1 > i /\ inward'[j - 1] = inward[j]
        BY <1>0, <2>1, <3>2
      <4> QED
        BY <2>3, <4>1 DEF LastWrite
    <3>3. LastWrite(inward, a, i + 1)
      BY <2>3, <3>1, <3>2 DEF LastWrite
    <3> QED
      BY <3>1, <3>3 DEF TrackedInv
  <2>4. NoWrite(inward', a) => \A j \in DOMAIN inward : j # 1 => ~WriteTo(inward[j], a)
    <3> SUFFICES ASSUME NoWrite(inward', a), NEW j \in DOMAIN inward, j # 1
                 PROVE  ~WriteTo(inward[j], a)
      OBVIOUS
    <3>1. j - 1 \in DOMAIN inward' /\ inward'[j - 1] = inward[j]
      BY <1>0, <2>1
    <3> QED
      BY <3>1 DEF NoWrite
  <2>5. CASE ~WriteTo(r, a)
    <3>1. NoWrite(inward', a) => NoWrite(inward, a)
      BY <2>1, <2>4, <2>5 DEF NoWrite
    <3>2. CASE events' = events
      BY <2>3, <3>1, <3>2 DEF TrackedInv
    <3>3. CASE events' = Append(events, r)
      <4>1. /\ DOMAIN events' = 1 .. Len(events) + 1
            /\ \A i \in 1 .. Len(events) : events'[i] = events[i]
            /\ events'[Len(events) + 1] = r
        BY <1>0, <2>1, <3>3, Appended
      <4>2. NoWrite(events', a) => NoWrite(events, a)
        BY <1>0, <4>1 DEF NoWrite
      <4>3. ASSUME NEW i \in DOMAIN events', LastWrite(events', a, i)
            PROVE  i \in DOMAIN events /\ events'[i] = events[i] /\ LastWrite(events, a, i)
        <5>1. i # Len(events) + 1
          BY <2>5, <4>1, <4>3 DEF LastWrite
        <5>2. i \in 1 .. Len(events)
          BY <1>0, <4>1, <5>1
        <5> QED
          BY <1>0, <4>1, <4>3, <5>2 DEF LastWrite
      <4> QED
        BY <2>3, <3>1, <4>2, <4>3 DEF TrackedInv
    <3> QED
      BY <2>2, <3>2, <3>3 DEF Posted
  <2>6. CASE WriteTo(r, a)
    <3>1. /\ DOMAIN events' = 1 .. Len(events) + 1
          /\ events'[Len(events) + 1] = r
      <4>1. events' = Append(events, r)
        BY <2>2, <2>6 DEF Posted, WriteTo
      <4> QED
        BY <1>0, <2>1, <4>1, Appended
    <3>2. ~NoWrite(events', a)
      BY <1>0, <2>6, <3>1 DEF NoWrite
    <3>3. \A i \in DOMAIN events' : LastWrite(events', a, i) => i = Len(events) + 1
      BY <1>0, <2>6, <3>1 DEF LastWrite
    <3>4. NoWrite(inward', a) => written[a] = r.value
      <4>1. ASSUME NoWrite(inward', a)
            PROVE  LastWrite(inward, a, 1)
        BY <1>0, <2>1, <2>4, <2>6, <4>1 DEF LastWrite
      <4> QED
        BY <1>0, <2>1, <4>1 DEF TrackedInv
    <3> QED
      BY <2>3, <3>1, <3>2, <3>3, <3>4
  <2> QED
    BY <2>5, <2>6
<1>3. CASE Observe
  <2> DEFINE r == Head(events)
  <2>1. /\ r \in Requests /\ r = events[1] /\ Len(events) # 0
        /\ DOMAIN events' = 1 .. Len(events) - 1
        /\ \A i \in 1 .. Len(events) - 1 : events'[i] = events[i + 1]
    BY <1>0, <1>3, Taken DEF Observe
  <2>2. UNCHANGED <<written, inward>>
    BY <1>3 DEF Observe, emuVars
  <2>3. \A a \in Addrs : a \notin unseen' =>
          IF WriteTo(r, a) THEN tracked'[a] = r.value
          ELSE tracked'[a] = tracked[a] /\ a \notin unseen
    BY <1>0, <1>3, <2>1, RequestKinds DEF Observe, WriteTo
  <2> HIDE DEF r
  <2> SUFFICES ASSUME NEW a \in Addrs, NoWrite(inward, a)
               PROVE  /\ \A i \in DOMAIN events' :
                           LastWrite(events', a, i) => written[a] = events'[i].value
                      /\ NoWrite(events', a) /\ a \notin unseen' => tracked'[a] = written[a]
    BY <2>2 DEF TrackedInv, LastWrite, NoWrite, WriteTo
  <2>4. ASSUME NEW i \in DOMAIN events', LastWrite(events', a, i)
        PROVE  written[a] = events'[i].value
    <3>1. i + 1 \in DOMAIN events /\ events'[i] = events[i + 1]
      BY <1>0, <2>1
    <3>2. ASSUME NEW j \in DOMAIN events, j > i + 1
          PROVE  ~WriteTo(events[j], a)
      <4>1. j - 1 \in DOMAIN events' /\ j - 1 > i /\ events'[j - 1] = events[j]
        BY <1>0, <2>1, <3>2
      <4> QED
        BY <2>4, <4>1 DEF LastWrite
    <3>3. LastWrite(events, a, i + 1)
      BY <2>4, <3>1, <3>2 DEF LastWrite
    <3> QED
      BY <3>1, <3>3 DEF TrackedInv
  <2>5. ASSUME NoWrite(events', a), a \notin unseen'
        PROVE  tracked'[a] = written[a]
    <3>1. \A j \in DOMAIN events : j # 1 => ~WriteTo(events[j], a)
      <4> SUFFICES ASSUME NEW j \in DOMAIN events, j # 1
                   PROVE  ~WriteTo(events[j], a)
        OBVIOUS
      <4>1. j - 1 \in DOMAIN events' /\ events'[j - 1] = events[j]
        BY <1>0, <2>1
      <4> QED
        BY <2>5, <4>1 DEF NoWrite
    <3>2. 1 \in DOMAIN events
      BY <1>0, <2>1
    <3>3. CASE WriteTo(r, a)
      <4>1. LastWrite(events, a, 1)
        BY <1>0, <2>1, <3>1, <3>2, <3>3 DEF LastWrite
      <4>2. written[a] = events[1].value
        BY <3>2, <4>1 DEF TrackedInv
      <4>3. tracked'[a] = r.value
        BY <2>3, <2>5, <3>3
      <4> QED
        BY <2>1, <4>2, <4>3
    <3>4. CASE ~WriteTo(r, a)
      <4>1. NoWrite(events, a)
        BY <2>1, <3>1, <3>4 DEF NoWrite
      <4>2. tracked'[a] = tracked[a] /\ a \notin unseen
        BY <2>3, <2>5, <3>4
      <4> QED
        BY <4>1, <4>2 DEF TrackedInv
    <3> QED
      BY <3>3, <3>4
  <2> QED
    BY <2>4, <2>5
<1>4. CASE UNCHANGED <<inward, events, written, tracked, unseen>>
  BY <1>4 DEF TrackedInv, LastWrite, NoWrite, WriteTo
<1> QED
  BY <1>1, <1>2, <1>3, <1>4
     DEF Next, TakeReply, Die, Launch, Exit, ServerStep, Connect, End, Before, After, Read, Write,
         SetRegister, GetRegister, Continue, Checksum, ScriptWrites, Halt, otherUnchanged,
         callUnchanged, emuVars, pluginVars
-----------------------------------------------------------------------------
LEMMA Stutters == IInv /\ UNCHANGED vars => IInv'
<1> SUFFICES ASSUME IInv, UNCHANGED vars PROVE IInv'
  OBVIOUS
<1>1. UNCHANGED <<emulator, asked, launcher, unseen, inward, outward, server, tries, request, done, value, stopped,
                  memory, registers, running, events, tracked, made, others, written, wanted,
                  failed>>
  BY DEF vars, emuVars, targetVars, pluginVars
<1>2. TypeOK' /\ ServerInv' /\ AskedInv'
  BY <1>1 DEF IInv, TypeOK, ServerInv, AskedInv, Awaited
<1>3. HandoverInv'
  BY <1>1 DEF IInv, HandoverInv, Same, Agrees
<1>4. TrackedInv'
  BY <1>1 DEF IInv, TrackedInv, LastWrite, NoWrite, WriteTo
<1> QED
  BY <1>2, <1>3, <1>4 DEF IInv

(* The whole invariant holds of every behaviour.                            *)
THEOREM Inductive == Spec => []IInv
<1>1. IInv /\ Next => IInv'
  BY TypeStep, ServerSteps, AskedStep, HandoverStep, TrackedStep DEF IInv
<1> QED
  BY InitInv, Stutters, <1>1, PTL DEF Spec

(* The emulator, the sockets, the server thread, the target and the tracker *)
(* keep their types; a CPU state is never transferred past its last         *)
(* register.                                                                *)
THEOREM TypeCorrect == Spec => []TypeOK
<1>1. IInv => TypeOK
  BY DEF IInv
<1> QED
  BY Inductive, <1>1, PTL

(* However requests fail, the server thread never sends a reply to a        *)
(* request the emulator does not wait on, nor two to one.                   *)
THEOREM RepliesInStep == Spec => []ReplyInStep
<1>1. IInv => ReplyInStep
  BY DEF IInv, AskedInv, ReplyInStep
<1> QED
  BY Inductive, <1>1, PTL

(* When _handle_continue comes to the target, every register but cpsr,      *)
(* which is never handed over, has the value set_cpu_state last asked for,  *)
(* unless the script or the target itself has changed it since.             *)
THEOREM NoHalfState == Spec => []RegistersHandedOver
<1>1. IInv => RegistersHandedOver
  <2> SUFFICES ASSUME IInv, server = "call", request.cmd = "continue"
               PROVE  \A r \in Regs : Same(r)
    BY DEF RegistersHandedOver, Calling, Same
  <2>1. Awaited(request) /\ request.cmd # "set_cpu_state"
    BY DEF Awaited, Unanswered
  <2> QED
    BY <2>1 DEF IInv, AskedInv, HandoverInv
<1> QED
  BY Inductive, <1>1, PTL

(* Once all posted events are handled and no write is on its way, the data  *)
(* that MemoryRangeIdentifier keeps for an address is what the emulator     *)
(* wrote there last, unless it was not given that write: a listener skipped *)
(* by the loop of _process_events, or a failed assertion of its own.        *)
THEOREM TrackerCatchesUp == Spec => []Tracked
<1>1. IInv => Tracked
  <2> SUFFICES ASSUME IInv, events = <<>>, \A i \in DOMAIN inward : inward[i].cmd # "write",
                      NEW a \in Addrs, a \notin unseen
               PROVE  tracked[a] = written[a]
    BY DEF Tracked
  <2>1. NoWrite(inward, a) /\ NoWrite(events, a)
    BY DEF NoWrite, WriteTo
  <2> QED
    BY <2>1 DEF IInv, TrackedInv
<1> QED
  BY Inductive, <1>1, PTL
-----------------------------------------------------------------------------
(* The refinement.  Requests in work and in the socket are what is left to  *)
(* do; the target's call is the moment at which the first is performed.     *)
LEMMA Fronted ==
  ASSUME NEW S, NEW x \in S, NEW s \in Seq(S)
  PROVE  /\ <<x>> \o s \in Seq(S) /\ <<x>> \o s # <<>>
         /\ Head(<<x>> \o s) = x /\ Tail(<<x>> \o s) = s
         /\ \A e \in S : <<x>> \o Append(s, e) = Append(<<x>> \o s, e)
         /\ s # <<>> => <<Head(s)>> \o Tail(s) = s
<1>1. <<x>> \in Seq(S) /\ Len(<<x>>) = 1 /\ <<x>>[1] = x /\ <<>> \in Seq(S)
  OBVIOUS
<1>2. /\ <<x>> \o s \in Seq(S) /\ Len(<<x>> \o s) = 1 + Len(s) /\ Len(s) \in Nat
      /\ \A i \in 1 .. 1 + Len(s) : (<<x>> \o s)[i] = IF i <= 1 THEN <<x>>[i] ELSE s[i - 1]
  BY <1>1, ConcatProperties, LenProperties
<1>3. <<x>> \o s # <<>>
  BY <1>2, EmptySeq
<1>4. /\ Head(<<x>> \o s) = (<<x>> \o s)[1] /\ Tail(<<x>> \o s) \in Seq(S)
      /\ Len(Tail(<<x>> \o s)) = Len(s)
      /\ \A i \in 1 .. Len(s) : Tail(<<x>> \o s)[i] = (<<x>> \o s)[i + 1]
  <2> DEFINE u == <<x>> \o s
  <2> HIDE DEF u
  <2>1. u \in Seq(S) /\ u # <<>> /\ Len(u) = 1 + Len(s)
    BY <1>2, <1>3 DEF u
  <2>2. /\ Head(u) = u[1] /\ Tail(u) \in Seq(S) /\ Len(Tail(u)) = Len(u) - 1
        /\ \A i \in 1 .. Len(u) - 1 : Tail(u)[i] = u[i + 1]
    BY <2>1, Taken
  <2>3. Len(u) - 1 = Len(s)
    BY <1>2, <2>1
  <2> QED
    BY <2>2, <2>3 DEF u
<1>5. Head(<<x>> \o s) = x
  BY <1>1, <1>2, <1>4
<1>6. Tail(<<x>> \o s) = s
  <2>1. \A i \in 1 .. Len(s) : Tail(<<x>> \o s)[i] = s[i]
    <3> SUFFICES ASSUME NEW i \in 1 .. Len(s)
                 PROVE  Tail(<<x>> \o s)[i] = s[i]
      OBVIOUS
    <3>1. i + 1 \in 1 .. 1 + Len(s) /\ ~(i + 1 <= 1) /\ (i + 1) - 1 = i
      BY <1>2
    <3> QED
      BY <1>2, <1>4, <3>1
  <2> QED
    BY <1>4, <2>1, SeqEqual
<1>7. ASSUME NEW e \in S
      PROVE  <<x>> \o Append(s, e) = Append(<<x>> \o s, e)
  <2>1. <<e>> \in Seq(S)
    OBVIOUS
  <2>2. Append(s, e) = s \o <<e>> /\ Append(<<x>> \o s, e) = (<<x>> \o s) \o <<e>>
    BY <1>2, AppendIsConcat
  <2>3. (<<x>> \o s) \o <<e>> = <<x>> \o (s \o <<e>>)
    BY <1>1, <2>1, ConcatAssociative
  <2> QED
    BY <2>2, <2>3
<1>8. ASSUME s # <<>>
      PROVE  <<Head(s)>> \o Tail(s) = s
  <2>1. /\ Head(s) = s[1] /\ Head(s) \in S /\ Tail(s) \in Seq(S)
        /\ Len(s) \in Nat \ {0} /\ Len(Tail(s)) = Len(s) - 1
        /\ \A i \in 1 .. Len(s) - 1 : Tail(s)[i] = s[i + 1]
    BY <1>8, Taken
  <2> DEFINE h == Head(s)
             u == Tail(s)
  <2> HIDE DEF h, u
  <2>2. h \in S /\ u \in Seq(S) /\ <<h>> \in Seq(S) /\ Len(<<h>>) = 1 /\ <<h>>[1] = h
    BY <2>1 DEF h, u
  <2>3. /\ <<h>> \o u \in Seq(S) /\ Len(<<h>> \o u) = 1 + Len(u)
        /\ \A i \in 1 .. 1 + Len(u) : (<<h>> \o u)[i] = IF i <= 1 THEN <<h>>[i] ELSE u[i - 1]
    BY <2>2, ConcatProperties
  <2>4. Len(<<h>> \o u) = Len(s)
    BY <2>1, <2>3 DEF u
  <2>5. ASSUME NEW i \in 1 .. Len(s)
        PROVE  (<<h>> \o u)[i] = s[i]
    <3>1. CASE i = 1
      BY <2>1, <2>2, <2>3, <3>1 DEF h, u
    <3>2. CASE i # 1
      <4>1. i - 1 \in 1 .. Len(s) - 1 /\ (i - 1) + 1 = i /\ ~(i <= 1) /\ i \in 1 .. 1 + Len(u)
        BY <2>1, <3>2 DEF u
      <4> QED
        BY <2>1, <2>3, <4>1 DEF u
    <3> QED
      BY <3>1, <3>2
  <2>6. <<h>> \o u = s
    BY <2>3, <2>4, <2>5, SeqEqual
  <2> QED
    BY <2>6 DEF h, u
<1> QED
  BY <1>2, <1>3, <1>5, <1>6, <1>7, <1>8

(* What is left to do, by where the server thread is.                       *)
LEMMA TodoIs ==
  ASSUME TypeOK, ServerInv, AskedInv
  PROVE  /\ server \notin {"before", "call"} => Todo = inward
         /\ server \in {"before", "call"} =>
              /\ Todo # <<>> /\ Head(Todo) = request /\ Tail(Todo) = inward
              /\ \A r \in Requests :
                   <<request>> \o Append(inward, r) = Append(Todo, r)
         /\ server # "after" =>
              ReadAnswer = IF outward # <<>> /\ outward[1].cmd = "read" THEN outward ELSE <<>>
         /\ request # NoRequest => outward = <<>>
         /\ server = "after" /\ request.cmd = "read" =>
              ReadAnswer = <<[cmd |-> "read", value |-> value]>>
         /\ server = "after" /\ request.cmd # "read" => ReadAnswer = <<>>
<1>1. inward \in Seq(Requests) /\ (server \in {"before", "call"} => request \in Requests)
  BY DEF TypeOK, ServerInv
<1>2. server \notin {"before", "call"} => Todo = inward
  BY <1>1, ConcatEmptySeq DEF Todo
<1>3. server \in {"before", "call"} =>
        /\ Todo = <<request>> \o inward
        /\ Todo # <<>> /\ Head(Todo) = request /\ Tail(Todo) = inward
        /\ \A r \in Requests : <<request>> \o Append(inward, r) = Append(Todo, r)
  BY <1>1, Fronted DEF Todo
<1>4. request # NoRequest => outward = <<>>
  BY DEF AskedInv
<1>5. server = "after" => outward = <<>>
  BY <1>4 DEF ServerInv
<1> QED
  BY <1>2, <1>3, <1>4, <1>5 DEF ReadAnswer

LEMMA ForwardStep ==
  ASSUME TypeOK, ServerInv, AskedInv, Next
  PROVE  Forwarded!Next \/ UNCHANGED Forwarded!vars
<1>0. /\ inward \in Seq(Requests) /\ outward \in Seq(Replies)
      /\ request \in Requests \cup {NoRequest}
      /\ NoRequest.cmd = "none" /\ \A r \in Requests : r # NoRequest
  BY RequestKinds DEF TypeOK
<1>1. ASSUME NEW r \in Requests, Request(r)
      PROVE  Forwarded!Issue
  <2>1. inward' = Append(inward, r) /\ UNCHANGED <<server, request, value, outward, memory>>
    BY <1>1 DEF Request, targetVars
  <2>2. Todo' = Append(Todo, r)
    <3>1. CASE server \in {"before", "call"}
      <4>1. Todo' = <<request>> \o Append(inward, r)
        BY <2>1, <3>1 DEF Todo
      <4> QED
        BY <3>1, <4>1, TodoIs
    <3>2. CASE server \notin {"before", "call"}
      <4>1. Todo' = <<>> \o Append(inward, r) /\ Append(inward, r) \in Seq(Requests)
        BY <1>0, <2>1, <3>2, Appended DEF Todo
      <4> QED
        BY <3>2, <4>1, TodoIs, ConcatEmptySeq
    <3> QED
      BY <3>1, <3>2
  <2>3. UNCHANGED <<memory, ReadAnswer>>
    BY <2>1 DEF ReadAnswer
  <2> QED
    BY <2>2, <2>3 DEF Forwarded!Issue
(* The answer to a read goes away, or that to something else.               *)
<1>2. CASE TakeReply \/ Die
  <2>1. /\ UNCHANGED <<inward, server, request, value, memory>>
        /\ outward' = <<>>
    <3>1. CASE TakeReply
      <4>1. Len(outward) = 1 /\ outward # <<>> /\ outward' = Tail(outward)
        BY <3>1 DEF TakeReply, AskedInv
      <4>2. outward' = <<>>
        BY <1>0, <4>1, HeadTailProperties, EmptySeq
      <4> QED
        BY <3>1, <4>2 DEF TakeReply, targetVars
    <3>2. CASE Die
      BY <3>2 DEF Die, targetVars
    <3> QED
      BY <1>2, <3>1, <3>2
  <2>2. UNCHANGED <<Todo, memory>>
    BY <2>1 DEF Todo
  <2>3. ReadAnswer' \in {ReadAnswer, <<>>}
    BY <2>1 DEF ReadAnswer
  <2> QED
    BY <2>2, <2>3 DEF Forwarded!Next, Forwarded!Forget, Forwarded!vars
<1>3. CASE Receive
  <2>1. /\ server = "read" /\ request = NoRequest /\ inward # <<>> /\ inward' = Tail(inward)
        /\ UNCHANGED <<outward, value, memory>>
        /\ Head(inward) \in Requests
    BY <1>0, <1>3, Taken DEF Receive, ServerInv, targetVars
  <2>2. UNCHANGED ReadAnswer
    <3>1. server' # "after"
      BY <1>3 DEF Receive, Branch
    <3> QED
      BY <2>1, <3>1 DEF ReadAnswer
  <2>3. CASE server' = "read"
    <3>1. Todo' = <<>> \o Tail(inward) /\ Tail(inward) \in Seq(Requests)
      BY <1>0, <2>1, <2>3, Taken DEF Todo
    <3>2. Todo' = Tail(inward) /\ Todo = inward
      BY <2>1, <3>1, ConcatEmptySeq, TodoIs
    <3> QED
      BY <2>1, <2>2, <3>2 DEF Forwarded!Next, Forwarded!Other
  <2>4. CASE server' # "read"
    <3>1. server' \in {"before", "call"} /\ request' = Head(inward)
      BY <1>3, <2>4 DEF Receive, Branch
    <3>2. Todo' = <<Head(inward)>> \o Tail(inward) /\ Todo = inward
      BY <2>1, <3>1, TodoIs DEF Todo
    <3>3. Todo' = Todo
      BY <1>0, <2>1, <3>2, Fronted
    <3> QED
      BY <2>1, <2>2, <3>3 DEF Forwarded!vars
  <2> QED
    BY <2>3, <2>4
(* A request that is done with leaves what was in the socket.               *)
<1>4. ASSUME server' \in {"read", "after"}, UNCHANGED inward
      PROVE  Todo' = inward
  <2>1. Todo' = <<>> \o inward
    BY <1>4 DEF Todo
  <2> QED
    BY <1>0, <2>1, ConcatEmptySeq
<1>5. ASSUME server = "call", GivesUp \/ Replied, request.cmd # "read" \/ GivesUp,
             UNCHANGED <<inward, memory>>
      PROVE  Forwarded!Other
  <2>1. server' = "read" /\ request # NoRequest
    BY <1>5 DEF GivesUp, Replied, Back
  <2>2. Todo # <<>> /\ Todo' = Tail(Todo)
    BY <1>4, <1>5, <2>1, TodoIs
  <2>3. outward = <<>> /\ ReadAnswer = <<>>
    BY <1>5, <2>1, TodoIs
  <2>4. ReadAnswer' = <<>>
    <3>1. CASE GivesUp
      BY <2>1, <2>3, <3>1 DEF GivesUp, ReadAnswer
    <3>2. CASE Replied /\ request.cmd # "read"
      <4>1. PICK v : outward' = Append(<<>>, [cmd |-> request.cmd, value |-> v])
        BY <2>3, <3>2 DEF Replied
      <4> DEFINE reply == [cmd |-> request.cmd, value |-> v]
      <4> HIDE DEF reply
      <4>2. Append(<<>>, reply)[1] = reply
        BY Appended, EmptySeq
      <4>3. outward'[1].cmd # "read"
        BY <3>2, <4>1, <4>2 DEF reply
      <4> QED
        BY <2>1, <4>3 DEF ReadAnswer
    <3> QED
      BY <1>5, <3>1, <3>2
  <2> QED
    BY <1>5, <2>2, <2>3, <2>4 DEF Forwarded!Other
<1>6. CASE Before
  <2>1. /\ server = "before" /\ request # NoRequest /\ outward = <<>> /\ ReadAnswer = <<>>
        /\ UNCHANGED <<outward, inward, memory>>
        /\ Todo # <<>> /\ Tail(Todo) = inward
    BY <1>6, TodoIs DEF Before, ServerInv, Failed, targetVars
  <2>2. CASE server' = "call" /\ UNCHANGED request
    <3>1. UNCHANGED Todo
      BY <2>1, <2>2 DEF Todo
    <3>2. ReadAnswer' = <<>>
      BY <2>1, <2>2 DEF ReadAnswer
    <3> QED
      BY <2>1, <3>1, <3>2 DEF Forwarded!vars
  <2>3. CASE Failed
    <3>1. server' = "read"
      BY <2>3 DEF Failed, Back
    <3>2. Todo' = Tail(Todo) /\ ReadAnswer' = <<>>
      BY <1>4, <2>1, <3>1 DEF ReadAnswer
    <3> QED
      BY <2>1, <3>2 DEF Forwarded!Next, Forwarded!Other
  <2> QED
    BY <1>6, <2>2, <2>3 DEF Before
<1>7. CASE After
  <2>1. server = "after" /\ request # NoRequest /\ outward = <<>> /\ Todo = inward
        /\ UNCHANGED <<inward, memory>>
    BY <1>7, TodoIs DEF After, ServerInv, targetVars
  <2>2. server' = "read"
    BY <1>7 DEF After, Finish, Reply, Failed, Back
  <2>3. UNCHANGED Todo
    BY <1>4, <2>1, <2>2
  <2>4. ReadAnswer' \in {ReadAnswer, <<>>}
    <3>1. CASE request.cmd = "read" /\ outward' # outward
      <4>1. outward' = Append(<<>>, [cmd |-> "read", value |-> value])
        BY <1>7, <2>1, <3>1 DEF After, Finish, Reply, Failed
      <4> DEFINE reply == [cmd |-> "read", value |-> value]
      <4> HIDE DEF reply
      <4>2. /\ Append(<<>>, reply) \in Seq({reply}) /\ Len(Append(<<>>, reply)) = 1
            /\ Append(<<>>, reply)[1] = reply /\ Append(<<>>, reply) # <<>>
        BY Appended, AppendProperties, EmptySeq
      <4>3. Append(<<>>, reply) = <<reply>>
        <5>1. <<reply>> \in Seq({reply}) /\ Len(<<reply>>) = 1 /\ <<reply>>[1] = reply
          OBVIOUS
        <5> QED
          BY <4>2, <5>1, SeqEqual
      <4>4. ReadAnswer' = <<reply>>
        BY <2>2, <4>1, <4>2, <4>3 DEF ReadAnswer, reply
      <4> QED
        BY <2>1, <3>1, <4>4, TodoIs DEF reply
    <3>2. CASE outward' = outward
      BY <2>1, <2>2, <3>2 DEF ReadAnswer
    <3>3. request.cmd # "read" => outward' = outward
      BY <1>7 DEF After, Finish, Failed
    <3> QED
      BY <3>1, <3>2, <3>3
  <2> QED
    BY <2>1, <2>3, <2>4 DEF Forwarded!Next, Forwarded!Forget, Forwarded!vars
<1>8. CASE Read
  <2>1. /\ server = "call" /\ request.cmd = "read" /\ request # NoRequest
        /\ Todo # <<>> /\ Head(Todo) = request /\ Tail(Todo) = inward
        /\ UNCHANGED <<inward, memory>>
    BY <1>8, TodoIs DEF Read, Calling, ServerInv, callUnchanged, targetVars
  <2>2. CASE Failed
    BY <1>5, <2>1, <2>2 DEF Failed, GivesUp, Forwarded!Next
  <2>3. CASE ~Failed
    <3>1. server' = "after" /\ value' = memory[request.address] /\ UNCHANGED request
      BY <1>8, <2>3 DEF Read
    <3>2. Todo' = Tail(Todo)
      BY <1>4, <2>1, <3>1
    <3>3. ReadAnswer' = <<[cmd |-> "read", value |-> memory[Head(Todo).address]]>>
      BY <2>1, <3>1 DEF ReadAnswer
    <3> QED
      BY <2>1, <3>2, <3>3 DEF Forwarded!Next, Forwarded!Read
  <2> QED
    BY <2>2, <2>3
<1>9. CASE Write
  <2>1. /\ server = "call" /\ request.cmd = "write" /\ request # NoRequest
        /\ Todo # <<>> /\ Head(Todo) = request /\ Tail(Todo) = inward
        /\ UNCHANGED inward /\ outward = <<>> /\ ReadAnswer = <<>>
    BY <1>9, TodoIs DEF Write, Calling, ServerInv, callUnchanged
  <2>2. CASE Failed /\ UNCHANGED memory
    BY <1>5, <2>1, <2>2 DEF Failed, GivesUp, Forwarded!Next
  <2>3. CASE /\ memory' = [memory EXCEPT ![request.address] = request.value]
             /\ server' = "after" /\ UNCHANGED <<request, outward>>
    <3>1. Todo' = Tail(Todo)
      BY <1>4, <2>1, <2>3
    <3>2. ReadAnswer' = <<>>
      BY <2>1, <2>3 DEF ReadAnswer
    <3> QED
      BY <2>1, <2>3, <3>1, <3>2 DEF Forwarded!Next, Forwarded!Write
  <2> QED
    BY <1>9, <2>2, <2>3 DEF Write
<1>10. CASE SetRegister \/ GetRegister \/ Continue \/ Checksum
  <2>1. /\ server = "call" /\ request.cmd # "read" /\ UNCHANGED <<inward, memory>>
        /\ outward = <<>>
    <3>1. server = "call" /\ request # NoRequest
      BY <1>10 DEF SetRegister, GetRegister, Continue, Checksum, Calling, ServerInv
    <3>2. request.cmd # "read" /\ UNCHANGED <<inward, memory>>
      BY <1>10 DEF SetRegister, GetRegister, Continue, Checksum, Calling, callUnchanged, targetVars
    <3> QED
      BY <3>1, <3>2, TodoIs
  <2>2. \/ GivesUp \/ Replied
        \/ UNCHANGED <<server, request, value, outward>>
    <3>1. CASE SetRegister \/ GetRegister
      <4>1. (\E v : Transferred(v)) \/ Failed
        BY <3>1 DEF SetRegister, GetRegister, SetRefused
      <4>2. ASSUME NEW v, Transferred(v)
            PROVE  \/ GivesUp \/ Replied
                   \/ UNCHANGED <<server, request, value, outward>>
        <5>1. request # NoRequest /\ Awaited(request)
          BY <3>1 DEF SetRegister, GetRegister, Calling, ServerInv, Awaited, Unanswered
        <5> QED
          BY <4>2, <5>1 DEF Transferred, Reply, GivesUp, Replied
      <4>3. Failed => GivesUp
        BY <2>1 DEF Failed, GivesUp, ServerInv
      <4> QED
        BY <4>1, <4>2, <4>3
    <3>2. CASE Continue \/ Checksum
      <4>1. request # NoRequest /\ Awaited(request)
        BY <3>2 DEF Continue, Checksum, Calling, ServerInv, Awaited, Unanswered
      <4> QED
        BY <3>2, <4>1 DEF Continue, Checksum, Reply, Failed, GivesUp, Replied
    <3> QED
      BY <1>10, <3>1, <3>2
  <2>3. CASE UNCHANGED <<server, request, value, outward>>
    BY <2>1, <2>3 DEF Todo, ReadAnswer, Forwarded!vars
  <2> QED
    BY <1>5, <2>1, <2>2, <2>3 DEF Forwarded!Next
<1>11. CASE ScriptWrites \/ Halt
  <2>1. UNCHANGED <<inward, outward, server, request, value>>
    BY <1>11 DEF ScriptWrites, Halt, otherUnchanged
  <2>2. UNCHANGED <<Todo, ReadAnswer>>
    BY <2>1 DEF Todo, ReadAnswer
  <2>3. memory' = memory \/ \E a \in Addrs, v \in Vals : memory' = [memory EXCEPT ![a] = v]
    BY <1>11 DEF ScriptWrites, Halt
  <2> QED
    BY <2>2, <2>3 DEF Forwarded!Next, Forwarded!Change, Forwarded!vars
<1>12. CASE Launch \/ Exit \/ Connect \/ End \/ Observe
  <2>1. /\ UNCHANGED <<inward, outward, request, value, memory>>
        /\ server \in {"before", "call"} <=> server' \in {"before", "call"}
        /\ server = "after" <=> server' = "after"
    BY <1>12 DEF Launch, Exit, Connect, End, Observe, targetVars
  <2> QED
    BY <2>1 DEF Todo, ReadAnswer, Forwarded!vars
<1> QED
  BY <1>1, <1>2, <1>3, <1>6, <1>7, <1>8, <1>9, <1>10, <1>11, <1>12
     DEF Next, ServerStep, Forwarded!Next

(* Server thread, socket and target implement ForwardedMemory: the          *)
(* emulator's reads and writes are performed in the order of the requests,  *)
(* each at most once and at one moment, whatever fails in between.          *)
THEOREM Implements == Spec => ForwardedSpec
<1>1. Init => Forwarded!Init
  <2> SUFFICES ASSUME Init PROVE Forwarded!Init
    OBVIOUS
  <2>1. Todo = <<>> \o <<>> /\ ReadAnswer = <<>>
    BY DEF Init, Todo, ReadAnswer
  <2>2. Todo = <<>>
    BY <2>1, ConcatEmptySeq
  <2>3. memory \in [Addrs -> Vals]
    BY MemoryAssumption DEF Init
  <2> QED
    BY <2>1, <2>2, <2>3 DEF Forwarded!Init
<1>2. IInv /\ [Next]_vars => [Forwarded!Next]_(Forwarded!vars)
  <2>1. UNCHANGED vars => UNCHANGED Forwarded!vars
    BY DEF vars, targetVars, Todo, ReadAnswer, Forwarded!vars
  <2> QED
    BY <2>1, ForwardStep DEF IInv
<1> QED
  BY Inductive, <1>1, <1>2, PTL DEF Spec, ForwardedSpec, Forwarded!Spec
=============================================================================
