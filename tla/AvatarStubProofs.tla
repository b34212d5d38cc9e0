-------------------------- MODULE AvatarStubProofs --------------------------
(***************************************************************************)
(* The safety properties of AvatarStub, for any number of client threads,  *)
(* calls, lost and repeated messages.                                      *)
(***************************************************************************)
EXTENDS AvatarStub, SequenceTheorems, TLAPS

USE StubAssumption

(* The names the table of replies can give. *)
LEMMA AnswersAreReplies ==
  \A o \in Operations : Answers(o) \subseteq ReplyNames
BY DEF Operations, Answers, ReplyOf, ReplyNames

LEMMA NoMessageTyped ==
  /\ NoCommand \in Commands
  /\ NoMessage \in Messages /\ ~IsReply(NoMessage)
BY DEF NoMessage, NoCommand, Messages, Commands, Callers, IsReply, ReplyNames,
       AsyncNames, Operations

(* The head and the tail of a queue of commands or messages. *)
LEMMA HeadTail ==
  ASSUME NEW S, NEW s \in Seq(S), s # <<>>
  PROVE  /\ Head(s) \in S /\ Head(s) = s[1]
         /\ Tail(s) \in Seq(S)
         /\ Len(s) \in Nat \ {0} /\ Len(Tail(s)) = Len(s) - 1
         /\ \A i \in DOMAIN Tail(s) : i + 1 \in DOMAIN s /\ Tail(s)[i] = s[i + 1]
OBVIOUS

(* What is in a queue. *)
LEMMA Elements ==
  ASSUME NEW S, NEW s \in Seq(S)
  PROVE  \A i \in DOMAIN s : s[i] \in S
OBVIOUS

(* A queue with one element more. *)
LEMMA AppendOne ==
  ASSUME NEW S, NEW s \in Seq(S), NEW e \in S
  PROVE  /\ Append(s, e) \in Seq(S) /\ Append(s, e) # <<>>
         /\ Len(s) \in Nat /\ Len(Append(s, e)) = Len(s) + 1
         /\ DOMAIN Append(s, e) = DOMAIN s \cup {Len(s) + 1}
         /\ \A i \in DOMAIN s : i # Len(s) + 1 /\ Append(s, e)[i] = s[i]
         /\ Append(s, e)[Len(s) + 1] = e
OBVIOUS

(* A queue of one element has an empty tail. *)
LEMMA TailOfOne ==
  ASSUME NEW S, NEW s \in Seq(S), s # <<>>, Len(s) = 1
  PROVE  Tail(s) = <<>>
<1>1. Tail(s) \in Seq(S) /\ Len(Tail(s)) = 0
  BY HeadTail
<1> QED
  BY <1>1, EmptySeq

(* A wire that is not empty and holds at most one message holds one. *)
LEMMA AtMostOne == ASSUME NEW n \in Nat \ {0}, n <= 1 PROVE n = 1
OBVIOUS

(* Groups of variables a step leaves alone keep their types. *)
LEMMA SameTypes ==
  /\ CallTypes /\ UNCHANGED callVars => CallTypes'
  /\ QueueTypes /\ UNCHANGED <<queue, inbox, toStub, fromStub>> => QueueTypes'
  /\ ThreadTypes /\ UNCHANGED <<phase, terminate, up, txVars, rx>>
       => ThreadTypes'
  /\ StubTypes /\ UNCHANGED <<stubVars, reported, lost>> => StubTypes'
<1>1. CallTypes /\ UNCHANGED callVars => CallTypes'
  BY DEF CallTypes, callVars
<1>2. QueueTypes /\ UNCHANGED <<queue, inbox, toStub, fromStub>> => QueueTypes'
  BY DEF QueueTypes
<1>3. ThreadTypes /\ UNCHANGED <<phase, terminate, up, txVars, rx>>
        => ThreadTypes'
  BY DEF ThreadTypes, txVars
<1>4. StubTypes /\ UNCHANGED <<stubVars, reported, lost>> => StubTypes'
  BY DEF StubTypes, stubVars
<1> QED
  BY <1>1, <1>2, <1>3, <1>4

(* Init establishes the inductive invariant. *)
LEMMA InitInv == Init => IInv
<1> SUFFICES ASSUME Init PROVE IInv
  OBVIOUS
<1> USE DEF Init
<1>1. CallTypes
  BY NoMessageTyped DEF CallTypes
<1>2. QueueTypes
  BY DEF QueueTypes
<1>3. ThreadTypes
  BY NoMessageTyped DEF ThreadTypes
<1>4. StubTypes
  BY DEF StubTypes
<1>5. BornInv /\ CallsInv /\ QueueInv /\ CurInv
  BY NoMessageTyped DEF BornInv, CallsInv, QueueInv, CurInv, Busy
<1>6. WaitersAccounted /\ ReplyRouted /\ OneInFlight /\ NoneAbandoned
  BY DEF WaitersAccounted, ReplyRouted, OneInFlight, NoneAbandoned
<1>7. WireInv
  BY DEF WireInv
<1> QED
  BY <1>1, <1>2, <1>3, <1>4, <1>5, <1>6, <1>7 DEF IInv, TypeOK

(* What Put leaves behind, whoever calls it. *)
LEMMA PutTypes ==
  ASSUME TypeOK, NEW c \in Callers, NEW o \in Operations, Put(c, o),
         UNCHANGED <<running, halts, hits, dups, reported, lost>>
  PROVE  CallTypes' /\ queue' \in Seq(Commands) /\ StubTypes'
<1>1. CallTypes'
  BY NoMessageTyped DEF TypeOK, CallTypes, Put, CvAcquired
<1>2. [caller |-> c, n |-> calls[c] + 1, op |-> o] \in Commands
  BY DEF TypeOK, CallTypes, Commands
<1>3. queue' \in Seq(Commands)
  BY <1>2 DEF TypeOK, QueueTypes, Put
<1>4. StubTypes'
  BY DEF TypeOK, StubTypes, Put
<1> QED
  BY <1>1, <1>3, <1>4

(* Type correctness of every step. *)
LEMMA TypeStep == ASSUME TypeOK, [Next]_vars PROVE TypeOK'
<1> USE SameTypes DEF TypeOK
<1>1. CASE Construct
  BY <1>1 DEF Construct, ThreadTypes, txVars
<1>2. ASSUME NEW c \in Clients, NEW o \in Ops, Call(c, o) PROVE TypeOK'
  <2>1. CallTypes' /\ queue' \in Seq(Commands) /\ StubTypes'
    BY <1>2, PutTypes DEF Call, Callers
  <2> QED
    BY <1>2, <2>1 DEF Call, QueueTypes
<1>3. ASSUME NEW c \in Callers, Wait(c) PROVE TypeOK'
  <2>1. CallTypes'
    BY <1>3 DEF Wait, CallTypes
  <2> QED
    BY <1>3, <2>1 DEF Wait
<1>4. ASSUME NEW c \in Callers, Return(c) PROVE TypeOK'
  <2>1. CallTypes'
    BY <1>4 DEF Return, CallTypes, Outcome
  <2>2. StubTypes'
    BY <1>4 DEF Return, StubTypes, stubVars
  <2> QED
    BY <1>4, <2>1, <2>2 DEF Return
<1>5. CASE TxSend
  <2>1. Head(queue) \in Commands /\ Tail(queue) \in Seq(Commands)
    BY <1>5, HeadTail DEF TxSend, QueueTypes
  <2>2. QueueTypes'
    <3>1. toStub' \in Seq(Commands)
      <4>1. Append(toStub, Head(queue)) \in Seq(Commands)
        BY <2>1, AppendOne DEF QueueTypes
      <4> QED
        BY <1>5, <4>1 DEF TxSend, QueueTypes
    <3>2. UNCHANGED <<inbox, fromStub>> /\ queue' = Tail(queue)
      BY <1>5 DEF TxSend
    <3> QED
      BY <2>1, <3>1, <3>2 DEF QueueTypes
  <2>3. ThreadTypes'
    BY <1>5, <2>1 DEF TxSend, ThreadTypes
  <2> QED
    BY <1>5, <2>2, <2>3 DEF TxSend
<1>6. CASE TxMatch
  <2>1. /\ Head(inbox) \in [name : ReplyNames, cmd : Commands]
        /\ Tail(inbox) \in Seq([name : ReplyNames, cmd : Commands])
    BY <1>6, HeadTail DEF TxMatch, QueueTypes
  <2>2. QueueTypes'
    BY <1>6, <2>1 DEF TxMatch, QueueTypes
  <2>3. Head(inbox) \in Messages
    BY <2>1 DEF Messages
  <2>4. ThreadTypes'
    BY <1>6, <2>3 DEF TxMatch, ThreadTypes
  <2> QED
    BY <1>6, <2>2, <2>4 DEF TxMatch
<1>7. CASE TxUnexpected
  <2>1. QueueTypes'
    BY <1>7, HeadTail DEF TxUnexpected, QueueTypes
  <2>2. ThreadTypes'
    BY <1>7 DEF TxUnexpected, ThreadTypes, Commands
  <2> QED
    BY <1>7, <2>1, <2>2 DEF TxUnexpected
<1>8. CASE TxNotify
  <2>1. CallTypes'
    BY <1>8 DEF TxNotify, CallTypes, ThreadTypes
  <2>2. ThreadTypes'
    BY <1>8 DEF TxNotify, ThreadTypes
  <2> QED
    BY <1>8, <2>1, <2>2 DEF TxNotify
<1>9. CASE TxTimeout
  BY <1>9 DEF TxTimeout, AfterTimeout, ThreadTypes
<1>10. CASE TxEnd
  BY <1>10 DEF TxEnd, ThreadTypes
<1>11. CASE RxReply
  <2>1. Head(fromStub) \in Messages /\ Tail(fromStub) \in Seq(Messages)
    BY <1>11, HeadTail DEF RxReply, QueueTypes
  <2>2. Head(fromStub) \in [name : ReplyNames, cmd : Commands]
    BY <1>11, <2>1 DEF RxReply, IsReply, Messages
  <2>3. QueueTypes'
    BY <1>11, <2>1, <2>2, AppendOne DEF RxReply, QueueTypes
  <2> QED
    BY <1>11, <2>3 DEF RxReply
<1>12. CASE RxState
  <2>1. CallTypes' /\ queue' \in Seq(Commands) /\ StubTypes'
    BY <1>12, PutTypes DEF RxState, Callers, Operations
  <2>2. QueueTypes'
    BY <1>12, <2>1, HeadTail DEF RxState, QueueTypes
  <2> QED
    BY <1>12, <2>1, <2>2 DEF RxState
<1>13. CASE RxIgnore
  <2>1. QueueTypes'
    BY <1>13, HeadTail DEF RxIgnore, QueueTypes
  <2> QED
    BY <1>13, <2>1 DEF RxIgnore
<1>14. CASE RxCorrupt
  <2>1. QueueTypes'
    BY <1>14, HeadTail DEF RxCorrupt, QueueTypes
  <2>2. StubTypes'
    BY <1>14 DEF RxCorrupt, StubTypes, stubVars
  <2> QED
    BY <1>14, <2>1, <2>2 DEF RxCorrupt
<1>15. CASE RxEnd
  BY <1>15 DEF RxEnd, ThreadTypes, txVars
<1>16. CASE Stop
  BY <1>16 DEF Stop, ThreadTypes, txVars
<1>17. CASE StubAnswer
  <2>1. /\ Head(toStub) \in Commands
        /\ Tail(toStub) \in Seq(Commands)
    BY <1>17, HeadTail DEF StubAnswer, QueueTypes
  <2> PICK name \in Answers(Head(toStub).op), twice \in BOOLEAN :
        LET cmd == Head(toStub)
            reply == [name |-> name, cmd |-> cmd]
        IN /\ twice => dups < MaxDup
           /\ dups' = IF twice THEN dups + 1 ELSE dups
           /\ fromStub' = IF twice THEN Append(Append(fromStub, reply), reply)
                                   ELSE Append(fromStub, reply)
           /\ answered' = [answered EXCEPT ![cmd.caller] = name]
           /\ running' = (running \/ (cmd.op = "cont" /\ name = "OK"))
    BY <1>17 DEF StubAnswer
  <2> DEFINE reply == [name |-> name, cmd |-> Head(toStub)]
  <2>2. name \in ReplyNames
    BY <2>1, AnswersAreReplies DEF Commands
  <2>3. reply \in Messages
    BY <2>1, <2>2 DEF Messages
  <2>4. QueueTypes'
    BY <1>17, <2>1, <2>3 DEF StubAnswer, QueueTypes
  <2>5. StubTypes'
    BY <1>17, <2>1, <2>2 DEF StubAnswer, StubTypes, Commands
  <2> QED
    BY <1>17, <2>4, <2>5 DEF StubAnswer
<1>18. CASE StubCorrupt
  <2>1. QueueTypes'
    BY <1>18, HeadTail DEF StubCorrupt, QueueTypes
  <2>2. StubTypes'
    BY <1>18 DEF StubCorrupt, StubTypes, stubVars
  <2> QED
    BY <1>18, <2>1, <2>2 DEF StubCorrupt
<1>19. CASE TargetHalts
  <2>1. \A name \in AsyncNames : Async(name) \in Messages
    BY NoMessageTyped DEF Async, Messages
  <2>2. QueueTypes'
    BY <1>19, <2>1 DEF TargetHalts, QueueTypes
  <2>3. StubTypes'
    <3> PICK name \in AsyncNames :
          hits' = IF name = "STATE" THEN hits + 1 ELSE hits
      BY <1>19 DEF TargetHalts
    <3>1. hits' \in Nat
      BY DEF StubTypes
    <3>2. /\ halts' = halts + 1 /\ running' = FALSE
          /\ UNCHANGED <<answered, dups, reported, lost>>
      BY <1>19 DEF TargetHalts
    <3>3. running' \in BOOLEAN
      BY <3>2
    <3>4. /\ answered' \in [Callers -> ReplyNames \cup {"none"}]
          /\ dups' \in Nat /\ reported' \in Nat /\ lost' \in Nat
          /\ halts' \in Nat
      BY <3>2 DEF StubTypes
    <3> QED
      BY <3>1, <3>3, <3>4 DEF StubTypes
  <2> QED
    BY <1>19, <2>2, <2>3 DEF TargetHalts
<1>20. CASE Disconnect
  <2>1. QueueTypes'
    BY <1>20 DEF Disconnect, QueueTypes
  <2>2. ThreadTypes'
    BY <1>20 DEF Disconnect, ThreadTypes, txVars
  <2> QED
    BY <1>20, <2>1, <2>2 DEF Disconnect
<1>21. CASE UNCHANGED vars
  BY <1>21 DEF vars
<1> QED
  BY <1>1, <1>2, <1>3, <1>4, <1>5, <1>6, <1>7, <1>8, <1>9, <1>10, <1>11,
     <1>12, <1>13, <1>14, <1>15, <1>16, <1>17, <1>18, <1>19, <1>20, <1>21
     DEF Next, CallerStep, TxStep, RxStep

-----------------------------------------------------------------------------
(* The parts of the inductive invariant about variables a step leaves alone. *)
LEMMA SameInv ==
  /\ BornInv /\ UNCHANGED <<phase, tx>> => BornInv'
  /\ CallsInv /\ UNCHANGED callVars => CallsInv'
  /\ QueueInv /\ UNCHANGED <<callVars, queue>> => QueueInv'
  /\ CurInv /\ UNCHANGED <<callVars, queue, tx, cur, got>> => CurInv'
  /\ WaitersAccounted /\ UNCHANGED <<callVars, queue, tx, cur, abandoned>>
       => WaitersAccounted'
  /\ ReplyRouted /\ UNCHANGED <<callVars, answered, dups>> => ReplyRouted'
  /\ OneInFlight /\ UNCHANGED <<toStub, inbox, fromStub, dups>> => OneInFlight'
  /\ NoneAbandoned /\ UNCHANGED <<abandoned, dups>> => NoneAbandoned'
  /\ WireInv /\ UNCHANGED <<queue, answered, toStub, inbox, fromStub, tx, cur,
                            got>> => WireInv'
<1>1. CallsInv /\ UNCHANGED callVars => CallsInv'
  BY DEF CallsInv, callVars
<1>2. QueueInv /\ UNCHANGED <<callVars, queue>> => QueueInv'
  BY DEF QueueInv, callVars, Pending, Current
<1>3. CurInv /\ UNCHANGED <<callVars, queue, tx, cur, got>> => CurInv'
  BY DEF CurInv, callVars, Pending, Current, Busy
<1>4. WaitersAccounted /\ UNCHANGED <<callVars, queue, tx, cur, abandoned>>
        => WaitersAccounted'
  BY DEF WaitersAccounted, callVars, Current
<1>5. ReplyRouted /\ UNCHANGED <<callVars, answered, dups>> => ReplyRouted'
  BY DEF ReplyRouted, callVars, Current
<1>6. OneInFlight /\ UNCHANGED <<toStub, inbox, fromStub, dups>>
        => OneInFlight'
  BY DEF OneInFlight
<1>7. NoneAbandoned /\ UNCHANGED <<abandoned, dups>> => NoneAbandoned'
  BY DEF NoneAbandoned
<1>8. WireInv /\ UNCHANGED <<queue, answered, toStub, inbox, fromStub, tx, cur,
                             got>> => WireInv'
  BY DEF WireInv, AnswersCur
<1>9. BornInv /\ UNCHANGED <<phase, tx>> => BornInv'
  BY DEF BornInv
<1> QED
  BY <1>1, <1>2, <1>3, <1>4, <1>5, <1>6, <1>7, <1>8, <1>9

(* A new call disturbs nothing that is under way: its caller was idle, so   *)
(* no command queued or in the send thread's hands is its own.              *)
LEMMA PutInv ==
  ASSUME IInv, NEW c \in Callers, NEW o \in Operations, Put(c, o),
         UNCHANGED <<tx, cur, got, abandoned, dups>>
  PROVE  /\ CallsInv' /\ QueueInv' /\ CurInv' /\ WaitersAccounted'
         /\ ReplyRouted'
         /\ dups = 0 => \A i \in DOMAIN queue' :
                           answered'[queue'[i].caller] = "none"
         /\ Busy => cur.caller # c
<1> DEFINE new == [caller |-> c, n |-> calls[c] + 1, op |-> o]
<1> USE DEF IInv, TypeOK
<1>1. new \in Commands
  BY DEF CallTypes, Commands
<1>2. /\ queue' = Append(queue, new)
      /\ DOMAIN queue' = DOMAIN queue \cup {Len(queue) + 1}
      /\ \A i \in DOMAIN queue : i # Len(queue) + 1 /\ queue'[i] = queue[i]
      /\ queue'[Len(queue) + 1] = new
  BY <1>1, AppendOne DEF Put, QueueTypes
<1>3. /\ \A i \in DOMAIN queue : queue[i].caller # c
      /\ Busy => cur.caller # c
  BY DEF QueueInv, CurInv, Pending, Put
<1>4. /\ \A i \in DOMAIN queue : queue[i].caller \in Callers
      /\ cur.caller \in Callers
  <2>1. \A i \in DOMAIN queue : queue[i] \in Commands
    BY Elements DEF QueueTypes
  <2> QED
    BY <2>1 DEF ThreadTypes, Commands
<1>5. \A d \in Callers \ {c} :
        /\ Current(d)' = Current(d) /\ pc'[d] = pc[d] /\ ref'[d] = ref[d]
        /\ notified'[d] = notified[d] /\ answered'[d] = answered[d]
  BY DEF Put, Current, CallTypes, StubTypes
<1>6. /\ Current(c)' = new /\ pc'[c] = "put" /\ ref'[c] = NoMessage
      /\ notified'[c] = FALSE /\ answered'[c] = "none"
  BY DEF Put, Current, CallTypes, StubTypes
<1>7. CallsInv'
  <2>1. /\ cvFree'[c] = FALSE /\ op'[c] = o
        /\ \A d \in Callers \ {c} : cvFree'[d] = cvFree[d] /\ op'[d] = op[d]
    BY DEF Put, CvAcquired, CallTypes
  <2> QED
    BY <2>1, <1>5, <1>6 DEF CallsInv
<1>8. QueueInv'
  BY <1>2, <1>3, <1>4, <1>5, <1>6 DEF QueueInv, Pending
<1>9. CurInv'
  BY <1>2, <1>3, <1>4, <1>5 DEF CurInv, Pending, Busy
<1>10. WaitersAccounted'
  <2> SUFFICES ASSUME NEW d \in Callers, pc'[d] # "idle", ~notified'[d]
               PROVE  \/ \E i \in DOMAIN queue' : queue'[i] = Current(d)'
                      \/ cur = Current(d)' /\ tx \in {"await", "notify", "dead"}
                      \/ d \in abandoned
    BY DEF WaitersAccounted
  <2>1. CASE d = c
    BY <2>1, <1>2, <1>6
  <2>2. CASE d # c
    BY <2>2, <1>2, <1>5 DEF WaitersAccounted
  <2> QED
    BY <2>1, <2>2
<1>11. ReplyRouted'
  BY <1>5, <1>6 DEF ReplyRouted
<1>12. dups = 0 => \A i \in DOMAIN queue' :
                      answered'[queue'[i].caller] = "none"
  BY <1>2, <1>3, <1>4, <1>5, <1>6 DEF WireInv
<1> QED
  BY <1>3, <1>7, <1>8, <1>9, <1>10, <1>11, <1>12

(* What is under way when a message has left the wire from the stub and has *)
(* not been put anywhere.                                                   *)
LEMMA DropInv ==
  ASSUME TypeOK, OneInFlight, dups = 0 => WireInv, fromStub # <<>>,
         fromStub' = Tail(fromStub), UNCHANGED <<toStub, inbox, dups>>
  PROVE  /\ OneInFlight'
         /\ dups = 0 => \A i \in DOMAIN fromStub' :
              IsReply(fromStub'[i]) => /\ tx \in {"await", "dead"}
                                       /\ AnswersCur(fromStub'[i])
<1>1. /\ \A i \in DOMAIN fromStub' : /\ i \in Nat
                                     /\ i + 1 \in DOMAIN fromStub
                                     /\ fromStub'[i] = fromStub[i + 1]
  BY HeadTail DEF TypeOK, QueueTypes
<1>2. OneInFlight'
  BY <1>1 DEF OneInFlight
<1>3. dups = 0 => \A i \in DOMAIN fromStub' :
              IsReply(fromStub'[i]) => /\ tx \in {"await", "dead"}
                                       /\ AnswersCur(fromStub'[i])
  BY <1>1 DEF WireInv
<1> QED
  BY <1>2, <1>3

(* A call changes nothing about what is under way either. *)
LEMMA PutWire ==
  ASSUME IInv, NEW c \in Callers, NEW o \in Operations, Put(c, o),
         UNCHANGED <<tx, cur, got, abandoned, dups, toStub, inbox>>,
         \/ UNCHANGED fromStub
         \/ fromStub # <<>> /\ fromStub' = Tail(fromStub)
  PROVE  OneInFlight' /\ (dups' = 0 => WireInv')
<1> USE DEF IInv
<1>1. OneInFlight' /\ (dups = 0 => \A i \in DOMAIN fromStub' :
              IsReply(fromStub'[i]) => /\ tx \in {"await", "dead"}
                                       /\ AnswersCur(fromStub'[i]))
  <2>1. CASE UNCHANGED fromStub
    BY <2>1, SameInv DEF WireInv
  <2>2. CASE fromStub # <<>> /\ fromStub' = Tail(fromStub)
    BY <2>2, DropInv
  <2> QED
    BY <2>1, <2>2
<1>2. Busy => answered'[cur.caller] = answered[cur.caller]
  BY PutInv DEF Put, TypeOK, StubTypes, ThreadTypes, Commands
<1>3. ASSUME dups = 0 PROVE WireInv'
  <2>1. \A i \in DOMAIN queue' : answered'[queue'[i].caller] = "none"
    BY <1>3, PutInv
  <2>2. WireInv
    BY <1>3
  <2>3. /\ toStub' # <<>> \/ inbox' # <<>> => tx' \in {"await", "dead"}
        /\ toStub' # <<>> => toStub'[1] = cur' /\ answered'[cur'.caller] = "none"
    BY <2>2, <1>2 DEF WireInv, Busy
  <2>4. \A i \in DOMAIN fromStub' :
          IsReply(fromStub'[i]) => /\ tx' \in {"await", "dead"}
                                   /\ AnswersCur(fromStub[i])'
    BY <1>1, <1>2, <1>3 DEF Busy, AnswersCur
  <2>5. inbox' # <<>> => AnswersCur(inbox[1])'
    BY <2>2, <1>2 DEF WireInv, Busy, AnswersCur
  <2>6. tx' = "notify" => AnswersCur(got)'
    BY <2>2, <1>2 DEF WireInv, Busy, AnswersCur
  <2> QED
    BY <2>1, <2>3, <2>4, <2>5, <2>6 DEF WireInv
<1> QED
  BY <1>1, <1>3

(* The invariant is inductive. *)
LEMMA StepInv == ASSUME IInv, [Next]_vars PROVE IInv'
<1> USE DEF IInv
<1> USE SameInv
<1>0. TypeOK'
  BY TypeStep
<1>c. /\ cur \in Commands /\ cur.caller \in Callers /\ cur.op \in Operations
      /\ got \in Messages
      /\ \A i \in DOMAIN queue : queue[i] \in Commands
  BY Elements DEF TypeOK, QueueTypes, ThreadTypes, Commands
<1>1. CASE Construct
  <2>1. tx' = tx \/ (tx = "unborn" /\ tx' = "get")
    BY <1>1 DEF Construct, BornInv
  <2>2. UNCHANGED <<callVars, queue, cur, got, abandoned, answered, dups,
                    toStub, inbox, fromStub>>
    BY <1>1 DEF Construct, stubVars
  <2>3. BornInv'
    BY <1>1 DEF Construct, BornInv
  <2>4. CurInv' /\ WaitersAccounted'
    BY <2>1, <2>2 DEF CurInv, Busy, Pending, Current, WaitersAccounted, callVars
  <2>5. dups = 0 => WireInv'
    BY <2>1, <2>2 DEF WireInv, AnswersCur
  <2> QED
    BY <1>0, <2>2, <2>3, <2>4, <2>5
<1>2. ASSUME NEW c \in Clients, NEW o \in Ops, Call(c, o) PROVE IInv'
  <2>1. c \in Callers /\ o \in Operations
    BY DEF Callers
  <2>2. /\ Put(c, o)
        /\ UNCHANGED <<tx, cur, got, abandoned, dups, toStub, inbox, fromStub>>
    BY <1>2 DEF Call, txVars
  <2>3. /\ CallsInv' /\ QueueInv' /\ CurInv' /\ WaitersAccounted'
        /\ ReplyRouted'
    BY <2>1, <2>2, PutInv
  <2>4. OneInFlight' /\ (dups' = 0 => WireInv')
    BY <2>1, <2>2, PutWire
  <2> QED
    BY <1>0, <1>2, <2>2, <2>3, <2>4 DEF Call
<1>3. ASSUME NEW c \in Callers, Wait(c) PROVE IInv'
  <2>1. CallsInv' /\ QueueInv' /\ CurInv' /\ WaitersAccounted' /\ ReplyRouted'
    BY <1>3, <1>c DEF Wait, txVars, stubVars, TypeOK, CallTypes, CallsInv,
         QueueInv, CurInv, WaitersAccounted, ReplyRouted, Pending, Current,
         Busy, Commands
  <2> QED
    BY <1>0, <1>3, <2>1 DEF Wait, txVars, stubVars
<1>4. ASSUME NEW c \in Callers, Return(c) PROVE IInv'
  <2>1. notified[c]
    BY <1>4 DEF Return, WaitReturns
  <2>2. CallsInv' /\ QueueInv' /\ CurInv' /\ WaitersAccounted' /\ ReplyRouted'
    BY <1>4, <1>c, <2>1 DEF Return, txVars, stubVars, TypeOK, CallTypes,
         CallsInv, QueueInv, CurInv, WaitersAccounted, ReplyRouted, Pending,
         Current, Busy, Commands
  <2> QED
    BY <1>0, <1>4, <2>2 DEF Return, txVars, stubVars
<1>5. CASE TxSend
  <2> DEFINE cmd == Head(queue)
  <2>1. /\ cmd = queue[1] /\ 1 \in DOMAIN queue
        /\ \A i \in DOMAIN queue' : /\ i + 1 \in DOMAIN queue /\ i \in Nat
                                    /\ queue'[i] = queue[i + 1]
        /\ cur' = cmd /\ tx' \in {"await", "dead"} /\ tx = "get"
        /\ \A i \in DOMAIN queue : i = 1 \/ (i - 1 \in DOMAIN queue'
                                              /\ queue'[i - 1] = queue[i])
    BY <1>5, HeadTail DEF TxSend, TypeOK, QueueTypes
  <2>2. UNCHANGED <<callVars, got, abandoned, answered, dups, inbox, fromStub,
                    phase>>
    BY <1>5 DEF TxSend, stubVars
  <2>3. \/ UNCHANGED toStub
        \/ toStub' = Append(toStub, cmd) /\ tx' = "await"
    BY <1>5 DEF TxSend
  <2>4. BornInv'
    BY <2>1, <2>2 DEF BornInv
  <2>5. QueueInv' /\ CurInv'
    <3>1. /\ UNCHANGED <<pc, notified, ref>>
          /\ \A c : Current(c)' = Current(c)
      BY <2>2 DEF Current, callVars
    <3>2. QueueInv'
      <4>1. ASSUME NEW i \in DOMAIN queue' PROVE Pending(queue[i])'
        BY <2>1, <3>1 DEF QueueInv, Pending
      <4>2. ASSUME NEW i \in DOMAIN queue', NEW j \in DOMAIN queue',
                   queue'[i].caller = queue'[j].caller
            PROVE  i = j
        <5>1. i + 1 = j + 1
          BY <2>1, <4>2 DEF QueueInv
        <5> QED
          BY <2>1, <5>1
      <4> QED
        BY <4>1, <4>2 DEF QueueInv, Pending
    <3>3. ASSUME NEW i \in DOMAIN queue'
          PROVE  queue'[i].caller # cmd.caller
      <4>0. i \in DOMAIN queue' /\ i \in Nat
        BY <2>1
      <4>1. i + 1 # 1 /\ i + 1 \in DOMAIN queue /\ 1 \in DOMAIN queue
        <5>1. i # 0
          BY HeadTail, <1>5 DEF TxSend, TypeOK, QueueTypes
        <5> QED
          BY <2>1, <4>0, <5>1
      <4>2. queue[i + 1].caller # queue[1].caller
        BY <4>1 DEF QueueInv
      <4> QED
        BY <2>1, <4>2
    <3>4. Pending(cur)'
      BY <2>1, <3>1 DEF QueueInv, Pending
    <3> QED
      BY <2>1, <3>2, <3>3, <3>4 DEF CurInv
  <2>6. WaitersAccounted'
    <3> SUFFICES ASSUME NEW c \in Callers, pc[c] # "idle", ~notified[c]
                 PROVE  \/ \E i \in DOMAIN queue' : queue'[i] = Current(c)
                        \/ cur' = Current(c) /\ tx' \in {"await", "dead"}
                        \/ c \in abandoned
      BY <2>2 DEF WaitersAccounted, Current, callVars
    <3> QED
      BY <2>1 DEF WaitersAccounted
  <2>7. dups = 0 => /\ toStub = <<>> /\ inbox = <<>>
                    /\ \A i \in DOMAIN fromStub : ~IsReply(fromStub[i])
                    /\ answered[cmd.caller] = "none"
    BY <2>1 DEF WireInv
  <2>8. dups = 0 => /\ Len(toStub') <= 1 /\ Len(inbox) <= 1
                    /\ toStub' # <<>> => toStub'[1] = cmd
    <3>1. /\ Append(<<>>, cmd)[1] = cmd /\ Len(Append(<<>>, cmd)) = 1
          /\ Len(<<>>) = 0
      OBVIOUS
    <3>2. dups = 0 => \/ toStub' = <<>>
                      \/ toStub' = Append(<<>>, cmd)
      BY <2>3, <2>7
    <3>3. dups = 0 => Len(toStub') = 0 \/ Len(toStub') = 1
      BY <3>1, <3>2
    <3>4. dups = 0 => Len(inbox) = 0
      BY <3>1, <2>7
    <3> QED
      BY <3>1, <3>2, <3>3, <3>4
  <2>9. OneInFlight'
    <3>1. /\ dups' = dups /\ inbox' = inbox /\ fromStub' = fromStub
          /\ \A i \in DOMAIN fromStub : IsReply(fromStub[i])' <=>
                                        IsReply(fromStub[i])
      BY <2>2 DEF IsReply
    <3> QED
      BY <2>7, <2>8, <3>1 DEF OneInFlight
  <2>10. dups = 0 => WireInv'
    BY <2>1, <2>2, <2>7, <2>8 DEF WireInv
  <2> QED
    BY <1>0, <2>2, <2>4, <2>5, <2>6, <2>9, <2>10
<1>6. CASE TxMatch
  <2>1. /\ tx = "await" /\ tx' = "notify" /\ inbox # <<>>
        /\ got' = Head(inbox) /\ got' = inbox[1] /\ inbox' = Tail(inbox)
        /\ Len(inbox) \in Nat \ {0}
        /\ Len(inbox) = 1 => inbox' = <<>>
        /\ got'.name \in ReplyNames
    <3> DEFINE R == [name : ReplyNames, cmd : Commands]
    <3>1. inbox \in Seq(R) /\ inbox # <<>>
      BY <1>6 DEF TxMatch, TypeOK, QueueTypes
    <3> HIDE DEF R
    <3>2. /\ Head(inbox) \in R /\ Head(inbox) = inbox[1]
          /\ Len(inbox) \in Nat \ {0}
          /\ Len(inbox) = 1 => Tail(inbox) = <<>>
      BY <3>1, HeadTail, TailOfOne
    <3> QED
      BY <1>6, <3>2 DEF TxMatch, R
  <2>2. UNCHANGED <<callVars, queue, cur, abandoned, answered, dups, toStub,
                    fromStub, phase>>
    BY <1>6 DEF TxMatch, stubVars
  <2>3. BornInv' /\ CurInv' /\ WaitersAccounted'
    BY <2>1, <2>2 DEF BornInv, CurInv, Busy, Pending, Current, callVars,
                      WaitersAccounted
  <2>4. dups = 0 => /\ inbox' = <<>> /\ toStub = <<>>
                    /\ \A i \in DOMAIN fromStub : ~IsReply(fromStub[i])
    BY <2>1 DEF OneInFlight
  <2>5. OneInFlight'
    BY <2>2, <2>4 DEF OneInFlight
  <2>6. dups = 0 => WireInv'
    BY <2>1, <2>2, <2>4 DEF WireInv, AnswersCur
  <2> QED
    BY <1>0, <2>2, <2>3, <2>5, <2>6
<1>7. CASE TxUnexpected
  <2>1. /\ tx = "await" /\ tx' = "get" /\ inbox # <<>>
        /\ abandoned' = abandoned \cup {cur.caller}
        /\ inbox[1].name \notin Answers(cur.op)
    BY <1>7, HeadTail DEF TxUnexpected, TypeOK, QueueTypes, Expected, Answers
  <2>2. UNCHANGED <<callVars, queue, cur, got, answered, dups, toStub,
                    fromStub, phase>>
    BY <1>7 DEF TxUnexpected, stubVars
  <2>3. dups # 0
    BY <2>1 DEF WireInv, AnswersCur
  <2>4. BornInv' /\ CurInv'
    BY <2>1, <2>2 DEF BornInv, CurInv, Busy
  <2>5. WaitersAccounted'
    BY <2>1, <2>2 DEF WaitersAccounted, Current, callVars
  <2>6. dups' # 0 /\ dups' > 0
    BY <2>2, <2>3 DEF TypeOK, StubTypes
  <2>7. OneInFlight' /\ NoneAbandoned'
    BY <2>6 DEF OneInFlight, NoneAbandoned
  <2> QED
    BY <1>0, <2>2, <2>4, <2>5, <2>6, <2>7
<1>8. CASE TxNotify
  <2> DEFINE k == cur.caller
  <2>1. /\ tx = "notify" /\ tx' = "get" /\ cvFree[k]
        /\ ref' = [ref EXCEPT ![k] = got]
        /\ notified' = [notified EXCEPT ![k] = (pc[k] = "waiting")]
        /\ UNCHANGED <<phase, pc, calls, op, cvFree, queue, cur, got,
                       abandoned, inbox, toStub, fromStub, answered, dups>>
    BY <1>8 DEF TxNotify, stubVars
  <2>2. /\ Pending(cur) /\ got.name \in ReplyNames
        /\ \A i \in DOMAIN queue : queue[i].caller # k
    BY <2>1 DEF CurInv, Busy
  <2>3. pc[k] = "waiting"
    BY <1>c, <2>1, <2>2 DEF CallsInv, Pending, TypeOK, CallTypes
  <2>4. /\ ref'[k] = got /\ notified'[k] = TRUE
        /\ \A d \in Callers \ {k} : ref'[d] = ref[d] /\ notified'[d] = notified[d]
        /\ \A d \in Callers : Current(d)' = Current(d)
    BY <1>c, <2>1, <2>3 DEF TypeOK, CallTypes, Current
  <2>5. CallsInv'
    BY <2>1, <2>2, <2>3, <2>4 DEF CallsInv
  <2>6. \A i \in DOMAIN queue : queue[i].caller \in Callers \ {k}
    BY <1>c, <2>2 DEF Commands
  <2>7. QueueInv'
    BY <2>1, <2>4, <2>6 DEF QueueInv, Pending
  <2>8. BornInv' /\ CurInv'
    BY <2>1 DEF BornInv, CurInv, Busy
  <2>9. WaitersAccounted'
    BY <2>1, <2>2, <2>4 DEF WaitersAccounted, Pending, Current
  <2>10. ReplyRouted'
    BY <2>1, <2>2, <2>4 DEF ReplyRouted, Pending, WireInv, AnswersCur
  <2>11. dups = 0 => WireInv'
    BY <2>1 DEF WireInv
  <2> QED
    BY <1>0, <2>1, <2>5, <2>7, <2>8, <2>9, <2>10, <2>11
<1>9. CASE TxTimeout \/ TxEnd
  <2>1. \/ tx = "await" /\ tx' = "dead"
        \/ tx = "get" /\ tx' = "ended"
    BY <1>9 DEF TxTimeout, AfterTimeout, TxEnd
  <2>2. UNCHANGED <<callVars, queue, cur, got, abandoned, answered, dups,
                    inbox, toStub, fromStub, phase>>
    BY <1>9 DEF TxTimeout, TxEnd, stubVars
  <2>3. BornInv' /\ CurInv' /\ WaitersAccounted'
    BY <2>1, <2>2 DEF BornInv, CurInv, Busy, Pending, Current, callVars,
                      WaitersAccounted
  <2>4. dups = 0 => WireInv'
    BY <2>1, <2>2 DEF WireInv, AnswersCur
  <2> QED
    BY <1>0, <2>2, <2>3, <2>4
<1>10. CASE RxReply
  <2> DEFINE R == [name : ReplyNames, cmd : Commands]
             msg == Head(fromStub)
  <2>1. /\ fromStub # <<>> /\ msg = fromStub[1] /\ 1 \in DOMAIN fromStub
        /\ IsReply(msg)
        /\ \A i \in DOMAIN Tail(fromStub) :
             i # 0 /\ i + 1 \in DOMAIN fromStub
                   /\ Tail(fromStub)[i] = fromStub[i + 1]
    BY <1>10, HeadTail DEF RxReply, TypeOK, QueueTypes
  <2>2. /\ inbox' = Append(inbox, msg) /\ fromStub' = Tail(fromStub)
        /\ UNCHANGED <<callVars, queue, tx, cur, got, abandoned, answered,
                       dups, toStub, phase>>
    BY <1>10 DEF RxReply, txVars, stubVars
  <2>3. dups = 0 => inbox = <<>> /\ toStub = <<>>
    BY <2>1 DEF OneInFlight
  <2>4. dups = 0 => inbox' = <<msg>> /\ Len(inbox') = 1 /\ inbox'[1] = msg
    BY <2>2, <2>3
  <2>5. dups = 0 => \A i \in DOMAIN fromStub' : ~IsReply(fromStub'[i])
    <3> SUFFICES ASSUME dups = 0, NEW i \in DOMAIN fromStub',
                        IsReply(fromStub'[i])
                 PROVE  FALSE
      OBVIOUS
    <3>1. i + 1 = 1
      BY <2>1, <2>2 DEF OneInFlight
    <3> QED
      BY <2>1, <2>2, <3>1
  <2>6. OneInFlight'
    <3>0. dups = 0 => Len(toStub) <= 1
      BY DEF OneInFlight
    <3>1. dups = 0 => Len(inbox') <= 1
      <4>1. dups = 0 => Len(inbox') = 1
        BY <2>4
      <4>2. 1 <= 1
        OBVIOUS
      <4> QED
        BY <4>1, <4>2, Zenon
    <3>2. dups' = 0 => /\ toStub' = <<>> /\ dups = 0
                       /\ \A i \in DOMAIN fromStub' : ~IsReply(fromStub[i])'
      BY <2>2, <2>3, <2>5 DEF IsReply
    <3> QED
      BY <2>2, <3>0, <3>1, <3>2 DEF OneInFlight
  <2>7. dups = 0 => AnswersCur(msg) /\ tx \in {"await", "dead"}
    BY <2>1 DEF WireInv
  <2>8. dups = 0 => WireInv'
    BY <2>2, <2>3, <2>4, <2>5, <2>7 DEF WireInv, AnswersCur, IsReply
  <2> QED
    BY <1>0, <2>2, <2>6, <2>8
<1>11. CASE RxState
  <2>1. Rx \in Callers /\ "get_register" \in Operations
    BY DEF Callers, Operations
  <2>2. /\ Put(Rx, "get_register")
        /\ fromStub # <<>> /\ fromStub' = Tail(fromStub)
        /\ UNCHANGED <<tx, cur, got, abandoned, dups, toStub, inbox, phase>>
    BY <1>11 DEF RxState, txVars
  <2>3. /\ CallsInv' /\ QueueInv' /\ CurInv' /\ WaitersAccounted'
        /\ ReplyRouted'
    BY <2>1, <2>2, PutInv
  <2>4. OneInFlight' /\ (dups' = 0 => WireInv')
    BY <2>1, <2>2, PutWire
  <2> QED
    BY <1>0, <2>2, <2>3, <2>4
<1>12. CASE RxIgnore \/ RxCorrupt
  <2>1. /\ fromStub # <<>> /\ fromStub' = Tail(fromStub)
        /\ UNCHANGED <<callVars, queue, tx, cur, got, abandoned, answered,
                       dups, toStub, inbox, phase>>
    BY <1>12 DEF RxIgnore, RxCorrupt, txVars, stubVars
  <2>2. OneInFlight' /\ (dups = 0 => \A i \in DOMAIN fromStub' :
              IsReply(fromStub'[i]) => /\ tx \in {"await", "dead"}
                                       /\ AnswersCur(fromStub'[i]))
    BY <2>1, DropInv
  <2>3. dups = 0 => WireInv'
    BY <2>1, <2>2 DEF WireInv, AnswersCur, IsReply
  <2> QED
    BY <1>0, <2>1, <2>2, <2>3
<1>13. CASE RxEnd \/ Stop
  <2>1. UNCHANGED <<callVars, queue, tx, cur, got, abandoned, answered,
                    dups, toStub, inbox, fromStub, phase>>
    BY <1>13 DEF RxEnd, Stop, txVars, stubVars
  <2> QED
    BY <1>0, <2>1
<1>14. CASE StubAnswer
  <2> DEFINE cmd == Head(toStub)
  <2> PICK name \in Answers(cmd.op), twice \in BOOLEAN :
        LET reply == [name |-> name, cmd |-> cmd]
        IN /\ twice => dups < MaxDup
           /\ dups' = IF twice THEN dups + 1 ELSE dups
           /\ fromStub' = IF twice THEN Append(Append(fromStub, reply), reply)
                                   ELSE Append(fromStub, reply)
           /\ answered' = [answered EXCEPT ![cmd.caller] = name]
           /\ running' = (running \/ (cmd.op = "cont" /\ name = "OK"))
    BY <1>14 DEF StubAnswer
  <2> DEFINE reply == [name |-> name, cmd |-> cmd]
  <2>1. /\ toStub # <<>> /\ cmd = toStub[1] /\ cmd \in Commands
        /\ toStub' = Tail(toStub) /\ Len(toStub') = Len(toStub) - 1
        /\ Len(toStub) \in Nat \ {0}
        /\ UNCHANGED <<callVars, queue, tx, cur, got, abandoned, inbox, phase>>
    BY <1>14, HeadTail DEF StubAnswer, TypeOK, QueueTypes, txVars
  <2>2. dups' = 0 => dups = 0 /\ fromStub' = Append(fromStub, reply)
    BY DEF TypeOK, StubTypes
  <2>3. dups' >= dups /\ dups \in Nat /\ dups' \in Nat
    BY DEF TypeOK, StubTypes
  <2>4. NoneAbandoned'
    <3>1. dups > 0 => dups' > 0
      BY <2>3
    <3> QED
      BY <2>1, <3>1 DEF NoneAbandoned
  <2>5. dups = 0 => /\ cmd = cur /\ tx \in {"await", "dead"} /\ Pending(cur)
                    /\ inbox = <<>> /\ Len(toStub) = 1
                    /\ \A i \in DOMAIN fromStub : ~IsReply(fromStub[i])
    <3> SUFFICES ASSUME dups = 0
                 PROVE  /\ cmd = cur /\ tx \in {"await", "dead"} /\ Pending(cur)
                        /\ inbox = <<>> /\ Len(toStub) = 1
                        /\ \A i \in DOMAIN fromStub : ~IsReply(fromStub[i])
      OBVIOUS
    <3>1. cmd = cur /\ tx \in {"await", "dead"}
      BY <2>1 DEF WireInv
    <3>2. Pending(cur)
      BY <3>1 DEF CurInv, Busy
    <3>3. /\ inbox = <<>> /\ Len(toStub) <= 1
          /\ \A i \in DOMAIN fromStub : ~IsReply(fromStub[i])
      BY <2>1 DEF OneInFlight
    <3>4. Len(toStub) = 1
      <4>1. Len(toStub) \in Nat \ {0}
        BY <2>1
      <4>2. Len(toStub) <= 1
        BY <3>3
      <4> HIDE DEF cmd, reply
      <4> QED
        BY <4>1, <4>2, AtMostOne
    <3> QED
      BY <3>1, <3>2, <3>3, <3>4
  <2>6. dups = 0 => toStub' = <<>>
    BY <2>1, <2>5, TailOfOne DEF TypeOK, QueueTypes
  <2>7. /\ reply \in Messages /\ name \in ReplyNames
        /\ answered'[cmd.caller] = name
        /\ \A c \in Callers \ {cmd.caller} : answered'[c] = answered[c]
    BY <2>1, AnswersAreReplies DEF Messages, Commands, TypeOK, StubTypes
  <2>8. dups' = 0 =>
          \A i \in DOMAIN fromStub' :
            \/ i \in DOMAIN fromStub /\ fromStub'[i] = fromStub[i]
            \/ i = Len(fromStub) + 1 /\ fromStub'[i] = reply
    BY <2>2, <2>7, AppendOne DEF TypeOK, QueueTypes
  <2>9. dups' = 0 =>
          \A i \in DOMAIN fromStub' :
            IsReply(fromStub'[i]) => i = Len(fromStub) + 1 /\ fromStub'[i] = reply
    BY <2>2, <2>5, <2>8
  <2>10. ReplyRouted'
    <3> SUFFICES ASSUME dups' = 0, NEW c \in Callers, ref[c] # NoMessage
                 PROVE  /\ ref[c].cmd = Current(c)
                        /\ ref[c].name = answered'[c]
      BY <2>1 DEF ReplyRouted, Current, callVars
    <3>1. c # cmd.caller
      BY <2>2, <2>5 DEF Pending
    <3> QED
      BY <2>2, <2>7, <3>1 DEF ReplyRouted
  <2>11. OneInFlight'
    <3> SUFFICES ASSUME dups' = 0 PROVE OneInFlight'
      BY DEF OneInFlight
    <3>1. toStub' = <<>> /\ inbox' = <<>> /\ Len(toStub') <= 1 /\ Len(inbox') <= 1
      BY <2>1, <2>2, <2>5, <2>6 DEF OneInFlight
    <3>2. \A i, j \in DOMAIN fromStub' :
            IsReply(fromStub'[i]) /\ IsReply(fromStub'[j]) => i = j
      BY <2>9
    <3> QED
      BY <3>1, <3>2 DEF OneInFlight, IsReply
  <2>12. dups' = 0 => WireInv'
    <3> SUFFICES ASSUME dups' = 0 PROVE WireInv'
      OBVIOUS
    <3>1. \A i \in DOMAIN queue' : answered'[queue'[i].caller] = "none"
      <4> SUFFICES ASSUME NEW i \in DOMAIN queue
                   PROVE  answered'[queue[i].caller] = "none"
        BY <2>1
      <4>1. queue[i].caller \in Callers \ {cmd.caller}
        BY <1>c, <2>2, <2>5 DEF CurInv, Busy, Commands
      <4> QED
        BY <2>2, <2>7, <4>1 DEF WireInv
    <3>2. name \in Answers(cur.op) /\ name = answered'[cur.caller]
      BY <2>2, <2>5, <2>7
    <3>3. \A i \in DOMAIN fromStub' : IsReply(fromStub'[i]) =>
            /\ fromStub'[i].cmd = cur /\ fromStub'[i].name = name
            /\ tx \in {"await", "dead"}
      BY <2>2, <2>5, <2>9
    <3>4. \A i \in DOMAIN fromStub' : IsReply(fromStub[i])' =>
            /\ tx' \in {"await", "dead"}
            /\ AnswersCur(fromStub[i])'
      BY <2>1, <3>2, <3>3 DEF AnswersCur, IsReply
    <3>5. toStub' = <<>> /\ inbox' = <<>> /\ tx' # "notify"
      BY <2>1, <2>2, <2>5, <2>6
    <3> QED
      BY <3>1, <3>4, <3>5 DEF WireInv
  <2> QED
    BY <1>0, <2>1, <2>4, <2>10, <2>11, <2>12
<1>15. CASE StubCorrupt \/ Disconnect
  <2>1. UNCHANGED <<callVars, queue, tx, cur, got, abandoned, answered,
                    dups, inbox, fromStub, phase>>
    BY <1>15 DEF StubCorrupt, Disconnect, txVars, stubVars
  <2>2. dups = 0 => toStub' = <<>>
    <3>1. CASE StubCorrupt
      BY <3>1, HeadTail, TailOfOne DEF StubCorrupt, OneInFlight, TypeOK,
                                       QueueTypes
    <3>2. CASE Disconnect
      BY <3>2 DEF Disconnect
    <3> QED
      BY <1>15, <3>1, <3>2
  <2>3. OneInFlight'
    <3>1. dups = 0 => Len(toStub') <= 1
      BY <2>2
    <3> QED
      BY <2>1, <2>2, <3>1 DEF OneInFlight, IsReply
  <2>4. dups = 0 => WireInv'
    BY <2>1, <2>2 DEF WireInv, AnswersCur, IsReply
  <2> QED
    BY <1>0, <2>1, <2>3, <2>4
<1>16. CASE TargetHalts
  <2> PICK name \in AsyncNames : fromStub' = Append(fromStub, Async(name))
    BY <1>16 DEF TargetHalts
  <2>1. UNCHANGED <<callVars, queue, tx, cur, got, abandoned, answered,
                    dups, inbox, toStub, phase>>
    BY <1>16 DEF TargetHalts, txVars
  <2>2. Async(name) \in Messages /\ ~IsReply(Async(name))
    BY NoMessageTyped DEF Async, Messages, IsReply, AsyncNames, ReplyNames
  <2>3. \A i \in DOMAIN fromStub' : IsReply(fromStub'[i]) =>
          i \in DOMAIN fromStub /\ fromStub'[i] = fromStub[i]
    BY <2>2, AppendOne DEF TypeOK, QueueTypes
  <2>4. OneInFlight'
    BY <2>1, <2>3 DEF OneInFlight, IsReply
  <2>5. dups = 0 => WireInv'
    BY <2>1, <2>3 DEF WireInv, AnswersCur, IsReply
  <2> QED
    BY <1>0, <2>1, <2>4, <2>5
<1>17. CASE UNCHANGED vars
  BY <1>0, <1>17 DEF vars, txVars, stubVars
<1> QED
  BY <1>1, <1>2, <1>3, <1>4, <1>5, <1>6, <1>7, <1>8, <1>9, <1>10, <1>11,
     <1>12, <1>13, <1>14, <1>15, <1>16, <1>17
     DEF Next, CallerStep, TxStep, RxStep

-----------------------------------------------------------------------------
(* The inductive invariant holds of every reachable state. *)
THEOREM Inductive == Spec => []IInv
BY InitInv, StepInv, PTL DEF Spec

(* Every variable keeps its type; above all, only messages whose name is    *)
(* that of a reply get into _received_synchronous_messages, whatever the    *)
(* target sends and however the wire damages it.                            *)
THEOREM TypeCorrect == Spec => []TypeOK
<1>1. IInv => TypeOK
  BY DEF IInv
<1> QED
  BY <1>1, Inductive, PTL

(* For any number of threads and calls, any schedule and any losses,        *)
(* run_send puts into the Reference of a call the stub's answer to that     *)
(* very call, unless the stub has answered some command twice.              *)
THEOREM RepliesRouted == Spec => []ReplyRouted
<1>1. IInv => ReplyRouted
  BY DEF IInv
<1> QED
  BY <1>1, Inductive, PTL

(* run_send has at most one command, or the answer to it, under way.        *)
THEOREM OneAtATime == Spec => []OneInFlight
<1>1. IInv => OneInFlight
  BY DEF IInv
<1> QED
  BY <1>1, Inductive, PTL

(* The protocol of cv.acquire, put, wait on the one side and acquire,       *)
(* notify, release on the other loses no wake-up.                           *)
THEOREM NoLostWakeup == Spec => []WaitersAccounted
<1>1. IInv => WaitersAccounted
  BY DEF IInv
<1> QED
  BY <1>1, Inductive, PTL

(* run_send gives up a caller only after the stub answered a command twice. *)
THEOREM CallersKept == Spec => []NoneAbandoned
<1>1. IInv => NoneAbandoned
  BY DEF IInv
<1> QED
  BY <1>1, Inductive, PTL

-----------------------------------------------------------------------------
(* Refinement of RemoteCalls. *)

(* Only entering, answering and leaving a method are visible there. *)
LEMMA InvisibleStep ==
  ASSUME UNCHANGED <<pc, op, answered, outcome>>
  PROVE  UNCHANGED Remote!vars
BY DEF Remote!vars, Doing, Answer

LEMMA PutRemote ==
  ASSUME TypeOK, NEW c \in Callers, NEW o \in Ops \cup {"get_register"}, Put(c, o)
  PROVE  Remote!Issue(c, o)
<1>1. /\ pc[c] = "idle" /\ pc'[c] = "put" /\ op'[c] = o
      /\ answered'[c] = "none" /\ outcome' = outcome
      /\ \A d \in Callers \ {c} : /\ pc'[d] = pc[d] /\ op'[d] = op[d]
                                  /\ answered'[d] = answered[d]
  BY DEF Put, TypeOK, CallTypes, StubTypes
<1>2. Doing' = [Doing EXCEPT ![c] = o]
  BY <1>1 DEF Doing
<1>3. Answer' = Answer
  BY <1>1 DEF Answer
<1> QED
  BY <1>1, <1>2, <1>3 DEF Remote!Issue, Doing

(* The stub answers the pending command of the send thread. *)
LEMMA AnswerRemote ==
  ASSUME IInv, StubAnswer, dups = 0, dups' = 0
  PROVE  \E c \in Callers : Remote!Perform(c)
<1> DEFINE c == cur.caller
<1>0. TypeOK /\ WireInv /\ CurInv
  BY DEF IInv
<1>1. toStub # <<>> /\ Head(toStub) = toStub[1]
  BY <1>0, HeadTail DEF StubAnswer, TypeOK, QueueTypes
<1>2. /\ Head(toStub) = cur /\ answered[c] = "none" /\ Busy
  BY <1>0, <1>1 DEF WireInv, Busy
<1>3. c \in Callers /\ pc[c] # "idle" /\ op[c] = cur.op
  BY <1>0, <1>2 DEF CurInv, Pending, Current, TypeOK, ThreadTypes, Commands
<1>4. PICK name \in Answers(cur.op) :
        answered' = [answered EXCEPT ![c] = name]
  BY <1>2 DEF StubAnswer
<1>5. UNCHANGED <<pc, op, outcome>>
  BY DEF StubAnswer, callVars
<1>6. Doing' = Doing
  BY <1>5 DEF Doing
<1>7. Answer' = [Answer EXCEPT ![c] = name]
  <2>1. \A d \in Callers : answered'[d] = IF d = c THEN name ELSE answered[d]
    BY <1>0, <1>3, <1>4 DEF TypeOK, StubTypes
  <2> QED
    BY <1>3, <1>5, <2>1 DEF Answer
<1>8. Doing[c] = cur.op /\ Answer[c] = "none"
  BY <1>2, <1>3 DEF Doing, Answer
<1>9. Doing[c] # "none"
  BY <1>0, <1>8 DEF TypeOK, ThreadTypes, Commands, Operations
<1> QED
  BY <1>3, <1>4, <1>5, <1>6, <1>7, <1>8, <1>9
     DEF Remote!Perform, Remote!Answers, Answers, Remote!ReplyOf, ReplyOf

(* A method returns only with the answer the stub gave to its command. *)
LEMMA ReturnRemote ==
  ASSUME IInv, NEW c \in Callers, Return(c), dups = 0
  PROVE  Remote!Return(c)
<1>0. TypeOK /\ CallsInv /\ ReplyRouted
  BY DEF IInv
<1>1. /\ pc[c] = "waiting" /\ notified[c] /\ pc'[c] = "idle"
      /\ outcome' = [outcome EXCEPT ![c] = Outcome(op[c], ref[c].name)]
      /\ \A d \in Callers \ {c} : pc'[d] = pc[d]
      /\ UNCHANGED <<op, answered>>
  BY <1>0 DEF Return, WaitReturns, TypeOK, CallTypes, stubVars
<1>2. ref[c].name \in ReplyNames /\ op[c] \in Operations
  BY <1>0, <1>1 DEF CallsInv
<1>3. ref[c].name = answered[c]
  BY <1>0, <1>2 DEF ReplyRouted, NoMessage, ReplyNames
<1>4. Doing[c] = op[c] /\ Answer[c] = ref[c].name
  BY <1>1, <1>3 DEF Doing, Answer
<1>5. Doing[c] # "none" /\ Answer[c] # "none"
  BY <1>2, <1>4 DEF Operations, ReplyNames
<1>6. Doing' = [Doing EXCEPT ![c] = "none"]
  BY <1>1 DEF Doing
<1>7. Answer' = [Answer EXCEPT ![c] = "none"]
  BY <1>1 DEF Answer
<1> QED
  BY <1>1, <1>4, <1>5, <1>6, <1>7
     DEF Remote!Return, Remote!Outcome, Outcome

LEMMA RemoteInit == Init => Remote!Init
BY DEF Init, Remote!Init, Doing, Answer

(* A stub that may not repeat itself does not. *)
LEMMA NoDupInit == MaxDup = 0 /\ Init => dups = 0
BY DEF Init

LEMMA NoDupStep ==
  ASSUME MaxDup = 0, dups = 0, [Next]_vars
  PROVE  dups' = 0
<1>1. CASE StubAnswer
  <2> PICK twice \in BOOLEAN : /\ twice => dups < MaxDup
                               /\ dups' = IF twice THEN dups + 1 ELSE dups
    BY <1>1 DEF StubAnswer
  <2> QED
    OBVIOUS
<1>2. CASE ~StubAnswer
  <2> USE DEF stubVars
  <2>1. CASE Construct
    BY <2>1 DEF Construct
  <2>2. ASSUME NEW c \in Clients, NEW o \in Ops, Call(c, o) PROVE dups' = dups
    BY <2>2 DEF Call
  <2>3. ASSUME NEW c \in Callers, CallerStep(c) PROVE dups' = dups
    BY <2>3 DEF CallerStep, Wait, Return
  <2>4. CASE TxStep
    BY <2>4 DEF TxStep, TxSend, TxMatch, TxUnexpected, TxNotify, TxTimeout, TxEnd
  <2>5. CASE RxStep \/ RxCorrupt
    BY <2>5 DEF RxStep, RxReply, RxState, RxIgnore, RxEnd, RxCorrupt
  <2>6. CASE Stop \/ StubCorrupt \/ TargetHalts \/ Disconnect
    BY <2>6 DEF Stop, StubCorrupt, TargetHalts, Disconnect
  <2>7. CASE UNCHANGED vars
    BY <2>7 DEF vars
  <2> QED
    BY <1>2, <2>1, <2>2, <2>3, <2>4, <2>5, <2>6, <2>7 DEF Next
<1> QED
  BY <1>1, <1>2

LEMMA RemoteStep ==
  ASSUME IInv, dups = 0, dups' = 0, [Next]_vars
  PROVE  [Remote!Next]_(Remote!vars)
<1>0. TypeOK
  BY DEF IInv
<1> USE DEF callVars, stubVars
<1>1. CASE Construct
  BY <1>1, InvisibleStep DEF Construct
<1>2. ASSUME NEW c \in Clients, NEW o \in Ops, Call(c, o)
      PROVE  Remote!Next
  <2>1. Remote!Issue(c, o)
    BY <1>0, <1>2, PutRemote DEF Call, Callers
  <2> QED
    BY <2>1 DEF Remote!Next, Callers
<1>3. ASSUME NEW c \in Callers, Wait(c)
      PROVE  UNCHANGED Remote!vars
  <2>1. /\ UNCHANGED <<op, answered, outcome>>
        /\ \A d \in Callers : pc'[d] = "idle" <=> pc[d] = "idle"
    BY <1>0, <1>3 DEF Wait, TypeOK, CallTypes
  <2> QED
    BY <2>1 DEF Remote!vars, Doing, Answer
<1>4. ASSUME NEW c \in Callers, Return(c)
      PROVE  Remote!Next
  BY <1>4, ReturnRemote DEF Remote!Next
<1>5. CASE TxStep
  BY <1>5, InvisibleStep
     DEF TxStep, TxSend, TxMatch, TxUnexpected, TxNotify, TxTimeout, TxEnd
<1>6. CASE RxState
  <2>1. Rx \in Callers /\ Put(Rx, "get_register")
    BY <1>6 DEF RxState, Callers
  <2>2. Remote!Issue(Rx, "get_register")
    BY <1>0, <2>1, PutRemote
  <2> QED
    BY <2>1, <2>2 DEF Remote!Next
<1>7. CASE RxReply \/ RxIgnore \/ RxEnd \/ RxCorrupt
  BY <1>7, InvisibleStep DEF RxReply, RxIgnore, RxEnd, RxCorrupt
<1>8. CASE Stop \/ StubCorrupt \/ TargetHalts \/ Disconnect
  BY <1>8, InvisibleStep DEF Stop, StubCorrupt, TargetHalts, Disconnect
<1>9. CASE StubAnswer
  BY <1>9, AnswerRemote DEF Remote!Next
<1>10. CASE UNCHANGED vars
  BY <1>10, InvisibleStep DEF vars
<1> QED
  BY <1>1, <1>2, <1>3, <1>4, <1>5, <1>6, <1>7, <1>8, <1>9, <1>10
     DEF Next, CallerStep, RxStep

(* If the stub answers every command at most once, the two threads, their   *)
(* queues and condition variables implement the remote calls their callers  *)
(* rely on: each is performed at most once, before it returns, and ends as  *)
(* the stub's answer to it says, whatever is lost and whoever dies.         *)
THEOREM Implements == ASSUME MaxDup = 0 PROVE Spec => RemoteSpec
<1>1. Init => Remote!Init /\ dups = 0
  BY RemoteInit, NoDupInit
<1>2. dups = 0 /\ [Next]_vars => (dups = 0)'
  BY NoDupStep
<1>3. IInv /\ dups = 0 /\ (dups = 0)' /\ [Next]_vars
        => [Remote!Next]_(Remote!vars)
  BY RemoteStep
<1> QED
  BY <1>1, <1>2, <1>3, Inductive, PTL DEF Spec, RemoteSpec, Remote!Spec
=============================================================================
