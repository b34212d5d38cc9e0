------------------------- MODULE EventDispatchProofs -------------------------
(***************************************************************************)
(* Proofs about EventDispatch, for any threads, breakpoints, keys and      *)
(* number of events: listeners are given events once and in order, miss    *)
(* one only when the list is changed behind the event thread, hear at most *)
(* one more after stop, and with GDB's numbers never hear of a hit from    *)
(* before they were set.                                                   *)
(***************************************************************************)
EXTENDS EventDispatch, SequenceTheorems, TLAPS

Setting(t) == at[t] \in {"checked", "armed"}

(* A breakpoint that is being set belongs to one thread, is not in the list *)
(* and was given nothing; nor was one that was never used.                  *)
UsersInv ==
  /\ \A t \in Threads : Setting(t) =>
       /\ on[t] \in Bkpts /\ key[on[t]] \in Keys
       /\ ~Listening(on[t]) /\ seen[on[t]] = <<>>
       /\ \A u \in Threads : Setting(u) /\ on[u] = on[t] => u = t
  /\ \A t \in Threads : at[t] \in {"waiting", "polling", "deleting"} => on[t] \in Bkpts
  /\ \A b \in Bkpts : key[b] = "none" => ~Listening(b) /\ seen[b] = <<>>

(* The listeners the iterator has not come to were not given the event.     *)
OrderInv ==
  /\ DeliveredInOrder
  /\ Dispatching =>
       /\ taken > 0
       /\ \A j \in DOMAIN listeners : j >= pos =>
            \A i \in DOMAIN seen[listeners[j]] : seen[listeners[j]][i] < taken

(* Those it has passed were, while nothing was removed behind it.           *)
RoundInv ==
  Dispatching /\ ~skewed =>
    /\ pos <= Len(listeners) + 1
    /\ \A j \in DOMAIN listeners :
         j < pos /\ Matches(listeners[j]) => Contains(seen[listeners[j]], taken)

StopInv ==
  terminating => taken <= stopAt + 1 /\ (loop = "get" => taken <= stopAt)

(* GDB's numbers: each belongs to one breakpoint, and is armed and hit only *)
(* after GDB has inserted it.                                               *)
KeysInv ==
  FreshKeys =>
    /\ \A b, c \in Bkpts : key[b] \in Keys /\ key[b] = key[c] => b = c
    /\ \A k \in armed : \E b \in Bkpts : key[b] = k /\ Armed(b)
    /\ \A n \in DOMAIN posted : posted[n] \in Keys =>
         \E b \in Bkpts : key[b] = posted[n] /\ Armed(b) /\ n > born[b]

IInv == TypeOK /\ UsersInv /\ OrderInv /\ RoundInv /\ StopInv /\ KeysInv /\ (FreshKeys => NoStaleHit)

-----------------------------------------------------------------------------
(* Sequences, element by element. *)
LEMMA Removed ==
  ASSUME NEW S, NEW s \in Seq(S), NEW i \in DOMAIN s
  PROVE  /\ RemoveAt(s, i) \in Seq(S)
         /\ Len(s) \in Nat \ {0} /\ DOMAIN s = 1 .. Len(s) /\ i \in 1 .. Len(s)
         /\ Len(RemoveAt(s, i)) = Len(s) - 1
         /\ DOMAIN RemoveAt(s, i) = 1 .. Len(s) - 1
         /\ \A j \in 1 .. Len(s) - 1 :
              RemoveAt(s, i)[j] = IF j < i THEN s[j] ELSE s[j + 1]
<1> DEFINE head == SubSeq(s, 1, i - 1)
           tail == SubSeq(s, i + 1, Len(s))
<1>1. Len(s) \in Nat \ {0} /\ DOMAIN s = 1 .. Len(s) /\ i \in 1 .. Len(s)
  BY LenProperties
<1>2. \A j \in 1 .. Len(s) : s[j] \in S
  BY ElementOfSeq
<1>3. /\ head \in Seq(S) /\ Len(head) = i - 1
      /\ \A j \in 1 .. i - 1 : head[j] = s[j]
  <2>1. 1 \in Int /\ i - 1 \in Int /\ \A j \in 1 .. i - 1 : s[j] \in S
    BY <1>1, <1>2
  <2>2. /\ head \in Seq(S)
        /\ Len(head) = IF 1 <= i - 1 THEN (i - 1) - 1 + 1 ELSE 0
        /\ \A j \in 1 .. (i - 1) - 1 + 1 : head[j] = s[1 + j - 1]
    BY <2>1, SubSeqProperties
  <2> HIDE DEF head
  <2> QED
    BY <1>1, <2>2
<1>4. /\ tail \in Seq(S) /\ Len(tail) = Len(s) - i
      /\ \A j \in 1 .. Len(s) - i : tail[j] = s[i + j]
  <2>1. i + 1 \in Int /\ Len(s) \in Int /\ \A j \in i + 1 .. Len(s) : s[j] \in S
    BY <1>1, <1>2
  <2>2. /\ tail \in Seq(S)
        /\ Len(tail) = IF i + 1 <= Len(s) THEN Len(s) - (i + 1) + 1 ELSE 0
        /\ \A j \in 1 .. Len(s) - (i + 1) + 1 : tail[j] = s[i + 1 + j - 1]
    BY <2>1, SubSeqProperties
  <2> HIDE DEF tail
  <2>3. Len(tail) = Len(s) - i
    <3>1. i \in Nat /\ Len(s) \in Nat /\ i <= Len(s)
      BY <1>1
    <3>2. CASE i + 1 <= Len(s)
      BY <2>2, <3>1, <3>2
    <3>3. CASE ~(i + 1 <= Len(s))
      <4>1. i = Len(s)
        BY <3>1, <3>3
      <4> QED
        BY <2>2, <3>1, <3>3, <4>1
    <3> QED
      BY <3>2, <3>3
  <2>4. ASSUME NEW j \in 1 .. Len(s) - i
        PROVE  tail[j] = s[i + j]
    <3>1. j \in 1 .. Len(s) - (i + 1) + 1 /\ i + 1 + j - 1 = i + j
      BY <1>1
    <3> QED
      BY <2>2, <3>1
  <2> QED
    BY <2>2, <2>3, <2>4
<1>5. RemoveAt(s, i) = head \o tail
  BY DEF RemoveAt
<1> HIDE DEF head, tail
<1>6. /\ head \o tail \in Seq(S)
      /\ Len(head \o tail) = Len(head) + Len(tail)
      /\ \A j \in 1 .. Len(head) + Len(tail) :
           (head \o tail)[j] = IF j <= Len(head) THEN head[j] ELSE tail[j - Len(head)]
  BY <1>3, <1>4, ConcatProperties, Zenon
<1>7. Len(head) + Len(tail) = Len(s) - 1
  BY <1>1, <1>3, <1>4
<1>8. ASSUME NEW j \in 1 .. Len(s) - 1
      PROVE  (head \o tail)[j] = IF j < i THEN s[j] ELSE s[j + 1]
  <2>1. CASE j < i
    <3>1. j \in 1 .. i - 1 /\ j <= Len(head)
      BY <1>1, <1>3, <2>1
    <3> QED
      BY <1>3, <1>6, <1>7, <2>1, <3>1
  <2>2. CASE ~(j < i)
    <3>1. /\ ~(j <= Len(head)) /\ j - Len(head) \in 1 .. Len(s) - i
          /\ i + (j - Len(head)) = j + 1
      BY <1>1, <1>3, <2>2
    <3> QED
      BY <1>4, <1>6, <1>7, <2>2, <3>1
  <2> QED
    BY <2>1, <2>2
<1>9. DOMAIN (head \o tail) = 1 .. Len(s) - 1
  BY <1>6, <1>7, LenProperties
<1> QED
  BY <1>1, <1>5, <1>6, <1>7, <1>8, <1>9

LEMMA Appended ==
  ASSUME NEW S, NEW s \in Seq(S), NEW e \in S
  PROVE  /\ Append(s, e) \in Seq(S)
         /\ Len(s) \in Nat /\ DOMAIN s = 1 .. Len(s)
         /\ Len(Append(s, e)) = Len(s) + 1
         /\ DOMAIN Append(s, e) = 1 .. Len(s) + 1
         /\ \A j \in 1 .. Len(s) + 1 : Append(s, e)[j] = IF j = Len(s) + 1 THEN e ELSE s[j]
<1>1. Len(s) \in Nat /\ DOMAIN s = 1 .. Len(s)
  BY LenProperties
<1>2. /\ Append(s, e) \in Seq(S)
      /\ Len(Append(s, e)) = Len(s) + 1
      /\ \A j \in 1 .. Len(s) : Append(s, e)[j] = s[j]
      /\ Append(s, e)[Len(s) + 1] = e
  BY AppendProperties
<1>3. DOMAIN Append(s, e) = 1 .. Len(s) + 1
  BY <1>2, LenProperties
<1> QED
  BY <1>1, <1>2, <1>3

LEMMA ListeningAt == \A b : Listening(b) <=> \E i \in DOMAIN listeners : listeners[i] = b
BY DEF Listening, Range

LEMMA EventKeys == /\ Keys \subseteq Events
                   /\ Events \subseteq Keys \cup {"abort"}
                   /\ "none" \notin Keys /\ "any" \notin Keys /\ "abort" \notin Keys
                   /\ EventThread \in Threads /\ Users \subseteq Threads
BY DispatchAssumption DEF Events, Threads
-----------------------------------------------------------------------------
LEMMA InitInv == Init => IInv
<1> SUFFICES ASSUME Init PROVE IInv
  OBVIOUS
<1>1. DOMAIN listeners = {} /\ \A b \in Bkpts : seen[b] = <<>> /\ key[b] = "none" /\ ~Listening(b)
  BY DEF Init, Listening, Range
<1>2. \A t \in Threads : at[t] = "idle"
  BY DEF Init
<1>3. TypeOK
  <2>1. /\ listeners \in Seq(Bkpts) /\ IsInjective(listeners)
        /\ posted \in Seq(Events) /\ Len(posted) = 0
        /\ queue \in [Bkpts -> Seq(1 .. 0)] /\ seen \in [Bkpts -> Seq(1 .. 0)]
    BY <1>1 DEF Init, IsInjective
  <2>2. /\ taken = 0 /\ stopAt = 0 /\ pos \in Nat \ {0}
        /\ taken \in 0 .. Len(posted) /\ stopAt \in 0 .. taken
        /\ born \in [Bkpts -> 0 .. Len(posted)]
    BY <2>1 DEF Init
  <2>3. queue \in [Bkpts -> Seq(1 .. taken)] /\ seen \in [Bkpts -> Seq(1 .. taken)]
    BY <2>1, <2>2
  <2>4. /\ key \in [Bkpts -> Keys \cup {"none", "any"}]
        /\ handler \in [Bkpts -> BOOLEAN]
        /\ at \in [Threads -> {"idle", "checked", "armed", "waiting", "polling", "deleting"}]
        /\ on \in [Threads -> Bkpts \cup {"none"}]
        /\ terminating \in BOOLEAN /\ skewed \in BOOLEAN
        /\ loop \in {"check", "get", "deliver", "handler", "ended"}
        /\ armed \subseteq Keys
    BY DEF Init
  <2> QED
    BY <2>1, <2>2, <2>3, <2>4 DEF TypeOK
<1>4. UsersInv
  BY <1>1, <1>2 DEF UsersInv, Setting
<1>5. OrderInv
  BY <1>1 DEF OrderInv, DeliveredInOrder, Dispatching, Init
<1>6. RoundInv /\ StopInv
  BY DEF RoundInv, StopInv, Dispatching, Init
<1>7. KeysInv
  <2>1. DOMAIN posted = {} /\ armed = {} /\ \A b \in Bkpts : key[b] \notin Keys
    BY EventKeys DEF Init
  <2> QED
    BY <2>1 DEF KeysInv
<1>8. NoStaleHit
  BY <1>1 DEF NoStaleHit
<1> QED
  BY <1>3, <1>4, <1>5, <1>6, <1>7, <1>8 DEF IInv

(* One event more, in the seen or queued events of a breakpoint. *)
LEMMA TypeOfRound ==
  ASSUME TypeOK, NEW n \in Nat, taken <= n
  PROVE  queue \in [Bkpts -> Seq(1 .. n)] /\ seen \in [Bkpts -> Seq(1 .. n)]
<1>1. taken \in Nat /\ 1 .. taken \subseteq 1 .. n
  BY LenProperties DEF TypeOK
<1>2. Seq(1 .. taken) \subseteq Seq(1 .. n)
  BY <1>1, SeqMonotonic
<1> QED
  BY <1>2 DEF TypeOK

LEMMA Numbers ==
  ASSUME TypeOK
  PROVE  /\ Len(posted) \in Nat /\ taken \in Nat /\ taken <= Len(posted)
         /\ stopAt \in Nat /\ stopAt <= taken
         /\ Len(listeners) \in Nat /\ DOMAIN listeners = 1 .. Len(listeners)
         /\ DOMAIN posted = 1 .. Len(posted)
         /\ \A j \in DOMAIN listeners : listeners[j] \in Bkpts
         /\ pos \in Nat \ {0}
BY LenProperties, ElementOfSeq DEF TypeOK

(* Joining the list at its end. *)
LEMMA Joins ==
  ASSUME TypeOK, NEW b \in Bkpts, ~Listening(b), listeners' = Append(listeners, b)
  PROVE  /\ listeners' \in Seq(Bkpts) /\ IsInjective(listeners')
         /\ Len(listeners') = Len(listeners) + 1
         /\ DOMAIN listeners' = 1 .. Len(listeners) + 1
         /\ \A j \in 1 .. Len(listeners) + 1 :
              listeners'[j] = IF j = Len(listeners) + 1 THEN b ELSE listeners[j]
         /\ \A c : Listening(c)' <=> Listening(c) \/ c = b
<1>1. listeners \in Seq(Bkpts) /\ IsInjective(listeners) /\ Len(listeners) \in Nat
      /\ DOMAIN listeners = 1 .. Len(listeners)
  BY Numbers DEF TypeOK
<1>2. /\ listeners' \in Seq(Bkpts)
      /\ Len(listeners') = Len(listeners) + 1
      /\ DOMAIN listeners' = 1 .. Len(listeners) + 1
      /\ \A j \in 1 .. Len(listeners) + 1 :
           listeners'[j] = IF j = Len(listeners) + 1 THEN b ELSE listeners[j]
  BY <1>1, Appended
<1>3. \A j \in 1 .. Len(listeners) : listeners[j] # b
  BY <1>1, ListeningAt
<1>4. IsInjective(listeners')
  BY <1>1, <1>2, <1>3 DEF IsInjective
<1>5. ASSUME NEW c
      PROVE  Listening(c)' <=> Listening(c) \/ c = b
  <2>1. Listening(c)' <=> \E i \in DOMAIN listeners' : listeners'[i] = c
    BY DEF Listening, Range
  <2>2. Listening(c) <=> \E i \in 1 .. Len(listeners) : listeners[i] = c
    BY <1>1, ListeningAt
  <2>3. Len(listeners) + 1 \in 1 .. Len(listeners) + 1 /\ 1 .. Len(listeners) \subseteq 1 .. Len(listeners) + 1
    BY <1>1
  <2>4. \A i \in 1 .. Len(listeners) + 1 : i # Len(listeners) + 1 => i \in 1 .. Len(listeners)
    BY <1>1
  <2> QED
    BY <1>1, <1>2, <2>1, <2>2, <2>3, <2>4
<1> QED
  BY <1>2, <1>4, <1>5

(* Leaving it. *)
LEMMA Leaves ==
  ASSUME TypeOK, NEW i \in DOMAIN listeners, listeners' = RemoveAt(listeners, i)
  PROVE  /\ listeners' \in Seq(Bkpts) /\ IsInjective(listeners')
         /\ Len(listeners') = Len(listeners) - 1
         /\ DOMAIN listeners' = 1 .. Len(listeners) - 1
         /\ i \in 1 .. Len(listeners)
         /\ \A j \in 1 .. Len(listeners) - 1 :
              listeners'[j] = IF j < i THEN listeners[j] ELSE listeners[j + 1]
         /\ \A c : Listening(c)' => Listening(c)
<1>1. listeners \in Seq(Bkpts) /\ IsInjective(listeners) /\ Len(listeners) \in Nat
      /\ DOMAIN listeners = 1 .. Len(listeners)
  BY Numbers DEF TypeOK
<1>2. /\ listeners' \in Seq(Bkpts)
      /\ Len(listeners') = Len(listeners) - 1
      /\ DOMAIN listeners' = 1 .. Len(listeners) - 1
      /\ i \in 1 .. Len(listeners)
      /\ \A j \in 1 .. Len(listeners) - 1 :
           listeners'[j] = IF j < i THEN listeners[j] ELSE listeners[j + 1]
  BY <1>1, Removed
<1>3. ASSUME NEW a \in 1 .. Len(listeners) - 1, NEW c \in 1 .. Len(listeners) - 1,
             listeners'[a] = listeners'[c]
      PROVE  a = c
  <2> DEFINE Old(j) == IF j < i THEN j ELSE j + 1
  <2>1. \A j \in 1 .. Len(listeners) - 1 :
          Old(j) \in 1 .. Len(listeners) /\ listeners'[j] = listeners[Old(j)]
    BY <1>1, <1>2
  <2>2. Old(a) = Old(c)
    BY <1>1, <1>3, <2>1 DEF IsInjective
  <2> QED
    BY <1>1, <1>2, <2>2
<1>4. \A c : Listening(c)' => Listening(c)
  BY <1>1, <1>2, ListeningAt DEF Listening, Range
<1> QED
  BY <1>2, <1>3, <1>4 DEF IsInjective
-----------------------------------------------------------------------------
LEMMA TypeStep ==
  ASSUME TypeOK, UsersInv, OrderInv, Next
  PROVE  TypeOK'
<1>0. /\ Len(posted) \in Nat /\ taken \in Nat /\ taken <= Len(posted)
      /\ \A b \in Bkpts : key[b] \in Keys \cup {"none", "any"}
  BY Numbers DEF TypeOK
<1>1. ASSUME NEW t \in Threads, NEW b \in Bkpts, NEW k \in Keys, SetCheck(t, b, k)
      PROVE  TypeOK'
  BY <1>1 DEF SetCheck, Go, TypeOK, loopVars
<1>2. ASSUME NEW t \in Threads, SetArm(t)
      PROVE  TypeOK'
  <2>1. on[t] \in Bkpts /\ key[on[t]] \in Keys /\ Len(posted) \in 0 .. Len(posted)
    BY <1>0, <1>2 DEF UsersInv, Setting, SetArm
  <2> QED
    BY <1>2, <2>1 DEF SetArm, Go, TypeOK, loopVars
<1>3. ASSUME NEW t \in Threads, SetRegister(t)
      PROVE  TypeOK'
  <2>1. on[t] \in Bkpts /\ ~Listening(on[t])
    BY <1>3 DEF UsersInv, Setting, SetRegister
  <2>2. listeners' \in Seq(Bkpts) /\ IsInjective(listeners')
    BY <1>3, <2>1, Joins DEF SetRegister
  <2> QED
    BY <1>3, <2>2 DEF SetRegister, Go, TypeOK, loopVars
<1>4. ASSUME NEW t \in Threads, NEW b \in Bkpts, NewWaiter(t, b)
      PROVE  TypeOK'
  <2>1. ~Listening(b)
    BY <1>4 DEF UsersInv, NewWaiter
  <2>2. listeners' \in Seq(Bkpts) /\ IsInjective(listeners')
    BY <1>4, <2>1, Joins DEF NewWaiter
  <2> QED
    BY <1>4, <2>2 DEF NewWaiter, TypeOK, loopVars, threadVars
<1>5. ASSUME NEW t \in Threads, NEW b \in Bkpts, SetHandler(t, b)
      PROVE  TypeOK'
  BY <1>5 DEF SetHandler, TypeOK, loopVars, threadVars
<1>6. ASSUME NEW t \in Threads, NEW b \in Bkpts, NEW place \in {"waiting", "polling"},
             Wait(t, b, place)
      PROVE  TypeOK'
  BY <1>6 DEF Wait, Go, TypeOK, loopVars
<1>7. ASSUME NEW t \in Threads, WaitReturns(t)
      PROVE  TypeOK'
  <2>1. on[t] \in Bkpts
    BY <1>7 DEF UsersInv, WaitReturns
  <2>2. queue[on[t]] # <<>> => Tail(queue[on[t]]) \in Seq(1 .. taken)
    BY <2>1, HeadTailProperties DEF TypeOK
  <2>3. queue' \in [Bkpts -> Seq(1 .. taken)]
    BY <1>7, <2>1, <2>2 DEF WaitReturns, TypeOK
  <2> QED
    BY <1>7, <2>3 DEF WaitReturns, Go, TypeOK, loopVars
<1>8. ASSUME NEW t \in Threads, NEW b \in Bkpts, Unregister(t, b)
      PROVE  TypeOK'
  <2>1. PICK i \in DOMAIN listeners :
          /\ listeners' = RemoveAt(listeners, i)
          /\ skewed' = (skewed \/ (Dispatching /\ i < pos))
    BY <1>8 DEF Unregister
  <2>2. listeners' \in Seq(Bkpts) /\ IsInjective(listeners')
    BY <2>1, Leaves
  <2>3. skewed' \in BOOLEAN
    BY <2>1 DEF TypeOK
  <2> QED
    BY <1>8, <2>2, <2>3 DEF Unregister, Go, TypeOK, loopVars
<1>9. ASSUME NEW t \in Threads, Clear(t)
      PROVE  TypeOK'
  BY <1>9 DEF Clear, Go, TypeOK, loopVars
<1>10. ASSUME NEW e \in Events, Post(e)
       PROVE  TypeOK'
  <2>1. posted' \in Seq(Events) /\ Len(posted') = Len(posted) + 1
    BY <1>10, Appended DEF Post, TypeOK
  <2>2. taken \in 0 .. Len(posted') /\ 0 .. Len(posted) \subseteq 0 .. Len(posted')
    BY <1>0, <2>1
  <2>3. born \in [Bkpts -> 0 .. Len(posted')]
    BY <2>2 DEF TypeOK
  <2> QED
    BY <1>10, <2>1, <2>2, <2>3 DEF Post, TypeOK, loopVars, threadVars
<1>11. CASE LoopStep \/ HandlerReturns \/ RoundEnds
  BY <1>11 DEF LoopStep, LoopCheck, HandlerReturns, RoundEnds, TypeOK, threadVars
<1>12. CASE Take
  <2>1. taken + 1 \in 0 .. Len(posted) /\ taken + 1 \in Nat /\ 1 \in Nat \ {0}
    BY <1>0, <1>12 DEF Take, EventQueued
  <2>2. queue \in [Bkpts -> Seq(1 .. taken + 1)] /\ seen \in [Bkpts -> Seq(1 .. taken + 1)]
    BY <1>0, <2>1, TypeOfRound
  <2>3. stopAt \in 0 .. taken + 1
    BY <1>0, Numbers
  <2> QED
    BY <1>12, <2>1, <2>2, <2>3 DEF Take, TypeOK, threadVars
<1>13. CASE Deliver
  <2> DEFINE b == listeners[pos]
  <2>1. b \in Bkpts /\ pos + 1 \in Nat \ {0}
    BY <1>13, Numbers DEF Deliver
  <2>2. CASE ~Matches(b)
    BY <1>13, <2>1, <2>2 DEF Deliver, Advanced, TypeOK, threadVars
  <2>3. CASE Matches(b)
    <3>1. taken \in 1 .. taken
      <4>1. taken # 0
        BY <1>13 DEF Deliver, Dispatching, OrderInv
      <4> QED
        BY <1>0, <4>1
    <3>2. \A q \in Seq(1 .. taken) : Append(q, taken) \in Seq(1 .. taken)
      BY <3>1, Appended
    <3>3. /\ seen' = [seen EXCEPT ![b] = Append(seen[b], taken)]
          /\ queue' \in {queue, [queue EXCEPT ![b] = Append(queue[b], taken)]}
      BY <1>13, <2>3 DEF Deliver
    <3>4. /\ seen \in [Bkpts -> Seq(1 .. taken)] /\ queue \in [Bkpts -> Seq(1 .. taken)]
          /\ Append(seen[b], taken) \in Seq(1 .. taken)
          /\ Append(queue[b], taken) \in Seq(1 .. taken)
      BY <2>1, <3>2 DEF TypeOK
    <3>5. seen' \in [Bkpts -> Seq(1 .. taken)] /\ queue' \in [Bkpts -> Seq(1 .. taken)]
      BY <2>1, <3>3, <3>4
    <3>6. loop' \in {"deliver", "handler"}
      BY <1>13, <2>3 DEF Deliver
    <3> QED
      BY <1>13, <2>1, <3>5, <3>6 DEF Deliver, Advanced, TypeOK, threadVars
  <2> QED
    BY <2>2, <2>3
<1>14. CASE Stop
  <2>1. taken \in 0 .. taken
    BY <1>0
  <2> QED
    BY <1>14, <2>1 DEF Stop, TypeOK, loopVars, threadVars
<1> QED
  BY <1>1, <1>2, <1>3, <1>4, <1>5, <1>6, <1>7, <1>8, <1>9, <1>10, <1>11, <1>12, <1>13, <1>14
     DEF Next, UserStep, EventStep

LEMMA UsersStep ==
  ASSUME TypeOK, UsersInv, Next
  PROVE  UsersInv'
<1>0. /\ at \in [Threads -> {"idle", "checked", "armed", "waiting", "polling", "deleting"}]
      /\ on \in [Threads -> Bkpts \cup {"none"}]
      /\ key \in [Bkpts -> Keys \cup {"none", "any"}]
      /\ "none" \notin Keys /\ "any" \notin Keys
  BY EventKeys DEF TypeOK
<1>1. ASSUME NEW t \in Threads, NEW b \in Bkpts, NEW k \in Keys, SetCheck(t, b, k)
      PROVE  UsersInv'
  <2>1. /\ key[b] = "none" /\ ~Listening(b) /\ seen[b] = <<>>
        /\ key' = [key EXCEPT ![b] = k]
        /\ at' = [at EXCEPT ![t] = "checked"] /\ on' = [on EXCEPT ![t] = b]
        /\ at[t] = "idle" /\ UNCHANGED <<listeners, seen>>
    BY <1>1 DEF SetCheck, Go, UsersInv, Free
  <2>2. \A c : Listening(c)' <=> Listening(c)
    BY <2>1 DEF Listening
  <2>3. \A u \in Threads : Setting(u) => on[u] # b
    BY <1>0, <2>1 DEF UsersInv
  <2> QED
    BY <1>0, <2>1, <2>2, <2>3 DEF UsersInv, Setting
<1>2. ASSUME NEW t \in Threads, SetArm(t)
      PROVE  UsersInv'
  <2>1. /\ at' = [at EXCEPT ![t] = "armed"] /\ on' = on
        /\ at[t] = "checked" /\ UNCHANGED <<listeners, seen, key>>
    BY <1>0, <1>2 DEF SetArm, Go
  <2>2. \A c : Listening(c)' <=> Listening(c)
    BY <2>1 DEF Listening
  <2> QED
    BY <1>0, <2>1, <2>2 DEF UsersInv, Setting
<1>3. ASSUME NEW t \in Threads, SetRegister(t)
      PROVE  UsersInv'
  <2>1. on[t] \in Bkpts /\ ~Listening(on[t]) /\ key[on[t]] # "none"
    BY <1>0, <1>3 DEF UsersInv, Setting, SetRegister
  <2>2. \A c : Listening(c)' <=> Listening(c) \/ c = on[t]
    BY <1>3, <2>1, Joins DEF SetRegister
  <2>3. /\ at' = [at EXCEPT ![t] = "idle"] /\ on' = [on EXCEPT ![t] = "none"]
        /\ at[t] = "armed" /\ UNCHANGED <<seen, key>>
    BY <1>3 DEF SetRegister, Go
  <2> QED
    BY <1>0, <2>1, <2>2, <2>3 DEF UsersInv, Setting
<1>4. ASSUME NEW t \in Threads, NEW b \in Bkpts, NewWaiter(t, b)
      PROVE  UsersInv'
  <2>1. key[b] = "none" /\ ~Listening(b)
        /\ key' = [key EXCEPT ![b] = "any"] /\ UNCHANGED <<seen, at, on>>
    BY <1>4 DEF UsersInv, NewWaiter, threadVars
  <2>2. \A c : Listening(c)' <=> Listening(c) \/ c = b
    BY <1>4, <2>1, Joins DEF NewWaiter
  <2>3. \A u \in Threads : Setting(u) => on[u] # b
    BY <1>0, <2>1 DEF UsersInv
  <2> QED
    BY <1>0, <2>1, <2>2, <2>3 DEF UsersInv, Setting
(* A thread is idle or begins or ends something that is not a setting.      *)
<1>5. ASSUME UNCHANGED <<key, seen>>, \A c : Listening(c)' => Listening(c),
             \/ UNCHANGED <<at, on>>
             \/ \E t \in Threads, b \in Bkpts, place \in {"waiting", "polling", "deleting"} :
                  /\ at' = [at EXCEPT ![t] = place] /\ on' = [on EXCEPT ![t] = b]
             \/ \E t \in Threads :
                  /\ at' = [at EXCEPT ![t] = "idle"] /\ on' = [on EXCEPT ![t] = "none"]
      PROVE  UsersInv'
  <2>1. CASE UNCHANGED <<at, on>>
    BY <1>5, <2>1 DEF UsersInv, Setting
  <2>2. ASSUME NEW t \in Threads, NEW b \in Bkpts, NEW place \in {"waiting", "polling", "deleting"},
               at' = [at EXCEPT ![t] = place], on' = [on EXCEPT ![t] = b]
        PROVE  UsersInv'
    BY <1>0, <1>5, <2>2 DEF UsersInv, Setting
  <2>3. ASSUME NEW t \in Threads,
               at' = [at EXCEPT ![t] = "idle"], on' = [on EXCEPT ![t] = "none"]
        PROVE  UsersInv'
    BY <1>0, <1>5, <2>3 DEF UsersInv, Setting
  <2> QED
    BY <1>5, <2>1, <2>2, <2>3
<1>6. ASSUME NEW t \in Threads, NEW b \in Bkpts, NEW place \in {"waiting", "polling"},
             Wait(t, b, place)
      PROVE  UsersInv'
  BY <1>5, <1>6 DEF Wait, Go, Listening
<1>7. ASSUME NEW t \in Threads, WaitReturns(t) \/ Clear(t)
      PROVE  UsersInv'
  BY <1>5, <1>7 DEF WaitReturns, Clear, Go, Listening
<1>8. ASSUME NEW t \in Threads, NEW b \in Bkpts, Unregister(t, b)
      PROVE  UsersInv'
  <2>1. \A c : Listening(c)' => Listening(c)
    BY <1>8, Leaves DEF Unregister
  <2> QED
    BY <1>5, <1>8, <2>1 DEF Unregister, Go
<1>9. CASE \/ \E t \in Threads, b \in Bkpts : SetHandler(t, b)
           \/ \E e \in Events : Post(e)
           \/ LoopStep \/ HandlerReturns \/ RoundEnds \/ Take \/ Stop
  BY <1>5, <1>9 DEF SetHandler, Post, LoopStep, HandlerReturns, RoundEnds, Take, Stop,
     threadVars, Listening
<1>10. CASE Deliver
  <2> DEFINE b == listeners[pos]
  <2>1. Listening(b) /\ b \in Bkpts
    BY <1>10, Numbers, ListeningAt DEF Deliver
  <2>2. \A c \in Bkpts : c # b => seen'[c] = seen[c]
    BY <1>10, <2>1 DEF Deliver, TypeOK
  <2>3. UNCHANGED <<key, at, on, listeners>> /\ \A c : Listening(c)' <=> Listening(c)
    BY <1>10 DEF Deliver, threadVars, Listening
  <2> HIDE DEF b
  <2> QED
    BY <1>0, <2>1, <2>2, <2>3 DEF UsersInv, Setting
<1> QED
  BY <1>1, <1>2, <1>3, <1>4, <1>6, <1>7, <1>8, <1>9, <1>10 DEF Next, UserStep, EventStep

(* What Deliver does to the lists of events seen.                           *)
LEMMA Delivered ==
  ASSUME TypeOK, OrderInv, Deliver
  PROVE  /\ Dispatching /\ Dispatching' /\ pos' = pos + 1
         /\ pos \in DOMAIN listeners /\ listeners[pos] \in Bkpts
         /\ UNCHANGED <<listeners, taken, posted, key, born, skewed, armed>>
         /\ \A c \in Bkpts : c # listeners[pos] => seen'[c] = seen[c]
         /\ ~Matches(listeners[pos]) => seen' = seen
         /\ Matches(listeners[pos]) =>
              /\ DOMAIN seen[listeners[pos]] = 1 .. Len(seen[listeners[pos]])
              /\ Len(seen[listeners[pos]]) \in Nat
              /\ Len(seen'[listeners[pos]]) = Len(seen[listeners[pos]]) + 1
              /\ DOMAIN seen'[listeners[pos]] = 1 .. Len(seen[listeners[pos]]) + 1
              /\ \A i \in 1 .. Len(seen[listeners[pos]]) + 1 :
                   seen'[listeners[pos]][i] = IF i = Len(seen[listeners[pos]]) + 1
                                              THEN taken ELSE seen[listeners[pos]][i]
<1> DEFINE b == listeners[pos]
<1>1. /\ pos \in DOMAIN listeners /\ b \in Bkpts /\ taken \in 1 .. taken
      /\ pos' = pos + 1 /\ Dispatching /\ Dispatching'
      /\ UNCHANGED <<listeners, taken, posted, key, born, skewed, armed>>
  BY Numbers DEF Deliver, OrderInv, Dispatching, Advanced
<1>2. /\ Matches(b) => seen' = [seen EXCEPT ![b] = Append(seen[b], taken)]
      /\ ~Matches(b) => seen' = seen
  BY DEF Deliver
<1>3. seen \in [Bkpts -> Seq(1 .. taken)] /\ seen[b] \in Seq(1 .. taken)
  BY <1>1 DEF TypeOK
<1> HIDE DEF b
<1>4. /\ Len(seen[b]) \in Nat /\ DOMAIN seen[b] = 1 .. Len(seen[b])
      /\ Len(Append(seen[b], taken)) = Len(seen[b]) + 1
      /\ DOMAIN Append(seen[b], taken) = 1 .. Len(seen[b]) + 1
      /\ \A i \in 1 .. Len(seen[b]) + 1 :
           Append(seen[b], taken)[i] = IF i = Len(seen[b]) + 1 THEN taken ELSE seen[b][i]
  BY <1>1, <1>3, Appended
<1>5. \A c \in Bkpts : c # b => seen'[c] = seen[c]
  BY <1>1, <1>2, <1>3
<1>6. Matches(b) => seen'[b] = Append(seen[b], taken)
  BY <1>1, <1>2, <1>3
<1> QED
  BY <1>1, <1>2, <1>4, <1>5, <1>6 DEF b

LEMMA SeenBound ==
  ASSUME TypeOK, NEW b \in Bkpts
  PROVE  /\ Len(seen[b]) \in Nat /\ DOMAIN seen[b] = 1 .. Len(seen[b])
         /\ \A i \in DOMAIN seen[b] : seen[b][i] \in 1 .. taken
BY LenProperties, ElementOfSeq DEF TypeOK

LEMMA OrderStep ==
  ASSUME TypeOK, UsersInv, OrderInv, Next
  PROVE  OrderInv'
<1>0. /\ taken \in Nat /\ pos \in Nat \ {0} /\ DOMAIN listeners = 1 .. Len(listeners)
      /\ Len(listeners) \in Nat
      /\ \A j \in DOMAIN listeners : listeners[j] \in Bkpts
  BY Numbers
<1>1. CASE UNCHANGED <<listeners, taken, pos, seen>> /\ (Dispatching' => Dispatching)
  BY <1>1 DEF OrderInv, DeliveredInOrder
(* A breakpoint that joins the list was given nothing.                      *)
<1>2. ASSUME NEW b \in Bkpts, ~Listening(b), seen[b] = <<>>,
             listeners' = Append(listeners, b), UNCHANGED <<taken, pos, seen, loop>>
      PROVE  OrderInv'
  <2>1. \A j \in DOMAIN listeners' : listeners'[j] = b \/ (j \in DOMAIN listeners /\ listeners'[j] = listeners[j])
    <3>1. /\ DOMAIN listeners' = 1 .. Len(listeners) + 1
          /\ \A j \in 1 .. Len(listeners) + 1 :
               listeners'[j] = IF j = Len(listeners) + 1 THEN b ELSE listeners[j]
      BY <1>2, Joins
    <3>2. \A j \in 1 .. Len(listeners) + 1 : j = Len(listeners) + 1 \/ j \in 1 .. Len(listeners)
      BY <1>0
    <3>3. ASSUME NEW j \in 1 .. Len(listeners) + 1
          PROVE  listeners'[j] = b \/ (j \in DOMAIN listeners /\ listeners'[j] = listeners[j])
      <4>1. CASE j = Len(listeners) + 1
        BY <3>1, <3>3, <4>1
      <4>2. CASE j # Len(listeners) + 1
        <5>1. j \in DOMAIN listeners
          BY <1>0, <3>2, <3>3, <4>2
        <5> QED
          BY <3>1, <3>3, <4>2, <5>1
      <4> QED
        BY <4>1, <4>2
    <3> QED
      BY <3>1, <3>3
  <2>2. DOMAIN seen[b] = {}
    BY <1>2
  <2> QED
    BY <1>2, <2>1, <2>2 DEF OrderInv, DeliveredInOrder, Dispatching
<1>3. ASSUME NEW t \in Threads, SetRegister(t)
      PROVE  OrderInv'
  <2>1. on[t] \in Bkpts /\ ~Listening(on[t]) /\ seen[on[t]] = <<>>
    BY <1>3 DEF UsersInv, Setting, SetRegister
  <2> QED
    BY <1>2, <1>3, <2>1 DEF SetRegister, loopVars
<1>4. ASSUME NEW t \in Threads, NEW b \in Bkpts, NewWaiter(t, b)
      PROVE  OrderInv'
  <2>1. ~Listening(b) /\ seen[b] = <<>>
    BY <1>4 DEF UsersInv, NewWaiter
  <2> QED
    BY <1>2, <1>4, <2>1 DEF NewWaiter, loopVars
<1>5. ASSUME NEW t \in Threads, NEW b \in Bkpts, Unregister(t, b)
      PROVE  OrderInv'
  <2>1. PICK i \in DOMAIN listeners : listeners' = RemoveAt(listeners, i)
    BY <1>5 DEF Unregister
  <2>2. UNCHANGED <<taken, pos, seen, loop>>
    BY <1>5 DEF Unregister, loopVars
  <2>3. ASSUME NEW j \in DOMAIN listeners', j >= pos
        PROVE  \E k \in DOMAIN listeners : k >= pos /\ listeners'[j] = listeners[k]
    <3>1. j \in 1 .. Len(listeners) - 1
          /\ listeners'[j] = IF j < i THEN listeners[j] ELSE listeners[j + 1]
      BY <2>1, Leaves
    <3>2. j \in DOMAIN listeners /\ j + 1 \in DOMAIN listeners /\ j + 1 >= pos
      BY <1>0, <2>3, <3>1
    <3> QED
      BY <2>3, <3>1, <3>2
  <2> QED
    BY <2>2, <2>3 DEF OrderInv, DeliveredInOrder, Dispatching
<1>6. CASE Take
  <2>1. taken' = taken + 1 /\ UNCHANGED <<seen, listeners>>
    BY <1>6 DEF Take
  <2>2. \A b \in Bkpts : \A i \in DOMAIN seen[b] : seen[b][i] < taken + 1
    BY <1>0, SeenBound
  <2> QED
    BY <1>0, <2>1, <2>2 DEF OrderInv, DeliveredInOrder
<1>7. CASE Deliver
  <2> DEFINE b == listeners[pos]
  <2>1. /\ Dispatching /\ taken > 0 /\ pos' = pos + 1 /\ UNCHANGED <<listeners, taken>>
        /\ pos \in DOMAIN listeners /\ b \in Bkpts
        /\ \A c \in Bkpts : c # b => seen'[c] = seen[c]
    BY <1>7, Delivered DEF OrderInv
  <2>2. \A i \in DOMAIN seen[b] : seen[b][i] < taken
    BY <1>0, <2>1 DEF OrderInv
  <2>3. \A j \in DOMAIN listeners : j >= pos + 1 => listeners[j] # b
    <3>1. \A j \in DOMAIN listeners : listeners[j] = listeners[pos] => j = pos
      BY <2>1 DEF TypeOK, IsInjective
    <3>2. \A j \in DOMAIN listeners : j >= pos + 1 => j # pos
      BY <1>0
    <3> QED
      BY <3>1, <3>2
  <2>4. \A j \in DOMAIN listeners : j >= pos + 1 =>
          \A i \in DOMAIN seen'[listeners[j]] : seen'[listeners[j]][i] < taken
    BY <1>0, <2>1, <2>3 DEF OrderInv
  <2>5. ASSUME NEW i \in DOMAIN seen'[b], NEW j \in DOMAIN seen'[b], i < j
        PROVE  seen'[b][i] < seen'[b][j]
    <3>1. CASE ~Matches(b)
      BY <1>7, <2>1, <2>5, <3>1, Delivered DEF OrderInv, DeliveredInOrder
    <3>2. CASE Matches(b)
      <4> DEFINE n == Len(seen[b])
      <4>1. /\ n \in Nat /\ DOMAIN seen[b] = 1 .. n /\ DOMAIN seen'[b] = 1 .. n + 1
            /\ \A k \in 1 .. n + 1 : seen'[b][k] = IF k = n + 1 THEN taken ELSE seen[b][k]
        BY <1>7, <3>2, Delivered
      <4> HIDE DEF n, b
      <4>2. i \in 1 .. n /\ i # n + 1
        BY <2>5, <4>1
      <4>3. CASE j = n + 1
        BY <2>2, <4>1, <4>2, <4>3
      <4>4. CASE j # n + 1
        <5>1. j \in 1 .. n
          BY <4>1, <4>4
        <5> QED
          BY <2>1, <2>5, <4>1, <4>2, <4>4, <5>1 DEF OrderInv, DeliveredInOrder
      <4> QED
        BY <4>3, <4>4
    <3> QED
      BY <3>1, <3>2
  <2>6. DeliveredInOrder'
    BY <2>1, <2>5 DEF OrderInv, DeliveredInOrder
  <2> QED
    BY <2>1, <2>4, <2>6 DEF OrderInv
<1>8. ASSUME NEW t \in Threads, UserStep(t)
      PROVE  OrderInv'
  <2>1. \/ SetRegister(t)
        \/ \E b \in Bkpts : NewWaiter(t, b) \/ Unregister(t, b)
        \/ UNCHANGED <<listeners, taken, pos, seen, loop>>
    BY <1>8 DEF UserStep, SetCheck, SetArm, SetHandler, Wait, WaitReturns, Clear, loopVars
  <2> QED
    BY <1>1, <1>3, <1>4, <1>5, <2>1 DEF Dispatching
<1>9. CASE \/ \E e \in Events : Post(e)
           \/ LoopStep \/ HandlerReturns \/ RoundEnds \/ Stop
  BY <1>1, <1>9 DEF Post, LoopStep, LoopCheck, HandlerReturns, RoundEnds, Stop, loopVars, Dispatching
<1> QED
  BY <1>6, <1>7, <1>8, <1>9 DEF Next, EventStep

LEMMA StopStep ==
  ASSUME TypeOK, StopInv, Next
  PROVE  StopInv'
<1>0. taken \in Nat /\ stopAt \in Nat
  BY Numbers
<1>1. CASE UNCHANGED <<terminating, taken, stopAt>> /\ (loop' = "get" => loop = "get")
  BY <1>1 DEF StopInv
<1>2. ASSUME NEW t \in Threads, UserStep(t)
      PROVE  StopInv'
  BY <1>1, <1>2 DEF UserStep, SetCheck, SetArm, SetRegister, NewWaiter, SetHandler, Wait,
     WaitReturns, Unregister, Clear, loopVars
<1>3. CASE \/ \E e \in Events : Post(e)
           \/ Deliver \/ HandlerReturns \/ RoundEnds
  BY <1>1, <1>3 DEF Post, Deliver, HandlerReturns, RoundEnds, loopVars
<1>4. CASE LoopStep
  BY <1>4 DEF LoopStep, LoopCheck, StopInv
<1>5. CASE Take
  BY <1>0, <1>5 DEF Take, StopInv
<1>6. CASE Stop
  BY <1>0, <1>6 DEF Stop, StopInv, loopVars
<1> QED
  BY <1>2, <1>3, <1>4, <1>5, <1>6 DEF Next, EventStep

LEMMA RoundStep ==
  ASSUME TypeOK, UsersInv, OrderInv, RoundInv, Next
  PROVE  RoundInv'
<1>0. /\ taken \in Nat /\ taken <= Len(posted) /\ pos \in Nat \ {0}
      /\ DOMAIN listeners = 1 .. Len(listeners) /\ Len(listeners) \in Nat
      /\ Len(posted) \in Nat
      /\ \A j \in DOMAIN listeners : listeners[j] \in Bkpts /\ Listening(listeners[j])
  BY Numbers, ListeningAt
<1>1. CASE UNCHANGED <<listeners, taken, pos, seen, key, posted, skewed>> /\ (Dispatching' => Dispatching)
  <2>1. \A b : Matches(b)' <=> Matches(b)
    BY <1>1 DEF Matches, Event
  <2> QED
    BY <1>1, <2>1 DEF RoundInv
<1>2. ASSUME NEW b \in Bkpts, ~Listening(b),
             listeners' = Append(listeners, b), UNCHANGED <<taken, pos, seen, loop, posted, skewed>>,
             \A c \in Bkpts : Listening(c) => key'[c] = key[c]
      PROVE  RoundInv'
  <2>1. /\ DOMAIN listeners' = 1 .. Len(listeners) + 1 /\ Len(listeners') = Len(listeners) + 1
        /\ \A j \in 1 .. Len(listeners) + 1 :
             listeners'[j] = IF j = Len(listeners) + 1 THEN b ELSE listeners[j]
    BY <1>2, Joins
  <2>2. \A j \in DOMAIN listeners : Matches(listeners[j])' <=> Matches(listeners[j])
    BY <1>0, <1>2 DEF Matches, Event
  <2>3. ASSUME Dispatching, ~skewed, NEW j \in DOMAIN listeners', j < pos
        PROVE  j \in DOMAIN listeners /\ listeners'[j] = listeners[j]
    <3>1. pos <= Len(listeners) + 1
      BY <2>3 DEF RoundInv
    <3>2. j \in 1 .. Len(listeners) /\ j # Len(listeners) + 1
      BY <1>0, <2>1, <2>3, <3>1
    <3> QED
      BY <1>0, <2>1, <3>2
  <2>4. ASSUME Dispatching, ~skewed
        PROVE  pos <= Len(listeners') + 1
    BY <1>0, <2>1, <2>4 DEF RoundInv
  <2>5. ASSUME Dispatching, ~skewed, NEW j \in DOMAIN listeners', j < pos,
               Matches(listeners[j])'
        PROVE  Contains(seen[listeners'[j]], taken)
    <3>1. j \in DOMAIN listeners /\ listeners'[j] = listeners[j]
      BY <2>3, <2>5
    <3>2. Matches(listeners[j])
      BY <1>0, <1>2, <2>5, <3>1 DEF Matches, Event
    <3> QED
      BY <2>5, <3>1, <3>2 DEF RoundInv
  <2> QED
    BY <1>2, <2>4, <2>5 DEF RoundInv, Dispatching
<1>3. ASSUME NEW t \in Threads, SetRegister(t)
      PROVE  RoundInv'
  <2>1. on[t] \in Bkpts /\ ~Listening(on[t])
    BY <1>3 DEF UsersInv, Setting, SetRegister
  <2> QED
    BY <1>2, <1>3, <2>1 DEF SetRegister, loopVars
<1>4. ASSUME NEW t \in Threads, NEW b \in Bkpts, NewWaiter(t, b)
      PROVE  RoundInv'
  <2>1. ~Listening(b)
    BY <1>4 DEF UsersInv, NewWaiter
  <2>2. \A c \in Bkpts : Listening(c) => key'[c] = key[c]
    BY <1>4, <2>1 DEF NewWaiter, TypeOK
  <2> QED
    BY <1>2, <1>4, <2>1, <2>2 DEF NewWaiter, loopVars
<1>5. ASSUME NEW t \in Threads, NEW b \in Bkpts, Unregister(t, b)
      PROVE  RoundInv'
  <2>1. PICK i \in DOMAIN listeners :
          /\ listeners' = RemoveAt(listeners, i)
          /\ skewed' = (skewed \/ (Dispatching /\ i < pos))
    BY <1>5 DEF Unregister
  <2>2. UNCHANGED <<taken, pos, seen, loop, key, posted>>
    BY <1>5 DEF Unregister, loopVars
  <2>3. /\ Len(listeners') = Len(listeners) - 1 /\ DOMAIN listeners' = 1 .. Len(listeners) - 1
        /\ \A j \in 1 .. Len(listeners) - 1 :
             listeners'[j] = IF j < i THEN listeners[j] ELSE listeners[j + 1]
    BY <2>1, Leaves
  <2>4. ASSUME Dispatching, ~skewed'
        PROVE  ~skewed /\ ~(i < pos) /\ pos <= Len(listeners') + 1
    <3>1. ~skewed /\ ~(i < pos)
      BY <2>1, <2>4
    <3>2. i \in 1 .. Len(listeners)
      BY <1>0
    <3>3. pos <= Len(listeners') + 1
      BY <1>0, <2>3, <3>1, <3>2
    <3> QED
      BY <3>1, <3>3
  <2>5. ASSUME Dispatching, ~skewed', NEW j \in DOMAIN listeners', j < pos
        PROVE  j \in DOMAIN listeners /\ listeners'[j] = listeners[j]
    BY <1>0, <2>1, <2>3, <2>4, <2>5
  <2>6. ASSUME Dispatching, ~skewed', NEW j \in DOMAIN listeners', j < pos,
               Matches(listeners[j])'
        PROVE  Contains(seen[listeners'[j]], taken)
    <3>1. j \in DOMAIN listeners /\ listeners'[j] = listeners[j] /\ ~skewed
      BY <2>4, <2>5, <2>6
    <3>2. Matches(listeners[j])
      BY <2>2, <2>6, <3>1 DEF Matches, Event
    <3> QED
      BY <2>6, <3>1, <3>2 DEF RoundInv
  <2> QED
    BY <2>2, <2>4, <2>6 DEF RoundInv, Dispatching
<1>6. CASE Take
  BY <1>0, <1>6 DEF Take, RoundInv
<1>7. CASE Deliver
  <2> DEFINE b == listeners[pos]
  <2>1. /\ Dispatching /\ pos' = pos + 1 /\ UNCHANGED <<listeners, taken, posted, key, skewed>>
        /\ pos \in DOMAIN listeners /\ b \in Bkpts
        /\ \A c \in Bkpts : c # b => seen'[c] = seen[c]
    BY <1>7, Delivered
  <2>2. pos + 1 <= Len(listeners) + 1
    BY <1>0, <2>1
  <2>3. ASSUME Matches(b)
        PROVE  Contains(seen'[b], taken)
    <3>1. /\ Len(seen[b]) \in Nat
          /\ Len(seen'[b]) = Len(seen[b]) + 1
          /\ \A i \in 1 .. Len(seen[b]) + 1 :
               seen'[b][i] = IF i = Len(seen[b]) + 1 THEN taken ELSE seen[b][i]
      BY <1>7, <2>3, Delivered
    <3>2. Len(seen[b]) + 1 \in 1 .. Len(seen[b]) + 1
      BY <3>1
    <3> QED
      BY <3>1, <3>2 DEF Contains
  <2>4. \A c : Matches(c)' <=> Matches(c)
    BY <2>1 DEF Matches, Event
  <2>5. ASSUME ~skewed, NEW j \in DOMAIN listeners, j < pos + 1, Matches(listeners[j])
        PROVE  Contains(seen'[listeners[j]], taken)
    <3>1. CASE listeners[j] = b
      BY <2>3, <2>5, <3>1
    <3>2. CASE listeners[j] # b
      <4>1. j < pos
        BY <1>0, <2>1, <2>5, <3>2
      <4> QED
        BY <1>0, <2>1, <2>5, <3>2, <4>1 DEF RoundInv
    <3> QED
      BY <3>1, <3>2
  <2>6. \A j : Matches(listeners[j])' <=> Matches(listeners[j])
    BY <2>1 DEF Matches, Event
  <2> QED
    BY <2>1, <2>2, <2>5, <2>6 DEF RoundInv
<1>8. ASSUME NEW t \in Threads, NEW b \in Bkpts, NEW k \in Keys, SetCheck(t, b, k)
      PROVE  RoundInv'
  <2>1. /\ key[b] = "none" /\ ~Listening(b) /\ key' = [key EXCEPT ![b] = k]
        /\ UNCHANGED <<listeners, taken, pos, seen, posted, skewed, loop>>
    BY <1>8 DEF SetCheck, UsersInv, loopVars
  <2>2. \A j \in DOMAIN listeners : key'[listeners[j]] = key[listeners[j]]
    BY <1>0, <2>1 DEF TypeOK
  <2>3. \A j \in DOMAIN listeners : Matches(listeners[j])' <=> Matches(listeners[j])
    BY <2>1, <2>2 DEF Matches, Event
  <2> QED
    BY <2>1, <2>3 DEF RoundInv, Dispatching
<1>9. ASSUME NEW e \in Events, Post(e)
      PROVE  RoundInv'
  <2>1. UNCHANGED <<listeners, taken, pos, seen, key, skewed, loop>>
    BY <1>9 DEF Post, loopVars
  <2>2. Dispatching => posted'[taken] = posted[taken]
    <3>1. ASSUME Dispatching
          PROVE  posted'[taken] = posted[taken]
      <4>1. taken \in 1 .. Len(posted) + 1 /\ taken # Len(posted) + 1
        BY <1>0, <3>1 DEF OrderInv
      <4> QED
        BY <1>9, <4>1, Appended DEF Post, TypeOK
    <3> QED
      BY <3>1
  <2>3. Dispatching => \A j : Matches(listeners[j])' <=> Matches(listeners[j])
    BY <2>1, <2>2 DEF Matches, Event
  <2> QED
    BY <2>1, <2>3 DEF RoundInv, Dispatching
<1>10. ASSUME NEW t \in Threads, UserStep(t)
       PROVE  RoundInv'
  <2>1. \/ \E b \in Bkpts, k \in Keys : SetCheck(t, b, k)
        \/ SetRegister(t)
        \/ \E b \in Bkpts : NewWaiter(t, b) \/ Unregister(t, b)
        \/ UNCHANGED <<listeners, taken, pos, seen, key, posted, skewed, loop>>
    BY <1>10 DEF UserStep, SetArm, SetHandler, Wait, WaitReturns, Clear, loopVars
  <2> QED
    BY <1>1, <1>3, <1>4, <1>5, <1>8, <2>1 DEF Dispatching
<1>11. CASE LoopStep \/ HandlerReturns \/ RoundEnds \/ Stop
  BY <1>1, <1>11 DEF LoopStep, LoopCheck, HandlerReturns, RoundEnds, Stop, loopVars, Dispatching
<1> QED
  BY <1>6, <1>7, <1>9, <1>10, <1>11 DEF Next, EventStep

LEMMA KeysStep ==
  ASSUME TypeOK, UsersInv, KeysInv, FreshKeys, Next
  PROVE  KeysInv'
<1>0. /\ at \in [Threads -> {"idle", "checked", "armed", "waiting", "polling", "deleting"}]
      /\ on \in [Threads -> Bkpts \cup {"none"}]
      /\ key \in [Bkpts -> Keys \cup {"none", "any"}]
      /\ born \in [Bkpts -> 0 .. Len(posted)]
      /\ armed \subseteq Keys
      /\ "none" \notin Keys /\ "any" \notin Keys
      /\ Len(posted) \in Nat /\ DOMAIN posted = 1 .. Len(posted)
  BY EventKeys, Numbers DEF TypeOK
(* What was armed stays so, with its key and number.                        *)
<1>1. ASSUME UNCHANGED posted, armed' \subseteq armed,
             \A b \in Bkpts : Armed(b) => Armed(b)' /\ key'[b] = key[b] /\ born'[b] = born[b],
             \A b, c \in Bkpts : key'[b] \in Keys /\ key'[b] = key'[c] => b = c
      PROVE  KeysInv'
  <2>1. \A k \in armed' : \E b \in Bkpts : key'[b] = k /\ Armed(b)'
    BY <1>1 DEF KeysInv
  <2>2. \A n \in DOMAIN posted' : posted'[n] \in Keys =>
          \E b \in Bkpts : key'[b] = posted'[n] /\ Armed(b)' /\ n > born'[b]
    BY <1>1 DEF KeysInv
  <2> QED
    BY <1>1, <2>1, <2>2 DEF KeysInv
<1>2. \A b, c \in Bkpts : key[b] \in Keys /\ key[b] = key[c] => b = c
  BY DEF KeysInv
<1>3. ASSUME NEW t \in Threads, NEW b \in Bkpts, NEW k \in Keys, SetCheck(t, b, k)
      PROVE  KeysInv'
  <2>1. /\ at' = [at EXCEPT ![t] = "checked"] /\ on' = [on EXCEPT ![t] = b]
        /\ key' = [key EXCEPT ![b] = k] /\ key[b] = "none"
        /\ \A c \in Bkpts : key[c] # k
        /\ at[t] = "idle" /\ UNCHANGED <<posted, armed, born>>
    BY <1>3 DEF SetCheck, Go, Free, Available
  <2>2. ASSUME NEW c \in Bkpts, Armed(c)
        PROVE  Armed(c)' /\ key'[c] = key[c]
    <3>1. c # b
      BY <1>0, <2>1, <2>2 DEF Armed
    <3> QED
      BY <1>0, <2>1, <2>2, <3>1 DEF Armed
  <2>3. \A c, d \in Bkpts : key'[c] \in Keys /\ key'[c] = key'[d] => c = d
    BY <1>0, <1>2, <2>1
  <2> QED
    BY <1>1, <2>1, <2>2, <2>3
<1>4. ASSUME NEW t \in Threads, SetArm(t)
      PROVE  KeysInv'
  <2>1. PICK b \in Bkpts :
          /\ on[t] = b /\ key[b] \in Keys
          /\ \A u \in Threads : Setting(u) /\ on[u] = b => u = t
    BY <1>4 DEF UsersInv, Setting, SetArm
  <2>2. /\ at' = [at EXCEPT ![t] = "armed"] /\ on' = on /\ at[t] = "checked"
        /\ armed' = armed \cup {key[b]}
        /\ born' = [born EXCEPT ![b] = Len(posted)] /\ UNCHANGED <<posted, key>>
    BY <1>0, <1>4, <2>1 DEF SetArm, Go
  <2>3. ~Armed(b)
    BY <2>1, <2>2 DEF Armed
  <2>4. key'[b] \in Keys /\ \A u \in Threads : ~(at'[u] = "checked" /\ on'[u] = b)
    <3>1. \A u \in Threads : on[u] = b /\ at[u] = "checked" => u = t
      BY <2>1 DEF Setting
    <3>2. \A u \in Threads : ~(at'[u] = "checked" /\ on'[u] = b)
      BY <1>0, <2>2, <3>1
    <3> QED
      BY <2>1, <2>2, <3>2
  <2>5. \A c \in Bkpts : Armed(c) => Armed(c)' /\ c # b
    BY <1>0, <2>2, <2>3 DEF Armed
  <2>6. \A k \in armed' : \E c \in Bkpts : key'[c] = k /\ Armed(c)'
    <3>1. ASSUME NEW k \in armed
          PROVE  \E c \in Bkpts : key'[c] = k /\ Armed(c)'
      BY <2>2, <2>5 DEF KeysInv
    <3>2. key'[b] = key[b] /\ Armed(b)'
      BY <2>2, <2>4 DEF Armed
    <3> QED
      BY <2>1, <2>2, <3>1, <3>2
  <2>7. \A n \in DOMAIN posted : posted[n] \in Keys =>
          \E c \in Bkpts : key'[c] = posted[n] /\ Armed(c)' /\ n > born'[c]
    BY <1>0, <2>2, <2>5 DEF KeysInv
  <2> QED
    BY <1>2, <2>2, <2>6, <2>7 DEF KeysInv
<1>5. ASSUME NEW t \in Threads, NEW b \in Bkpts, NewWaiter(t, b)
      PROVE  KeysInv'
  <2>1. /\ key' = [key EXCEPT ![b] = "any"] /\ key[b] = "none"
        /\ UNCHANGED <<posted, armed, born, at, on>>
    BY <1>5 DEF NewWaiter, threadVars
  <2>2. ASSUME NEW c \in Bkpts, Armed(c)
        PROVE  Armed(c)' /\ key'[c] = key[c]
    <3>1. c # b
      BY <1>0, <2>1, <2>2 DEF Armed
    <3> QED
      BY <1>0, <2>1, <2>2, <3>1 DEF Armed
  <2>3. \A c, d \in Bkpts : key'[c] \in Keys /\ key'[c] = key'[d] => c = d
    BY <1>0, <1>2, <2>1
  <2> QED
    BY <1>1, <2>1, <2>2, <2>3
(* Every other step of a thread arms nothing.                               *)
<1>6. ASSUME UNCHANGED <<posted, key, born>>, armed' \subseteq armed,
             \A t \in Threads : at'[t] = "checked" => at[t] = "checked" /\ on'[t] = on[t]
      PROVE  KeysInv'
  <2>1. \A b \in Bkpts : Armed(b) => Armed(b)'
    BY <1>6 DEF Armed
  <2> QED
    BY <1>1, <1>2, <1>6, <2>1
<1>7. ASSUME NEW t \in Threads,
             \/ SetRegister(t) \/ WaitReturns(t) \/ Clear(t)
             \/ \E b \in Bkpts : \/ SetHandler(t, b) \/ Unregister(t, b)
                                 \/ Wait(t, b, "waiting") \/ Wait(t, b, "polling")
      PROVE  KeysInv'
  <2>1. UNCHANGED <<posted, key, born>> /\ armed' \subseteq armed
    BY <1>7 DEF SetRegister, WaitReturns, Clear, SetHandler, Unregister, Wait, loopVars
  <2>2. \/ UNCHANGED <<at, on>>
        \/ \E b, place : /\ place # "checked"
                         /\ at' = [at EXCEPT ![t] = place] /\ on' = [on EXCEPT ![t] = b]
    BY <1>7 DEF SetRegister, WaitReturns, Clear, SetHandler, Unregister, Wait, Go, threadVars
  <2>3. \A u \in Threads : at'[u] = "checked" => at[u] = "checked" /\ on'[u] = on[u]
    BY <1>0, <2>2
  <2> QED
    BY <1>6, <2>1, <2>3
<1>8. ASSUME NEW e \in Events, Post(e)
      PROVE  KeysInv'
  <2>1. UNCHANGED <<armed, key, born, at, on>> /\ (e = "abort" \/ e \in armed)
    BY <1>8 DEF Post, CanHit, threadVars
  <2>2. /\ DOMAIN posted' = 1 .. Len(posted) + 1
        /\ \A n \in 1 .. Len(posted) + 1 :
             posted'[n] = IF n = Len(posted) + 1 THEN e ELSE posted[n]
    BY <1>8, Appended DEF Post, TypeOK
  <2>3. \A b : Armed(b)' <=> Armed(b)
    BY <2>1 DEF Armed
  <2>4. ASSUME NEW n \in 1 .. Len(posted) + 1, posted'[n] \in Keys
        PROVE  \E b \in Bkpts : key'[b] = posted'[n] /\ Armed(b)' /\ n > born'[b]
    <3>1. CASE n = Len(posted) + 1
      <4>1. e \in armed /\ posted'[n] = e
        BY <2>1, <2>2, <2>4, <3>1, EventKeys
      <4>2. PICK b \in Bkpts : key[b] = e /\ Armed(b)
        BY <4>1 DEF KeysInv
      <4>3. n > born[b]
        BY <1>0, <3>1
      <4> QED
        BY <2>1, <2>3, <4>1, <4>2, <4>3
    <3>2. CASE n # Len(posted) + 1
      <4>1. n \in DOMAIN posted /\ posted'[n] = posted[n]
        BY <1>0, <2>2, <3>2
      <4> QED
        BY <2>1, <2>3, <2>4, <4>1 DEF KeysInv
    <3> QED
      BY <3>1, <3>2
  <2>5. \A k \in armed' : \E b \in Bkpts : key'[b] = k /\ Armed(b)'
    BY <2>1, <2>3 DEF KeysInv
  <2> QED
    BY <1>2, <2>1, <2>2, <2>4, <2>5 DEF KeysInv
<1>9. CASE EventStep \/ Stop
  <2>1. UNCHANGED <<armed, key, born, at, on, posted>>
    BY <1>9 DEF EventStep, LoopStep, Take, Deliver, HandlerReturns, RoundEnds, Stop, threadVars
  <2> QED
    BY <1>6, <2>1
<1> QED
  BY <1>3, <1>4, <1>5, <1>7, <1>8, <1>9 DEF Next, UserStep

LEMMA StaleStep ==
  ASSUME TypeOK, UsersInv, OrderInv, KeysInv, FreshKeys, NoStaleHit, Next
  PROVE  NoStaleHit'
<1>0. /\ key \in [Bkpts -> Keys \cup {"none", "any"}]
      /\ born \in [Bkpts -> 0 .. Len(posted)]
      /\ taken \in Nat /\ Len(posted) \in Nat /\ taken <= Len(posted)
      /\ DOMAIN posted = 1 .. Len(posted)
      /\ "any" \notin Keys /\ "none" \notin Keys
  BY EventKeys, Numbers DEF TypeOK
(* A breakpoint that was given nothing, or changes neither key nor number.  *)
<1>1. ASSUME UNCHANGED <<seen, posted>>,
             \A b \in Bkpts : \/ seen[b] = <<>>
                              \/ key'[b] \notin Keys
                              \/ key'[b] = key[b] /\ born'[b] = born[b]
      PROVE  NoStaleHit'
  BY <1>1 DEF NoStaleHit
<1>2. ASSUME NEW t \in Threads, UserStep(t)
      PROVE  NoStaleHit'
  <2>1. UNCHANGED <<seen, posted>>
    BY <1>2 DEF UserStep, SetCheck, SetArm, SetRegister, NewWaiter, SetHandler, Wait,
       WaitReturns, Unregister, Clear
  <2>2. CASE UNCHANGED <<key, born>>
    BY <1>1, <2>1, <2>2
  <2>3. ASSUME NEW b \in Bkpts, NEW k \in Keys, SetCheck(t, b, k)
        PROVE  NoStaleHit'
    <3>1. seen[b] = <<>> /\ key' = [key EXCEPT ![b] = k] /\ UNCHANGED born
      BY <2>3 DEF SetCheck, UsersInv
    <3> QED
      BY <1>0, <1>1, <2>1, <3>1
  <2>4. CASE SetArm(t)
    <3>1. /\ on[t] \in Bkpts /\ seen[on[t]] = <<>>
          /\ born' = [born EXCEPT ![on[t]] = Len(posted)] /\ UNCHANGED key
      BY <2>4 DEF SetArm, UsersInv, Setting
    <3> QED
      BY <1>0, <1>1, <2>1, <3>1
  <2>5. ASSUME NEW b \in Bkpts, NewWaiter(t, b)
        PROVE  NoStaleHit'
    <3>1. key' = [key EXCEPT ![b] = "any"] /\ UNCHANGED born
      BY <2>5 DEF NewWaiter
    <3> QED
      BY <1>0, <1>1, <2>1, <3>1
  <2> QED
    BY <1>2, <2>2, <2>3, <2>4, <2>5 DEF UserStep, SetRegister, SetHandler, Wait, WaitReturns,
       Unregister, Clear
<1>3. ASSUME NEW e \in Events, Post(e)
      PROVE  NoStaleHit'
  <2>1. UNCHANGED <<seen, key, born>>
    BY <1>3 DEF Post
  <2>2. \A n \in 1 .. Len(posted) + 1 :
          posted'[n] = IF n = Len(posted) + 1 THEN e ELSE posted[n]
    BY <1>3, Appended DEF Post, TypeOK
  <2>3. \A b \in Bkpts : \A i \in DOMAIN seen[b] :
          seen[b][i] \in 1 .. Len(posted) + 1 /\ seen[b][i] # Len(posted) + 1
    BY <1>0, SeenBound
  <2>4. \A b \in Bkpts : \A i \in DOMAIN seen[b] : posted'[seen[b][i]] = posted[seen[b][i]]
    BY <2>2, <2>3
  <2> QED
    BY <2>1, <2>4 DEF NoStaleHit
<1>4. CASE Deliver
  <2> DEFINE b == listeners[pos]
  <2>1. /\ UNCHANGED <<listeners, taken, posted, key, born>>
        /\ b \in Bkpts /\ \A c \in Bkpts : c # b => seen'[c] = seen[c]
        /\ ~Matches(b) => seen'[b] = seen[b]
        /\ taken > 0
    BY <1>4, Delivered DEF OrderInv, Deliver
  <2>2. ASSUME Matches(b), key[b] \in Keys, Event # "abort"
        PROVE  taken > born[b]
    <3>1. key[b] = Event
      BY <1>0, <2>2 DEF Matches
    <3>2. taken \in DOMAIN posted
      BY <1>0, <2>1
    <3>3. PICK c \in Bkpts : key[c] = Event /\ taken > born[c]
      BY <2>2, <3>1, <3>2 DEF KeysInv, Event
    <3>4. c = b
      BY <2>1, <2>2, <3>1, <3>3 DEF KeysInv
    <3> QED
      BY <3>3, <3>4
  <2>3. ASSUME NEW i \in DOMAIN seen'[b], key[b] \in Keys, posted[seen'[b][i]] # "abort"
        PROVE  seen'[b][i] > born[b]
    <3>1. CASE ~Matches(b)
      BY <2>1, <2>3, <3>1 DEF NoStaleHit
    <3>2. CASE Matches(b)
      <4>1. /\ Len(seen[b]) \in Nat /\ DOMAIN seen[b] = 1 .. Len(seen[b])
            /\ DOMAIN seen'[b] = 1 .. Len(seen[b]) + 1
            /\ \A k \in 1 .. Len(seen[b]) + 1 :
                 seen'[b][k] = IF k = Len(seen[b]) + 1 THEN taken ELSE seen[b][k]
        BY <1>4, <3>2, Delivered
      <4>2. CASE i = Len(seen[b]) + 1
        BY <2>2, <2>3, <3>2, <4>1, <4>2 DEF Event
      <4>3. CASE i # Len(seen[b]) + 1
        <5>1. i \in DOMAIN seen[b] /\ seen'[b][i] = seen[b][i]
          BY <2>3, <4>1, <4>3
        <5> QED
          BY <2>1, <2>3, <5>1 DEF NoStaleHit
      <4> QED
        BY <4>2, <4>3
    <3> QED
      BY <3>1, <3>2
  <2> HIDE DEF b
  <2> QED
    BY <2>1, <2>3 DEF NoStaleHit
<1>5. CASE LoopStep \/ Take \/ HandlerReturns \/ RoundEnds \/ Stop
  <2>1. UNCHANGED <<seen, posted, key, born>>
    BY <1>5 DEF LoopStep, Take, HandlerReturns, RoundEnds, Stop
  <2> QED
    BY <1>1, <2>1
<1> QED
  BY <1>2, <1>3, <1>4, <1>5 DEF Next, EventStep
-----------------------------------------------------------------------------
LEMMA Stutters == IInv /\ UNCHANGED vars => IInv'
<1> SUFFICES ASSUME IInv, UNCHANGED vars PROVE IInv'
  OBVIOUS
<1>1. UNCHANGED <<terminating, listeners, posted, taken, loop, pos, armed, key, handler, queue,
                  at, on, seen, born, skewed, stopAt>>
  BY DEF vars, loopVars, threadVars
<1>2. /\ \A b : Listening(b)' <=> Listening(b)
      /\ \A b : Armed(b)' <=> Armed(b)
      /\ \A b : Matches(b)' <=> Matches(b)
      /\ \A t : Setting(t)' <=> Setting(t)
      /\ Dispatching' <=> Dispatching
  BY <1>1 DEF Listening, Armed, Matches, Event, Setting, Dispatching
<1>3. TypeOK'
  BY <1>1 DEF IInv, TypeOK
<1>4. UsersInv'
  BY <1>1, <1>2 DEF IInv, UsersInv
<1>5. OrderInv' /\ RoundInv'
  BY <1>1, <1>2 DEF IInv, OrderInv, RoundInv, DeliveredInOrder
<1>6. StopInv' /\ KeysInv' /\ (FreshKeys => NoStaleHit')
  BY <1>1, <1>2 DEF IInv, StopInv, KeysInv, NoStaleHit
<1> QED
  BY <1>3, <1>4, <1>5, <1>6 DEF IInv

LEMMA NextInv == IInv /\ Next => IInv'
<1> SUFFICES ASSUME IInv, Next PROVE IInv'
  OBVIOUS
<1>1. TypeOK' /\ UsersInv' /\ OrderInv' /\ RoundInv' /\ StopInv'
  BY TypeStep, UsersStep, OrderStep, RoundStep, StopStep DEF IInv
<1>2. CASE FreshKeys
  BY <1>1, <1>2, KeysStep, StaleStep DEF IInv
<1>3. CASE ~FreshKeys
  BY <1>1, <1>3 DEF IInv, KeysInv
<1> QED
  BY <1>2, <1>3

(* The whole invariant holds of every behaviour of the system.              *)
THEOREM Inductive == Spec => []IInv
<1>1. IInv /\ [Next]_vars => IInv'
  BY NextInv, Stutters
<1> QED
  BY InitInv, <1>1, PTL DEF Spec

(* The variables of System, of its breakpoints and of the event thread keep *)
(* their types: no listener is in the list twice, and a queue holds only    *)
(* events that were taken from System._events.                              *)
THEOREM TypeCorrect == Spec => []TypeOK
<1>1. IInv => TypeOK
  BY DEF IInv
<1> QED
  BY Inductive, <1>1, PTL

(* Whoever sets and deletes breakpoints while _process_events goes over the *)
(* list, a listener is given each event at most once, and in order.         *)
THEOREM InOrder == Spec => []DeliveredInOrder
<1>1. IInv => DeliveredInOrder
  BY DEF IInv, OrderInv
<1> QED
  BY Inductive, <1>1, PTL

(* _process_events leaves out a listener it should have called only when    *)
(* unregister_event_listener removed one it had passed, in the same round.  *)
THEOREM MissedBySkew == Spec => []MissedOnlyBySkew
<1>1. IInv => MissedOnlyBySkew
  <2> SUFFICES ASSUME IInv, loop = "deliver", pos > Len(listeners), ~skewed,
                      NEW b \in Range(listeners), Matches(b)
               PROVE  Contains(seen[b], taken)
    BY DEF MissedOnlyBySkew
  <2>1. PICK j \in DOMAIN listeners : listeners[j] = b
    BY DEF Range
  <2>2. j < pos
    <3>1. DOMAIN listeners = 1 .. Len(listeners) /\ Len(listeners) \in Nat /\ pos \in Nat
      BY Numbers DEF IInv
    <3> QED
      BY <2>1, <3>1
  <2> QED
    BY <2>1, <2>2 DEF IInv, RoundInv, Dispatching
<1> QED
  BY Inductive, <1>1, PTL

(* After System.stop has set the flag, the event thread hands out at most   *)
(* the one event it was already waiting for.                                *)
THEOREM QuietAfterStop == Spec => []StopQuiet
<1>1. IInv => StopQuiet
  BY DEF IInv, StopInv, StopQuiet
<1> QED
  BY Inductive, <1>1, PTL

(* A breakpoint known by the number GDB gave it hears only of hits that     *)
(* happened after it was inserted, however late the queue is.               *)
THEOREM FreshHits == ASSUME FreshKeys PROVE Spec => []NoStaleHit
<1>1. IInv => NoStaleHit
  BY DEF IInv
<1> QED
  BY Inductive, <1>1, PTL
=============================================================================
