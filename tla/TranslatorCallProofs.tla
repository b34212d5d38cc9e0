------------------------ MODULE TranslatorCallProofs ------------------------
(***************************************************************************)
(* Proofs about TranslatorCall, for every code, list of ranges, set of     *)
(* options and number of calls: the phi nodes match the edges, and memory  *)
(* of a freed module is used only after a call that was cut short or when  *)
(* a Function's address was reused.  Both follow from one invariant, which *)
(* says what the list of unfinished units and the cache hold.              *)
(***************************************************************************)
EXTENDS TranslatorCall, FiniteSetTheorems, SequenceTheorems, TLAPS

Units == Functions \X Pcs \X (1 .. MaxCalls)

(* A unit of the list that belongs to this call is a block of its function  *)
(* that is in the cache and has nothing in it, and is there once; one that  *)
(* does not was left by a call cut short.                                   *)
Queued(q) ==
  \A k \in DOMAIN q :
    /\ q[k][3] # call => cutBefore
    /\ q[k][3] = call =>
         /\ q[k][1] = function
         /\ cache[function][q[k][2]] = call
         /\ term[q[k][2]] = Open
         /\ translated[q[k][2]] = 0
         /\ \A j \in DOMAIN q : q[j] = q[k] => j = k
QueueInv == Queued(unfinished)

(* What the cache has of this function is of this call, unless the address  *)
(* is reused; what it does not have is untouched.                           *)
CacheInv ==
  /\ ~reused => \A p \in Pcs : cache[function][p] \in {0, call}
  /\ \A p \in Pcs : cache[function][p] # call => term[p] = Open /\ translated[p] = 0

(* Nothing of the new call is there yet.                                    *)
NothingYet ==
  /\ term = [b \in Blocks |-> Open]
  /\ \A p \in Pcs : cache[function][p] # call
  /\ \A k \in DOMAIN unfinished : unfinished[k][3] # call

(* Numbers of calls are those of calls begun.                               *)
PastInv ==
  /\ \A f \in Functions, p \in Pcs : cache[f][p] <= call
  /\ \A k \in DOMAIN unfinished : unfinished[k][3] <= call

Phis == \A pc \in Pcs, b \in Blocks : incoming[pc][b] = Edges(term[b], pc)
Once == \A pc \in Pcs : translated[pc] <= 1
Pairs(rs) == rs \in Seq(Pcs \X Pcs)

Working ==
  /\ call # 0
  /\ QueueInv
  /\ CacheInv
  /\ state = "constructing" => NothingYet

UnitsInv ==
  /\ UnitsTypeOK
  /\ Pairs(ranges)
  /\ PastInv
  /\ state \in {"constructing", "translating"} => Working
  /\ state \in {"idle", "ended"} => (unfinished # <<>> => cut \/ cutBefore)
  /\ state # "dead" => Phis
  /\ Once
  /\ FreedOnlyAfterCut

Strings(n) == {"key", "value"} \X (1 .. n)

(* What the wrapper has done when, and what it has allocated.               *)
CallInv ==
  /\ stage \in {"out", "ranges", "options", "translation", "cleanup"}
  /\ options \in OptionLists \cup {<<>>}
  /\ parsed \in 0 .. Len(options)
  /\ dictSize \in Nat
  /\ error \in BOOLEAN /\ failed \in BOOLEAN /\ wide \in BOOLEAN
  /\ result \in {"none", "NULL", "dict"}
  /\ stage = "ranges" => given \in RangeLists /\ ~error
  /\ stage = "options" => Pairs(given)
  /\ allocated \subseteq {PcRanges, Opts, Code} \cup Strings(parsed)
  /\ stage \in {"out", "ranges"} => allocated = {}
  /\ state \notin {"idle", "dead"} => stage = "translation"
  /\ stage # "out" /\ error => failed \/ wide
  /\ ErrorFitsResult

Inv == UnitsInv /\ CallInv

-----------------------------------------------------------------------------
LEMMA TerminatorForms ==
  ASSUME NEW ts \in Terminators
  PROVE  \/ ts = Open
         \/ ts = <<>>
         \/ \E a \in Pcs : ts = <<a>>
         \/ \E a, b \in Pcs : ts = <<a, b>>
BY DEF Terminators

LEMMA EdgesOf ==
  ASSUME NEW ts \in Terminators, NEW p \in Pcs
  PROVE  /\ Edges(ts, p) \in Nat
         /\ Edges(Open, p) = 0
         /\ Edges(<<>>, p) = 0
<1>1. DOMAIN ts = 1 .. Len(ts) /\ Len(ts) \in Nat
  BY TerminatorForms DEF Open
<1>2. IsFiniteSet(1 .. Len(ts))
  BY <1>1, FS_Interval
<1>3. IsFiniteSet({k \in DOMAIN ts : ts[k] = p})
  BY <1>1, <1>2, FS_Subset
<1>4. Edges(ts, p) \in Nat
  BY <1>3, FS_CardinalityType DEF Edges
<1>5. {k \in DOMAIN Open : Open[k] = p} = {}
  BY UnitsAssumption DEF Open, Entry, Pcs
<1>6. {k \in DOMAIN <<>> : <<>>[k] = p} = {}
  OBVIOUS
<1> QED
  BY <1>4, <1>5, <1>6, FS_EmptySet DEF Edges

(* What find_create queues: each target that has no unit, once.             *)
LEMMA NewUnits ==
  ASSUME NEW f \in Functions, NEW ts \in Terminators \ {Open, <<>>},
         cache \in [Functions -> [Pcs -> 0 .. MaxCalls]]
  PROVE  /\ New(f, ts) \in Seq(Pcs)
         /\ \A k \in DOMAIN New(f, ts) : cache[f][New(f, ts)[k]] = 0
         /\ \A j, k \in DOMAIN New(f, ts) : New(f, ts)[j] = New(f, ts)[k] => j = k
<1>1. CASE \E a \in Pcs : ts = <<a>>
  <2>1. PICK a \in Pcs : ts = <<a>>
    BY <1>1
  <2>2. Len(ts) = 1 /\ ts[1] = a
    BY <2>1
  <2>3. New(f, ts) = IF cache[f][a] = 0 THEN <<a>> ELSE <<>>
    BY <2>2 DEF New
  <2> QED
    BY <2>3
<1>2. CASE \E a, b \in Pcs : ts = <<a, b>>
  <2>1. PICK a \in Pcs, b \in Pcs : ts = <<a, b>>
    BY <1>2
  <2>2. Len(ts) = 2 /\ ts[1] = a /\ ts[2] = b
    BY <2>1
  <2>3. New(f, ts) =
          IF cache[f][a] = 0
          THEN IF cache[f][b] = 0 /\ b # a THEN <<a, b>> ELSE <<a>>
          ELSE IF cache[f][b] = 0 /\ b # a THEN <<b>> ELSE <<>>
    BY <2>2 DEF New, JustMade
  <2> QED
    BY <2>3
<1> QED
  BY <1>1, <1>2, TerminatorForms

LEMMA PcFacts ==
  /\ Pcs \subseteq Nat
  /\ Pcs \subseteq Blocks
  /\ Entry \in Blocks \ Pcs
BY UnitsAssumption DEF Pcs, Blocks, Entry

LEMMA TypeFacts ==
  ASSUME UnitsTypeOK
  PROVE  /\ call \in Nat /\ call \in 0 .. MaxCalls /\ MaxCalls \in Nat
         /\ \A f \in Functions : \A p \in Pcs : cache[f][p] \in Nat
         /\ unfinished \in Seq(Units)
         /\ \A k \in DOMAIN unfinished :
              unfinished[k] \in Units /\ unfinished[k][3] \in Nat
<1>1. call \in Nat /\ call \in 0 .. MaxCalls /\ MaxCalls \in Nat
  <2>1. MaxCalls \in Nat
    BY UnitsAssumption
  <2>2. call \in 0 .. MaxCalls
    BY DEF UnitsTypeOK
  <2> QED
    BY <2>1, <2>2
<1>2. \A f \in Functions : \A p \in Pcs : cache[f][p] \in Nat
  <2>1. cache \in [Functions -> [Pcs -> 0 .. MaxCalls]]
    BY DEF UnitsTypeOK
  <2> QED
    BY <1>1, <2>1
<1>3. unfinished \in Seq(Units)
  BY DEF UnitsTypeOK, Units
<1>4. \A k \in DOMAIN unfinished : unfinished[k] \in Units
  BY <1>3, LenProperties, ElementOfSeq
<1> QED
  BY <1>1, <1>2, <1>3, <1>4 DEF Units

(* The list after its first unit is taken.                                  *)
LEMMA TailUnits ==
  ASSUME unfinished \in Seq(Units), unfinished # <<>>
  PROVE  /\ Head(unfinished) = unfinished[1]
         /\ 1 \in DOMAIN unfinished
         /\ Tail(unfinished) \in Seq(Units)
         /\ \A k \in DOMAIN Tail(unfinished) :
              /\ k + 1 \in DOMAIN unfinished
              /\ Tail(unfinished)[k] = unfinished[k + 1]
              /\ k \in Nat
<1>1. Len(unfinished) \in Nat \ {0} /\ DOMAIN unfinished = 1 .. Len(unfinished)
  BY EmptySeq, LenProperties
<1>2. Tail(unfinished) \in Seq(Units) /\ Len(Tail(unfinished)) = Len(unfinished) - 1
  BY HeadTailProperties
<1>3. \A k \in 1 .. Len(Tail(unfinished)) : Tail(unfinished)[k] = unfinished[k + 1]
  BY HeadTailProperties
<1>4. DOMAIN Tail(unfinished) = 1 .. Len(Tail(unfinished))
  BY <1>2, LenProperties
<1>5. Head(unfinished) = unfinished[1]
  OBVIOUS
<1> QED
  BY <1>1, <1>2, <1>3, <1>4, <1>5

(* What find_create does: it extends the list by new units only, each once. *)
Created(b, ts, rest) ==
  /\ cache' \in [Functions -> [Pcs -> 0 .. MaxCalls]]
  /\ \A f \in Functions, p \in Pcs :
       \/ cache'[f][p] = cache[f][p]
       \/ f = function /\ cache[f][p] = 0 /\ cache'[f][p] = call
  /\ unfinished' \in Seq(Units)
  /\ \A k \in DOMAIN rest : k \in DOMAIN unfinished' /\ unfinished'[k] = rest[k]
  /\ \A k \in DOMAIN unfinished' \ DOMAIN rest :
       /\ unfinished'[k] = <<function, unfinished'[k][2], call>>
       /\ unfinished'[k][2] \in Pcs
       /\ cache[function][unfinished'[k][2]] = 0
       /\ cache'[function][unfinished'[k][2]] = call
       /\ \A j \in DOMAIN unfinished' \ DOMAIN rest :
            unfinished'[j] = unfinished'[k] => j = k
  /\ incoming' \in [Pcs -> [Blocks -> Nat]]
  /\ \A p \in Pcs, x \in Blocks :
       incoming'[p][x] = IF x = b THEN incoming[p][x] + Edges(ts, p)
                                  ELSE incoming[p][x]

LEMMA FindCreate ==
  ASSUME UnitsTypeOK, call # 0,
         NEW b \in Blocks, NEW ts \in Terminators \ {Open, <<>>},
         NEW rest \in Seq(Units),
         find_create(function, call, b, ts, rest)
  PROVE  Created(b, ts, rest)
<1> DEFINE new == New(function, ts)
           units == [k \in DOMAIN new |-> <<function, new[k], call>>]
<1>1. /\ function \in Functions /\ call \in 1 .. MaxCalls
      /\ cache \in [Functions -> [Pcs -> 0 .. MaxCalls]]
      /\ incoming \in [Pcs -> [Blocks -> Nat]]
  <2>1. call \in 0 .. MaxCalls /\ MaxCalls \in Nat
    BY UnitsAssumption DEF UnitsTypeOK
  <2>2. call \in 1 .. MaxCalls
    BY <2>1
  <2> QED
    BY <2>2 DEF UnitsTypeOK
<1>2. /\ new \in Seq(Pcs)
      /\ \A k \in DOMAIN new : cache[function][new[k]] = 0
      /\ \A j, k \in DOMAIN new : new[j] = new[k] => j = k
  BY <1>1, NewUnits
<1>3. DOMAIN new = 1 .. Len(new) /\ Len(new) \in Nat /\ \A k \in DOMAIN new : new[k] \in Pcs
  BY <1>2, LenProperties, ElementOfSeq
<1>4. \A p \in Pcs : cache'[function][p] = IF p \in Elements(new) THEN call ELSE cache[function][p]
  BY <1>1 DEF find_create
<1>5. \A f \in Functions \ {function} : cache'[f] = cache[f]
  BY <1>1 DEF find_create
<1>6. \A p \in Elements(new) : cache[function][p] = 0
  BY <1>2 DEF Elements
<1>7. cache' \in [Functions -> [Pcs -> 0 .. MaxCalls]]
  BY <1>1 DEF find_create
<1>8. /\ units \in Seq(Units) /\ Len(units) = Len(new)
      /\ \A k \in DOMAIN new : units[k] = <<function, new[k], call>>
  BY <1>1, <1>3 DEF Units
<1>9. unfinished' = rest \o units
  BY DEF find_create
<1> HIDE DEF new, units
<1>10. /\ unfinished' \in Seq(Units)
       /\ Len(unfinished') = Len(rest) + Len(new)
       /\ \A k \in 1 .. Len(rest) + Len(new) :
            unfinished'[k] = IF k <= Len(rest) THEN rest[k] ELSE units[k - Len(rest)]
  <2>1. /\ rest \o units \in Seq(Units)
        /\ Len(rest \o units) = Len(rest) + Len(units)
        /\ \A k \in 1 .. Len(rest) + Len(units) :
             (rest \o units)[k] = IF k <= Len(rest) THEN rest[k] ELSE units[k - Len(rest)]
    BY <1>8, ConcatProperties, Zenon
  <2> QED
    BY <2>1, <1>8, <1>9
<1>11. /\ DOMAIN unfinished' = 1 .. Len(rest) + Len(new)
       /\ DOMAIN rest = 1 .. Len(rest) /\ Len(rest) \in Nat
  BY <1>10, LenProperties
<1>12. ASSUME NEW k \in DOMAIN unfinished' \ DOMAIN rest
       PROVE  /\ k - Len(rest) \in DOMAIN new /\ k \in Nat
              /\ unfinished'[k] = <<function, new[k - Len(rest)], call>>
  <2>1. k \in 1 .. Len(rest) + Len(new) /\ ~(k <= Len(rest)) /\ k \in Nat
    BY <1>3, <1>11
  <2>2. k - Len(rest) \in DOMAIN new
    BY <2>1, <1>3, <1>11
  <2>3. unfinished'[k] = units[k - Len(rest)]
    BY <2>1, <1>10
  <2> QED
    BY <2>1, <2>2, <2>3, <1>8
<1>13. \A k \in DOMAIN rest : k \in DOMAIN unfinished' /\ unfinished'[k] = rest[k]
  BY <1>3, <1>10, <1>11
<1>14. ASSUME NEW k \in DOMAIN unfinished' \ DOMAIN rest
       PROVE  /\ unfinished'[k] = <<function, unfinished'[k][2], call>>
              /\ unfinished'[k][2] \in Pcs
              /\ cache[function][unfinished'[k][2]] = 0
              /\ cache'[function][unfinished'[k][2]] = call
  <2>1. unfinished'[k][2] \in Elements(new)
    BY <1>12 DEF Elements
  <2> QED
    BY <2>1, <1>2, <1>3, <1>4, <1>6, <1>12
<1>15. ASSUME NEW k \in DOMAIN unfinished' \ DOMAIN rest,
              NEW j \in DOMAIN unfinished' \ DOMAIN rest,
              unfinished'[j] = unfinished'[k]
       PROVE  j = k
  <2>1. new[j - Len(rest)] = new[k - Len(rest)]
    BY <1>12, <1>15
  <2> QED
    BY <2>1, <1>2, <1>11, <1>12
<1>16. \A p \in Pcs, x \in Blocks :
         incoming'[p][x] = IF x = b THEN incoming[p][x] + Edges(ts, p)
                                    ELSE incoming[p][x]
  BY <1>1 DEF find_create, addIncoming
<1>17. incoming' \in [Pcs -> [Blocks -> Nat]]
  BY <1>1, EdgesOf DEF find_create, addIncoming
<1> QED
  BY <1>4, <1>5, <1>6, <1>7, <1>10, <1>13, <1>14, <1>15, <1>16, <1>17 DEF Created
-----------------------------------------------------------------------------
(* The first unit, and the units behind it.                                 *)
LEMMA PopUnit ==
  ASSUME UnitsInv, NEW f \in Functions, NEW pc \in Pcs, NEW c \in 1 .. MaxCalls,
         Pop(f, pc, c)
  PROVE  /\ Working /\ unfinished \in Seq(Units)
         /\ c # call => cutBefore
         /\ c = call => /\ f = function
                        /\ cache[function][pc] = call
                        /\ term[pc] = Open
                        /\ translated[pc] = 0
         /\ Tail(unfinished) \in Seq(Units)
         /\ Queued(Tail(unfinished))
         /\ \A k \in DOMAIN Tail(unfinished) :
              /\ Tail(unfinished)[k] \in Units
              /\ Tail(unfinished)[k][3] <= call
              /\ c = call => Tail(unfinished)[k] # <<f, pc, c>>
<1> DEFINE rest == Tail(unfinished)
<1>1. Working /\ unfinished \in Seq(Units) /\ unfinished # <<>>
  BY DEF UnitsInv, Pop, UnitsTypeOK, Units
<1>2. /\ unfinished[1] = <<f, pc, c>> /\ 1 \in DOMAIN unfinished
      /\ rest \in Seq(Units)
      /\ \A k \in DOMAIN rest :
           k + 1 \in DOMAIN unfinished /\ rest[k] = unfinished[k + 1] /\ k \in Nat
  BY <1>1, TailUnits DEF Pop
<1>3. c # call => cutBefore
  BY <1>1, <1>2 DEF Working, QueueInv, Queued
<1>4. c = call => /\ f = function
                  /\ cache[function][pc] = call
                  /\ term[pc] = Open
                  /\ translated[pc] = 0
                  /\ \A j \in DOMAIN unfinished : unfinished[j] = <<f, pc, c>> => j = 1
  BY <1>1, <1>2 DEF Working, QueueInv, Queued
<1> HIDE DEF rest
<1>5. ASSUME NEW k \in DOMAIN rest
      PROVE  /\ rest[k] \in Units
             /\ rest[k][3] <= call
             /\ c = call => rest[k] # <<f, pc, c>>
  <2>1. rest[k] \in Units
    BY <1>2, LenProperties, ElementOfSeq
  <2>2. rest[k][3] <= call
    BY <1>2 DEF UnitsInv, PastInv
  <2>3. c = call => rest[k] # <<f, pc, c>>
    BY <1>2, <1>4
  <2> QED
    BY <2>1, <2>2, <2>3
<1>6. Queued(rest)
  <2> SUFFICES ASSUME NEW k \in DOMAIN rest
               PROVE  /\ rest[k][3] # call => cutBefore
                      /\ rest[k][3] = call =>
                           /\ rest[k][1] = function
                           /\ cache[function][rest[k][2]] = call
                           /\ term[rest[k][2]] = Open
                           /\ translated[rest[k][2]] = 0
                           /\ \A j \in DOMAIN rest : rest[j] = rest[k] => j = k
    BY DEF Queued
  <2>1. k + 1 \in DOMAIN unfinished /\ rest[k] = unfinished[k + 1]
    BY <1>2
  <2>2. rest[k][3] = call => \A j \in DOMAIN rest : rest[j] = rest[k] => j = k
    BY <2>1, <1>1, <1>2 DEF Working, QueueInv, Queued
  <2> QED
    BY <2>1, <2>2, <1>1 DEF Working, QueueInv, Queued
<1> QED
  BY <1>1, <1>2, <1>3, <1>4, <1>5, <1>6 DEF rest

(* New units have the number of the call. *)
LEMMA CreatedPast ==
  ASSUME PastInv, call \in Nat, call' = call,
         NEW b, NEW ts, NEW rest, Created(b, ts, rest),
         \A k \in DOMAIN rest : rest[k][3] <= call
  PROVE  PastInv'
<1>1. ASSUME NEW f \in Functions, NEW p \in Pcs
      PROVE  cache'[f][p] <= call
  <2>1. cache[f][p] <= call
    BY DEF PastInv
  <2>2. cache'[f][p] = cache[f][p] \/ cache'[f][p] = call
    BY DEF Created
  <2> QED
    BY <2>1, <2>2
<1>2. ASSUME NEW k \in DOMAIN unfinished'
      PROVE  unfinished'[k][3] <= call
  <2>1. CASE k \in DOMAIN rest
    BY <2>1 DEF Created
  <2>2. CASE k \notin DOMAIN rest
    <3>1. unfinished'[k] = <<function, unfinished'[k][2], call>>
      BY <2>2 DEF Created
    <3>2. unfinished'[k][3] = call
      BY <3>1
    <3> QED
      BY <3>2
  <2> QED
    BY <2>1, <2>2
<1> QED
  BY <1>1, <1>2 DEF PastInv

(* The list stays as the invariant has it, if what is behind the first unit  *)
(* and the new units do.                                                    *)
LEMMA ExtendQueue ==
  ASSUME call' = call, function' = function, cutBefore' = cutBefore,
         NEW b, NEW ts, NEW rest \in Seq(Units), Created(b, ts, rest), Queued(rest),
         \A k \in DOMAIN rest : rest[k][3] = call =>
           /\ term'[rest[k][2]] = Open
           /\ translated'[rest[k][2]] = 0
           /\ rest[k][1] = function
           /\ cache[function][rest[k][2]] = call
           /\ cache'[function][rest[k][2]] = call,
         call # 0,
         \A k \in DOMAIN unfinished' \ DOMAIN rest :
           /\ term'[unfinished'[k][2]] = Open
           /\ translated'[unfinished'[k][2]] = 0
  PROVE  QueueInv'
<1> SUFFICES ASSUME NEW k \in DOMAIN unfinished'
             PROVE  /\ unfinished'[k][3] # call => cutBefore
                    /\ unfinished'[k][3] = call =>
                         /\ unfinished'[k][1] = function
                         /\ cache'[function][unfinished'[k][2]] = call
                         /\ term'[unfinished'[k][2]] = Open
                         /\ translated'[unfinished'[k][2]] = 0
                         /\ \A j \in DOMAIN unfinished' :
                              unfinished'[j] = unfinished'[k] => j = k
  BY DEF QueueInv, Queued
<1>1. ASSUME NEW j \in DOMAIN rest, NEW i \in DOMAIN unfinished' \ DOMAIN rest,
             rest[j][3] = call
      PROVE  unfinished'[i] # rest[j]
  <2>1. cache[function][unfinished'[i][2]] = 0
    BY DEF Created
  <2> QED
    BY <1>1, <2>1
<1>2. CASE k \in DOMAIN rest
  <2>1. unfinished'[k] = rest[k]
    BY <1>2 DEF Created
  <2>2. ASSUME NEW j \in DOMAIN unfinished', unfinished'[j] = unfinished'[k],
               rest[k][3] = call
        PROVE  j = k
    <3>1. j \in DOMAIN rest
      BY <1>1, <1>2, <2>1, <2>2
    <3> QED
      BY <1>2, <2>1, <2>2, <3>1 DEF Created, Queued
  <2> QED
    BY <1>2, <2>1, <2>2 DEF Queued
<1>3. CASE k \notin DOMAIN rest
  <2>1. /\ unfinished'[k] = <<function, unfinished'[k][2], call>>
        /\ cache'[function][unfinished'[k][2]] = call
    BY <1>3 DEF Created
  <2>2. unfinished'[k][1] = function /\ unfinished'[k][3] = call
    BY <2>1
  <2>3. ASSUME NEW j \in DOMAIN unfinished', unfinished'[j] = unfinished'[k]
        PROVE  j = k
    <3>1. j \notin DOMAIN rest
      <4>1. j \in DOMAIN rest => unfinished'[j] = rest[j]
        BY DEF Created
      <4> QED
        BY <1>1, <1>3, <2>2, <2>3, <4>1
    <3> QED
      BY <1>3, <2>3, <3>1 DEF Created
  <2> QED
    BY <1>3, <2>1, <2>2, <2>3
<1> QED
  BY <1>2, <1>3

LEMMA NewStep ==
  ASSUME UnitsInv, NEW pc \in Pcs, NEW rs, Pairs(rs), NewTranslator(pc, rs)
  PROVE  UnitsInv'
<1>1. /\ call \in Nat /\ call' = call + 1 /\ call' \in 1 .. MaxCalls
      /\ function' \in Functions
      /\ reused' = (reused \/ \E p \in Pcs : cache[function'][p] # 0)
  <2>1. call \in Nat /\ call' = call + 1 /\ call < MaxCalls /\ MaxCalls \in Nat
    BY TypeFacts DEF UnitsInv, NewTranslator
  <2>2. call' \in 1 .. MaxCalls
    BY <2>1
  <2> QED
    BY <2>1, <2>2 DEF NewTranslator
<1>2. UnitsTypeOK'
  <2>1. incoming' \in [Pcs -> [Blocks -> Nat]] /\ translated' \in [Pcs -> Nat]
    BY DEF NewTranslator, NoModule
  <2>2. term' \in [Blocks -> Terminators]
    BY DEF NewTranslator, NoModule, Terminators
  <2>3. call' \in 0 .. MaxCalls
    BY <1>1
  <2> QED
    BY <1>1, <2>1, <2>2, <2>3 DEF UnitsInv, UnitsTypeOK, NewTranslator
<1>3. Pairs(rs) /\ ranges' = rs /\ state' = "constructing"
  BY DEF NewTranslator
<1>4. PastInv'
  BY <1>1, TypeFacts DEF UnitsInv, PastInv, NewTranslator
<1>5. /\ \A p \in Pcs : cache[function'][p] \in Nat /\ cache[function'][p] <= call
      /\ \A k \in DOMAIN unfinished : unfinished[k][3] \in Nat /\ unfinished[k][3] <= call
  BY <1>1, TypeFacts DEF UnitsInv, PastInv
<1>6. /\ term' = [b \in Blocks |-> Open] /\ translated' = [p \in Pcs |-> 0]
      /\ cache' = cache /\ unfinished' = unfinished
      /\ incoming' = [p \in Pcs |-> [b \in Blocks |-> 0]]
  BY DEF NewTranslator, NoModule
<1>7. NothingYet'
  BY <1>1, <1>5, <1>6 DEF NothingYet
<1>8. CacheInv'
  BY <1>1, <1>6, PcFacts DEF CacheInv
<1>9. QueueInv'
  <2>1. \A k \in DOMAIN unfinished : unfinished[k][3] # call' /\ cutBefore'
    <3>1. unfinished # <<>> => cutBefore'
      BY DEF UnitsInv, NewTranslator
    <3>2. DOMAIN <<>> = {}
      OBVIOUS
    <3> QED
      BY <1>1, <1>5, <3>1, <3>2
  <2> QED
    BY <2>1, <1>6 DEF QueueInv, Queued
<1>10. Phis'
  BY <1>6, EdgesOf DEF Phis, Terminators
<1>11. Once'
  BY <1>6 DEF Once
<1>12. FreedOnlyAfterCut'
  BY <1>1 DEF UnitsInv, FreedOnlyAfterCut, NewTranslator
<1> QED
  BY <1>1, <1>2, <1>3, <1>4, <1>7, <1>8, <1>9, <1>10, <1>11, <1>12
     DEF UnitsInv, Working, Pairs
LEMMA EntryStep ==
  ASSUME UnitsInv, genCodeEntry
  PROVE  UnitsInv'
<1>1. /\ UnitsTypeOK /\ Working /\ NothingYet /\ PastInv /\ Phis /\ Once
      /\ state = "constructing"
  BY DEF UnitsInv, genCodeEntry, Working
<1>2. CASE Stale(function, entry)
  <2>1. reused
    BY <1>1, <1>2 DEF Working, CacheInv, UnitsTypeOK, Stale
  <2>2. /\ UNCHANGED translationVars
        /\ state' = "dead" /\ fault' = "freed unit"
    BY <1>2 DEF genCodeEntry, Die, translationVars
  <2>3. UnitsTypeOK' /\ Pairs(ranges)' /\ PastInv' /\ Once' /\ FreedOnlyAfterCut'
    BY <1>1, <2>1, <2>2
       DEF UnitsInv, UnitsTypeOK, PastInv, Pairs, Once, FreedOnlyAfterCut, translationVars
  <2> QED
    BY <2>2, <2>3 DEF UnitsInv
<1>3. CASE ~Stale(function, entry)
  <2>1. /\ cache[function][entry] = 0
        /\ entry \in Pcs /\ function \in Functions
    BY <1>1, <1>3 DEF Stale, NothingYet, UnitsTypeOK
  <2>2. /\ find_create(function, call, Entry, <<entry>>, unfinished)
        /\ term' = [term EXCEPT ![Entry] = <<entry>>]
        /\ UNCHANGED <<prog, entry, ranges, function, call, translated, cut,
                       cutBefore, reused, soft>>
        /\ \/ state' = "translating" /\ UNCHANGED fault
           \/ state' = "dead" /\ fault' = "assertion"
    BY <1>3 DEF genCodeEntry, Die
  <2>3. /\ unfinished \in Seq(Units) /\ call \in Nat /\ call # 0
        /\ \A k \in DOMAIN unfinished : unfinished[k] \in Units
    BY <1>1, TypeFacts DEF Working
  <2>4. <<entry>> \in Terminators \ {Open, <<>>} /\ Entry \in Blocks
    BY <2>1, PcFacts DEF Terminators, Open
  <2>5. Created(Entry, <<entry>>, unfinished)
    BY <1>1, <2>2, <2>3, <2>4, FindCreate
  <2>6. /\ term' \in [Blocks -> Terminators]
        /\ \A p \in Pcs : term'[p] = term[p]
        /\ \A b \in Blocks : term'[b] = IF b = Entry THEN <<entry>> ELSE term[b]
    BY <1>1, <2>2, <2>4, PcFacts DEF UnitsTypeOK
  <2>7. UnitsTypeOK'
    BY <1>1, <2>2, <2>5, <2>6 DEF UnitsTypeOK, Units, Created
  <2>8. PastInv'
    <3>1. \A k \in DOMAIN unfinished : unfinished[k][3] <= call
      BY <1>1 DEF PastInv
    <3> QED
      BY <1>1, <2>2, <2>3, <2>5, <3>1, CreatedPast
  <2>9. QueueInv'
    <3>1. \A k \in DOMAIN unfinished : unfinished[k][3] # call /\ cutBefore
      BY <1>1 DEF NothingYet, Working, QueueInv, Queued
    <3>2. \A k \in DOMAIN unfinished' \ DOMAIN unfinished :
            /\ term'[unfinished'[k][2]] = Open
            /\ translated'[unfinished'[k][2]] = 0
      BY <1>1, <2>2, <2>3, <2>5, <2>6 DEF Working, CacheInv, Created
    <3> QED
      BY <2>2, <2>5, <3>1, <3>2 DEF QueueInv, Queued, Created
  <2>10. CacheInv'
    <3>1. \A p \in Pcs : \/ cache'[function][p] = cache[function][p]
                         \/ cache'[function][p] = call
      BY <2>1, <2>5 DEF Created
    <3>2. \A p \in Pcs : cache'[function][p] # call => term'[p] = Open /\ translated'[p] = 0
      BY <1>1, <2>2, <2>6, <3>1 DEF Working, CacheInv
    <3>3. ~reused' => \A p \in Pcs : cache'[function][p] \in {0, call}
      BY <1>1, <2>2, <3>1 DEF Working, CacheInv
    <3> QED
      BY <2>2, <3>2, <3>3 DEF CacheInv
  <2>11. Phis'
    <3> SUFFICES ASSUME NEW p \in Pcs, NEW b \in Blocks
                 PROVE  incoming'[p][b] = Edges(term'[b], p)
      BY DEF Phis
    <3>1. incoming[p][b] = Edges(term[b], p)
      BY <1>1 DEF Phis
    <3>2. incoming[p][Entry] = 0
      BY <1>1, <2>4, EdgesOf DEF Phis, NothingYet
    <3>3. Edges(<<entry>>, p) \in Nat
      BY <2>4, EdgesOf
    <3>4. incoming'[p][b] = IF b = Entry THEN incoming[p][b] + Edges(<<entry>>, p)
                                         ELSE incoming[p][b]
      BY <2>5 DEF Created
    <3>5. CASE b = Entry
      BY <2>6, <3>2, <3>3, <3>4, <3>5
    <3>6. CASE b # Entry
      BY <2>6, <3>1, <3>4, <3>6
    <3> QED
      BY <3>5, <3>6
  <2>12. Once'
    BY <1>1, <2>2 DEF Once
  <2>13. FreedOnlyAfterCut'
    BY <2>2 DEF UnitsInv, FreedOnlyAfterCut
  <2> QED
    BY <2>2, <2>3, <2>7, <2>8, <2>9, <2>10, <2>11, <2>12, <2>13
       DEF UnitsInv, Working, Pairs
<1> QED
  BY <1>2, <1>3
(* A unit that is taken from the list and left as it is.                    *)
LEMMA DropStep ==
  ASSUME UnitsInv, NEW f \in Functions, NEW pc \in Pcs, NEW c \in 1 .. MaxCalls,
         Pop(f, pc, c),
         unfinished' = Tail(unfinished),
         UNCHANGED <<cache, incoming, term, translated>>,
         \/ UNCHANGED <<state, fault, cut>> /\ soft' \in BOOLEAN
         \/ UNCHANGED <<fault, soft>> /\ cut' = TRUE /\ state' = "ended"
         \/ UNCHANGED <<cut, soft>> /\ state' = "dead" /\ fault' = "freed unit" /\ cutBefore
  PROVE  UnitsInv'
<1>1. /\ UnitsTypeOK /\ Working /\ PastInv /\ Phis /\ Once /\ state = "translating"
      /\ UNCHANGED <<prog, entry, ranges, function, call, cutBefore, reused>>
  BY DEF UnitsInv, Pop
<1>2. /\ unfinished' \in Seq(Units)
      /\ \A k \in DOMAIN unfinished' : unfinished'[k][3] <= call
      /\ Queued(Tail(unfinished))
  BY PopUnit
<1>3. UnitsTypeOK'
  BY <1>1, <1>2 DEF UnitsTypeOK, Units
<1>4. PastInv'
  BY <1>1, <1>2 DEF PastInv
<1>5. Working'
  BY <1>1, <1>2 DEF Working, QueueInv, Queued, CacheInv, NothingYet
<1>6. Phis' /\ Once'
  BY <1>1 DEF Phis, Once
<1>7. FreedOnlyAfterCut'
  BY <1>1 DEF UnitsInv, FreedOnlyAfterCut
<1> QED
  BY <1>1, <1>3, <1>4, <1>5, <1>6, <1>7 DEF UnitsInv, Pairs

(* The block of a unit of this call gets its terminator.                    *)
LEMMA EmitBlock ==
  ASSUME UnitsInv, NEW f \in Functions, NEW pc \in Pcs, call \in 1 .. MaxCalls,
         Pop(f, pc, call), NEW ts \in Terminators, Emitted(pc, ts)
  PROVE  /\ term' \in [Blocks -> Terminators]
         /\ translated' \in [Pcs -> Nat]
         /\ Once'
         /\ \A b \in Blocks : term'[b] = IF b = pc THEN ts ELSE term[b]
         /\ \A p \in Pcs : p # pc => translated'[p] = translated[p]
         /\ \A k \in DOMAIN Tail(unfinished) :
              Tail(unfinished)[k][3] = call => Tail(unfinished)[k][2] # pc
<1>1. /\ term \in [Blocks -> Terminators] /\ translated \in [Pcs -> Nat] /\ Once
      /\ f = function /\ translated[pc] = 0
  BY PopUnit DEF UnitsInv, UnitsTypeOK
<1>2. /\ term' \in [Blocks -> Terminators]
      /\ \A b \in Blocks : term'[b] = IF b = pc THEN ts ELSE term[b]
  BY <1>1, PcFacts DEF Emitted
<1>3. /\ translated' \in [Pcs -> Nat]
      /\ \A p \in Pcs : translated'[p] = IF p = pc THEN 1 ELSE translated[p]
  BY <1>1 DEF Emitted
<1>4. Once'
  BY <1>1, <1>3 DEF Once
<1>5. ASSUME NEW k \in DOMAIN Tail(unfinished), Tail(unfinished)[k][3] = call
      PROVE  Tail(unfinished)[k][2] # pc
  <2>1. /\ Tail(unfinished)[k] \in Units
        /\ Tail(unfinished)[k] # <<f, pc, call>>
        /\ Tail(unfinished)[k][1] = f
    BY <1>1, <1>5, PopUnit DEF Queued
  <2> QED
    BY <2>1, <1>5 DEF Units
<1> QED
  BY <1>2, <1>3, <1>4, <1>5

LEMMA ExitStep ==
  ASSUME UnitsInv, NEW f \in Functions, NEW pc \in Pcs, NEW c \in 1 .. MaxCalls,
         genCodeExit(f, pc, c)
  PROVE  UnitsInv'
<1>1. Pop(f, pc, c) /\ unfinished' = Tail(unfinished) /\ UNCHANGED <<cache, incoming, cut, soft>>
  BY DEF genCodeExit
<1>2. CASE c # call
  <2>1. cutBefore
    BY <1>1, <1>2, PopUnit
  <2>2. state' = "dead" /\ fault' = "freed unit" /\ UNCHANGED <<term, translated>>
    BY <1>2 DEF genCodeExit, Die
  <2> QED
    BY <1>1, <2>1, <2>2, DropStep
<1>3. CASE c = call
  <2>1. /\ UnitsTypeOK /\ Working /\ PastInv /\ Phis /\ state = "translating"
        /\ UNCHANGED <<prog, entry, ranges, function, call, cutBefore, reused>>
        /\ UNCHANGED <<state, fault>> /\ Emitted(pc, <<>>)
    BY <1>1, <1>3 DEF UnitsInv, Pop, genCodeExit, Live
  <2>2. <<>> \in Terminators /\ call \in 1 .. MaxCalls /\ pc \in Blocks
    BY <1>3, PcFacts DEF Terminators
  <2>3. /\ unfinished' \in Seq(Units)
        /\ Queued(Tail(unfinished))
        /\ \A k \in DOMAIN Tail(unfinished) :
             Tail(unfinished)[k] \in Units /\ Tail(unfinished)[k][3] <= call
        /\ term[pc] = Open /\ cache[function][pc] = call
    BY <1>1, <1>3, PopUnit
  <2>4. /\ term' \in [Blocks -> Terminators]
        /\ translated' \in [Pcs -> Nat]
        /\ Once'
        /\ \A b \in Blocks : term'[b] = IF b = pc THEN <<>> ELSE term[b]
        /\ \A p \in Pcs : p # pc => translated'[p] = translated[p]
        /\ \A k \in DOMAIN Tail(unfinished) :
             Tail(unfinished)[k][3] = call => Tail(unfinished)[k][2] # pc
    BY <1>1, <1>3, <2>1, <2>2, EmitBlock
  <2>5. UnitsTypeOK'
    BY <1>1, <2>1, <2>3, <2>4 DEF UnitsTypeOK, Units
  <2>6. PastInv'
    BY <1>1, <2>1, <2>3 DEF PastInv
  <2>7. QueueInv'
    <3>1. ASSUME NEW k \in DOMAIN Tail(unfinished), Tail(unfinished)[k][3] = call
          PROVE  /\ term'[Tail(unfinished)[k][2]] = Open
                 /\ translated'[Tail(unfinished)[k][2]] = 0
      <4>1. Tail(unfinished)[k][2] \in Pcs \ {pc}
        BY <2>3, <2>4, <3>1 DEF Units
      <4>2. /\ term[Tail(unfinished)[k][2]] = Open
            /\ translated[Tail(unfinished)[k][2]] = 0
        BY <2>3, <3>1 DEF Queued
      <4> QED
        BY <4>1, <4>2, <2>4, PcFacts
    <3> QED
      BY <1>1, <2>1, <2>3, <3>1 DEF QueueInv, Queued
  <2>8. CacheInv'
    BY <1>1, <2>1, <2>3, <2>4, PcFacts DEF Working, CacheInv
  <2>9. Phis'
    <3>1. \A p \in Pcs : Edges(<<>>, p) = Edges(Open, p)
      BY <2>2, EdgesOf
    <3> QED
      BY <1>1, <2>1, <2>3, <2>4, <3>1 DEF Phis
  <2>10. FreedOnlyAfterCut'
    BY <2>1 DEF UnitsInv, FreedOnlyAfterCut
  <2> QED
    BY <2>1, <2>4, <2>5, <2>6, <2>7, <2>8, <2>9, <2>10 DEF UnitsInv, Working, Pairs
<1> QED
  BY <1>2, <1>3
(* An instruction of the ranges has its successors among the points.        *)
LEMMA TargetsOf ==
  ASSUME UnitsTypeOK, Pairs(ranges), NEW pc \in Pcs, is_in_range(pc)
  PROVE  Targets(pc) \in Terminators \ {Open, <<>>}
<1>1. PICK k \in DOMAIN ranges : ranges[k][1] <= pc /\ pc < ranges[k][2]
  BY DEF is_in_range
<1>2. ranges[k] \in Pcs \X Pcs
  BY LenProperties, ElementOfSeq DEF Pairs
<1>3. pc + 1 \in Pcs
  <2>1. ranges[k][2] \in Pcs
    BY <1>2
  <2> QED
    BY <1>1, <2>1, UnitsAssumption DEF Pcs
<1>4. prog[pc].target \in Pcs
  <2>1. prog \in [Pcs -> [kind : Kinds, target : Pcs]]
    BY UnitsAssumption DEF UnitsTypeOK
  <2>2. prog[pc] \in [kind : Kinds, target : Pcs]
    BY <2>1
  <2> QED
    BY <2>2
<1>5. Targets(pc) \in {<<prog[pc].target>>, <<pc + 1, prog[pc].target>>, <<pc + 1>>}
  BY DEF Targets
<1>6. Entry \notin Pcs
  BY PcFacts
<1>7. \A a \in Pcs, b \in Pcs : /\ <<a>> \in Terminators /\ <<a, b>> \in Terminators
                              /\ <<a>> # Open /\ <<a, b>> # Open
  BY <1>6 DEF Terminators, Open
<1>8. \A a, b : <<a>> # <<>> /\ <<a, b>> # <<>>
  OBVIOUS
<1> QED
  BY <1>3, <1>4, <1>5, <1>7, <1>8

LEMMA TranslateStep ==
  ASSUME UnitsInv, NEW f \in Functions, NEW pc \in Pcs, NEW c \in 1 .. MaxCalls,
         translateSingleInstruction(f, pc, c)
  PROVE  UnitsInv'
<1> DEFINE ts == Targets(pc)
           rest == Tail(unfinished)
<1>1. /\ UnitsTypeOK /\ Working /\ PastInv /\ Phis /\ Once /\ state = "translating"
      /\ Pop(f, pc, c) /\ UNCHANGED <<cut, soft>>
      /\ UNCHANGED <<prog, entry, ranges, function, call, cutBefore, reused>>
      /\ ts \in Terminators \ {Open, <<>>}
  BY TargetsOf DEF UnitsInv, Pop, translateSingleInstruction
<1>2. /\ rest \in Seq(Units)
      /\ Queued(rest)
      /\ \A k \in DOMAIN rest : rest[k] \in Units /\ rest[k][3] <= call
      /\ c # call => cutBefore
      /\ c = call => /\ f = function /\ term[pc] = Open /\ translated[pc] = 0
                     /\ cache[function][pc] = call
  BY <1>1, PopUnit
<1>3. CASE ~(c = call /\ \A p \in Elements(ts) : ~Stale(f, p))
  <2>1. /\ unfinished' = Tail(unfinished) /\ UNCHANGED <<cache, incoming, term, translated>>
        /\ state' = "dead" /\ fault' = "freed unit"
    BY <1>3 DEF translateSingleInstruction, Die
  <2>2. c = call => reused
    <3>1. ASSUME c = call
          PROVE  reused
      <4>1. PICK p \in Elements(ts) : cache[function][p] \notin {0, call}
        BY <1>2, <1>3, <3>1 DEF Stale
      <4>2. p \in Pcs
        BY <1>1, TerminatorForms DEF Elements
      <4> QED
        BY <1>1, <4>1, <4>2 DEF Working, CacheInv
    <3> QED
      BY <3>1
  <2>3. CASE c # call
    BY <1>1, <1>2, <2>1, <2>3, DropStep
  <2>4. CASE c = call
    <3>1. UnitsTypeOK' /\ PastInv' /\ Once' /\ FreedOnlyAfterCut'
      BY <1>1, <1>2, <2>1, <2>2, <2>4, PopUnit
         DEF UnitsTypeOK, Units, PastInv, Once, FreedOnlyAfterCut
    <3> QED
      BY <1>1, <2>1, <3>1 DEF UnitsInv, Pairs
  <2> QED
    BY <2>3, <2>4
<1>4. CASE c = call /\ \A p \in Elements(ts) : ~Stale(f, p)
  <2>1. /\ find_create(function, call, pc, ts, rest) /\ Emitted(pc, ts)
        /\ UNCHANGED <<state, fault>>
    BY <1>2, <1>4 DEF translateSingleInstruction, Live
  <2>2. /\ call \in Nat /\ call # 0 /\ call \in 1 .. MaxCalls
        /\ pc \in Blocks /\ ts \in Terminators
        /\ function \in Functions
    BY <1>1, <1>4, TypeFacts, PcFacts DEF Working, UnitsTypeOK
  <2>3. Created(pc, ts, rest)
    BY <1>1, <1>2, <2>1, <2>2, FindCreate
  <2>4. /\ term' \in [Blocks -> Terminators]
        /\ translated' \in [Pcs -> Nat]
        /\ Once'
        /\ \A b \in Blocks : term'[b] = IF b = pc THEN ts ELSE term[b]
        /\ \A p \in Pcs : p # pc => translated'[p] = translated[p]
        /\ \A k \in DOMAIN rest : rest[k][3] = call => rest[k][2] # pc
    BY <1>1, <1>2, <1>4, <2>1, <2>2, EmitBlock
  <2> HIDE DEF ts, rest
  <2>5. UnitsTypeOK'
    BY <1>1, <2>1, <2>3, <2>4 DEF UnitsTypeOK, Units, Created
  <2>6. PastInv'
    BY <1>1, <1>2, <2>2, <2>3, CreatedPast
  <2>7. CacheInv'
    <3>1. \A p \in Pcs : \/ cache'[function][p] = cache[function][p]
                         \/ cache'[function][p] = call
      BY <2>2, <2>3 DEF Created
    <3>2. \A p \in Pcs : cache'[function][p] # call => p # pc
      BY <1>2, <1>4, <2>2, <2>3, <3>1
    <3>3. \A p \in Pcs : cache'[function][p] # call => term'[p] = Open /\ translated'[p] = 0
      BY <1>1, <2>4, <3>1, <3>2, PcFacts DEF Working, CacheInv
    <3>4. ~reused' => \A p \in Pcs : cache'[function][p] \in {0, call}
      BY <1>1, <3>1 DEF Working, CacheInv
    <3> QED
      BY <1>1, <3>3, <3>4 DEF CacheInv
  <2>8. QueueInv'
    <3>1. ASSUME NEW k \in DOMAIN rest, rest[k][3] = call
          PROVE  /\ term'[rest[k][2]] = Open
                 /\ translated'[rest[k][2]] = 0
                 /\ rest[k][1] = function
                 /\ cache[function][rest[k][2]] = call
                 /\ cache'[function][rest[k][2]] = call
      <4>1. rest[k][2] \in Pcs \ {pc}
        BY <1>2, <2>4, <3>1 DEF Units
      <4>2. /\ term[rest[k][2]] = Open
            /\ translated[rest[k][2]] = 0
            /\ rest[k][1] = function
            /\ cache[function][rest[k][2]] = call
        BY <1>2, <3>1 DEF Queued
      <4>3. cache'[function][rest[k][2]] = call
        BY <2>2, <2>3, <4>1, <4>2 DEF Created
      <4> QED
        BY <4>1, <4>2, <4>3, <2>4, PcFacts
    <3>2. ASSUME NEW k \in DOMAIN unfinished' \ DOMAIN rest
          PROVE  /\ term'[unfinished'[k][2]] = Open
                 /\ translated'[unfinished'[k][2]] = 0
      <4>1. unfinished'[k][2] \in Pcs /\ cache[function][unfinished'[k][2]] = 0
        BY <2>3 DEF Created
      <4>2. unfinished'[k][2] # pc
        BY <1>2, <1>4, <2>2, <4>1
      <4> QED
        BY <1>1, <2>2, <2>4, <4>1, <4>2, PcFacts DEF Working, CacheInv
    <3> QED
      BY <1>1, <1>2, <2>2, <2>3, <3>1, <3>2, ExtendQueue
  <2>9. Phis'
    <3> SUFFICES ASSUME NEW p \in Pcs, NEW b \in Blocks
                 PROVE  incoming'[p][b] = Edges(term'[b], p)
      BY DEF Phis
    <3>1. incoming[p][b] = Edges(term[b], p)
      BY <1>1 DEF Phis
    <3>2. incoming[p][pc] = 0 /\ Edges(ts, p) \in Nat
      BY <1>1, <1>2, <1>4, <2>2, EdgesOf DEF Phis
    <3>3. incoming'[p][b] = IF b = pc THEN incoming[p][b] + Edges(ts, p)
                                      ELSE incoming[p][b]
      BY <2>3 DEF Created
    <3>4. CASE b = pc
      BY <2>4, <3>2, <3>3, <3>4
    <3>5. CASE b # pc
      BY <2>4, <3>1, <3>3, <3>5
    <3> QED
      BY <3>4, <3>5
  <2>10. FreedOnlyAfterCut'
    BY <1>1, <2>1 DEF UnitsInv, FreedOnlyAfterCut
  <2> QED
    BY <1>1, <2>1, <2>2, <2>4, <2>5, <2>6, <2>7, <2>8, <2>9, <2>10
       DEF UnitsInv, Working, Pairs
<1> QED
  BY <1>3, <1>4
LEMMA ThrowStep ==
  ASSUME UnitsInv, NEW f \in Functions, NEW pc \in Pcs, NEW c \in 1 .. MaxCalls,
         NEW readable, throwException(f, pc, c, readable)
  PROVE  UnitsInv'
BY DropStep DEF throwException

LEMMA SoftFailStep ==
  ASSUME UnitsInv, NEW f \in Functions, NEW pc \in Pcs, NEW c \in 1 .. MaxCalls,
         softFail(f, pc, c)
  PROVE  UnitsInv'
<1>1. soft' \in BOOLEAN
  BY DEF softFail, UnitsInv, UnitsTypeOK
<1> QED
  BY <1>1, DropStep DEF softFail, Live

(* What is left unchanged of the translation, or only ends, keeps the       *)
(* invariant.                                                               *)
LEMMA UnitsUnchanged ==
  ASSUME UnitsInv, UNCHANGED translationVars,
         \/ UNCHANGED <<state, fault>>
         \/ state' = "dead" /\ fault' \in {"assertion", "exception", "no options", "overrun"}
         \/ state = "translating" /\ unfinished = <<>> /\ state' = "ended" /\ UNCHANGED fault
  PROVE  UnitsInv'
<1>1. UnitsTypeOK'
  BY DEF UnitsInv, UnitsTypeOK, translationVars
<1>2. PastInv' /\ Pairs(ranges)' /\ Once'
  BY DEF UnitsInv, PastInv, Pairs, Once, translationVars
<1>3. (state \in {"constructing", "translating"} => Working)'
  BY DEF UnitsInv, Working, QueueInv, Queued, CacheInv, NothingYet, translationVars
<1>4. (state # "dead" => Phis)'
  BY DEF UnitsInv, Phis, translationVars
<1>5. FreedOnlyAfterCut'
  BY DEF UnitsInv, FreedOnlyAfterCut, translationVars
<1> QED
  BY <1>1, <1>2, <1>3, <1>4, <1>5 DEF UnitsInv, translationVars

LEMMA CompileStep ==
  ASSUME UnitsInv, compile
  PROVE  UnitsInv'
<1>1. CASE Die("exception") /\ UNCHANGED <<entry, ranges, incoming, term, translated>>
  <2>1. UNCHANGED translationVars
    BY <1>1 DEF compile, translationVars
  <2> QED
    BY <1>1, <2>1, UnitsUnchanged DEF Die
<1>2. CASE /\ state' = "idle" /\ entry' = 0 /\ ranges' = <<>> /\ NoModule /\ UNCHANGED fault
  <2>1. UNCHANGED <<prog, function, call, cache, unfinished, cut, cutBefore, reused, soft>>
        /\ state = "ended"
    BY DEF compile
  <2>2. entry' \in Pcs
    BY <1>2, UnitsAssumption DEF Pcs
  <2>3. /\ incoming' \in [Pcs -> [Blocks -> Nat]] /\ translated' \in [Pcs -> Nat]
        /\ term' \in [Blocks -> Terminators]
    BY <1>2 DEF NoModule, Terminators
  <2>4. UnitsTypeOK'
    BY <1>2, <2>1, <2>2, <2>3 DEF UnitsInv, UnitsTypeOK
  <2>5. PastInv' /\ Pairs(ranges)' /\ Once'
    BY <1>2, <2>1 DEF UnitsInv, PastInv, Pairs, Once, NoModule
  <2>6. Phis'
    BY <1>2, EdgesOf DEF Phis, NoModule, Terminators
  <2>7. FreedOnlyAfterCut'
    BY <1>2, <2>1 DEF UnitsInv, FreedOnlyAfterCut
  <2> QED
    BY <1>2, <2>1, <2>4, <2>5, <2>6, <2>7 DEF UnitsInv
<1> QED
  BY <1>1, <1>2 DEF compile
-----------------------------------------------------------------------------
LEMMA OptionsSeq ==
  ASSUME options \in OptionLists \cup {<<>>}
  PROVE  Len(options) \in Nat
BY CallAssumption DEF Absent

LEMMA InitInv == Init => Inv
<1> SUFFICES ASSUME Init PROVE Inv
  OBVIOUS
<1>1. UnitsInit
  BY DEF Init
<1>2. UnitsTypeOK
  <2>1. 0 \in Pcs /\ 0 \in 0 .. MaxCalls
    BY UnitsAssumption DEF Pcs
  <2>2. /\ incoming \in [Pcs -> [Blocks -> Nat]] /\ translated \in [Pcs -> Nat]
        /\ term \in [Blocks -> Terminators]
        /\ cache \in [Functions -> [Pcs -> 0 .. MaxCalls]]
    BY <1>1, <2>1 DEF UnitsInit, Terminators
  <2>3. unfinished \in Seq(Functions \X Pcs \X (1 .. MaxCalls))
    BY <1>1 DEF UnitsInit
  <2>4. /\ prog \in Programs /\ entry \in Pcs /\ function \in Functions
        /\ call \in 0 .. MaxCalls
    BY <1>1, <2>1 DEF UnitsInit
  <2>5. /\ cut \in BOOLEAN /\ cutBefore \in BOOLEAN /\ reused \in BOOLEAN /\ soft \in BOOLEAN
        /\ state = "idle" /\ fault = "none"
    BY <1>1 DEF UnitsInit
  <2> QED
    BY <2>2, <2>3, <2>4, <2>5 DEF UnitsTypeOK
<1>3. Pairs(ranges) /\ PastInv /\ Once /\ FreedOnlyAfterCut
  BY <1>1 DEF UnitsInit, Pairs, PastInv, Once, FreedOnlyAfterCut
<1>4. Phis
  BY <1>1, EdgesOf DEF UnitsInit, Phis, Terminators
<1>5. UnitsInv
  BY <1>1, <1>2, <1>3, <1>4 DEF UnitsInit, UnitsInv
<1>6. CallInv
  <2>1. /\ stage = "out" /\ options = <<>> /\ parsed = 0 /\ dictSize = 0 /\ allocated = {}
        /\ error = FALSE /\ failed = FALSE /\ wide = FALSE /\ result = "none" /\ state = "idle"
    BY <1>1 DEF Init, UnitsInit
  <2>2. parsed \in 0 .. Len(options)
    BY <2>1
  <2> QED
    BY <2>1, <2>2 DEF CallInv, ErrorFitsResult
<1> QED
  BY <1>5, <1>6 DEF Inv

(* The call returns: what it had is forgotten.                              *)
LEMMA ReturnInv ==
  ASSUME NEW r \in {"NULL", "dict"}, NEW kept, Return(r, kept),
         error' \in BOOLEAN, failed' \in BOOLEAN, wide' \in BOOLEAN,
         r = "NULL" => error', r = "dict" /\ error' => failed' \/ wide',
         state' \in {"idle", "dead"}
  PROVE  CallInv'
BY DEF Return, Reset, CallInv, ErrorFitsResult

LEMMA UnitsStep ==
  ASSUME Inv, Next
  PROVE  UnitsInv'
<1>1. UnitsInv
  BY DEF Inv
<1>2. CASE UNCHANGED unitVars
  BY <1>1, <1>2, UnitsUnchanged DEF unitVars
<1>3. CASE instrument_memory_access
  <2>1. CASE \E pc \in Pcs : NewTranslator(pc, given)
    <3>1. Pairs(given)
      BY <1>3 DEF Inv, CallInv, instrument_memory_access
    <3> QED
      BY <1>1, <2>1, <3>1, NewStep
  <2>2. CASE Die("assertion") /\ UNCHANGED translationVars
    BY <1>1, <2>2, UnitsUnchanged DEF Die
  <2> QED
    BY <1>3, <2>1, <2>2 DEF instrument_memory_access
<1>4. CASE allocateOptions \/ cleanUp
  BY <1>1, <1>4, UnitsUnchanged DEF allocateOptions, cleanUp, Die, Live
<1>5. CASE enterTranslation
  BY <1>1, <1>5, EntryStep DEF enterTranslation
<1>6. CASE translateUnit
  BY <1>1, <1>6, ExitStep, TranslateStep, ThrowStep, SoftFailStep DEF translateUnit
<1>7. CASE leaveTranslation
  <2>1. UNCHANGED translationVars
    BY <1>7 DEF leaveTranslation, noMoreUnits, Finished, translationVars
  <2> QED
    BY <1>1, <1>7, <2>1, UnitsUnchanged DEF leaveTranslation, noMoreUnits, Finished
<1>8. CASE compileCode
  BY <1>1, <1>8, CompileStep DEF compileCode
<1>9. CASE parseArguments \/ parseRanges \/ parseOption \/ editOptions
  BY <1>2, <1>9 DEF parseArguments, parseRanges, parseOption, editOptions
<1> QED
  BY <1>3, <1>4, <1>5, <1>6, <1>7, <1>8, <1>9 DEF Next, Step

LEMMA UnitState == translateUnit => state = "translating"
<1>1. /\ \A f, pc, c : genCodeExit(f, pc, c) => state = "translating"
      /\ \A f, pc, c : softFail(f, pc, c) => state = "translating"
      /\ \A f, pc, c : translateSingleInstruction(f, pc, c) => state = "translating"
      /\ \A f, pc, c, r : throwException(f, pc, c, r) => state = "translating"
  BY DEF genCodeExit, softFail, throwException, translateSingleInstruction, Pop
<1> QED
  BY <1>1 DEF translateUnit

LEMMA CallStep ==
  ASSUME Inv, Next
  PROVE  CallInv'
<1> USE DEF Inv
<1>0. Len(options) \in Nat /\ parsed \in Nat
  BY OptionsSeq DEF CallInv
<1>1. CASE parseArguments
  <2>1. UNCHANGED unitVars /\ state = "idle" /\ failed' = FALSE /\ wide' = FALSE
    BY <1>1 DEF parseArguments
  <2>2. CASE Return("NULL", {}) /\ error' = TRUE
    BY <2>1, <2>2, ReturnInv DEF unitVars
  <2>3. CASE stage' = "ranges"
    <3>1. /\ given' \in RangeLists /\ options' \in OptionLists /\ error' = FALSE
          /\ parsed' = 0 /\ dictSize' = Len(options') /\ result' = "none"
          /\ UNCHANGED allocated
      BY <1>1, <2>3 DEF parseArguments, PyErr_SetString, Return
    <3>2. Len(options') \in Nat
      BY <3>1, CallAssumption DEF Absent
    <3>3. parsed' \in 0 .. Len(options')
      BY <3>1, <3>2
    <3>4. state' = "idle"
      BY <2>1 DEF unitVars
    <3>5. allocated' = {}
      BY <1>1, <3>1 DEF CallInv, parseArguments
    <3> QED
      BY <2>1, <2>3, <3>1, <3>2, <3>3, <3>4, <3>5 DEF CallInv, ErrorFitsResult
  <2> QED
    BY <1>1, <2>2, <2>3 DEF parseArguments, PyErr_SetString
<1>2. CASE parseRanges
  <2>1. UNCHANGED unitVars /\ UNCHANGED failed /\ stage = "ranges"
    BY <1>2 DEF parseRanges
  <2>2. state \in {"idle", "dead"}
    BY <2>1 DEF CallInv
  <2>3. CASE Return("NULL", {}) /\ error' = TRUE /\ UNCHANGED wide
    BY <2>1, <2>2, <2>3, ReturnInv DEF unitVars, CallInv
  <2>4. CASE /\ \A k \in DOMAIN given : given[k] # BadRange
             /\ stage' = "options"
             /\ given' = Converted(given)
             /\ wide' = AnyTooWide(given)
             /\ error' = (error \/ wide')
             /\ allocated' = {PcRanges}
             /\ UNCHANGED <<options, parsed, dictSize, lost, result>>
    <3>1. given \in Seq((Limits \X Limits) \cup {BadRange})
      BY <2>1, CallAssumption DEF CallInv
    <3>2. /\ DOMAIN given = 1 .. Len(given) /\ Len(given) \in Nat
          /\ \A k \in 1 .. Len(given) : given[k] \in Limits \X Limits
      BY <2>4, <3>1, LenProperties, ElementOfSeq
    <3>3. \A v \in Limits : PyLong_AsUnsignedLongLong(v) \in Pcs
      BY UnitsAssumption DEF PyLong_AsUnsignedLongLong, Limits, Pcs
    <3>4. Pairs(Converted(given))
      <4>1. \A k \in 1 .. Len(given) :
              <<PyLong_AsUnsignedLongLong(given[k][1]),
                PyLong_AsUnsignedLongLong(given[k][2])>> \in Pcs \X Pcs
        BY <3>2, <3>3
      <4>2. Converted(given) \in [1 .. Len(given) -> Pcs \X Pcs]
        BY <3>2, <4>1 DEF Converted
      <4> QED
        BY <3>2, <4>2 DEF Pairs
    <3>5. wide' \in BOOLEAN /\ error = FALSE
      BY <2>1, <2>4 DEF AnyTooWide, CallInv
    <3>6. error' = wide'
      BY <2>4, <3>5
    <3> QED
      BY <2>1, <2>2, <2>4, <3>4, <3>5, <3>6 DEF CallInv, ErrorFitsResult, unitVars, Pairs
  <2> QED
    BY <1>2, <2>3, <2>4 DEF parseRanges, PyErr_SetString
<1>3. CASE allocateOptions
  BY <1>3 DEF allocateOptions, Die, Live, CallInv, ErrorFitsResult, Pairs
<1>4. CASE parseOption
  <2>1. UNCHANGED unitVars /\ UNCHANGED <<failed, wide>> /\ stage = "options"
    BY <1>4 DEF parseOption
  <2>2. state \in {"idle", "dead"}
    BY <2>1 DEF CallInv
  <2>3. CASE /\ allocated' = allocated \cup {<<"key", parsed + 1>>, <<"value", parsed + 1>>}
             /\ parsed' = parsed + 1
             /\ UNCHANGED <<stage, result, lost, error, given, options, dictSize>>
    <3>1. parsed' \in 0 .. Len(options)
      <4>1. parsed < Len(options)
        BY <1>4 DEF parseOption
      <4> QED
        BY <1>0, <2>3, <4>1
    <3>2. Strings(parsed) \subseteq Strings(parsed')
      BY <1>0, <2>3 DEF Strings
    <3>3. <<"key", parsed + 1>> \in Strings(parsed') /\ <<"value", parsed + 1>> \in Strings(parsed')
      BY <1>0, <2>3 DEF Strings
    <3>4. allocated' \subseteq {PcRanges, Opts, Code} \cup Strings(parsed')
      BY <2>3, <3>2, <3>3 DEF CallInv
    <3> QED
      BY <2>1, <2>2, <2>3, <3>1, <3>4 DEF CallInv, ErrorFitsResult, unitVars, Pairs
  <2>4. CASE error' = TRUE /\ \E kept : Return("NULL", kept)
    BY <2>1, <2>2, <2>4, ReturnInv DEF unitVars, CallInv
  <2> QED
    BY <1>4, <2>3, <2>4 DEF parseOption, Advanced, PyErr_SetString
<1>5. CASE instrument_memory_access
  BY <1>5 DEF instrument_memory_access, CallInv, ErrorFitsResult
<1>6. CASE enterTranslation \/ leaveTranslation
  <2>1. state \notin {"idle", "dead"} /\ UNCHANGED callVars
    BY <1>6 DEF enterTranslation, genCodeEntry, leaveTranslation, noMoreUnits
  <2> QED
    BY <2>1 DEF CallInv, ErrorFitsResult, callVars
<1>7. CASE translateUnit
  <2>1. state = "translating"
    BY <1>7, UnitState
  <2>2. /\ error' \in BOOLEAN /\ failed' \in BOOLEAN
        /\ (error => failed \/ wide) => (error' => failed' \/ wide)
    <3>1. \/ UNCHANGED <<failed, error>>
          \/ \E answer \in Answers : py_read_code_memory(answer)
      BY <1>7 DEF translateUnit
    <3>2. error \in BOOLEAN /\ failed \in BOOLEAN
      BY DEF CallInv
    <3>3. CASE UNCHANGED <<failed, error>>
      BY <3>2, <3>3
    <3>4. CASE \E answer \in Answers : py_read_code_memory(answer)
      <4>1. PICK answer \in Answers : py_read_code_memory(answer)
        BY <3>4
      <4>2. CASE answer = "bytes"
        BY <3>2, <4>1, <4>2 DEF py_read_code_memory
      <4>3. CASE answer # "bytes"
        BY <3>2, <4>1, <4>3 DEF py_read_code_memory
      <4> QED
        BY <4>2, <4>3
    <3> QED
      BY <3>1, <3>3, <3>4
  <2>3. UNCHANGED <<stage, given, wide, options, parsed, dictSize, allocated, lost, result>>
    BY <1>7 DEF translateUnit
  <2> QED
    BY <2>1, <2>2, <2>3 DEF CallInv, ErrorFitsResult
<1>8. CASE compileCode
  <2>1. stage = "translation" /\ state = "ended" /\ state' \in {"idle", "dead"}
    BY <1>8 DEF CallInv, compileCode, compile, Die
  <2> QED
    BY <1>8, <2>1 DEF CallInv, compileCode, ErrorFitsResult
<1>9. CASE cleanUp
  <2>1. stage = "cleanup" /\ UNCHANGED <<failed, wide>> /\ state \in {"idle", "dead"}
    BY <1>9 DEF cleanUp, CallInv
  <2>2. CASE Die("overrun") /\ UNCHANGED <<stage, result, allocated, lost, error, given, options,
                                          parsed, dictSize>>
    BY <2>1, <2>2 DEF CallInv, Die, ErrorFitsResult
  <2>3. CASE /\ Live
             /\ \E r \in {"NULL", "dict"} :
                  Return(r, Kept) /\ error' = (error \/ r = "NULL")
    <3>1. PICK r \in {"NULL", "dict"} :
            Return(r, Kept) /\ error' = (error \/ r = "NULL")
      BY <2>3
    <3>2. /\ error \in BOOLEAN /\ failed \in BOOLEAN /\ wide \in BOOLEAN
          /\ error => failed \/ wide
      BY <2>1 DEF CallInv
    <3> QED
      BY <2>1, <2>3, <3>1, <3>2, ReturnInv DEF Live
  <2> QED
    BY <1>9, <2>2, <2>3 DEF cleanUp
<1>10. CASE editOptions
  BY <1>10 DEF editOptions, CallInv, ErrorFitsResult, unitVars, translationVars, Pairs
<1> QED
  BY <1>1, <1>2, <1>3, <1>4, <1>5, <1>6, <1>7, <1>8, <1>9, <1>10 DEF Next, Step
LEMMA Unchanged ==
  ASSUME Inv, UNCHANGED vars
  PROVE  Inv'
<1>1. UnitsInv'
  BY UnitsUnchanged DEF Inv, vars, unitVars
<1>2. CallInv'
  BY DEF Inv, CallInv, ErrorFitsResult, Pairs, vars, callVars, unitVars
<1> QED
  BY <1>1, <1>2 DEF Inv

LEMMA Inductive == Spec => []Inv
<1>1. Inv /\ [Next]_vars => Inv'
  BY UnitsStep, CallStep, Unchanged DEF Inv
<1> QED
  BY <1>1, InitInv, PTL DEF Spec

(* The translation and the wrapper keep their types: the numbers of units,  *)
(* calls and options, the terminators and the results a call may have.      *)
THEOREM TypeCorrect == Spec => []TypeOK
<1>1. Inv => TypeOK
  BY DEF Inv, UnitsInv, CallInv, TypeOK
<1> QED
  BY <1>1, Inductive, PTL

(* The phi nodes have one value per edge of the code, whatever the code:    *)
(* loops, a branch to itself or to the next instruction, unreadable or      *)
(* unknown instructions, and calls that follow one that was cut short.      *)
THEOREM PhisMatch == Spec => []PhisMatchEdges
<1>1. Inv => PhisMatchEdges
  BY DEF Inv, UnitsInv, Phis, PhisMatchEdges
<1> QED
  BY <1>1, Inductive, PTL

(* No instruction is translated twice, and none that waits was translated.  *)
THEOREM OnceOnly == Spec => []TranslatedOnce
<1>1. Inv => TranslatedOnce
  BY DEF Inv, UnitsInv, Working, QueueInv, Queued, Once, TranslatedOnce
<1> QED
  BY <1>1, Inductive, PTL

(* The process-wide list and cache lead to freed memory only after a call   *)
(* that an exception cut short, or when a Function's address is used again. *)
THEOREM FreedCause == Spec => []FreedOnlyAfterCut
<1>1. Inv => FreedOnlyAfterCut
  BY DEF Inv, UnitsInv
<1> QED
  BY <1>1, Inductive, PTL

(* py_instrument_memory_access returns NULL with an exception set, and a    *)
(* result with one only after the callback failed or a limit of the ranges  *)
(* did not fit into 64 bits, for every list of options and ranges.          *)
THEOREM ErrorsFit == Spec => []ErrorFitsResult
<1>1. Inv => ErrorFitsResult
  BY DEF Inv, CallInv
<1> QED
  BY <1>1, Inductive, PTL

LEMMA LostStep ==
  ASSUME Inv, Next, stage' = "out", lost' # {}
  PROVE  \/ \E k \in DOMAIN options : options[k] # "ok"
         \/ dictSize < Len(options)
<1>1. CallInv
  BY DEF Inv
<1>2. Len(options) \in Nat /\ parsed \in 0 .. Len(options) /\ dictSize \in Nat
  BY <1>1, OptionsSeq DEF CallInv
<1>3. CASE parseOption
  <2>1. parsed + 1 \in 1 .. Len(options)
    <3>1. parsed < Len(options)
      BY <1>3 DEF parseOption
    <3> QED
      BY <1>2, <3>1
  <2>2. DOMAIN options = 1 .. Len(options)
    BY <1>1, CallAssumption DEF CallInv, Absent
  <2>3. options[parsed + 1] # "ok"
    BY <1>1, <1>3 DEF parseOption
  <2> QED
    BY <2>1, <2>2, <2>3
<1>4. CASE cleanUp
  <2>1. stage = "cleanup" /\ lost' = Kept
    BY <1>4 DEF cleanUp, Return
  <2>2. PICK s \in allocated : s[2] > dictSize
    BY <2>1 DEF Kept
  <2>3. s \notin {PcRanges, Opts, Code}
    BY <1>2, <2>2 DEF PcRanges, Opts, Code
  <2>4. s[2] \in 1 .. parsed
    BY <1>1, <2>2, <2>3 DEF CallInv, Strings
  <2> QED
    BY <1>2, <2>2, <2>4
<1>5. CASE parseArguments \/ parseRanges
  BY <1>5 DEF parseArguments, parseRanges, Return
<1>6. CASE allocateOptions \/ instrument_memory_access
  BY <1>6 DEF allocateOptions, instrument_memory_access
<1>7. CASE enterTranslation \/ leaveTranslation \/ translateUnit \/ compileCode \/ editOptions
  <2>1. state \notin {"idle", "dead"}
    BY <1>7, UnitState DEF enterTranslation, genCodeEntry, leaveTranslation, noMoreUnits,
       compileCode, compile, editOptions
  <2>2. stage' \in {stage, "cleanup"}
    BY <1>7 DEF enterTranslation, leaveTranslation, translateUnit, compileCode, editOptions,
       callVars
  <2> QED
    BY <1>1, <2>1, <2>2 DEF CallInv
<1> QED
  BY <1>3, <1>4, <1>5, <1>6, <1>7 DEF Next, Step

(* The cleanup frees every string of a call whose options were accepted,    *)
(* unless the dictionary has become smaller.                                *)
THEOREM LostRefused == Spec => LostOnlyIfRefused
<1>1. Inv /\ [Next]_vars =>
        [(stage' = "out" /\ lost' # {}) =>
           \/ \E k \in DOMAIN options : options[k] # "ok"
           \/ dictSize < Len(options)]_vars
  BY LostStep
<1> QED
  BY <1>1, Inductive, PTL DEF Spec, LostOnlyIfRefused
=============================================================================
