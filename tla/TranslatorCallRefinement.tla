---------------------- MODULE TranslatorCallRefinement ----------------------
(***************************************************************************)
(* TranslatorCall implements Reachability, for every code, list of ranges  *)
(* and number of calls: a call that leaves nothing out has translated all  *)
(* that control reaches from the entry, and nothing else.                  *)
(***************************************************************************)
EXTENDS TranslatorCallProofs

(* Control gets to p from the entry or from what was translated.            *)
Reached(p) == p = entry \/ \E q \in Pcs : translated[q] > 0 /\ p \in Succs(q)

(* While the list is worked on: what control gets to has a unit of this     *)
(* call; such a unit was translated, left out as SoftFail or is in the      *)
(* list; and nothing else of this call is in the list.                      *)
Linked ==
  /\ \A p \in Pcs : Reached(p) => cache[function][p] = call
  /\ \A p \in Pcs : cache[function][p] = call =>
       \/ soft \/ translated[p] > 0
       \/ \E k \in DOMAIN unfinished : unfinished[k] = <<function, p, call>>
  /\ \A p \in Pcs, k \in DOMAIN unfinished :
       unfinished[k] = <<function, p, call>> => Reached(p)

LinkInv ==
  /\ state \in {"constructing", "translating"} => ~cut
  /\ state = "translating" => Linked

ReachNext ==
  \/ Reach!StartReach \/ Reach!Visit \/ Reach!Complete
  \/ Reach!GiveUp \/ Reach!Forget \/ Reach!Crash
Stutters == UNCHANGED Reach!reachVars

-----------------------------------------------------------------------------
(* Successors are points of the code, and those of a translated instruction *)
(* are the targets it was linked to.                                        *)
LEMMA SuccsOf ==
  ASSUME UnitsTypeOK, Pairs(ranges), NEW pc \in Pcs
  PROVE  /\ Succs(pc) \subseteq Pcs
         /\ ~is_in_range(pc) => Succs(pc) = {}
         /\ is_in_range(pc) => Succs(pc) = Elements(Targets(pc))
<1>1. CASE ~is_in_range(pc)
  BY <1>1 DEF Succs
<1>2. CASE is_in_range(pc)
  <2>1. Targets(pc) \in Terminators \ {Open, <<>>}
    BY <1>2, TargetsOf
  <2>2. Elements(Targets(pc)) \subseteq Pcs
    BY <2>1, TerminatorForms DEF Elements
  <2>3. \A a, b : Elements(<<a>>) = {a} /\ Elements(<<a, b>>) = {a, b}
    BY DEF Elements
  <2>4. Succs(pc) = Elements(Targets(pc))
    <3>1. CASE prog[pc].kind = "jump"
      BY <1>2, <2>3, <3>1 DEF Succs, Targets
    <3>2. CASE prog[pc].kind = "cond"
      BY <1>2, <2>3, <3>2 DEF Succs, Targets
    <3>3. CASE prog[pc].kind \notin {"jump", "cond"}
      BY <1>2, <2>3, <3>3 DEF Succs, Targets
    <3> QED
      BY <3>1, <3>2, <3>3
  <2> QED
    BY <1>2, <2>2, <2>4
<1> QED
  BY <1>1, <1>2

(* Every target that has no unit gets one, and only targets do.             *)
LEMMA NewOf ==
  ASSUME NEW f \in Functions, NEW ts \in Terminators \ {Open, <<>>}
  PROVE  Elements(New(f, ts)) = {p \in Elements(ts) : cache[f][p] = 0}
<1>1. CASE \E a \in Pcs : ts = <<a>>
  <2>1. PICK a \in Pcs : ts = <<a>>
    BY <1>1
  <2>2. New(f, ts) = IF cache[f][a] = 0 THEN <<a>> ELSE <<>>
    BY <2>1 DEF New
  <2> QED
    BY <2>1, <2>2 DEF Elements
<1>2. CASE \E a, b \in Pcs : ts = <<a, b>>
  <2>1. PICK a \in Pcs, b \in Pcs : ts = <<a, b>>
    BY <1>2
  <2>2. New(f, ts) = IF cache[f][a] = 0
                     THEN IF cache[f][b] = 0 /\ b # a THEN <<a, b>> ELSE <<a>>
                     ELSE IF cache[f][b] = 0 /\ b # a THEN <<b>> ELSE <<>>
    BY <2>1 DEF New, JustMade
  <2>3. \A x, y : Elements(<<x>>) = {x} /\ Elements(<<x, y>>) = {x, y}
    BY DEF Elements
  <2>4. Elements(<<>>) = {}
    BY DEF Elements
  <2> QED
    BY <2>1, <2>2, <2>3, <2>4
<1> QED
  BY <1>1, <1>2, TerminatorForms

LEMMA FindCreateAll ==
  ASSUME UnitsTypeOK, call # 0,
         NEW b \in Blocks, NEW ts \in Terminators \ {Open, <<>>},
         NEW rest \in Seq(Units),
         find_create(function, call, b, ts, rest)
  PROVE  /\ \A p \in Elements(ts) :
              cache[function][p] \in {0, call} => cache'[function][p] = call
         /\ \A k \in DOMAIN unfinished' \ DOMAIN rest :
              unfinished'[k][2] \in Elements(ts)
         /\ \A p \in Pcs : cache'[function][p] = call =>
              \/ cache[function][p] = call
              \/ \E k \in DOMAIN unfinished' : unfinished'[k] = <<function, p, call>>
<1> DEFINE new == New(function, ts)
           units == [k \in DOMAIN new |-> <<function, new[k], call>>]
<1>1. /\ function \in Functions /\ call \in 1 .. MaxCalls
      /\ cache \in [Functions -> [Pcs -> 0 .. MaxCalls]]
  <2>1. call \in 0 .. MaxCalls /\ MaxCalls \in Nat
    BY TypeFacts
  <2>2. call \in 1 .. MaxCalls
    BY <2>1
  <2> QED
    BY <2>2 DEF UnitsTypeOK
<1>2. Elements(new) = {p \in Elements(ts) : cache[function][p] = 0}
  BY <1>1, NewOf
<1>3. new \in Seq(Pcs)
  BY <1>1, NewUnits
<1>4. DOMAIN new = 1 .. Len(new) /\ Len(new) \in Nat /\ \A k \in DOMAIN new : new[k] \in Pcs
  BY <1>3, LenProperties, ElementOfSeq
<1>5. \A p \in Pcs : cache'[function][p] = IF p \in Elements(new) THEN call ELSE cache[function][p]
  BY <1>1 DEF find_create
<1>6. /\ units \in Seq(Units) /\ Len(units) = Len(new)
      /\ \A k \in DOMAIN new : units[k] = <<function, new[k], call>>
  BY <1>1, <1>4 DEF Units
<1>7. unfinished' = rest \o units
  BY DEF find_create
<1> HIDE DEF new, units
<1>8. /\ unfinished' \in Seq(Units)
      /\ Len(unfinished') = Len(rest) + Len(new)
      /\ \A k \in 1 .. Len(rest) + Len(new) :
           unfinished'[k] = IF k <= Len(rest) THEN rest[k] ELSE units[k - Len(rest)]
  <2>1. /\ rest \o units \in Seq(Units)
        /\ Len(rest \o units) = Len(rest) + Len(units)
        /\ \A k \in 1 .. Len(rest) + Len(units) :
             (rest \o units)[k] = IF k <= Len(rest) THEN rest[k] ELSE units[k - Len(rest)]
    BY <1>6, ConcatProperties, Zenon
  <2> QED
    BY <2>1, <1>6, <1>7
<1>9. /\ DOMAIN unfinished' = 1 .. Len(rest) + Len(new)
      /\ DOMAIN rest = 1 .. Len(rest) /\ Len(rest) \in Nat
  BY <1>8, LenProperties
<1>10. ASSUME NEW p \in Elements(ts), cache[function][p] \in {0, call}
       PROVE  cache'[function][p] = call
  <2>1. p \in Pcs
    BY TerminatorForms DEF Elements
  <2> QED
    BY <1>2, <1>5, <1>10, <2>1
<1>11. ASSUME NEW k \in DOMAIN unfinished' \ DOMAIN rest
       PROVE  unfinished'[k][2] \in Elements(ts)
  <2>1. k \in 1 .. Len(rest) + Len(new) /\ ~(k <= Len(rest)) /\ k \in Nat
    BY <1>4, <1>9
  <2>2. k - Len(rest) \in DOMAIN new
    BY <2>1, <1>4, <1>9
  <2>3. unfinished'[k] = <<function, new[k - Len(rest)], call>>
    BY <2>1, <2>2, <1>6, <1>8
  <2> QED
    BY <2>2, <2>3, <1>2 DEF Elements
<1>12. ASSUME NEW p \in Pcs, cache'[function][p] = call, cache[function][p] # call
       PROVE  \E k \in DOMAIN unfinished' : unfinished'[k] = <<function, p, call>>
  <2>1. PICK k \in DOMAIN new : new[k] = p
    BY <1>5, <1>12 DEF Elements
  <2>2. k \in Nat /\ k \in 1 .. Len(new)
    BY <1>4
  <2>3. /\ Len(rest) + k \in 1 .. Len(rest) + Len(new)
        /\ ~(Len(rest) + k <= Len(rest))
        /\ Len(rest) + k - Len(rest) = k
    BY <1>4, <1>9, <2>2
  <2>4. unfinished'[Len(rest) + k] = units[k]
    BY <1>8, <2>3
  <2> QED
    BY <2>1, <2>3, <2>4, <1>6, <1>9
<1> QED
  BY <1>10, <1>11, <1>12
-----------------------------------------------------------------------------
(* What control gets to does not depend on the list and the cache.          *)
LEMMA SuccsSame ==
  ASSUME UNCHANGED <<prog, ranges>>
  PROVE  \A q : Succs(q)' = Succs(q)
BY DEF Succs, is_in_range

(* A unit of the list is the first or behind it.                            *)
LEMMA HeadOrTail ==
  ASSUME unfinished \in Seq(Units), unfinished # <<>>,
         NEW k \in DOMAIN unfinished
  PROVE  \/ unfinished[k] = Head(unfinished)
         \/ \E j \in DOMAIN Tail(unfinished) : Tail(unfinished)[j] = unfinished[k]
<1>1. Len(unfinished) \in Nat \ {0} /\ DOMAIN unfinished = 1 .. Len(unfinished)
  BY EmptySeq, LenProperties
<1>2. Tail(unfinished) \in Seq(Units) /\ Len(Tail(unfinished)) = Len(unfinished) - 1
  BY HeadTailProperties
<1>3. DOMAIN Tail(unfinished) = 1 .. Len(unfinished) - 1
  BY <1>2, LenProperties
<1>4. CASE k = 1
  BY <1>4
<1>5. CASE k # 1
  <2>1. k - 1 \in DOMAIN Tail(unfinished) /\ (k - 1) + 1 = k
    BY <1>1, <1>3, <1>5
  <2>2. Tail(unfinished)[k - 1] = unfinished[k]
    BY <2>1, TailUnits
  <2> QED
    BY <2>1, <2>2
<1> QED
  BY <1>4, <1>5

(* The first unit is the entry's.                                           *)
LEMMA EntryLinked ==
  ASSUME UnitsInv, genCodeEntry, state' = "translating"
  PROVE  Linked'
<1>1. /\ UnitsTypeOK /\ Working /\ NothingYet /\ CacheInv
      /\ entry \in Pcs /\ function \in Functions
      /\ unfinished \in Seq(Units) /\ call # 0
  BY TypeFacts DEF UnitsInv, UnitsTypeOK, genCodeEntry, Working
<1>2. /\ find_create(function, call, Entry, <<entry>>, unfinished)
      /\ ~Stale(function, entry)
      /\ UNCHANGED <<prog, entry, ranges, function, call, translated, soft>>
  BY DEF genCodeEntry, Die
<1>3. /\ <<entry>> \in Terminators \ {Open, <<>>} /\ Entry \in Blocks
      /\ Elements(<<entry>>) = {entry}
  BY <1>1, PcFacts DEF Terminators, Open, Elements
<1>4. /\ cache[function][entry] \in {0, call} => cache'[function][entry] = call
      /\ \A k \in DOMAIN unfinished' \ DOMAIN unfinished : unfinished'[k][2] = entry
      /\ \A p \in Pcs : cache'[function][p] = call =>
           \/ cache[function][p] = call
           \/ \E k \in DOMAIN unfinished' : unfinished'[k] = <<function, p, call>>
  BY <1>1, <1>2, <1>3, FindCreateAll
<1>5. \A k \in DOMAIN unfinished : unfinished'[k] = unfinished[k]
  <2>1. Created(Entry, <<entry>>, unfinished)
    BY <1>1, <1>2, <1>3, FindCreate
  <2> QED
    BY <2>1 DEF Created
<1>6. \A q \in Pcs : ~(translated'[q] > 0)
  BY <1>1, <1>2 DEF NothingYet, CacheInv
<1>7. \A p \in Pcs : Reached(p)' => cache'[function'][p] = call'
  BY <1>2, <1>4, <1>6 DEF Reached, Stale
<1>8. \A p \in Pcs : cache'[function'][p] = call' =>
        \E k \in DOMAIN unfinished' : unfinished'[k] = <<function', p, call'>>
  BY <1>1, <1>2, <1>4 DEF NothingYet
<1>9. ASSUME NEW p \in Pcs, NEW k \in DOMAIN unfinished',
             unfinished'[k] = <<function', p, call'>>
      PROVE  Reached(p)'
  <2>1. unfinished'[k][3] = call /\ unfinished'[k][2] = p
    BY <1>2, <1>9
  <2>2. k \notin DOMAIN unfinished
    BY <1>1, <1>5, <2>1 DEF NothingYet
  <2> QED
    BY <1>2, <1>4, <2>1, <2>2 DEF Reached
<1> QED
  BY <1>7, <1>8, <1>9 DEF Linked

(* A unit is taken from the list; if it is of this call, its instruction    *)
(* has been translated, or left out as SoftFail.                            *)
LEMMA TakenLinked ==
  ASSUME UnitsInv, Linked,
         NEW f \in Functions, NEW pc \in Pcs, NEW c \in 1 .. MaxCalls, Pop(f, pc, c),
         UNCHANGED cache,
         unfinished' = Tail(unfinished),
         soft' \in BOOLEAN, soft => soft',
         c = call => soft' \/ translated'[pc] > 0,
         \A q \in Pcs : translated[q] > 0 => translated'[q] > 0,
         \A q \in Pcs : translated'[q] > 0 => translated[q] > 0 \/ Succs(q) = {}
  PROVE  Linked'
<1>1. /\ unfinished \in Seq(Units) /\ unfinished # <<>>
      /\ <<f, pc, c>> = Head(unfinished)
      /\ UNCHANGED <<prog, entry, ranges, function, call>>
  BY PopUnit DEF Pop
<1>2. \A q : Succs(q)' = Succs(q)
  BY <1>1, SuccsSame
<1>3. \A p \in Pcs : Reached(p)' <=> Reached(p)
  BY <1>1, <1>2 DEF Reached
<1>4. ASSUME NEW p \in Pcs, cache'[function'][p] = call'
      PROVE  \/ soft' \/ translated'[p] > 0
             \/ \E k \in DOMAIN unfinished' : unfinished'[k] = <<function', p, call'>>
  <2>1. \/ soft \/ translated[p] > 0
        \/ \E k \in DOMAIN unfinished : unfinished[k] = <<function, p, call>>
    BY <1>1, <1>4 DEF Linked
  <2>2. ASSUME NEW k \in DOMAIN unfinished, unfinished[k] = <<function, p, call>>
        PROVE  \/ soft' \/ translated'[p] > 0
               \/ \E j \in DOMAIN Tail(unfinished) : Tail(unfinished)[j] = <<function, p, call>>
    <3>1. unfinished[k] = <<f, pc, c>> => p = pc /\ c = call
      BY <2>2
    <3> QED
      BY <1>1, <2>2, <3>1, HeadOrTail
  <2> QED
    BY <1>1, <2>1, <2>2
<1>5. ASSUME NEW p \in Pcs, NEW k \in DOMAIN unfinished',
             unfinished'[k] = <<function', p, call'>>
      PROVE  Reached(p)'
  <2>1. k + 1 \in DOMAIN unfinished /\ unfinished'[k] = unfinished[k + 1]
    BY <1>1, TailUnits
  <2> QED
    BY <1>1, <1>3, <1>5, <2>1 DEF Linked
<1>6. \A p \in Pcs : Reached(p)' => cache'[function'][p] = call'
  BY <1>1, <1>3 DEF Linked
<1> QED
  BY <1>4, <1>5, <1>6 DEF Linked

(* Its targets have units now, of this call.                                *)
LEMMA TranslateLinked ==
  ASSUME UnitsInv, Linked,
         NEW f \in Functions, NEW pc \in Pcs, NEW c \in 1 .. MaxCalls,
         translateSingleInstruction(f, pc, c), state' = "translating"
  PROVE  Linked'
<1> DEFINE ts == Targets(pc)
           rest == Tail(unfinished)
<1>1. /\ UnitsTypeOK /\ Working /\ Pairs(ranges)
      /\ Pop(f, pc, c) /\ UNCHANGED <<cut, soft>> /\ is_in_range(pc)
      /\ UNCHANGED <<prog, entry, ranges, function, call, cutBefore, reused>>
      /\ ts \in Terminators \ {Open, <<>>}
  BY TargetsOf DEF UnitsInv, Pop, translateSingleInstruction
<1>2. c = call /\ \A p \in Elements(ts) : ~Stale(f, p)
  BY DEF translateSingleInstruction, Die
<1>3. /\ rest \in Seq(Units) /\ unfinished \in Seq(Units) /\ unfinished # <<>>
      /\ f = function /\ <<function, pc, call>> = Head(unfinished)
      /\ pc \in Blocks /\ call # 0 /\ call \in 1 .. MaxCalls
  BY <1>1, <1>2, PopUnit, PcFacts DEF Pop, Working
<1>4. find_create(function, call, pc, ts, rest) /\ Emitted(pc, ts)
  BY <1>2, <1>3 DEF translateSingleInstruction
<1>5. Created(pc, ts, rest)
  BY <1>1, <1>3, <1>4, FindCreate
<1>6. /\ \A p \in Elements(ts) :
           cache[function][p] \in {0, call} => cache'[function][p] = call
      /\ \A k \in DOMAIN unfinished' \ DOMAIN rest :
           unfinished'[k][2] \in Elements(ts)
      /\ \A p \in Pcs : cache'[function][p] = call =>
           \/ cache[function][p] = call
           \/ \E k \in DOMAIN unfinished' : unfinished'[k] = <<function, p, call>>
  BY <1>1, <1>3, <1>4, FindCreateAll
<1>7. /\ translated \in [Pcs -> Nat]
      /\ translated'[pc] > 0
      /\ \A q \in Pcs : q # pc => translated'[q] = translated[q]
  <2>1. translated \in [Pcs -> Nat] /\ translated[pc] = 0
    BY <1>1, <1>2, PopUnit DEF UnitsTypeOK
  <2> QED
    BY <1>4, <2>1 DEF Emitted
<1>8. Succs(pc) = Elements(ts) /\ \A q : Succs(q)' = Succs(q)
  BY <1>1, SuccsOf, SuccsSame
<1>9. \A p \in Pcs : Reached(p)' <=> Reached(p) \/ p \in Elements(ts)
  BY <1>1, <1>7, <1>8 DEF Reached
<1>10. \A k \in DOMAIN rest : k \in DOMAIN unfinished' /\ unfinished'[k] = rest[k]
  BY <1>5 DEF Created
<1> HIDE DEF ts, rest
<1>11. ASSUME NEW p \in Pcs, Reached(p)'
       PROVE  cache'[function'][p] = call'
  <2>1. CASE p \in Elements(ts)
    BY <1>1, <1>2, <1>3, <1>6, <2>1 DEF Stale
  <2>2. CASE Reached(p)
    <3>1. cache[function][p] = call
      BY <2>2 DEF Linked
    <3>2. function \in Functions
      BY <1>1 DEF UnitsTypeOK
    <3> QED
      BY <1>1, <1>3, <1>5, <3>1, <3>2 DEF Created
  <2> QED
    BY <1>9, <1>11, <2>1, <2>2
<1>12. ASSUME NEW p \in Pcs, cache'[function'][p] = call'
       PROVE  \/ soft' \/ translated'[p] > 0
              \/ \E k \in DOMAIN unfinished' : unfinished'[k] = <<function', p, call'>>
  <2>1. CASE cache[function][p] = call
    <3>1. \/ soft \/ translated[p] > 0
          \/ \E k \in DOMAIN unfinished : unfinished[k] = <<function, p, call>>
      BY <2>1 DEF Linked
    <3>2. ASSUME NEW k \in DOMAIN unfinished, unfinished[k] = <<function, p, call>>
          PROVE  p = pc \/ \E j \in DOMAIN rest : rest[j] = <<function, p, call>>
      <4>1. unfinished[k] = <<function, pc, call>> => p = pc
        BY <3>2
      <4> QED
        BY <1>3, <3>2, <4>1, HeadOrTail DEF rest
    <3> QED
      BY <1>1, <1>7, <1>10, <3>1, <3>2
  <2> QED
    BY <1>1, <1>6, <1>12, <2>1
<1>13. ASSUME NEW p \in Pcs, NEW k \in DOMAIN unfinished',
              unfinished'[k] = <<function', p, call'>>
       PROVE  Reached(p)'
  <2>1. CASE k \in DOMAIN rest
    <3>1. k + 1 \in DOMAIN unfinished /\ unfinished'[k] = unfinished[k + 1]
      BY <1>3, <1>10, <2>1, TailUnits DEF rest
    <3> QED
      BY <1>1, <1>9, <1>13, <3>1 DEF Linked
  <2>2. CASE k \notin DOMAIN rest
    BY <1>6, <1>9, <1>13, <2>2
  <2> QED
    BY <2>1, <2>2
<1> QED
  BY <1>11, <1>12, <1>13 DEF Linked

LEMMA LinkStep ==
  ASSUME Inv, LinkInv, Next
  PROVE  LinkInv'
<1>1. UnitsInv /\ UnitsTypeOK
  BY DEF Inv, UnitsInv
<1>2. CASE UNCHANGED unitVars
  <2>1. \A p : Reached(p)' <=> Reached(p)
    BY <1>2, SuccsSame DEF Reached, unitVars, translationVars
  <2>2. Linked => Linked'
    BY <1>2, <2>1 DEF Linked, unitVars, translationVars
  <2> QED
    BY <1>2, <2>2 DEF LinkInv, unitVars, translationVars
<1>3. CASE instrument_memory_access
  BY <1>3 DEF instrument_memory_access, NewTranslator, Die, LinkInv
<1>4. CASE allocateOptions \/ cleanUp
  <2>1. CASE state' = "dead"
    BY <2>1 DEF LinkInv
  <2>2. CASE UNCHANGED unitVars
    BY <1>2, <2>2
  <2> QED
    BY <1>4, <2>1, <2>2 DEF allocateOptions, cleanUp, Die, Live, unitVars
<1>5. CASE enterTranslation
  <2>1. genCodeEntry /\ UNCHANGED cut /\ state = "constructing" /\ state' \in {"translating", "dead"}
    BY <1>5 DEF enterTranslation, genCodeEntry, Die
  <2> QED
    BY <1>1, <2>1, EntryLinked DEF LinkInv
<1>6. CASE translateUnit
  <2>1. state = "translating" /\ Linked /\ ~cut
    BY <1>6, UnitState DEF LinkInv
  <2>2. PICK f \in Functions, pc \in Pcs, c \in 1 .. MaxCalls :
          \/ genCodeExit(f, pc, c)
          \/ softFail(f, pc, c)
          \/ translateSingleInstruction(f, pc, c)
          \/ \E r : throwException(f, pc, c, r)
    BY <1>6 DEF translateUnit
  <2>3. CASE genCodeExit(f, pc, c)
    <3>1. CASE c # call
      BY <2>3, <3>1 DEF genCodeExit, Die, LinkInv
    <3>2. CASE c = call
      <4>1. /\ Pop(f, pc, c) /\ UNCHANGED <<cache, cut, soft, state>>
            /\ unfinished' = Tail(unfinished) /\ Emitted(pc, <<>>)
            /\ ~is_in_range(pc)
        BY <2>3, <3>2 DEF genCodeExit, Live
      <4>2. Succs(pc) = {}
        BY <4>1 DEF Succs
      <4>3. translated \in [Pcs -> Nat] /\ translated[pc] = 0 /\ soft \in BOOLEAN
        BY <1>1, <3>2, <4>1, PopUnit DEF UnitsTypeOK
      <4>4. \A q \in Pcs : translated'[q] = IF q = pc THEN 1 ELSE translated[q]
        BY <4>1, <4>3 DEF Emitted
      <4>5. /\ soft' \in BOOLEAN /\ (soft => soft') /\ translated'[pc] > 0
            /\ \A q \in Pcs : translated[q] > 0 => translated'[q] > 0
            /\ \A q \in Pcs : translated'[q] > 0 => translated[q] > 0 \/ Succs(q) = {}
        BY <4>1, <4>2, <4>3, <4>4
      <4>6. Linked'
        BY <1>1, <2>1, <4>1, <4>5, TakenLinked
      <4> QED
        BY <2>1, <4>1, <4>6 DEF LinkInv
    <3> QED
      BY <3>1, <3>2
  <2>4. CASE softFail(f, pc, c)
    <3>1. /\ Pop(f, pc, c) /\ UNCHANGED <<cache, cut, translated, state>>
          /\ unfinished' = Tail(unfinished) /\ soft' = (soft \/ c = call)
          /\ soft \in BOOLEAN
      BY <1>1, <2>4 DEF softFail, Live, UnitsTypeOK
    <3>2. Linked'
      BY <1>1, <2>1, <3>1, TakenLinked
    <3> QED
      BY <2>1, <3>1, <3>2 DEF LinkInv
  <2>5. CASE translateSingleInstruction(f, pc, c)
    <3>1. UNCHANGED cut /\ state' \in {"translating", "dead"}
      BY <2>1, <2>5 DEF translateSingleInstruction, Live, Die
    <3>2. state' = "translating" => Linked'
      BY <1>1, <2>1, <2>5, TranslateLinked
    <3> QED
      BY <2>1, <3>1, <3>2 DEF LinkInv
  <2>6. CASE \E r : throwException(f, pc, c, r)
    BY <2>6 DEF throwException, LinkInv
  <2> QED
    BY <2>2, <2>3, <2>4, <2>5, <2>6
<1>7. CASE leaveTranslation
  BY <1>7 DEF leaveTranslation, noMoreUnits, LinkInv
<1>8. CASE compileCode
  BY <1>8 DEF compileCode, compile, Die, LinkInv
<1>9. CASE parseArguments \/ parseRanges \/ parseOption \/ editOptions
  BY <1>2, <1>9 DEF parseArguments, parseRanges, parseOption, editOptions
<1> QED
  BY <1>3, <1>4, <1>5, <1>6, <1>7, <1>8, <1>9 DEF Next, Step
-----------------------------------------------------------------------------
LEMMA SuccsIn == UnitsTypeOK /\ Pairs(ranges) => \A p \in Pcs : Succs(p) \subseteq Pcs
BY SuccsOf

LEMMA SuccsTyped ==
  ASSUME UnitsTypeOK', Pairs(ranges)'
  PROVE  \A p \in Pcs : Succs(p)' \subseteq Pcs
<1>1. (UnitsTypeOK /\ Pairs(ranges) => \A p \in Pcs : Succs(p) \subseteq Pcs)'
  BY SuccsIn, PTL
<1> QED
  BY <1>1

LEMMA RefineStep ==
  ASSUME Inv, LinkInv, LinkInv', UnitsTypeOK', Pairs(ranges)', Next
  PROVE  ReachNext \/ Stutters
<1>1. UnitsInv /\ UnitsTypeOK
  BY DEF Inv, UnitsInv
<1>2. CASE UNCHANGED unitVars
  <2>1. \A p : Succs(p)' = Succs(p)
    BY <1>2, SuccsSame DEF unitVars, translationVars
  <2> QED
    BY <1>2, <2>1 DEF Stutters, Reach!reachVars, unitVars, translationVars
(* The process dies in a step that changes nothing else the map looks at.   *)
<1>3. ASSUME state # "dead", state' = "dead", UNCHANGED <<prog, entry, ranges, translated>>
      PROVE  Reach!Crash
  <2>1. \A p : Succs(p)' = Succs(p)
    BY <1>3, SuccsSame
  <2> QED
    BY <1>3, <2>1 DEF Reach!Crash
<1>4. CASE instrument_memory_access /\ state # "dead"
  <2>1. CASE \E pc \in Pcs : NewTranslator(pc, given)
    <3>1. state = "idle" /\ state' = "constructing" /\ translated' = [p \in Pcs |-> 0]
      BY <2>1 DEF NewTranslator, NoModule
    <3>2. entry' \in Pcs
      BY DEF UnitsTypeOK
    <3>3. \A p \in Pcs : Succs(p)' \subseteq Pcs
      BY SuccsTyped
    <3>4. [p \in Pcs |-> Succs(p)]' \in [Pcs -> SUBSET Pcs]
      BY <3>3
    <3>5. {p \in Pcs : translated[p] > 0}' = {}
      BY <3>1
    <3>6. Reach!StartReach
      BY <3>1, <3>2, <3>4, <3>5 DEF Reach!StartReach
    <3> QED
      BY <3>6 DEF ReachNext
  <2>2. CASE Die("assertion") /\ UNCHANGED translationVars
    BY <1>3, <1>4, <2>2 DEF Die, ReachNext, translationVars
  <2> QED
    BY <1>4, <2>1, <2>2 DEF instrument_memory_access
<1>5. CASE enterTranslation
  <2>1. /\ state = "constructing" /\ state' \in {"translating", "dead"}
        /\ UNCHANGED <<prog, entry, ranges, translated>>
    BY <1>5 DEF enterTranslation, genCodeEntry, Die
  <2>2. \A p : Succs(p)' = Succs(p)
    BY <2>1, SuccsSame
  <2>3. CASE state' = "translating"
    BY <2>1, <2>2, <2>3 DEF Stutters, Reach!reachVars
  <2> QED
    BY <1>3, <2>1, <2>3 DEF ReachNext
<1>6. CASE leaveTranslation
  <2>1. /\ state = "translating" /\ state' = "ended" /\ unfinished = <<>>
        /\ Linked /\ UNCHANGED <<prog, entry, ranges, translated, cut, soft>>
    BY <1>6 DEF leaveTranslation, noMoreUnits, Finished, LinkInv
  <2>2. \A p : Succs(p)' = Succs(p)
    BY <2>1, SuccsSame
  <2>3. CASE cut \/ soft
    <3>1. Reach!GiveUp
      BY <2>1, <2>2, <2>3 DEF Reach!GiveUp
    <3> QED
      BY <3>1 DEF ReachNext
  <2>4. CASE ~(cut \/ soft)
    <3>1. \A p \in Pcs : Reached(p) => translated[p] > 0
      BY <2>1, <2>4 DEF Linked
    <3>2. entry \in Pcs /\ \A q \in Pcs : Succs(q) \subseteq Pcs
      BY <1>1, SuccsOf DEF UnitsTypeOK, UnitsInv
    <3>3. Reach!Known \subseteq {p \in Pcs : translated[p] > 0}
      BY <3>1, <3>2 DEF Reach!Known, Reached
    <3>4. Reach!Complete
      BY <2>1, <2>2, <2>4, <3>3 DEF Reach!Complete
    <3> QED
      BY <3>4 DEF ReachNext
  <2> QED
    BY <2>3, <2>4
<1>7. CASE translateUnit
  <2>1. state = "translating" /\ Linked /\ ~cut
    BY <1>7, UnitState DEF LinkInv
  <2>2. PICK f \in Functions, pc \in Pcs, c \in 1 .. MaxCalls :
          \/ genCodeExit(f, pc, c)
          \/ softFail(f, pc, c)
          \/ translateSingleInstruction(f, pc, c)
          \/ \E r : throwException(f, pc, c, r)
    BY <1>7 DEF translateUnit
  <2>3. /\ Pop(f, pc, c)
        /\ UNCHANGED <<prog, entry, ranges, function, call>>
    BY <2>2 DEF genCodeExit, softFail, translateSingleInstruction, throwException, Pop
  <2>4. \A p : Succs(p)' = Succs(p)
    BY <2>3, SuccsSame
  (* A unit of this call is visited for the first time.                     *)
  <2>5. ASSUME c = call, state' = "translating", NEW ts, Emitted(pc, ts)
        PROVE  Reach!Visit
    <3>1. /\ translated \in [Pcs -> Nat] /\ translated[pc] = 0 /\ f = function
          /\ unfinished \in Seq(Units) /\ unfinished # <<>>
          /\ <<f, pc, c>> = Head(unfinished)
      BY <1>1, <2>3, <2>5, PopUnit DEF UnitsTypeOK, Pop
    <3>2. \A q \in Pcs : translated'[q] = IF q = pc THEN 1 ELSE translated[q]
      BY <2>5, <3>1 DEF Emitted
    <3>3. {p \in Pcs : translated'[p] > 0} = {p \in Pcs : translated[p] > 0} \cup {pc}
      BY <3>2
    <3>4. Reached(pc)
      <4>1. 1 \in DOMAIN unfinished /\ unfinished[1] = <<function, pc, call>>
        BY <2>5, <3>1, TailUnits
      <4> QED
        BY <2>1, <4>1 DEF Linked
    <3>5. pc \in Reach!Known
      BY <3>4 DEF Reached, Reach!Known
    <3>6. pc \notin {p \in Pcs : translated[p] > 0}
      BY <3>1
    <3> QED
      BY <2>1, <2>3, <2>4, <2>5, <3>3, <3>5, <3>6 DEF Reach!Visit
  <2>6. CASE genCodeExit(f, pc, c)
    <3>1. CASE c = call
      BY <2>1, <2>5, <2>6, <3>1 DEF genCodeExit, Live, ReachNext
    <3>2. CASE c # call
      BY <1>3, <2>1, <2>3, <2>6, <3>2 DEF genCodeExit, Die, ReachNext
    <3> QED
      BY <3>1, <3>2
  <2>7. CASE translateSingleInstruction(f, pc, c)
    <3>1. \/ c = call /\ Emitted(pc, Targets(pc)) /\ Live
          \/ Die("freed unit") /\ UNCHANGED translated
      BY <2>7 DEF translateSingleInstruction
    <3>2. CASE c = call /\ Emitted(pc, Targets(pc)) /\ Live
      BY <2>1, <2>5, <3>2 DEF Live, ReachNext
    <3>3. CASE Die("freed unit") /\ UNCHANGED translated
      BY <1>3, <2>1, <2>3, <3>3 DEF Die, ReachNext
    <3> QED
      BY <3>1, <3>2, <3>3
  <2>8. CASE softFail(f, pc, c)
    <3>1. UNCHANGED <<state, cut, translated>>
      BY <2>8 DEF softFail, Live
    <3> QED
      BY <2>1, <2>3, <2>4, <3>1 DEF Stutters, Reach!reachVars
  <2>9. CASE \E r : throwException(f, pc, c, r)
    <3>1. state' = "ended" /\ cut' = TRUE /\ UNCHANGED translated
      BY <2>9 DEF throwException
    <3>2. Reach!GiveUp
      BY <2>1, <2>3, <2>4, <3>1 DEF Reach!GiveUp
    <3> QED
      BY <3>2 DEF ReachNext
  <2> QED
    BY <2>2, <2>6, <2>7, <2>8, <2>9
<1>8. CASE compileCode
  <2>1. state = "ended"
    BY <1>8 DEF compileCode, compile
  <2>2. CASE state' = "idle"
    <3>1. \A p \in Pcs : translated'[p] = 0
      BY <1>8, <2>2 DEF compileCode, compile, NoModule, Die
    <3>2. Reach!Forget
      BY <2>1, <2>2, <3>1 DEF Reach!Forget
    <3> QED
      BY <3>2 DEF ReachNext
  <2>3. CASE state' = "dead"
    BY <1>3, <1>8, <2>1, <2>3 DEF compileCode, compile, ReachNext
  <2> QED
    BY <1>8, <2>2, <2>3 DEF compileCode, compile, Die
<1>9. CASE parseArguments \/ parseRanges \/ parseOption \/ editOptions
  BY <1>2, <1>9 DEF parseArguments, parseRanges, parseOption, editOptions
<1>10. CASE (allocateOptions \/ cleanUp) /\ state # "dead"
  <2>1. CASE UNCHANGED unitVars
    BY <1>2, <2>1
  <2>2. CASE state' = "dead" /\ UNCHANGED translationVars
    BY <1>3, <1>10, <2>2 DEF ReachNext, translationVars
  <2> QED
    BY <1>10, <2>1, <2>2 DEF allocateOptions, cleanUp, Die, Live, unitVars
<1> QED
  BY <1>4, <1>5, <1>6, <1>7, <1>8, <1>9, <1>10 DEF Next, Step

LEMMA Links == Spec => []LinkInv
<1>1. Init => LinkInv
  BY DEF Init, UnitsInit, LinkInv
<1>2. Inv /\ LinkInv /\ [Next]_vars => LinkInv'
  <2>1. Inv /\ LinkInv /\ UNCHANGED vars => LinkInv'
    <3> SUFFICES ASSUME LinkInv, UNCHANGED vars
                 PROVE  LinkInv'
      OBVIOUS
    <3>1. \A p : Reached(p)' <=> Reached(p)
      BY SuccsSame DEF Reached, vars, unitVars, translationVars
    <3> QED
      BY <3>1 DEF LinkInv, Linked, vars, unitVars, translationVars
  <2> QED
    BY <2>1, LinkStep
<1> QED
  BY <1>1, <1>2, Inductive, PTL DEF Spec

(* A translation that left nothing out has visited all that control reaches *)
(* from the entry and nothing else, for every code and whatever calls came  *)
(* before; one that was cut short, or that left an instruction out, is      *)
(* given up.                                                                *)
THEOREM ImplementsReachability == Spec => ReachSpec
<1>1. Init => Reach!ReachInit
  BY DEF Init, UnitsInit, Reach!ReachInit
<1>2. Inv => UnitsTypeOK /\ Pairs(ranges)
  BY DEF Inv, UnitsInv
<1>3. UNCHANGED vars => Stutters
  BY SuccsSame DEF Stutters, Reach!reachVars, vars, unitVars, translationVars
<1>4. /\ Inv /\ LinkInv /\ LinkInv' /\ UnitsTypeOK' /\ Pairs(ranges)' /\ [Next]_vars
      => [ReachNext]_(Reach!reachVars)
  BY <1>3, RefineStep DEF Stutters
<1>5. [](UnitsTypeOK /\ Pairs(ranges)) /\ []Inv /\ []LinkInv /\ [][Next]_vars
      => [][ReachNext]_(Reach!reachVars)
  BY <1>4, PTL
<1>6. Spec => [](UnitsTypeOK /\ Pairs(ranges))
  BY <1>2, Inductive, PTL
<1> QED
  BY <1>1, <1>5, <1>6, Inductive, Links, PTL DEF Spec, ReachSpec, Reach!ReachSpec, ReachNext
=============================================================================
