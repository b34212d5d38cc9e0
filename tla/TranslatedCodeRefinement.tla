----------------------- MODULE TranslatedCodeRefinement -----------------------
(***************************************************************************)
(* TranslatedCode implements ThumbMachine: for words of any width, every   *)
(* program made of the translated instructions and every call, what the    *)
(* translated function does is what the processor does.  The definitions   *)
(* of ThumbWords come in twice, for the code and for the processor; the    *)
(* first lemmas show that they agree.                                      *)
(***************************************************************************)
EXTENDS TranslatedCodeProofs

LEMMA SameNumbers ==
  /\ Machine!Byte = Byte /\ Machine!HalfM = HalfM /\ Machine!M = M
  /\ Machine!Word = Word /\ Machine!Bytes = Bytes /\ Machine!Place = Place
BY DEF Machine!Byte, Machine!HalfM, Machine!M, Machine!Word, Machine!Bytes,
       Machine!Place, Byte, HalfM, M, Word, Bytes, Place

LEMMA SameSets ==
  /\ Machine!DataOps = DataOps /\ Machine!LoadOps = LoadOps
  /\ Machine!StoreOps = StoreOps /\ Machine!BranchOps = BranchOps
BY DEF Machine!DataOps, Machine!LoadOps, Machine!StoreOps, Machine!BranchOps,
       DataOps, LoadOps, StoreOps, BranchOps

LEMMA SameWords ==
  /\ \A x : Machine!Wrap(x) = Wrap(x)
  /\ \A x : Machine!TopBit(x) = TopBit(x)
  /\ \A x : Machine!Not(x) = Not(x)
  /\ \A x : Machine!Signed(x) = Signed(x)
  /\ \A x, n : Machine!Lowest(x, n) = Lowest(x, n)
  /\ \A sp, k : Machine!Slot(sp, k) = Slot(sp, k)
  /\ \A i : Machine!Size(i) = Size(i)
  /\ \A i, x : Machine!Address(i, x) = Address(i, x)
  /\ \A k, a, n, x : Machine!Access(k, a, n, x) = Access(k, a, n, x)
<1>1. \A x : Machine!Wrap(x) = Wrap(x)
  BY SameNumbers DEF Machine!Wrap, Wrap
<1>2. \A x : Machine!TopBit(x) = TopBit(x)
  BY SameNumbers DEF Machine!TopBit, TopBit
<1>3. \A x : Machine!Not(x) = Not(x)
  BY SameNumbers DEF Machine!Not, Not
<1>4. \A x : Machine!Signed(x) = Signed(x)
  BY <1>2, SameNumbers DEF Machine!Signed, Signed
<1>5. \A x, n : Machine!Lowest(x, n) = Lowest(x, n)
  BY SameNumbers DEF Machine!Lowest, Lowest
<1>6. \A sp, k : Machine!Slot(sp, k) = Slot(sp, k)
  BY <1>1 DEF Machine!Slot, Slot
<1>7. \A i : Machine!Size(i) = Size(i)
  BY DEF Machine!Size, Size
<1>8. \A i, x : Machine!Address(i, x) = Address(i, x)
  BY <1>1, <1>7 DEF Machine!Address, Address
<1>9. \A k, a, n, x : Machine!Access(k, a, n, x) = Access(k, a, n, x)
  BY DEF Machine!Access, Access
<1> QED
  BY <1>1, <1>2, <1>3, <1>4, <1>5, <1>6, <1>7, <1>8, <1>9

LEMMA SameMemory ==
  /\ \A m, a, n : Machine!LoadFrom(m, a, n) = LoadFrom(m, a, n)
  /\ \A m, a, n, x : Machine!StoreTo(m, a, n, x) = StoreTo(m, a, n, x)
  /\ \A m, sp, ws, s : Machine!Pushed(m, sp, ws, s) = Pushed(m, sp, ws, s)
<1>1. \A m, a, n : Machine!LoadFrom(m, a, n) = LoadFrom(m, a, n)
  BY Zenon DEF Machine!LoadFrom, LoadFrom, Machine!Wrap, Machine!M, Machine!HalfM,
         Machine!Byte, Machine!Place, Wrap, M, HalfM, Byte, Place
<1>2. \A m, a, n, x : Machine!StoreTo(m, a, n, x) = StoreTo(m, a, n, x)
  BY SameNumbers, SameWords DEF Machine!StoreTo, StoreTo
<1>3. \A m, sp, ws, s : Machine!Pushed(m, sp, ws, s) = Pushed(m, sp, ws, s)
  BY DEF Machine!Pushed, Pushed, Machine!Slot, Slot, Machine!Word, Word,
         Machine!Wrap, Machine!M, Machine!HalfM,
         Machine!Byte, Machine!Place, Wrap, M, HalfM, Byte, Place
<1> QED
  BY <1>1, <1>2, <1>3

(* The registers and flags that the machine sees. *)
Seen == [r \in Regs |-> Visible[r]]

LEMMA SeenInside ==
  ASSUME TypeOK, inside, inside'
  PROVE  /\ InForce = flag /\ InForce' = flag' /\ Visible = val /\ Visible' = val'
         /\ Seen = [r \in Regs |-> val[r]] /\ Seen' = [r \in Regs |-> val'[r]]
BY DEF InForce, Visible, Seen

LEMMA DestSeen ==
  ASSUME TypeOK, inside, inside', NEW i \in Insts, NEW x, val' = Dest(i, x)
  PROVE  /\ Seen' = [Seen EXCEPT ![i.rd] = x]
         /\ Visible'["CPSR"] = Visible["CPSR"]
<1>1. i.rd \in Regs /\ "CPSR" \notin Regs
  BY InstTyped, InstAssumption
<1> QED
  BY <1>1, SeenInside DEF Dest, TypeOK, IsCpu, Seen

LEMMA Begins ==
  ASSUME NEW i \in Insts, NEW t, Execute(i, t), Visible'["CPSR"] = Visible["CPSR"]
  PROVE  Machine!Begin(i, bus', t)
BY DEF Execute, Machine!Begin

(* What an instruction gives for registers and flags, as the translated     *)
(* code computes it and as the processor does.                              *)
LEMMA SameData ==
  ASSUME TypeOK, inside, NEW i \in Insts
  PROVE  /\ Machine!Operand(i) = IF i.op \in {"tCMPi8", "tADDi8", "tSUBi8"}
                                 THEN i.imm ELSE val[i.rm]
         /\ Machine!Sum(i) = val[i.rn] + Machine!Operand(i)
         /\ Machine!Difference(i) = val[i.rn] - Machine!Operand(i)
         /\ Seen[i.rn] = val[i.rn] /\ Seen[i.rm] = val[i.rm] /\ Seen[i.rd] = val[i.rd]
<1>1. Seen[i.rn] = val[i.rn] /\ Seen[i.rm] = val[i.rm] /\ Seen[i.rd] = val[i.rd]
  BY InstTyped DEF Seen, Visible
<1> QED
  BY <1>1 DEF Machine!Operand, Machine!Sum, Machine!Difference, Seen

LEMMA DataMatches ==
  ASSUME TypeOK, inside, NEW i \in Insts, i.op \in DataOps, NEW fl, NEW c \in BOOLEAN,
         Compute(i, IF i.op \in {"tCMPr", "tCMPi8"} THEN val
                    ELSE Dest(i, Machine!Result(i)), fl),
         Machine!CarryAllowed(i, c),
         fl = IF i.op = "tLDRpciASM" THEN flag
              ELSE FlagFcn(Machine!Result(i) = 0, TopBit(Machine!Result(i)), c,
                           Machine!Overflow(i))
  PROVE  Machine!DataStep(i)
<1> DEFINE x == Machine!Result(i)
           v == Machine!Overflow(i)
<1>1. /\ flag' = fl /\ mem' = mem /\ bus' = <<>> /\ inside' /\ Execute(i, FALSE)
      /\ val' = IF i.op \in {"tCMPr", "tCMPi8"} THEN val ELSE Dest(i, x)
  BY DEF Compute, Execute
<1>2. /\ Seen' = IF i.op \in {"tCMPr", "tCMPi8"} THEN Seen ELSE [Seen EXCEPT ![i.rd] = x]
      /\ Visible'["CPSR"] = Visible["CPSR"]
  BY <1>1, DestSeen, SeenInside
<1>3. Machine!Begin(i, <<>>, FALSE)
  BY <1>1, <1>2, Begins
<1>4. InForce' = IF i.op = "tLDRpciASM" THEN InForce
                 ELSE [Z |-> x = 0, N |-> Machine!TopBit(x), C |-> c, V |-> v]
  BY <1>1, SeenInside, SameWords, FlagRecord
<1> HIDE DEF x, v
<1>5. i.op \in Machine!DataOps
  BY SameSets
<1> QED
  BY <1>1, <1>2, <1>3, <1>4, <1>5 DEF Machine!DataStep, Seen, InForce, x, v

LEMMA SubSigned ==
  ASSUME NEW l \in Word, NEW r \in Word
  PROVE  SubFlags(l, r) = FlagFcn(Wrap(l - r) = 0, TopBit(Wrap(l - r)), l - r >= 0,
                                  ~Machine!InSigned(Signed(l) - Signed(r)))
<1> DEFINE x == Wrap(l - r)
<1>1. /\ l \in Int /\ r \in Int /\ 0 <= l /\ l < M /\ 0 <= r /\ r < M
      /\ M \in Int /\ HalfM \in Int /\ HalfM > 0 /\ M = HalfM + HalfM
  BY WordFacts DEF Word
<1>2. (l = r) = (x = 0) /\ NoBorrow(l, r) = (l - r >= 0)
  BY <1>1 DEF Wrap, NoBorrow
<1>3. (Xor(TopBit(l), TopBit(r)) /\ Xor(TopBit(l), TopBit(x)))
        = (~Machine!InSigned(Signed(l) - Signed(r)))
  BY <1>1, SameNumbers DEF Wrap, TopBit, Xor, Signed, Machine!InSigned
<1>4. SubFlags(l, r) = [Z |-> l = r, C |-> NoBorrow(l, r), N |-> TopBit(x),
                        V |-> /\ Xor(TopBit(l), TopBit(r))
                              /\ Xor(TopBit(l), TopBit(x))]
  BY DEF SubFlags
<1> HIDE DEF x
<1>5. SubFlags(l, r) = FlagFcn(l = r, TopBit(x), NoBorrow(l, r),
                               /\ Xor(TopBit(l), TopBit(r))
                               /\ Xor(TopBit(l), TopBit(x)))
  BY <1>4, FlagRecord, Zenon
<1>6. SubFlags(l, r) = FlagFcn(x = 0, TopBit(x), l - r >= 0,
                               ~Machine!InSigned(Signed(l) - Signed(r)))
  BY <1>2, <1>3, <1>5, Zenon
<1> QED
  BY <1>6 DEF x

LEMMA AddSigned ==
  ASSUME NEW l \in Word, NEW r \in Word
  PROVE  /\ AddFlags(l, r) =
              FlagFcn(Wrap(l + r) = 0, TopBit(Wrap(l + r)), r > l \/ Wrap(l + r) < l,
                      ~Machine!InSigned(Signed(l) + Signed(r)))
         /\ l + r >= M => r > l \/ Wrap(l + r) < l
<1> DEFINE x == Wrap(l + r)
<1>1. /\ l \in Int /\ r \in Int /\ 0 <= l /\ l < M /\ 0 <= r /\ r < M
      /\ M \in Int /\ HalfM \in Int /\ HalfM > 0 /\ M = HalfM + HalfM
  BY WordFacts DEF Word
<1>2. l + r >= M => r > l \/ x < l
  BY <1>1 DEF Wrap
<1>3. (~Xor(TopBit(l), TopBit(r)) /\ Xor(TopBit(l), TopBit(x)))
        = (~Machine!InSigned(Signed(l) + Signed(r)))
  BY <1>1, SameNumbers DEF Wrap, TopBit, Xor, Signed, Machine!InSigned
<1>4. AddFlags(l, r) = [Z |-> x = 0, N |-> TopBit(x), C |-> r > l \/ x < l,
                        V |-> /\ ~Xor(TopBit(l), TopBit(r))
                              /\ Xor(TopBit(l), TopBit(x))]
  BY DEF AddFlags
<1> HIDE DEF x
<1>5. AddFlags(l, r) = FlagFcn(x = 0, TopBit(x), r > l \/ x < l,
                               /\ ~Xor(TopBit(l), TopBit(r))
                               /\ Xor(TopBit(l), TopBit(x)))
  BY <1>4, FlagRecord, Zenon
<1>6. AddFlags(l, r) = FlagFcn(x = 0, TopBit(x), r > l \/ x < l,
                               ~Machine!InSigned(Signed(l) + Signed(r)))
  BY <1>3, <1>5, Zenon
<1> QED
  BY <1>2, <1>6 DEF x

(* The instructions that only compute do what the processor does.           *)
LEMMA SubMatches ==
  ASSUME TypeOK, NEW i \in Insts,
         translate_tCMPr(i) \/ translate_tCMPi8(i) \/ translate_tSUBi8(i)
  PROVE  Machine!DataStep(i)
<1> DEFINE l == val[i.rn]
           r == Machine!Operand(i)
           x == Wrap(l - r)
<1>1. inside
  BY DEF translate_tCMPr, translate_tCMPi8, translate_tSUBi8, Compute, Execute
<1>2. i.op \in {"tCMPr", "tCMPi8", "tSUBi8"} /\ i.op \in DataOps
  BY DEF translate_tCMPr, translate_tCMPi8, translate_tSUBi8, DataOps
<1>3. r = IF i.op = "tCMPr" THEN val[i.rm] ELSE i.imm
  BY <1>1, <1>2, SameData
<1>4. l \in Word /\ r \in Word
  BY <1>3, ValWord, InstTyped
<1>5. Machine!Difference(i) = l - r
  BY <1>1, SameData
<1>6. Machine!Result(i) = x
  BY <1>2, <1>5, SameWords DEF Machine!Result
<1>7. Machine!Overflow(i) = ~Machine!InSigned(Signed(l) - Signed(r))
  BY <1>1, <1>2, SameWords, SameData DEF Machine!Overflow, Seen
<1>8. Machine!CarryAllowed(i, l - r >= 0) /\ (l - r >= 0) \in BOOLEAN
  BY <1>2, <1>5 DEF Machine!CarryAllowed
<1>9. Compute(i, IF i.op \in {"tCMPr", "tCMPi8"} THEN val ELSE Dest(i, x), SubFlags(l, r))
  BY <1>2, <1>3 DEF translate_tCMPr, translate_tCMPi8, translate_tSUBi8
<1>10. SubFlags(l, r) = FlagFcn(x = 0, TopBit(x), l - r >= 0,
                                ~Machine!InSigned(Signed(l) - Signed(r)))
  BY <1>4, SubSigned
<1> HIDE DEF l, r, x
<1>11. SubFlags(l, r) = IF i.op = "tLDRpciASM" THEN flag
                        ELSE FlagFcn(Machine!Result(i) = 0, TopBit(Machine!Result(i)),
                                     l - r >= 0, Machine!Overflow(i))
  BY <1>2, <1>6, <1>7, <1>10, Zenon
<1> QED
  BY <1>1, <1>2, <1>6, <1>8, <1>9, <1>11, DataMatches

LEMMA AddMatches ==
  ASSUME TypeOK, NEW i \in Insts, translate_tADDi8(i) \/ translate_tADDrr(i)
  PROVE  Machine!DataStep(i)
<1> DEFINE l == val[i.rn]
           r == Machine!Operand(i)
           x == Wrap(l + r)
           c == r > l \/ x < l
<1>1. inside
  BY DEF translate_tADDi8, translate_tADDrr, Compute, Execute
<1>2. i.op \in {"tADDi8", "tADDrr"} /\ i.op \in DataOps
  BY DEF translate_tADDi8, translate_tADDrr, DataOps
<1>3. r = IF i.op = "tADDrr" THEN val[i.rm] ELSE i.imm
  BY <1>1, <1>2, SameData
<1>4. l \in Word /\ r \in Word
  BY <1>3, ValWord, InstTyped
<1>5. Machine!Sum(i) = l + r
  BY <1>1, SameData
<1>6. Machine!Result(i) = x
  BY <1>2, <1>5, SameWords DEF Machine!Result
<1>7. Machine!Overflow(i) = ~Machine!InSigned(Signed(l) + Signed(r))
  BY <1>1, <1>2, SameWords, SameData DEF Machine!Overflow, Seen
<1>8. Machine!CarryAllowed(i, c) /\ c \in BOOLEAN
  BY <1>2, <1>4, <1>5, AddSigned, SameNumbers DEF Machine!CarryAllowed
<1>9. Compute(i, Dest(i, x), AddFlags(l, r))
  BY <1>2, <1>3 DEF translate_tADDi8, translate_tADDrr
<1>10. AddFlags(l, r) = FlagFcn(x = 0, TopBit(x), c,
                                ~Machine!InSigned(Signed(l) + Signed(r)))
  BY <1>4, AddSigned
<1> HIDE DEF l, r, x, c
<1>11. AddFlags(l, r) = IF i.op = "tLDRpciASM" THEN flag
                        ELSE FlagFcn(Machine!Result(i) = 0, TopBit(Machine!Result(i)),
                                     c, Machine!Overflow(i))
  BY <1>2, <1>6, <1>7, <1>10, Zenon
<1>12. Compute(i, IF i.op \in {"tCMPr", "tCMPi8"} THEN val
                  ELSE Dest(i, Machine!Result(i)), AddFlags(l, r))
  BY <1>2, <1>6, <1>9
<1> QED
  BY <1>1, <1>2, <1>8, <1>11, <1>12, DataMatches

LogicOps == {"tMOVi8", "tORR", "tAND", "tBIC"}
ShiftOps == {"tLSLri", "tLSRri"}

LEMMA LogicMatches ==
  ASSUME TypeOK, NEW i \in Insts, i.op \in LogicOps, NEW x, x = Machine!Result(i),
         Compute(i, Dest(i, x), ZNof(x))
  PROVE  Machine!DataStep(i)
<1> DEFINE v == Machine!Overflow(i)
           c == flag["C"]
<1>1. inside /\ i.op \in DataOps
  BY DEF Compute, Execute, LogicOps, DataOps
<1>2. flag \in [Flags -> BOOLEAN] /\ c \in BOOLEAN
  BY DEF TypeOK, Flags
<1>3. v = flag["V"] /\ Machine!CarryAllowed(i, c)
  BY <1>1 DEF LogicOps, Machine!Overflow, Machine!CarryAllowed
<1>4. ZNof(x) = FlagFcn(x = 0, TopBit(x), c, v)
  BY <1>2, <1>3, ZNTyped
<1> HIDE DEF c, v
<1>5. ZNof(x) = IF i.op = "tLDRpciASM" THEN flag
                ELSE FlagFcn(Machine!Result(i) = 0, TopBit(Machine!Result(i)), c,
                             Machine!Overflow(i))
  BY <1>4, Zenon DEF LogicOps, v
<1>6. Compute(i, IF i.op \in {"tCMPr", "tCMPi8"} THEN val
                 ELSE Dest(i, Machine!Result(i)), ZNof(x))
  BY DEF LogicOps
<1> QED
  BY <1>1, <1>2, <1>3, <1>5, <1>6, DataMatches

LEMMA ShiftMatches ==
  ASSUME TypeOK, NEW i \in Insts, i.op \in ShiftOps, NEW x, x = Machine!Result(i),
         NEW c \in BOOLEAN, Compute(i, Dest(i, x), [ZNof(x) EXCEPT !["C"] = c])
  PROVE  Machine!DataStep(i)
<1> DEFINE v == Machine!Overflow(i)
           fl == [ZNof(x) EXCEPT !["C"] = c]
<1>1. inside /\ i.op \in DataOps
  BY DEF Compute, Execute, ShiftOps, DataOps
<1>2. flag \in [Flags -> BOOLEAN]
  BY DEF TypeOK, Flags
<1>3. v = flag["V"] /\ Machine!CarryAllowed(i, c)
  BY <1>1 DEF ShiftOps, Machine!Overflow, Machine!CarryAllowed
<1>4. fl = FlagFcn(x = 0, TopBit(x), c, v)
  BY <1>2, <1>3, ZNTyped
<1> HIDE DEF fl, v
<1>5. fl = IF i.op = "tLDRpciASM" THEN flag
           ELSE FlagFcn(Machine!Result(i) = 0, TopBit(Machine!Result(i)), c,
                        Machine!Overflow(i))
  BY <1>4, Zenon DEF ShiftOps, v
<1>6. Compute(i, IF i.op \in {"tCMPr", "tCMPi8"} THEN val
                 ELSE Dest(i, Machine!Result(i)), fl)
  BY DEF ShiftOps, fl
<1> QED
  BY <1>1, <1>2, <1>3, <1>5, <1>6, DataMatches

LEMMA LiteralMatches ==
  ASSUME TypeOK, NEW i \in Insts, translate_tLDRpciASM(i)
  PROVE  Machine!DataStep(i)
<1>1. inside /\ i.op = "tLDRpciASM" /\ Compute(i, Dest(i, i.imm), flag)
  BY DEF translate_tLDRpciASM, Compute, Execute
<1>2. i.op \in DataOps /\ flag["C"] \in BOOLEAN
  BY <1>1 DEF DataOps, TypeOK, Flags
<1>3. Machine!Result(i) = i.imm /\ Machine!CarryAllowed(i, flag["C"])
  BY <1>1 DEF Machine!Result, Machine!CarryAllowed
<1> QED
  BY <1>1, <1>2, <1>3, DataMatches

LEMMA SameLogic ==
  ASSUME TypeOK, inside, NEW i \in Insts
  PROVE  /\ i.op = "tMOVi8" => Machine!Result(i) = i.imm
         /\ i.op = "tORR" => Machine!Result(i) = Or(val[i.rn], val[i.rm])
         /\ i.op = "tAND" => Machine!Result(i) = And(val[i.rn], val[i.rm])
         /\ i.op = "tBIC" => Machine!Result(i) = And(val[i.rn], Not(val[i.rm]))
         /\ i.op = "tLSLri" => Machine!Result(i) = Shl(val[i.rm], i.imm)
         /\ i.op = "tLSRri" =>
              Machine!Result(i) = IF i.imm = 0 THEN 0 ELSE Shr(val[i.rm], i.imm)
<1>1. Seen[i.rn] = val[i.rn] /\ Seen[i.rm] = val[i.rm]
  BY SameData
<1>2. Shr(val[i.rm], WordBits) = 0
  BY ValWord, WordAssumption
<1> QED
  BY <1>1, <1>2, SameWords DEF Machine!Result, Seen

LEMMA ComputeMatches ==
  ASSUME TypeOK, NEW i \in Insts,
         \/ translate_tMOVi8(i) \/ translate_tORR(i) \/ translate_tAND(i)
         \/ translate_tBIC(i) \/ translate_tLSLri(i) \/ translate_tLSRri(i)
  PROVE  Machine!DataStep(i)
<1>1. inside
  BY DEF translate_tMOVi8, translate_tORR, translate_tAND, translate_tBIC,
         translate_tLSLri, translate_tLSRri, Compute, Execute
<1>2. CASE translate_tMOVi8(i)
  BY <1>1, <1>2, SameLogic, LogicMatches DEF translate_tMOVi8, LogicOps
<1>3. CASE translate_tORR(i)
  BY <1>1, <1>3, SameLogic, LogicMatches DEF translate_tORR, LogicOps
<1>4. CASE translate_tAND(i)
  BY <1>1, <1>4, SameLogic, LogicMatches DEF translate_tAND, LogicOps
<1>5. CASE translate_tBIC(i)
  BY <1>1, <1>5, SameLogic, LogicMatches DEF translate_tBIC, LogicOps
<1>6. CASE translate_tLSLri(i)
  <2> DEFINE x == Shl(val[i.rm], i.imm)
  <2>1. i.op = "tLSLri"
    BY <1>6 DEF translate_tLSLri
  <2>2. PICK c \in BOOLEAN : Compute(i, Dest(i, x), [ZNof(x) EXCEPT !["C"] = c])
    BY <1>6 DEF translate_tLSLri
  <2>3. x = Machine!Result(i) /\ i.op \in ShiftOps
    BY <1>1, <2>1, SameLogic DEF ShiftOps
  <2> HIDE DEF x
  <2> QED
    BY <2>2, <2>3, ShiftMatches
<1>7. CASE translate_tLSRri(i)
  <2> DEFINE x == IF i.imm = 0 THEN 0 ELSE Shr(val[i.rm], i.imm)
             c == LSRCarry(val[i.rm], x, i.imm)
  <2>1. i.op = "tLSRri" /\ Compute(i, Dest(i, x), [ZNof(x) EXCEPT !["C"] = c])
    BY <1>7 DEF translate_tLSRri
  <2>2. i.op \in ShiftOps /\ x = Machine!Result(i)
    BY <1>1, <2>1, SameLogic DEF ShiftOps
  <2>3. Shr(val[i.rm], i.imm) \in Word
    BY <2>1, ValWord, ShiftTyped
  <2>4. x \in Word
    BY <2>3, ArithWord
  <2>5. c \in BOOLEAN
    BY <2>1, <2>4, ValWord, ShiftTyped
  <2> HIDE DEF x, c
  <2> QED
    BY <2>1, <2>2, <2>5, ShiftMatches
<1> QED
  BY <1>2, <1>3, <1>4, <1>5, <1>6, <1>7

LEMMA LoadMatches ==
  ASSUME TypeOK, NEW i \in Insts, i.op \in LoadOps, Load(i)
  PROVE  Machine!LoadStep(i)
<1> DEFINE a == Address(i, val[i.rn])
           n == Size(i)
<1>1. inside /\ inside' /\ Execute(i, FALSE) /\ flag' = flag /\ mem' = mem
  BY DEF Load, Execute
<1>2. val' = Dest(i, LoadFrom(mem, a, n)) /\ bus' = <<Access("read", a, n, 0)>>
  BY LoadTyped DEF Load
<1>3. Seen' = [Seen EXCEPT ![i.rd] = LoadFrom(mem, a, n)]
      /\ Visible'["CPSR"] = Visible["CPSR"]
  BY <1>1, <1>2, DestSeen
<1>4. Machine!Begin(i, <<Access("read", a, n, 0)>>, FALSE)
  BY <1>1, <1>2, <1>3, Begins
<1>5. InForce' = InForce /\ Seen[i.rn] = val[i.rn]
  BY <1>1, SeenInside, SameData
<1>6. /\ a = Machine!Address(i, Seen[i.rn]) /\ n = Machine!Size(i)
      /\ Access("read", a, n, 0) = Machine!Access("read", a, n, 0)
      /\ LoadFrom(mem, a, n) = Machine!LoadFrom(mem, a, n)
      /\ i.op \in Machine!LoadOps
  BY <1>5, SameWords, SameMemory, SameSets
<1> HIDE DEF a, n
<1> QED
  BY <1>1, <1>3, <1>4, <1>5, <1>6 DEF Machine!LoadStep, Seen, InForce

LEMMA StoreMatches ==
  ASSUME TypeOK, NEW i \in Insts, i.op \in StoreOps, Store(i)
  PROVE  Machine!StoreStep(i)
<1> DEFINE a == Address(i, val[i.rn])
           n == Size(i)
           x == Lowest(val[i.rd], n)
<1>1. inside /\ inside' /\ Execute(i, FALSE) /\ flag' = flag /\ val' = val
  BY DEF Store, Execute
<1>2. mem' = StoreTo(mem, a, n, x) /\ bus' = <<Access("write", a, n, x)>>
  BY DEF Store
<1>3. Seen' = Seen /\ Visible'["CPSR"] = Visible["CPSR"] /\ InForce' = InForce
      /\ Seen[i.rn] = val[i.rn] /\ Seen[i.rd] = val[i.rd]
  BY <1>1, SeenInside, SameData
<1>4. Machine!Begin(i, <<Access("write", a, n, x)>>, FALSE)
  BY <1>1, <1>2, <1>3, Begins
<1>5. /\ a = Machine!Address(i, Seen[i.rn]) /\ n = Machine!Size(i)
      /\ x = Machine!Lowest(Seen[i.rd], n)
      /\ Access("write", a, n, x) = Machine!Access("write", a, n, x)
      /\ StoreTo(mem, a, n, x) = Machine!StoreTo(mem, a, n, x)
      /\ i.op \in Machine!StoreOps
  BY <1>3, SameWords, SameMemory, SameSets
<1> HIDE DEF a, n, x
<1> QED
  BY <1>2, <1>3, <1>4, <1>5 DEF Machine!StoreStep, Seen, InForce

LEMMA PushMatches ==
  ASSUME TypeOK, NEW i \in Insts, translate_tPUSH(i)
  PROVE  Machine!PushStep(i)
<1> DEFINE n == Len(i.list)
           ws == [k \in 1..n |-> val[i.list[k]]]
           s == [k \in 1..n |-> k]
           b == [k \in 1..n |-> Access("write", Slot(val[SP], k), 4, ws[k])]
<1>1. /\ i.list \in Seq(Regs) /\ n \in Nat /\ DOMAIN i.list = 1..n
      /\ \A k \in 1..n : i.list[k] \in Regs
  BY InstTyped
<1>2. /\ mem' = Pushed(mem, val[SP], ws, s) /\ bus' = b
      /\ val' = [val EXCEPT ![SP] = Slot(val[SP], n)]
      /\ Execute(i, FALSE) /\ UNCHANGED flag /\ i.op = "tPUSH" /\ inside /\ inside'
  BY DEF translate_tPUSH, Execute
<1>3. /\ Seen' = [Seen EXCEPT ![SP] = Slot(Seen[SP], n)]
      /\ Visible'["CPSR"] = Visible["CPSR"] /\ InForce' = InForce
      /\ Seen[SP] = val[SP]
  BY <1>2, InstAssumption, SeenInside DEF TypeOK, IsCpu, Seen
<1>4. Machine!Begin(i, b, FALSE)
  BY <1>2, <1>3, Begins
<1>5. ws = [k \in DOMAIN i.list |-> Seen[i.list[k]]]
  BY <1>1, <1>2, SeenInside DEF Seen
<1>6. s \in Machine!Slots(n)
  BY <1>1 DEF Machine!Slots
<1>7. b = [k \in DOMAIN i.list |->
             Machine!Access("write", Machine!Slot(Seen[SP], s[k]), 4, ws[k])]
  BY <1>1, <1>3, SameWords
<1>8. mem' = Machine!Pushed(mem, Seen[SP], ws, s)
  BY <1>2, <1>3, SameMemory
<1>9. Seen' = [Seen EXCEPT ![SP] = Machine!Slot(Seen[SP], n)]
  BY <1>3, SameWords
<1> HIDE DEF ws, s, b
<1>10. \E t \in Machine!Slots(n) :
         LET us == [k \in DOMAIN i.list |-> Seen[i.list[k]]]
         IN /\ mem' = Machine!Pushed(mem, Seen[SP], us, t)
            /\ Machine!Begin(i, [k \in DOMAIN i.list |->
                  Machine!Access("write", Machine!Slot(Seen[SP], t[k]), 4, us[k])], FALSE)
  BY <1>4, <1>5, <1>6, <1>7, <1>8
<1> QED
  BY <1>2, <1>3, <1>9, <1>10 DEF Machine!PushStep, Seen, InForce

LEMMA BranchMatches ==
  ASSUME TypeOK, NEW i \in Insts, translate_tB(i) \/ translate_tBcc(i)
  PROVE  Machine!BranchStep(i)
<1> DEFINE t == i.op = "tB" \/ Machine!ConditionPassed(i.cond, InForce)
<1>1. /\ inside /\ inside' /\ bus' = <<>> /\ UNCHANGED <<val, flag, mem>>
      /\ i.op \in {"tB", "tBcc"}
      /\ i.op = "tB" => Execute(i, TRUE)
      /\ i.op = "tBcc" => Execute(i, getCondition(i.cond))
  BY DEF translate_tB, translate_tBcc, Execute
<1>2. Seen' = Seen /\ Visible'["CPSR"] = Visible["CPSR"] /\ InForce' = InForce
      /\ InForce = flag
  BY <1>1, SeenInside
<1>3. getCondition(i.cond) = Machine!ConditionPassed(i.cond, InForce)
  <2>1. i.cond \in Conditions
    BY InstTyped
  <2>2. /\ flag["Z"] \in BOOLEAN /\ flag["N"] \in BOOLEAN
        /\ flag["C"] \in BOOLEAN /\ flag["V"] \in BOOLEAN
    BY DEF TypeOK, Flags
  <2> QED
    BY <1>2, <2>1, <2>2 DEF Conditions, getCondition, Machine!ConditionPassed
<1>4. getCondition(i.cond) \in BOOLEAN
  <2>1. i.cond \in Conditions
    BY InstTyped
  <2>2. /\ flag["Z"] \in BOOLEAN /\ flag["N"] \in BOOLEAN
        /\ flag["C"] \in BOOLEAN /\ flag["V"] \in BOOLEAN
    BY DEF TypeOK, Flags
  <2> QED
    BY <2>1, <2>2 DEF Conditions, getCondition
<1>5. Execute(i, t)
  BY <1>1, <1>3, <1>4
<1>6. Machine!Begin(i, <<>>, t)
  BY <1>1, <1>2, <1>5, Begins
<1> QED
  BY <1>1, <1>2, <1>6, SameSets DEF Machine!BranchStep, BranchOps, Seen, InForce

LEMMA InstructionMatches ==
  ASSUME TypeOK, NEW i \in Insts, Translated(i)
  PROVE  Machine!MachineStep(i)
<1>1. CASE translate_tCMPr(i) \/ translate_tCMPi8(i) \/ translate_tSUBi8(i)
  BY <1>1, SubMatches DEF Machine!MachineStep
<1>2. CASE translate_tADDi8(i) \/ translate_tADDrr(i)
  BY <1>2, AddMatches DEF Machine!MachineStep
<1>3. CASE \/ translate_tMOVi8(i) \/ translate_tORR(i) \/ translate_tAND(i)
           \/ translate_tBIC(i) \/ translate_tLSLri(i) \/ translate_tLSRri(i)
  BY <1>3, ComputeMatches DEF Machine!MachineStep
<1>4. CASE translate_tLDRpciASM(i)
  BY <1>4, LiteralMatches DEF Machine!MachineStep
<1>5. CASE translate_tLDRi(i) \/ translate_tLDRHi(i)
  BY <1>5, LoadMatches DEF translate_tLDRi, translate_tLDRHi, LoadOps,
                           Machine!MachineStep
<1>6. CASE translate_tSTRi(i) \/ translate_tSTRHi(i)
  BY <1>6, StoreMatches DEF translate_tSTRi, translate_tSTRHi, StoreOps,
                            Machine!MachineStep
<1>7. CASE translate_tPUSH(i)
  BY <1>7, PushMatches DEF Machine!MachineStep
<1>8. CASE translate_tB(i) \/ translate_tBcc(i)
  BY <1>8, BranchMatches DEF Machine!MachineStep
<1> QED
  BY <1>1, <1>2, <1>3, <1>4, <1>5, <1>6, <1>7, <1>8 DEF Translated

LEMMA Unseen ==
  ASSUME Seen' = Seen, InForce' = InForce,
         Visible'["CPSR"] % CpsrLow = Visible["CPSR"] % CpsrLow,
         UNCHANGED <<mem, inst, jumped, bus>>
  PROVE  UNCHANGED Machine!machineVars
BY DEF Machine!machineVars, Seen, InForce

(* The translated code does what the processor does, as ThumbMachine        *)
(* describes it: it starts in a state of the processor, each instruction is *)
(* a step of the processor, and entry and exit of the function are none.    *)
THEOREM RefinesMachine == Spec => MachineSpec
<1>1. Init => Machine!MachineInit
  <2> SUFFICES ASSUME Init PROVE Machine!MachineInit
    OBVIOUS
  <2>1. TypeOK
    BY InvInit DEF Inv
  <2>2. Seen \in [Regs -> Machine!Word] /\ InForce \in [Machine!Flags -> BOOLEAN]
    BY <2>1, SameNumbers, Decoded DEF TypeOK, IsCpu, Seen, Visible, InForce,
                                      Machine!Flags, Flags
  <2>3. mem \in [Machine!Word -> Machine!Bytes]
    BY <2>1, SameNumbers DEF TypeOK
  <2>4. inst = NoInst /\ jumped = FALSE /\ bus = <<>>
    BY DEF Init
  <2> QED
    BY <2>2, <2>3, <2>4 DEF Machine!MachineInit, Seen, InForce
<1>2. Inv /\ [Next]_vars
        => [\E i \in Insts : Machine!MachineStep(i)]_(Machine!machineVars)
  <2> SUFFICES ASSUME Inv, [Next]_vars
               PROVE  \/ \E i \in Insts : Machine!MachineStep(i)
                      \/ UNCHANGED Machine!machineVars
    OBVIOUS
  <2>1. TypeOK
    BY DEF Inv
  <2>2. CASE genCodeEntry
    <3>1. /\ InForce' = InForce /\ Visible' = Visible
          /\ UNCHANGED <<mem, inst, jumped, bus>>
      BY <2>2 DEF genCodeEntry, InForce, Visible
    <3> QED
      BY <3>1, Unseen DEF Seen
  <2>3. CASE genCodeExit
    <3>1. inside /\ ~inside' /\ UNCHANGED <<mem, inst, jumped, bus>>
      BY <2>3 DEF genCodeExit
    <3>2. /\ InForce' = InForce /\ Seen' = Seen
          /\ Visible'["CPSR"] % CpsrLow = Visible["CPSR"] % CpsrLow
      BY <2>1, <2>3, <3>1, ExitTyped DEF InForce, Seen, Visible
    <3> QED
      BY <3>1, <3>2, Unseen
  <2>4. CASE \E i \in Insts : Translated(i)
    BY <2>1, <2>4, InstructionMatches
  <2>5. CASE UNCHANGED vars
    <3>1. /\ InForce' = InForce /\ Visible' = Visible
          /\ UNCHANGED <<mem, inst, jumped, bus>>
      BY <2>5 DEF vars, InForce, Visible
    <3> QED
      BY <3>1, Unseen DEF Seen
  <2> QED
    BY <2>2, <2>3, <2>4, <2>5 DEF Next
<1> QED
  BY <1>1, <1>2, InvAlways, PTL DEF Spec, MachineSpec, Machine!MachineSpec
=============================================================================
