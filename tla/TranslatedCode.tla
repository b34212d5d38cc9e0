--------------------------- MODULE TranslatedCode ---------------------------
(***************************************************************************)
(* The function "wrapper" that the binary translator makes of Thumb code,  *)
(* as it runs: the entry and exit code of InstructionDecoder.cpp, the code *)
(* that ArmReverseTranslators.cpp emits for each instruction and what      *)
(* InstrumentMemoryAccessPass.cpp puts in place of the marked accesses.    *)
(*                                                                         *)
(* The values of a translation unit are the registers and the CPSR (val)   *)
(* and the flags, which live apart from the CPSR between entry and exit    *)
(* (flag).  Control may leave the translated ranges after any instruction. *)
(***************************************************************************)
EXTENDS ThumbWords

CONSTANTS
  InitCpus,   \* processor structs the function may be called with
  InitMems,   \* contents of the data memory at the start
  CpsrLow,    \* value of bit 28 of the CPSR: V, below C, Z and N
  MaxSteps    \* bound on the instructions of a behaviour

Cpsr == 0 .. 16 * CpsrLow - 1
IsCpu(c) == /\ c \in [Regs \cup {"CPSR"} -> Word \cup Cpsr]
            /\ c["CPSR"] \in Cpsr
            /\ \A r \in Regs : c[r] \in Word

ASSUME InitAssumption ==
  /\ CpsrLow \in Nat \ {0}
  /\ \A c \in InitCpus : IsCpu(c)
  /\ InitMems \subseteq [Word -> Bytes]
  /\ MaxSteps \in Nat

VARIABLES
  cpu,     \* the processor struct, argument of the function
  inside,  \* whether the function runs
  val,     \* registers and CPSR in the values of the current unit
  flag,    \* FLAG_Z, FLAG_N, FLAG_C and FLAG_V in them
  mem,     \* data memory of the guest
  inst, jumped, bus,   \* last instruction, branch taken, accesses made
  instrumented,        \* the function was made with instrument_memory_access
  handled, \* the calls of the two handlers the last instruction made
  steps    \* instructions executed

vars == <<cpu, inside, val, flag, mem, inst, jumped, bus, instrumented,
          handled, steps>>

-----------------------------------------------------------------------------
(* Entry and exit. *)
FlagBit(f) == CASE f = "V" -> CpsrLow     [] f = "C" -> 2 * CpsrLow
                [] f = "Z" -> 4 * CpsrLow [] f = "N" -> 8 * CpsrLow

decode_cpsr_to_flags(c) == [f \in Flags |-> (c \div FlagBit(f)) % 2 = 1]

Shifted(fl, f) == IF fl[f] THEN FlagBit(f) ELSE 0
FlagsKept(c) == c     \* seeded fault: the old flags are not masked out
Masked(c) == c % CpsrLow
encode_flags_to_cpsr(c, fl) ==
  Masked(c) + Shifted(fl, "Z") + Shifted(fl, "N")
            + Shifted(fl, "C") + Shifted(fl, "V")

genCodeEntry ==
  /\ ~inside
  /\ inside' = TRUE
  /\ val' = cpu
  /\ flag' = decode_cpsr_to_flags(cpu["CPSR"])
  /\ UNCHANGED <<cpu, mem, inst, jumped, bus, instrumented, handled, steps>>

genCodeExit ==
  /\ inside
  /\ inside' = FALSE
  /\ val' = [val EXCEPT !["CPSR"] = encode_flags_to_cpsr(@, flag)]
  /\ cpu' = val'
  /\ UNCHANGED <<flag, mem, inst, jumped, bus, instrumented, handled, steps>>

-----------------------------------------------------------------------------
(* Flags as the emitted code computes them. *)
Xor(p, q) == p # q
ZNof(x) == [flag EXCEPT !["Z"] = (x = 0), !["N"] = TopBit(x)]

BorrowIfEqual(lhs, rhs) == lhs > rhs     \* seeded fault: > for >=
NoBorrow(lhs, rhs) == lhs >= rhs
SubFlags(lhs, rhs) ==
  LET result == Wrap(lhs - rhs)
  IN [Z |-> lhs = rhs, C |-> NoBorrow(lhs, rhs), N |-> TopBit(result),
      V |-> /\ Xor(TopBit(lhs), TopBit(rhs))
            /\ Xor(TopBit(lhs), TopBit(result))]

AddFlags(rn, rhs) ==
  LET rd == Wrap(rn + rhs)
  IN [Z |-> rd = 0, N |-> TopBit(rd),
      C |-> rhs > rn \/ rd < rn,
      V |-> ~Xor(TopBit(rn), TopBit(rhs)) /\ Xor(TopBit(rn), TopBit(rd))]

(* Carry of a shift: a bit of the shifted value, not of the operand. *)
LSLCarry(rd, imm) == And(Shr(rd, WordBits - imm), 1) # 0
LSRCarry(rm, rd, imm) == IF imm = 0 THEN TopBit(rm)
                                    ELSE And(Shr(rd, imm - 1), 1) # 0

getCondition(c) ==
  LET Z == flag["Z"]  N == flag["N"]  C == flag["C"]  V == flag["V"]
  IN CASE c = "EQ" -> Z           [] c = "NE" -> ~Z
       [] c = "HS" -> C           [] c = "LO" -> ~C
       [] c = "MI" -> N           [] c = "PL" -> ~N
       [] c = "VS" -> V           [] c = "VC" -> ~V
       [] c = "HI" -> ~Z /\ C     [] c = "LS" -> ~C \/ Z
       [] c = "GE" -> N = V       [] c = "LT" -> N # V
       [] c = "GT" -> N = V /\ ~Z [] c = "LE" -> N # V \/ Z

-----------------------------------------------------------------------------
(* The code of one instruction; taken: it branches, not just goes on. *)
Execute(i, taken) ==
  /\ inside
  /\ steps < MaxSteps
  /\ steps' = steps + 1
  /\ inst' = i
  /\ jumped' = taken
  /\ UNCHANGED <<cpu, inside, instrumented>>

Compute(i, v, fl) ==
  /\ val' = v
  /\ flag' = fl
  /\ bus' = <<>> /\ handled' = <<>>
  /\ Execute(i, FALSE)
  /\ UNCHANGED mem

Dest(i, x) == [val EXCEPT ![i.rd] = x]

translate_tCMPr(i) ==
  i.op = "tCMPr" /\ Compute(i, val, SubFlags(val[i.rn], val[i.rm]))
translate_tCMPi8(i) ==
  i.op = "tCMPi8" /\ Compute(i, val, SubFlags(val[i.rn], i.imm))
translate_tSUBi8(i) ==
  /\ i.op = "tSUBi8"
  /\ Compute(i, Dest(i, Wrap(val[i.rn] - i.imm)), SubFlags(val[i.rn], i.imm))
translate_tADDi8(i) ==
  /\ i.op = "tADDi8"
  /\ Compute(i, Dest(i, Wrap(val[i.rn] + i.imm)), AddFlags(val[i.rn], i.imm))
translate_tADDrr(i) ==
  /\ i.op = "tADDrr"
  /\ Compute(i, Dest(i, Wrap(val[i.rn] + val[i.rm])),
             AddFlags(val[i.rn], val[i.rm]))
translate_tMOVi8(i) ==
  i.op = "tMOVi8" /\ Compute(i, Dest(i, i.imm), ZNof(i.imm))
translate_tORR(i) ==
  /\ i.op = "tORR"
  /\ LET x == Or(val[i.rn], val[i.rm]) IN Compute(i, Dest(i, x), ZNof(x))
translate_tAND(i) ==
  /\ i.op = "tAND"
  /\ LET x == And(val[i.rn], val[i.rm]) IN Compute(i, Dest(i, x), ZNof(x))
translate_tBIC(i) ==
  /\ i.op = "tBIC"
  /\ LET x == And(val[i.rn], Not(val[i.rm])) IN Compute(i, Dest(i, x), ZNof(x))
(* By 0, the carry is a shift by the whole width, which LLVM leaves open.   *)
translate_tLSLri(i) ==
  /\ i.op = "tLSLri"
  /\ LET rd == Shl(val[i.rm], i.imm)
     IN \E c \in BOOLEAN :
          /\ i.imm # 0 => c = LSLCarry(rd, i.imm)
          /\ Compute(i, Dest(i, rd), [ZNof(rd) EXCEPT !["C"] = c])
translate_tLSRri(i) ==
  /\ i.op = "tLSRri"
  /\ LET rd == IF i.imm = 0 THEN 0 ELSE Shr(val[i.rm], i.imm)
     IN Compute(i, Dest(i, rd),
                [ZNof(rd) EXCEPT !["C"] = LSRCarry(val[i.rm], rd, i.imm)])
(* The literal is read when the code is translated and baked in. *)
translate_tLDRpciASM(i) ==
  i.op = "tLDRpciASM" /\ Compute(i, Dest(i, i.imm), flag)

-----------------------------------------------------------------------------
(* Memory accesses.  The ones marked "translated_memory_access" are, in     *)
(* instrumented code, calls of a handler that makes the access.             *)
MarkedButOne == {"tLDRHi", "tLDRi", "tSTRi"}   \* seeded fault: tSTRHi left out
Marked == {"tLDRHi", "tLDRi", "tSTRHi", "tSTRi"}
Bits(i) == IF i.op \in {"tLDRHi", "tSTRHi"} THEN 16 ELSE 32

runOnBasicBlock(i, kind, a, x) ==
  handled' = IF instrumented /\ i.op \in Marked
             THEN <<Access(kind, a, Bits(i) \div 8, x)>> ELSE <<>>

(* What a load of n bytes gives: memory, or the lowest bytes of the word    *)
(* the read handler returned.                                               *)
LoadedWhole(a, n) ==     \* seeded fault: the handler's word is not truncated
  LET x == LoadFrom(mem, a, n)
  IN IF instrumented THEN {u \in Word : Lowest(u, n) = x} ELSE {x}
Loaded(a, n) ==
  LET x == LoadFrom(mem, a, n)
  IN IF instrumented THEN {Lowest(w, n) : w \in {u \in Word : Lowest(u, n) = x}}
                     ELSE {x}

Load(i) ==
  LET a == Address(i, val[i.rn])
  IN /\ \E x \in Loaded(a, Size(i)) : val' = Dest(i, x)
     /\ bus' = <<Access("read", a, Size(i), 0)>>
     /\ runOnBasicBlock(i, "read", a, 0)
     /\ Execute(i, FALSE)
     /\ UNCHANGED <<flag, mem>>

Store(i) ==
  LET a == Address(i, val[i.rn])
      x == Lowest(val[i.rd], Size(i))
  IN /\ mem' = StoreTo(mem, a, Size(i), x)
     /\ bus' = <<Access("write", a, Size(i), x)>>
     /\ runOnBasicBlock(i, "write", a, x)
     /\ Execute(i, FALSE)
     /\ UNCHANGED <<val, flag>>

translate_tLDRi(i) == i.op = "tLDRi" /\ Load(i)
translate_tLDRHi(i) == i.op = "tLDRHi" /\ Load(i)
translate_tSTRi(i) == i.op = "tSTRi" /\ Store(i)
translate_tSTRHi(i) == i.op = "tSTRHi" /\ Store(i)

(* The registers of the list from the top of the frame down. *)
translate_tPUSH(i) ==
  /\ i.op = "tPUSH"
  /\ LET n == Len(i.list)
         ws == [k \in 1..n |-> val[i.list[k]]]
     IN /\ mem' = Pushed(mem, val[SP], ws, [k \in 1..n |-> k])
        /\ bus' = [k \in 1..n |-> Access("write", Slot(val[SP], k), 4, ws[k])]
        /\ val' = [val EXCEPT ![SP] = Slot(@, n)]
  /\ handled' = <<>>
  /\ Execute(i, FALSE)
  /\ UNCHANGED flag

translate_tB(i) ==
  /\ i.op = "tB"
  /\ Execute(i, TRUE)
  /\ bus' = <<>> /\ handled' = <<>>
  /\ UNCHANGED <<val, flag, mem>>

translate_tBcc(i) ==
  /\ i.op = "tBcc"
  /\ Execute(i, getCondition(i.cond))
  /\ bus' = <<>> /\ handled' = <<>>
  /\ UNCHANGED <<val, flag, mem>>

-----------------------------------------------------------------------------
Init ==
  /\ cpu \in InitCpus
  /\ inside = FALSE
  /\ val = cpu
  /\ flag = decode_cpsr_to_flags(cpu["CPSR"])
  /\ mem \in InitMems
  /\ inst = NoInst /\ jumped = FALSE /\ bus = <<>>
  /\ instrumented \in BOOLEAN
  /\ handled = <<>>
  /\ steps = 0

Translated(i) ==
  \/ translate_tCMPr(i)  \/ translate_tCMPi8(i) \/ translate_tSUBi8(i)
  \/ translate_tADDi8(i) \/ translate_tADDrr(i) \/ translate_tMOVi8(i)
  \/ translate_tORR(i)   \/ translate_tAND(i)   \/ translate_tBIC(i)
  \/ translate_tLSLri(i) \/ translate_tLSRri(i) \/ translate_tLDRpciASM(i)
  \/ translate_tLDRi(i)  \/ translate_tLDRHi(i) \/ translate_tSTRi(i)
  \/ translate_tSTRHi(i) \/ translate_tPUSH(i)  \/ translate_tB(i)
  \/ translate_tBcc(i)

Next == genCodeEntry \/ genCodeExit \/ \E i \in Insts : Translated(i)

Spec == Init /\ [][Next]_vars

-----------------------------------------------------------------------------
(* Every value keeps its type and width. *)
TypeOK ==
  /\ IsCpu(cpu) /\ IsCpu(val)
  /\ flag \in [Flags -> BOOLEAN]
  /\ mem \in [Word -> Bytes]
  /\ inside \in BOOLEAN /\ jumped \in BOOLEAN /\ instrumented \in BOOLEAN
  /\ inst \in Insts \cup {NoInst}
  /\ steps \in 0 .. MaxSteps

(* After a comparison, a conditional branch decides by how the two operands *)
(* compare as unsigned words (HS, LO, HI, LS) and as signed ones (GE, LT,   *)
(* GT, LE): the flags translate_tCMPr and translate_tCMPi8 compute and the  *)
(* formulas of getCondition fit together.                                   *)
Decides(l, r) ==
  /\ getCondition("EQ") = (l = r)   /\ getCondition("NE") = (l # r)
  /\ getCondition("HS") = (l >= r)  /\ getCondition("LO") = (l < r)
  /\ getCondition("HI") = (l > r)   /\ getCondition("LS") = (l <= r)
  /\ getCondition("GE") = (Signed(l) >= Signed(r))
  /\ getCondition("LT") = (Signed(l) < Signed(r))
  /\ getCondition("GT") = (Signed(l) > Signed(r))
  /\ getCondition("LE") = (Signed(l) <= Signed(r))
ComparesDecide ==
  inst # NoInst =>
    /\ inst.op = "tCMPr" /\ inside => Decides(val[inst.rn], val[inst.rm])
    /\ inst.op = "tCMPi8" /\ inside => Decides(val[inst.rn], inst.imm)

(* Code made with instrument_memory_access tells the handlers of every      *)
(* access of a load or store instruction, with its address, width and data, *)
(* and of nothing else.  The words a tPUSH writes are not marked.           *)
AccessesReported ==
  (inst # NoInst /\ instrumented) =>
    handled = IF inst.op = "tPUSH" THEN <<>> ELSE bus

(* The function does what the Thumb processor does (ThumbMachine): entry    *)
(* and exit change nothing of the state of the processor, and every         *)
(* instruction changes registers, flags and memory as the architecture has  *)
(* it, within what ThumbMachine allows.                                     *)
Visible == IF inside THEN val ELSE cpu
Machine == INSTANCE ThumbMachine WITH
  regs <- [r \in Regs |-> Visible[r]],
  flags <- IF inside THEN flag ELSE decode_cpsr_to_flags(cpu["CPSR"]),
  low <- Visible["CPSR"] % CpsrLow
MachineSpec == Machine!MachineSpec

(* The carry after an addition of an immediate is the one out of the top    *)
(* bit, "C Flag = CarryFrom(Rd + immed_8)" (ArmReverseTranslators.cpp:773). *)
CarryAsAdded ==
  (inside /\ inst # NoInst) =>
    (inst.op = "tADDi8" => (flag["C"] <=> val[inst.rd] < inst.imm))
=============================================================================
