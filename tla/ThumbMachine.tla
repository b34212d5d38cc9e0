---------------------------- MODULE ThumbMachine ----------------------------
(***************************************************************************)
(* What the code made by the binary translator promises: to do what the    *)
(* Thumb processor does, one instruction after the other.  The order of    *)
(* the instructions is arbitrary: TranslationUnits says which follows      *)
(* which.                                                                  *)
(*                                                                         *)
(* The promise is weaker than the architecture in two places, where the    *)
(* translators differ from it: the carry after a shift is any value, and   *)
(* after an addition it may be set without need; and the registers of a    *)
(* tPUSH go to the words of the frame in any order.                        *)
(***************************************************************************)
EXTENDS ThumbWords

VARIABLES
  regs,   \* the registers
  flags,  \* the condition flags
  low,    \* the rest of the CPSR
  mem,    \* data memory
  inst,   \* the instruction executed last
  jumped, \* it was a branch, and taken
  bus     \* the accesses to data memory it made

machineVars == <<regs, flags, low, mem, inst, jumped, bus>>

-----------------------------------------------------------------------------
(* The architecture. *)
ConditionPassed(c, f) ==
  CASE c = "EQ" -> f["Z"]            [] c = "NE" -> ~f["Z"]
    [] c = "HS" -> f["C"]            [] c = "LO" -> ~f["C"]
    [] c = "MI" -> f["N"]            [] c = "PL" -> ~f["N"]
    [] c = "VS" -> f["V"]            [] c = "VC" -> ~f["V"]
    [] c = "HI" -> f["C"] /\ ~f["Z"] [] c = "LS" -> ~f["C"] \/ f["Z"]
    [] c = "GE" -> f["N"] = f["V"]   [] c = "LT" -> f["N"] # f["V"]
    [] c = "GT" -> ~f["Z"] /\ f["N"] = f["V"]
    [] c = "LE" -> f["Z"] \/ f["N"] # f["V"]

Operand(i) == IF i.op \in {"tCMPi8", "tADDi8", "tSUBi8"} THEN i.imm
                                                         ELSE regs[i.rm]
InSigned(x) == -HalfM <= x /\ x < HalfM

(* Result and flags of a data-processing instruction: an addition, a        *)
(* subtraction, or one that leaves V alone.                                 *)
Sum(i) == regs[i.rn] + Operand(i)
Difference(i) == regs[i.rn] - Operand(i)

Result(i) ==
  CASE i.op \in {"tADDi8", "tADDrr"} -> Wrap(Sum(i))
    [] i.op \in {"tSUBi8", "tCMPr", "tCMPi8"} -> Wrap(Difference(i))
    [] i.op = "tMOVi8" -> i.imm
    [] i.op = "tORR" -> Or(regs[i.rn], regs[i.rm])
    [] i.op = "tAND" -> And(regs[i.rn], regs[i.rm])
    [] i.op = "tBIC" -> And(regs[i.rn], Not(regs[i.rm]))
    [] i.op = "tLSLri" -> Shl(regs[i.rm], i.imm)
    [] i.op = "tLSRri" -> Shr(regs[i.rm], IF i.imm = 0 THEN WordBits ELSE i.imm)
    [] i.op = "tLDRpciASM" -> i.imm

CarryAllowed(i, c) ==
  CASE i.op \in {"tADDi8", "tADDrr"} -> Sum(i) >= M => c
    [] i.op \in {"tSUBi8", "tCMPr", "tCMPi8"} -> c = (Difference(i) >= 0)
    [] i.op \in {"tLSLri", "tLSRri"} -> TRUE
    [] OTHER -> c = flags["C"]

Overflow(i) ==
  CASE i.op \in {"tADDi8", "tADDrr"} ->
         ~InSigned(Signed(regs[i.rn]) + Signed(Operand(i)))
    [] i.op \in {"tSUBi8", "tCMPr", "tCMPi8"} ->
         ~InSigned(Signed(regs[i.rn]) - Signed(Operand(i)))
    [] OTHER -> flags["V"]

Begin(i, accesses, taken) ==
  /\ inst' = i
  /\ bus' = accesses
  /\ jumped' = taken
  /\ UNCHANGED low

DataStep(i) ==
  /\ i.op \in DataOps
  /\ regs' = IF i.op \in {"tCMPr", "tCMPi8"} THEN regs
                                             ELSE [regs EXCEPT ![i.rd] = Result(i)]
  /\ \E c \in BOOLEAN :
       /\ CarryAllowed(i, c)
       /\ flags' = IF i.op = "tLDRpciASM" THEN flags
                   ELSE [Z |-> Result(i) = 0, N |-> TopBit(Result(i)),
                         C |-> c, V |-> Overflow(i)]
  /\ Begin(i, <<>>, FALSE)
  /\ UNCHANGED mem

LoadStep(i) ==
  /\ i.op \in LoadOps
  /\ regs' = [regs EXCEPT ![i.rd] = LoadFrom(mem, Address(i, regs[i.rn]), Size(i))]
  /\ Begin(i, <<Access("read", Address(i, regs[i.rn]), Size(i), 0)>>, FALSE)
  /\ UNCHANGED <<flags, mem>>

StoreStep(i) ==
  /\ i.op \in StoreOps
  /\ LET x == Lowest(regs[i.rd], Size(i))
     IN /\ mem' = StoreTo(mem, Address(i, regs[i.rn]), Size(i), x)
        /\ Begin(i, <<Access("write", Address(i, regs[i.rn]), Size(i), x)>>, FALSE)
  /\ UNCHANGED <<regs, flags>>

PushStep(i) ==
  /\ i.op = "tPUSH"
  /\ \E s \in Slots(Len(i.list)) :
       LET ws == [k \in DOMAIN i.list |-> regs[i.list[k]]]
       IN /\ mem' = Pushed(mem, regs[SP], ws, s)
          /\ Begin(i, [k \in DOMAIN i.list |->
                         Access("write", Slot(regs[SP], s[k]), 4, ws[k])], FALSE)
  /\ regs' = [regs EXCEPT ![SP] = Slot(@, Len(i.list))]
  /\ UNCHANGED flags

BranchStep(i) ==
  /\ i.op \in BranchOps
  /\ Begin(i, <<>>, i.op = "tB" \/ ConditionPassed(i.cond, flags))
  /\ UNCHANGED <<regs, flags, mem>>

MachineStep(i) == \/ DataStep(i) \/ LoadStep(i) \/ StoreStep(i)
                  \/ PushStep(i) \/ BranchStep(i)

MachineInit ==
  /\ regs \in [Regs -> Word]
  /\ flags \in [Flags -> BOOLEAN]
  /\ mem \in [Word -> Bytes]
  /\ inst = NoInst /\ jumped = FALSE /\ bus = <<>>

MachineSpec == MachineInit /\ [][\E i \in Insts : MachineStep(i)]_machineVars
=============================================================================
