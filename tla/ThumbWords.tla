----------------------------- MODULE ThumbWords -----------------------------
(***************************************************************************)
(* Words, memory and instructions of the guest, for ThumbMachine and       *)
(* TranslatedCode.  An instruction is a record of its opcode (LLVM's       *)
(* name), its operands and, for tLDRpciASM, the literal it loads.          *)
(***************************************************************************)
EXTENDS Integers, Sequences

CONSTANTS
  Regs,       \* the general registers
  SP,         \* the stack pointer, one of them
  HalfByte,   \* half the number of values of a byte, 128
  WordBits,   \* bits of a word, 32
  Insts,      \* the instructions the guest may consist of
  NoInst,     \* stands for the instruction before the first
  And(_, _), Or(_, _), Shl(_, _), Shr(_, _)   \* bitwise operations

Byte == 2 * HalfByte
HalfM == HalfByte * Byte * Byte * Byte     \* a word has four bytes
M == 2 * HalfM
Word == 0 .. M - 1
Bytes == 0 .. Byte - 1
Flags == {"Z", "N", "C", "V"}
Conditions == {"EQ", "NE", "HS", "LO", "MI", "PL", "VS", "VC", "HI", "LS",
               "GE", "LT", "GT", "LE"}
DataOps == {"tCMPr", "tCMPi8", "tADDi8", "tADDrr", "tSUBi8", "tMOVi8", "tORR",
            "tBIC", "tAND", "tLSLri", "tLSRri", "tLDRpciASM"}
LoadOps == {"tLDRi", "tLDRHi"}
StoreOps == {"tSTRi", "tSTRHi"}
BranchOps == {"tB", "tBcc"}
Ops == DataOps \cup LoadOps \cup StoreOps \cup BranchOps \cup {"tPUSH"}

Instruction == [op : Ops, rd : Regs, rn : Regs, rm : Regs, imm : Word,
                cond : Conditions, list : Seq(Regs)]

ASSUME WordAssumption ==
  /\ HalfByte \in Nat /\ HalfByte > 0
  /\ WordBits \in Nat
  /\ \A x, y \in Word : And(x, y) \in Word /\ Or(x, y) \in Word
  /\ \A x \in Word : \A k \in 0 .. WordBits :
       Shl(x, k) \in Word /\ Shr(x, k) \in Word
  /\ \A x \in Word : Shr(x, WordBits) = 0

ASSUME InstAssumption ==
  /\ SP \in Regs /\ "CPSR" \notin Regs
  /\ Insts \subseteq Instruction
  /\ NoInst \notin Insts
  /\ \A i \in Insts :
       /\ i.op \in {"tLSLri", "tLSRri"} => i.imm < WordBits
       /\ i.op \in LoadOps \cup StoreOps => 4 * i.imm < M
       /\ i.op = "tPUSH" => 4 * Len(i.list) <= M

-----------------------------------------------------------------------------
(* Words and memory. *)
Wrap(x) == IF x >= M THEN x - M ELSE IF x < 0 THEN x + M ELSE x
TopBit(x) == x >= HalfM
Not(x) == M - 1 - x
Signed(x) == IF TopBit(x) THEN x - M ELSE x

(* Value and number of values of the lowest n bytes. *)
Place == <<1, Byte, Byte * Byte, Byte * Byte * Byte, M>>
Lowest(x, n) == x % Place[n + 1]

LoadFrom(m, a, n) ==
  LET cell(k) == IF k < n THEN m[Wrap(a + k)] * Place[k + 1] ELSE 0
  IN cell(0) + cell(1) + cell(2) + cell(3)

StoreTo(m, a, n, x) ==
  [c \in Word |-> LET k == Wrap(c - a)
                  IN IF k < n THEN (x \div Place[k + 1]) % Byte ELSE m[c]]

Access(kind, a, n, x) == [kind |-> kind, addr |-> a, size |-> n, data |-> x]

(* A frame of the words ws below sp: word k is in slot s[k], counted from   *)
(* the top.                                                                 *)
Slot(sp, k) == Wrap(sp - 4 * k)
Pushed(m, sp, ws, s) ==
  [c \in Word |->
     IF \E k \in DOMAIN ws : Wrap(c - Slot(sp, s[k])) < 4
     THEN LET k == CHOOSE k \in DOMAIN ws : Wrap(c - Slot(sp, s[k])) < 4
          IN (ws[k] \div Place[Wrap(c - Slot(sp, s[k])) + 1]) % Byte
     ELSE m[c]]
Slots(n) == {s \in [1..n -> 1..n] : \A j, k \in 1..n : j # k => s[j] # s[k]}

(* Width and address of an access of a load or store instruction i, when    *)
(* register rn holds x.                                                     *)
Size(i) == IF i.op \in {"tLDRi", "tSTRi"} THEN 4 ELSE 2
Address(i, x) == Wrap(x + Size(i) * i.imm)
=============================================================================
