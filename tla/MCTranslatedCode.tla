-------------------------- MODULE MCTranslatedCode --------------------------
(* Words of 4 bits, of four bytes of one bit: all pairs of values of two     *)
(* registers, all flags, and instructions of every kind.                     *)
EXTENDS TranslatedCode
B == INSTANCE Bitwise

MCAnd(x, y) == B!&(x, y)
MCOr(x, y) == B!|(x, y)
MCShl(x, k) == (x * 2^k) % 16
MCShr(x, k) == x \div 2^k

I(op, rd, rn, rm, imm, c, list) ==
  [op |-> op, rd |-> rd, rn |-> rn, rm |-> rm, imm |-> imm, cond |-> c,
   list |-> list]
MCInsts ==
  {I(op, "R0", "R0", "R1", imm, "EQ", <<>>) :
     op \in {"tCMPi8", "tADDi8", "tSUBi8", "tMOVi8"}, imm \in {0, 1, 8, 15}}
  \cup {I(op, "R0", "R0", "R1", 0, "EQ", <<>>) :
          op \in {"tCMPr", "tADDrr", "tORR", "tBIC", "tAND", "tB"}}
  \cup {I(op, "R0", "R0", "R1", imm, "EQ", <<>>) :
          op \in {"tLSLri", "tLSRri"}, imm \in {0, 1, 3}}
  \cup {I(op, "R0", "R1", "R1", imm, "EQ", <<>>) :
          op \in {"tLDRi", "tLDRHi", "tSTRi", "tSTRHi"}, imm \in {0, 3}}
  \cup {I("tLDRpciASM", "R0", "R0", "R0", 9, "EQ", <<>>)}
  \cup {I("tBcc", "R0", "R0", "R0", 0, c, <<>>) : c \in Conditions}
  \cup {I("tPUSH", "R0", "R0", "R0", 0, "EQ", l) :
          l \in {<<"R0">>, <<"R0", "R1">>}}

Struct(x, y, c) == [r \in {"R0", "R1", "SP", "CPSR"} |->
  CASE r = "R0" -> x [] r = "R1" -> y [] r = "SP" -> 6 [] r = "CPSR" -> c]
MCInitCpus == {Struct(x, y, c) : x, y \in 0..15, c \in {0, 31}}
              \cup {Struct(3, 12, c) : c \in 0..31}
MCInitMems == {[a \in 0..15 |-> IF a \in {0, 3, 4, 5, 9, 14} THEN 1 ELSE 0]}
=============================================================================
