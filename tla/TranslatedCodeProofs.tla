------------------------ MODULE TranslatedCodeProofs ------------------------
(***************************************************************************)
(* Proofs about TranslatedCode, for words of any width, every code and     *)
(* every call: the values keep their width, instrumented code reports its  *)
(* accesses, and conditional branches decide as the operands of the        *)
(* comparison before them compare, also when the function was left and     *)
(* entered again in between.                                               *)
(***************************************************************************)
EXTENDS TranslatedCode, TLAPS

-----------------------------------------------------------------------------
(* Arithmetic. *)
LEMMA ProductNat ==
  ASSUME NEW a \in Nat, NEW b \in Nat
  PROVE  a * b \in Nat
OBVIOUS

LEMMA ProductLeq ==
  ASSUME NEW a \in Int, NEW b \in Int, a <= b, NEW y \in Nat
  PROVE  y * a <= y * b
OBVIOUS

LEMMA Divided ==
  ASSUME NEW x \in Int, NEW y \in Nat \ {0}
  PROVE  /\ x \div y \in Int
         /\ x % y \in 0 .. y - 1
         /\ x = y * (x \div y) + (x % y)
OBVIOUS

LEMMA DivUnique ==
  ASSUME NEW x \in Int, NEW y \in Nat \ {0}, NEW q \in Int, NEW r \in 0 .. y - 1,
         x = y * q + r
  PROVE  x \div y = q /\ x % y = r
<1> DEFINE d == x \div y
<1>1. d \in Int /\ x % y \in 0 .. y - 1 /\ x = y * d + (x % y) /\ y \in Nat
  BY Divided
<1>2. \A a \in Int : y * (a + 1) = y * a + y /\ y * a \in Int
  OBVIOUS
<1> HIDE DEF d
<1>3. CASE d >= q + 1
  <2>1. y * (q + 1) <= y * d
    BY <1>1, <1>3, ProductLeq
  <2> QED
    BY <1>1, <1>2, <2>1
<1>4. CASE q >= d + 1
  <2>1. y * (d + 1) <= y * q
    BY <1>1, <1>4, ProductLeq
  <2> QED
    BY <1>1, <1>2, <2>1
<1>5. d = q
  BY <1>1, <1>3, <1>4
<1> QED
  BY <1>1, <1>5 DEF d

(* Bit k of a number whose lowest part r is below bit 0. *)
LEMMA HighPart ==
  ASSUME NEW L \in Nat \ {0}, NEW r \in 0 .. L - 1, NEW k \in Nat,
         NEW b \in {1, 2, 4, 8}
  PROVE  (r + k * L) \div (b * L) = k \div b
<1> DEFINE q == k \div b
           m == k % b
<1>1. q \in Int /\ m \in 0 .. b - 1 /\ k = b * q + m
  OBVIOUS
<1> HIDE DEF q, m
<1>2. r + k * L = (b * L) * q + (r + m * L)
  <2>1. k * L = (b * q) * L + m * L
    BY <1>1
  <2>2. (b * q) * L = (b * L) * q
    BY <1>1
  <2> QED
    BY <1>1, <2>1, <2>2
<1>3. r + m * L \in 0 .. (b * L) - 1
  <2>1. L * m <= L * (b - 1)
    BY <1>1, ProductLeq
  <2>2. L * (b - 1) = b * L - L /\ L * m = m * L /\ m * L \in Nat
    BY <1>1
  <2> QED
    BY <2>1, <2>2
<1>4. b * L \in Nat \ {0} /\ r + k * L \in Int
  OBVIOUS
<1> QED
  BY <1>1, <1>2, <1>3, <1>4, DivUnique DEF q

LEMMA WordFacts ==
  /\ M \in Nat /\ HalfM \in Nat /\ HalfM > 0 /\ M = HalfM + HalfM
  /\ Byte \in Nat /\ Byte > 0
  /\ M = Byte * (Byte * (Byte * Byte))
<1>1. Byte \in Nat /\ Byte > 0 /\ HalfByte \in Nat /\ HalfByte > 0 /\ Byte = 2 * HalfByte
  BY WordAssumption DEF Byte
<1> DEFINE c == Byte * (Byte * Byte)
<1>2. c \in Nat /\ c > 0
  BY <1>1
<1>3. HalfM = HalfByte * c
  BY <1>1 DEF HalfM
<1> HIDE DEF c
<1>4. HalfM \in Nat /\ HalfM > 0
  BY <1>1, <1>2, <1>3
<1>5. M = HalfM + HalfM /\ M = Byte * c
  BY <1>1, <1>2, <1>3, <1>4 DEF M
<1> QED
  BY <1>1, <1>4, <1>5 DEF c

LEMMA WrapWord ==
  ASSUME NEW x \in Int, -M <= x, x < M + M
  PROVE  Wrap(x) \in Word
BY WordFacts DEF Wrap, Word
-----------------------------------------------------------------------------
(* The flags go into the CPSR and come back out of it, and leave the rest.  *)
LEMMA RoundTrip ==
  ASSUME NEW c \in Cpsr, NEW fl \in [Flags -> BOOLEAN]
  PROVE  /\ encode_flags_to_cpsr(c, fl) \in Cpsr
         /\ encode_flags_to_cpsr(c, fl) % CpsrLow = c % CpsrLow
         /\ decode_cpsr_to_flags(encode_flags_to_cpsr(c, fl)) = fl
<1> DEFINE L == CpsrLow
           r == c % L
           bit(f) == IF fl[f] THEN 1 ELSE 0
           k == bit("V") + 2 * bit("C") + 4 * bit("Z") + 8 * bit("N")
           e == encode_flags_to_cpsr(c, fl)
<1>1. L \in Nat \ {0}
  BY InitAssumption
<1>2. r \in 0 .. L - 1
  BY <1>1, Divided DEF Cpsr
<1>3. \A f \in Flags : bit(f) \in {0, 1} /\ (bit(f) = 1 <=> fl[f])
  OBVIOUS
<1>4. Flags = {"Z", "N", "C", "V"}
  BY DEF Flags
<1>5. /\ Shifted(fl, "V") = bit("V") * L
      /\ Shifted(fl, "C") = 2 * bit("C") * L
      /\ Shifted(fl, "Z") = 4 * bit("Z") * L
      /\ Shifted(fl, "N") = 8 * bit("N") * L
  BY <1>1 DEF Shifted, FlagBit
<1> HIDE DEF bit, L, r
<1>6. k \in 0 .. 15
  BY <1>3, <1>4
<1>7. e = r + k * L
  <2>1. e = r + Shifted(fl, "Z") + Shifted(fl, "N") + Shifted(fl, "C") + Shifted(fl, "V")
    BY DEF encode_flags_to_cpsr, Masked, r, L
  <2>2. \A f \in Flags : bit(f) \in Int
    BY <1>3
  <2>3. L \in Int /\ r \in Int
    BY <1>1, <1>2
  <2>4. /\ bit("V") \in Int /\ bit("C") \in Int /\ bit("Z") \in Int /\ bit("N") \in Int
    BY <2>2, <1>4
  <2> QED
    BY <1>5, <2>1, <2>3, <2>4
<1>8. /\ (k \div 1) % 2 = bit("V") /\ (k \div 2) % 2 = bit("C")
      /\ (k \div 4) % 2 = bit("Z") /\ (k \div 8) % 2 = bit("N")
  BY <1>3, <1>4
<1> HIDE DEF k, e
<1>9. ASSUME NEW b \in {1, 2, 4, 8}
      PROVE  e \div (b * L) = k \div b
  <2>1. k \in Nat
    BY <1>6
  <2>2. (r + k * L) \div (b * L) = k \div b
    BY <1>1, <1>2, <2>1, HighPart
  <2> QED
    BY <1>7, <2>2
<1>10. \A f \in Flags : ((e \div FlagBit(f)) % 2 = 1) <=> fl[f]
  <2>1. /\ FlagBit("V") = 1 * L /\ FlagBit("C") = 2 * L
        /\ FlagBit("Z") = 4 * L /\ FlagBit("N") = 8 * L
    BY <1>1 DEF FlagBit, L
  <2> QED
    BY <1>3, <1>4, <1>8, <1>9, <2>1
<1>11. decode_cpsr_to_flags(e) = fl
  BY <1>10, Zenon DEF decode_cpsr_to_flags
<1>12. e % L = r
  BY <1>1, <1>2, <1>6, <1>7, DivUnique
<1>13. e \in Cpsr
  <2>1. L * k <= L * 15
    BY <1>1, <1>6, ProductLeq
  <2>2. L * k = k * L /\ k * L \in Nat
    BY <1>1, <1>6
  <2> QED
    BY <1>1, <1>2, <1>7, <2>1, <2>2 DEF Cpsr, L
<1> QED
  BY <1>11, <1>12, <1>13 DEF e, L, r

LEMMA Decoded ==
  ASSUME NEW c
  PROVE  decode_cpsr_to_flags(c) \in [Flags -> BOOLEAN]
BY DEF decode_cpsr_to_flags

-----------------------------------------------------------------------------
(* Memory and instructions keep their types. *)
LEMMA Horner ==
  ASSUME NEW P \in Nat \ {0}, NEW b \in Nat \ {0}, NEW x \in 0 .. b - 1,
         NEW y \in 0 .. P - 1
  PROVE  x + y * b \in 0 .. (b * P) - 1
<1>1. b * y <= b * (P - 1)
  BY ProductLeq
<1>2. b * (P - 1) = b * P - b /\ b * y = y * b /\ b * y \in Nat
  OBVIOUS
<1> QED
  BY <1>1, <1>2

LEMMA LoadWord ==
  ASSUME NEW m \in [Word -> Bytes], NEW a \in Word, NEW n \in {2, 4}
  PROVE  LoadFrom(m, a, n) \in Word
<1> DEFINE cell(k) == IF k < n THEN m[Wrap(a + k)] ELSE 0
           b == Byte
           z == cell(2) + cell(3) * b
           y == cell(1) + z * b
<1>1. b \in Nat \ {0} /\ b >= 2 /\ M = b * (b * (b * b))
  BY WordFacts, WordAssumption DEF Byte
<1>2. M >= 4
  <2>1. b * b >= b /\ b * b \in Nat
    BY <1>1
  <2>2. b * (b * b) >= b * b /\ b * (b * b) \in Nat
    BY <1>1, <2>1
  <2>3. b * (b * (b * b)) >= b * (b * b) + b * (b * b)
    BY <1>1, <2>2
  <2>4. b * b >= b + b
    BY <1>1
  <2> QED
    BY <1>1, <2>1, <2>2, <2>3, <2>4
<1>3. \A k \in 0 .. 3 : cell(k) \in 0 .. b - 1
  <2> TAKE k \in 0 .. 3
  <2>1. Wrap(a + k) \in Word
    BY <1>2, WrapWord, WordFacts DEF Word
  <2> QED
    BY <1>1, <2>1 DEF Bytes
<1> HIDE DEF cell
<1>4. z \in 0 .. (b * b) - 1
  BY <1>1, <1>3, Horner
<1> HIDE DEF z
<1>5. y \in 0 .. (b * (b * b)) - 1
  <2>1. b * b \in Nat \ {0}
    BY <1>1
  <2> QED
    BY <1>1, <1>3, <1>4, <2>1, Horner
<1> HIDE DEF y
<1>6. cell(0) + y * b \in Word
  <2>1. b * (b * b) \in Nat \ {0}
    BY <1>1
  <2> QED
    BY <1>1, <1>3, <1>5, <2>1, Horner DEF Word
<1>7. LoadFrom(m, a, n) = cell(0) + y * b
  <2>1. LoadFrom(m, a, n) = cell(0) + cell(1) * b + cell(2) * (b * b)
                              + cell(3) * (b * b * b)
    <3>1. m[Wrap(a + 0)] \in Int /\ m[Wrap(a + 1)] \in Int
      BY <1>2, WrapWord, WordFacts DEF Word, Bytes
    <3>2. /\ Place[0 + 1] = 1 /\ Place[1 + 1] = b
          /\ Place[2 + 1] = b * b /\ Place[3 + 1] = b * b * b
      BY DEF Place
    <3> HIDE DEF b
    <3> QED
      BY <1>1, <3>1, <3>2 DEF LoadFrom, cell
  <2>2. /\ cell(0) \in Int /\ cell(1) \in Int /\ cell(2) \in Int /\ cell(3) \in Int
        /\ b \in Int
    BY <1>1, <1>3
  <2> HIDE DEF b
  <2>3. z * b = cell(2) * b + cell(3) * (b * b)
    BY <2>2 DEF z
  <2>4. z * b \in Int /\ z \in Int
    BY <2>2 DEF z
  <2>5. y * b = cell(1) * b + (z * b) * b
    BY <2>2, <2>4 DEF y
  <2>6. (z * b) * b = cell(2) * (b * b) + cell(3) * (b * b * b)
    BY <2>2, <2>3
  <2> QED
    BY <2>1, <2>2, <2>5, <2>6
<1> QED
  BY <1>6, <1>7

LEMMA ByteOf ==
  ASSUME NEW x \in Word, NEW k \in 0 .. 3
  PROVE  (x \div Place[k + 1]) % Byte \in Bytes
<1>1. Byte \in Nat \ {0} /\ x \in Int
  BY WordFacts DEF Word
<1>2. Place[k + 1] \in Nat \ {0}
  <2>1. Byte * Byte \in Nat \ {0} /\ Byte * Byte * Byte \in Nat \ {0}
    BY <1>1
  <2>2. k \in {0, 1, 2, 3}
    OBVIOUS
  <2> HIDE DEF Byte
  <2> QED
    BY <1>1, <2>1, <2>2 DEF Place
<1>3. x \div Place[k + 1] \in Int
  BY <1>1, <1>2, Divided
<1> QED
  BY <1>1, <1>3, Divided DEF Bytes

LEMMA WrapNat ==
  ASSUME NEW c \in Word, NEW a \in Word
  PROVE  Wrap(c - a) \in Word /\ Wrap(c - a) \in Nat
BY WordFacts, WrapWord DEF Word

LEMMA StoreBytes ==
  ASSUME NEW m \in [Word -> Bytes], NEW a \in Word, NEW n \in {2, 4}, NEW x \in Word
  PROVE  StoreTo(m, a, n, x) \in [Word -> Bytes]
<1>1. ASSUME NEW c \in Word, Wrap(c - a) < n
      PROVE  (x \div Place[Wrap(c - a) + 1]) % Byte \in Bytes
  <2>1. Wrap(c - a) \in 0 .. 3
    BY <1>1, WrapNat
  <2> QED
    BY <2>1, ByteOf
<1> QED
  BY <1>1 DEF StoreTo

LEMMA LowestWord ==
  ASSUME NEW x \in Word, NEW n \in {2, 4}
  PROVE  Lowest(x, n) \in Word
<1>1. /\ Byte \in Nat \ {0} /\ M \in Nat /\ x \in Int
      /\ M = Byte * (Byte * (Byte * Byte))
  BY WordFacts DEF Word
<1>2. Byte * Byte \in Nat \ {0} /\ Byte * Byte <= M
  <2> DEFINE p == Byte * Byte
  <2>1. p \in Nat \ {0}
    BY <1>1
  <2>2. M = p * p
    BY <1>1, <2>1
  <2> HIDE DEF p
  <2>3. p * 1 <= p * p
    BY <2>1, ProductLeq
  <2> QED
    BY <2>1, <2>2, <2>3 DEF p
<1>3. Place[2 + 1] = Byte * Byte /\ Place[4 + 1] = M
  BY DEF Place
<1>4. M > 0
  BY WordFacts
<1>5. x % M \in 0 .. M - 1 /\ x % (Byte * Byte) \in 0 .. (Byte * Byte) - 1
  BY <1>1, <1>2, <1>4, Divided
<1> QED
  BY <1>1, <1>2, <1>3, <1>5 DEF Lowest, Word

LEMMA SlotWord ==
  ASSUME NEW sp \in Word, NEW k \in Nat, 4 * k <= M
  PROVE  Slot(sp, k) \in Word
<1>1. sp \in Int /\ M \in Nat /\ 0 <= sp /\ sp < M
  BY WordFacts DEF Word
<1>2. -M <= sp - 4 * k /\ sp - 4 * k < M + M /\ sp - 4 * k \in Int
  BY <1>1
<1> QED
  BY <1>2, WrapWord DEF Slot

LEMMA PushedBytes ==
  ASSUME NEW m \in [Word -> Bytes], NEW sp \in Word, NEW n \in Nat, 4 * n <= M,
         NEW ws \in [1..n -> Word], NEW s \in [1..n -> 1..n]
  PROVE  Pushed(m, sp, ws, s) \in [Word -> Bytes]
<1> DEFINE at(c, k) == Wrap(c - Slot(sp, s[k]))
           byte(c) == IF \E k \in DOMAIN ws : at(c, k) < 4
                      THEN LET k == CHOOSE k \in DOMAIN ws : at(c, k) < 4
                           IN (ws[k] \div Place[at(c, k) + 1]) % Byte
                      ELSE m[c]
<1>1. ASSUME NEW c \in Word, NEW k \in 1..n
      PROVE  at(c, k) \in Nat
  <2>1. s[k] \in Nat /\ 4 * s[k] <= M /\ s[k] \in 1..n
    BY WordFacts
  <2>2. Slot(sp, s[k]) \in Word
    BY <2>1, SlotWord
  <2> QED
    BY <2>2, WrapNat
<1>2. ASSUME NEW c \in Word, \E k \in DOMAIN ws : at(c, k) < 4
      PROVE  byte(c) \in Bytes
  <2> DEFINE k == CHOOSE k \in DOMAIN ws : at(c, k) < 4
  <2>1. k \in 1..n /\ at(c, k) < 4
    BY <1>2
  <2> HIDE DEF k
  <2>3. ws[k] \in Word
    BY <2>1
  <2>6. at(c, k) \in Nat
    BY <1>1, <2>1
  <2> HIDE DEF at
  <2>7. \A q \in Nat : q < 4 => q \in 0 .. 3
    OBVIOUS
  <2>2. at(c, k) \in 0 .. 3
    BY <2>1, <2>6, <2>7, Zenon
  <2>4. (ws[k] \div Place[at(c, k) + 1]) % Byte \in Bytes
    BY <2>2, <2>3, ByteOf
  <2>5. byte(c) = (ws[k] \div Place[at(c, k) + 1]) % Byte
    BY <1>2, Zenon DEF k
  <2> QED
    BY <2>4, <2>5
<1>3. ASSUME NEW c \in Word
      PROVE  byte(c) \in Bytes
  BY <1>2
<1>4. Pushed(m, sp, ws, s) = [c \in Word |-> byte(c)]
  BY Zenon DEF Pushed
<1> HIDE DEF byte
<1> QED
  BY <1>3, <1>4

-----------------------------------------------------------------------------
(* Flags, however they are written. *)
FlagFcn(z, n, c, v) ==
  [f \in Flags |-> CASE f = "Z" -> z [] f = "N" -> n [] f = "C" -> c [] f = "V" -> v]

LEMMA FlagRecord ==
  ASSUME NEW z, NEW n, NEW c, NEW v
  PROVE  [Z |-> z, N |-> n, C |-> c, V |-> v] = FlagFcn(z, n, c, v)
BY DEF Flags, FlagFcn

LEMMA FlagTyped ==
  ASSUME NEW z \in BOOLEAN, NEW n \in BOOLEAN, NEW c \in BOOLEAN, NEW v \in BOOLEAN
  PROVE  FlagFcn(z, n, c, v) \in [Flags -> BOOLEAN]
BY DEF Flags, FlagFcn

LEMMA FlagValues ==
  ASSUME NEW z, NEW n, NEW c, NEW v
  PROVE  LET f == FlagFcn(z, n, c, v)
         IN f["Z"] = z /\ f["N"] = n /\ f["C"] = c /\ f["V"] = v
BY DEF Flags, FlagFcn

LEMMA FlagZN ==
  ASSUME NEW f \in [Flags -> BOOLEAN], NEW z \in BOOLEAN, NEW n \in BOOLEAN
  PROVE  [f EXCEPT !["Z"] = z, !["N"] = n] = FlagFcn(z, n, f["C"], f["V"])
BY DEF Flags, FlagFcn

LEMMA FlagZNC ==
  ASSUME NEW f \in [Flags -> BOOLEAN], NEW z \in BOOLEAN, NEW n \in BOOLEAN,
         NEW c \in BOOLEAN
  PROVE  [[f EXCEPT !["Z"] = z, !["N"] = n] EXCEPT !["C"] = c]
           = FlagFcn(z, n, c, f["V"])
BY DEF Flags, FlagFcn

LEMMA SubTyped ==
  ASSUME NEW l \in Word, NEW r \in Word
  PROVE  SubFlags(l, r) \in [Flags -> BOOLEAN]
<1> DEFINE z == l = r
           c == NoBorrow(l, r)
           n == TopBit(Wrap(l - r))
           v == Xor(TopBit(l), TopBit(r)) /\ Xor(TopBit(l), n)
<1>1. z \in BOOLEAN /\ c \in BOOLEAN /\ n \in BOOLEAN /\ v \in BOOLEAN
  BY DEF NoBorrow, TopBit, Xor
<1>2. SubFlags(l, r) = [Z |-> z, C |-> c, N |-> n, V |-> v]
  BY DEF SubFlags
<1> HIDE DEF z, c, n, v
<1>3. SubFlags(l, r) = FlagFcn(z, n, c, v)
  BY <1>2, FlagRecord
<1> QED
  BY <1>1, <1>3, FlagTyped

LEMMA AddTyped ==
  ASSUME NEW l \in Word, NEW r \in Word
  PROVE  AddFlags(l, r) \in [Flags -> BOOLEAN]
<1> DEFINE z == Wrap(l + r) = 0
           n == TopBit(Wrap(l + r))
           c == r > l \/ Wrap(l + r) < l
           v == ~Xor(TopBit(l), TopBit(r)) /\ Xor(TopBit(l), n)
<1>1. z \in BOOLEAN /\ c \in BOOLEAN /\ n \in BOOLEAN /\ v \in BOOLEAN
  BY DEF TopBit, Xor
<1>2. AddFlags(l, r) = [Z |-> z, N |-> n, C |-> c, V |-> v]
  BY DEF AddFlags
<1> HIDE DEF z, c, n, v
<1>3. AddFlags(l, r) = FlagFcn(z, n, c, v)
  BY <1>2, FlagRecord
<1> QED
  BY <1>1, <1>3, FlagTyped

LEMMA ZNTyped ==
  ASSUME flag \in [Flags -> BOOLEAN], NEW x, NEW c \in BOOLEAN
  PROVE  /\ ZNof(x) = FlagFcn(x = 0, TopBit(x), flag["C"], flag["V"])
         /\ ZNof(x) \in [Flags -> BOOLEAN]
         /\ [ZNof(x) EXCEPT !["C"] = c]
              = FlagFcn(x = 0, TopBit(x), c, flag["V"])
         /\ [ZNof(x) EXCEPT !["C"] = c] \in [Flags -> BOOLEAN]
<1> DEFINE z == x = 0
           n == TopBit(x)
<1>1. z \in BOOLEAN /\ n \in BOOLEAN /\ flag["C"] \in BOOLEAN /\ flag["V"] \in BOOLEAN
  BY DEF TopBit, Flags
<1>2. ZNof(x) = [flag EXCEPT !["Z"] = z, !["N"] = n]
  BY DEF ZNof
<1> HIDE DEF z, n
<1>3. ZNof(x) = FlagFcn(z, n, flag["C"], flag["V"])
  BY <1>1, <1>2, FlagZN
<1>4. [ZNof(x) EXCEPT !["C"] = c] = FlagFcn(z, n, c, flag["V"])
  <2>1. [ZNof(x) EXCEPT !["C"] = c]
          = [[flag EXCEPT !["Z"] = z, !["N"] = n] EXCEPT !["C"] = c]
    BY <1>2, Zenon
  <2> QED
    BY <1>1, <2>1, FlagZNC, Zenon
<1>5. /\ FlagFcn(z, n, flag["C"], flag["V"]) \in [Flags -> BOOLEAN]
      /\ FlagFcn(z, n, c, flag["V"]) \in [Flags -> BOOLEAN]
  BY <1>1, FlagTyped
<1> QED
  BY <1>3, <1>4, <1>5, Zenon DEF z, n

LEMMA InstTyped ==
  ASSUME NEW i \in Insts
  PROVE  /\ i.rd \in Regs /\ i.rn \in Regs /\ i.rm \in Regs
         /\ i.imm \in Word /\ i.list \in Seq(Regs) /\ i.op \in Ops
         /\ i.cond \in Conditions
BY InstAssumption DEF Instruction

LEMMA DestTyped ==
  ASSUME TypeOK, NEW i \in Insts, NEW x \in Word
  PROVE  IsCpu(Dest(i, x))
BY InstAssumption, InstTyped DEF TypeOK, IsCpu, Dest

LEMMA Executed ==
  ASSUME TypeOK, NEW i \in Insts, NEW t \in BOOLEAN, Execute(i, t),
         IsCpu(val'), flag' \in [Flags -> BOOLEAN], mem' \in [Word -> Bytes]
  PROVE  TypeOK'
<1>1. steps' \in 0 .. MaxSteps
  BY InitAssumption DEF TypeOK, Execute
<1>2. IsCpu(cpu')
  BY DEF TypeOK, Execute, IsCpu
<1>3. /\ inside' \in BOOLEAN /\ jumped' \in BOOLEAN /\ instrumented' \in BOOLEAN
      /\ inst' \in Insts \cup {NoInst}
  BY DEF TypeOK, Execute
<1> QED
  BY <1>1, <1>2, <1>3 DEF TypeOK, IsCpu

LEMMA ComputeTyped ==
  ASSUME TypeOK, NEW i \in Insts, NEW v, IsCpu(v), NEW fl \in [Flags -> BOOLEAN],
         Compute(i, v, fl)
  PROVE  TypeOK'
<1>1. Execute(i, FALSE) /\ val' = v /\ flag' = fl /\ mem' = mem
  BY DEF Compute
<1> QED
  BY <1>1, Executed DEF TypeOK, IsCpu

LEMMA ShiftTyped ==
  ASSUME NEW x \in Word, NEW y \in Word, NEW i \in Insts, i.op \in {"tLSLri", "tLSRri"}
  PROVE  /\ Shl(x, i.imm) \in Word /\ Shr(x, i.imm) \in Word
         /\ LSRCarry(x, y, i.imm) \in BOOLEAN
<1>1. i.imm \in 0 .. WordBits
  <2>1. i.imm < WordBits
    BY InstAssumption
  <2>2. i.imm \in Word /\ M \in Nat
    BY InstTyped, WordFacts
  <2>3. WordBits \in Nat
    BY WordAssumption
  <2> QED
    BY <2>1, <2>2, <2>3 DEF Word
<1>2. Shl(x, i.imm) \in Word /\ Shr(x, i.imm) \in Word
  BY <1>1, WordAssumption
<1>3. LSRCarry(x, y, i.imm) \in BOOLEAN
  <2>1. TopBit(x) \in BOOLEAN
    BY DEF TopBit
  <2>2. (And(Shr(y, i.imm - 1), 1) # 0) \in BOOLEAN
    OBVIOUS
  <2> QED
    BY <2>1, <2>2, Zenon DEF LSRCarry
<1> QED
  BY <1>2, <1>3

LEMMA ArithWord ==
  ASSUME NEW x \in Word, NEW y \in Word
  PROVE  /\ Wrap(x - y) \in Word /\ Wrap(x + y) \in Word /\ Not(x) \in Word
         /\ And(x, y) \in Word /\ Or(x, y) \in Word /\ And(x, Not(y)) \in Word
         /\ 0 \in Word
<1>1. Not(x) \in Word /\ Not(y) \in Word
  BY WordFacts DEF Not, Word
<1>2. -M <= x - y /\ x - y < M + M /\ -M <= x + y /\ x + y < M + M
      /\ x \in Int /\ y \in Int /\ 0 \in Word
  BY WordFacts DEF Word
<1>3. Wrap(x - y) \in Word /\ Wrap(x + y) \in Word
  BY <1>2, WrapWord
<1> QED
  BY <1>1, <1>2, <1>3, WordAssumption

LEMMA ValWord ==
  ASSUME TypeOK, NEW i \in Insts
  PROVE  val[i.rn] \in Word /\ val[i.rm] \in Word /\ val[i.rd] \in Word
BY InstTyped DEF TypeOK, IsCpu

(* An instruction that only computes: what it puts where. *)
Computes(i, v, fl) == Compute(i, v, fl) /\ IsCpu(v) /\ fl \in [Flags -> BOOLEAN]

LEMMA Computing ==
  ASSUME TypeOK, NEW i \in Insts
  PROVE  /\ translate_tCMPr(i) => Computes(i, val, SubFlags(val[i.rn], val[i.rm]))
         /\ translate_tCMPi8(i) => Computes(i, val, SubFlags(val[i.rn], i.imm))
         /\ translate_tSUBi8(i) =>
              Computes(i, Dest(i, Wrap(val[i.rn] - i.imm)), SubFlags(val[i.rn], i.imm))
         /\ translate_tADDi8(i) =>
              Computes(i, Dest(i, Wrap(val[i.rn] + i.imm)), AddFlags(val[i.rn], i.imm))
         /\ translate_tADDrr(i) =>
              Computes(i, Dest(i, Wrap(val[i.rn] + val[i.rm])),
                       AddFlags(val[i.rn], val[i.rm]))
         /\ translate_tMOVi8(i) => Computes(i, Dest(i, i.imm), ZNof(i.imm))
         /\ translate_tORR(i) =>
              LET x == Or(val[i.rn], val[i.rm]) IN Computes(i, Dest(i, x), ZNof(x))
         /\ translate_tAND(i) =>
              LET x == And(val[i.rn], val[i.rm]) IN Computes(i, Dest(i, x), ZNof(x))
         /\ translate_tBIC(i) =>
              LET x == And(val[i.rn], Not(val[i.rm])) IN Computes(i, Dest(i, x), ZNof(x))
         /\ translate_tLSLri(i) =>
              LET x == Shl(val[i.rm], i.imm)
              IN \E c \in BOOLEAN : Computes(i, Dest(i, x), [ZNof(x) EXCEPT !["C"] = c])
         /\ translate_tLSRri(i) =>
              LET x == IF i.imm = 0 THEN 0 ELSE Shr(val[i.rm], i.imm)
              IN Computes(i, Dest(i, x),
                          [ZNof(x) EXCEPT !["C"] = LSRCarry(val[i.rm], x, i.imm)])
         /\ translate_tLDRpciASM(i) => Computes(i, Dest(i, i.imm), flag)
<1>1. IsCpu(val) /\ flag \in [Flags -> BOOLEAN]
  BY DEF TypeOK
<1>2. /\ val[i.rn] \in Word /\ val[i.rm] \in Word /\ val[i.rd] \in Word
      /\ i.imm \in Word
  BY ValWord, InstTyped
<1>3. \A x \in Word : IsCpu(Dest(i, x)) /\ ZNof(x) \in [Flags -> BOOLEAN]
  BY <1>1, DestTyped, ZNTyped
<1>4. \A x \in Word : \A c \in BOOLEAN : [ZNof(x) EXCEPT !["C"] = c] \in [Flags -> BOOLEAN]
  BY <1>1, ZNTyped
<1>5. translate_tCMPr(i) => Computes(i, val, SubFlags(val[i.rn], val[i.rm]))
  BY <1>1, <1>2, SubTyped DEF translate_tCMPr, Computes
<1>6. translate_tCMPi8(i) => Computes(i, val, SubFlags(val[i.rn], i.imm))
  BY <1>1, <1>2, SubTyped DEF translate_tCMPi8, Computes
<1>7. translate_tSUBi8(i) =>
        Computes(i, Dest(i, Wrap(val[i.rn] - i.imm)), SubFlags(val[i.rn], i.imm))
  BY <1>1, <1>2, <1>3, SubTyped, ArithWord DEF translate_tSUBi8, Computes
<1>8. translate_tADDi8(i) =>
        Computes(i, Dest(i, Wrap(val[i.rn] + i.imm)), AddFlags(val[i.rn], i.imm))
  BY <1>1, <1>2, <1>3, AddTyped, ArithWord DEF translate_tADDi8, Computes
<1>9. translate_tADDrr(i) =>
        Computes(i, Dest(i, Wrap(val[i.rn] + val[i.rm])), AddFlags(val[i.rn], val[i.rm]))
  BY <1>1, <1>2, <1>3, AddTyped, ArithWord DEF translate_tADDrr, Computes
<1>10. translate_tMOVi8(i) => Computes(i, Dest(i, i.imm), ZNof(i.imm))
  BY <1>1, <1>2, <1>3 DEF translate_tMOVi8, Computes
<1>11. translate_tORR(i) =>
         LET x == Or(val[i.rn], val[i.rm]) IN Computes(i, Dest(i, x), ZNof(x))
  BY <1>1, <1>2, <1>3, ArithWord DEF translate_tORR, Computes
<1>12. translate_tAND(i) =>
         LET x == And(val[i.rn], val[i.rm]) IN Computes(i, Dest(i, x), ZNof(x))
  BY <1>1, <1>2, <1>3, ArithWord DEF translate_tAND, Computes
<1>13. translate_tBIC(i) =>
         LET x == And(val[i.rn], Not(val[i.rm])) IN Computes(i, Dest(i, x), ZNof(x))
  BY <1>1, <1>2, <1>3, ArithWord DEF translate_tBIC, Computes
<1>14. translate_tLSLri(i) =>
         LET x == Shl(val[i.rm], i.imm)
         IN \E c \in BOOLEAN : Computes(i, Dest(i, x), [ZNof(x) EXCEPT !["C"] = c])
  <2> DEFINE x == Shl(val[i.rm], i.imm)
  <2> SUFFICES ASSUME translate_tLSLri(i)
               PROVE  \E c \in BOOLEAN :
                        Computes(i, Dest(i, x), [ZNof(x) EXCEPT !["C"] = c])
    OBVIOUS
  <2>1. i.op = "tLSLri"
    BY DEF translate_tLSLri
  <2>2. PICK c \in BOOLEAN : Compute(i, Dest(i, x), [ZNof(x) EXCEPT !["C"] = c])
    BY DEF translate_tLSLri
  <2>3. x \in Word
    BY <1>2, <2>1, ShiftTyped
  <2> HIDE DEF x
  <2> QED
    BY <1>3, <1>4, <2>2, <2>3 DEF Computes
<1>15. translate_tLSRri(i) =>
         LET x == IF i.imm = 0 THEN 0 ELSE Shr(val[i.rm], i.imm)
         IN Computes(i, Dest(i, x),
                     [ZNof(x) EXCEPT !["C"] = LSRCarry(val[i.rm], x, i.imm)])
  <2> DEFINE x == IF i.imm = 0 THEN 0 ELSE Shr(val[i.rm], i.imm)
  <2> SUFFICES ASSUME translate_tLSRri(i)
               PROVE  Computes(i, Dest(i, x),
                               [ZNof(x) EXCEPT !["C"] = LSRCarry(val[i.rm], x, i.imm)])
    OBVIOUS
  <2>1. i.op = "tLSRri"
        /\ Compute(i, Dest(i, x), [ZNof(x) EXCEPT !["C"] = LSRCarry(val[i.rm], x, i.imm)])
    BY DEF translate_tLSRri
  <2>2. x \in Word
    BY <1>2, <2>1, ShiftTyped, ArithWord
  <2> HIDE DEF x
  <2> QED
    BY <1>2, <1>3, <1>4, <2>1, <2>2, ShiftTyped DEF Computes
<1>16. translate_tLDRpciASM(i) => Computes(i, Dest(i, i.imm), flag)
  BY <1>1, <1>2, <1>3 DEF translate_tLDRpciASM, Computes
<1> QED
  BY <1>5, <1>6, <1>7, <1>8, <1>9, <1>10, <1>11, <1>12, <1>13, <1>14, <1>15, <1>16

LEMMA AddressWord ==
  ASSUME TypeOK, NEW i \in Insts, i.op \in LoadOps \cup StoreOps
  PROVE  Address(i, val[i.rn]) \in Word /\ Size(i) \in {2, 4}
<1>1. val[i.rn] \in Word /\ i.imm \in Word
  BY ValWord, InstTyped
<1>2. 4 * i.imm < M
  BY InstAssumption
<1>3. Size(i) \in {2, 4}
  BY DEF Size
<1>4. LET x == val[i.rn] + Size(i) * i.imm IN x \in Int /\ -M <= x /\ x < M + M
  <2> DEFINE n == Size(i)
             k == i.imm
             v == val[i.rn]
  <2>1. v \in Int /\ k \in Int /\ 0 <= v /\ v < M /\ 0 <= k /\ 4 * k < M /\ M \in Nat
    BY <1>1, <1>2, WordFacts DEF Word
  <2>2. n = 2 \/ n = 4
    BY <1>3
  <2> HIDE DEF n, k, v
  <2>3. v + n * k \in Int /\ -M <= v + n * k /\ v + n * k < M + M
    BY <2>1, <2>2
  <2> QED
    BY <2>3 DEF n, k, v
<1> QED
  BY <1>3, <1>4, WrapWord DEF Address

LEMMA LoadedWord ==
  ASSUME TypeOK, NEW a \in Word, NEW n \in {2, 4}
  PROVE  Loaded(a, n) \subseteq {LoadFrom(mem, a, n)} /\ LoadFrom(mem, a, n) \in Word
BY LoadWord DEF Loaded, TypeOK

LEMMA LoadTyped ==
  ASSUME TypeOK, NEW i \in Insts, i.op \in LoadOps, Load(i)
  PROVE  /\ val' = Dest(i, LoadFrom(mem, Address(i, val[i.rn]), Size(i)))
         /\ TypeOK'
<1> DEFINE a == Address(i, val[i.rn])
           n == Size(i)
<1>1. a \in Word /\ n \in {2, 4}
  BY AddressWord
<1>2. PICK x \in Loaded(a, n) : val' = Dest(i, x)
  BY DEF Load
<1>3. Execute(i, FALSE) /\ UNCHANGED <<flag, mem>>
  BY DEF Load
<1> HIDE DEF a, n
<1>4. x = LoadFrom(mem, a, n) /\ x \in Word
  BY <1>1, LoadedWord
<1>5. IsCpu(val')
  BY <1>2, <1>4, DestTyped DEF IsCpu
<1>6. flag' \in [Flags -> BOOLEAN] /\ mem' \in [Word -> Bytes]
  BY <1>3 DEF TypeOK
<1>7. TypeOK'
  BY <1>3, <1>5, <1>6, Executed
<1> QED
  BY <1>2, <1>4, <1>7 DEF a, n

LEMMA StoreTyped ==
  ASSUME TypeOK, NEW i \in Insts, i.op \in StoreOps, Store(i)
  PROVE  TypeOK'
<1> DEFINE a == Address(i, val[i.rn])
           n == Size(i)
           x == Lowest(val[i.rd], n)
<1>1. a \in Word /\ n \in {2, 4}
  BY AddressWord
<1>2. mem' = StoreTo(mem, a, n, x) /\ Execute(i, FALSE) /\ UNCHANGED <<val, flag>>
  BY DEF Store
<1>3. x \in Word
  BY <1>1, ValWord, LowestWord
<1> HIDE DEF a, n, x
<1>4. mem' \in [Word -> Bytes]
  BY <1>1, <1>2, <1>3, StoreBytes DEF TypeOK
<1>5. IsCpu(val') /\ flag' \in [Flags -> BOOLEAN]
  BY <1>2 DEF TypeOK, IsCpu
<1> QED
  BY <1>2, <1>4, <1>5, Executed

LEMMA PushTyped ==
  ASSUME TypeOK, NEW i \in Insts, translate_tPUSH(i)
  PROVE  TypeOK'
<1> DEFINE n == Len(i.list)
           ws == [k \in 1..n |-> val[i.list[k]]]
           s == [k \in 1..n |-> k]
<1>1. n \in Nat /\ 4 * n <= M /\ \A k \in 1..n : i.list[k] \in Regs
  BY InstAssumption, InstTyped DEF translate_tPUSH
<1>2. /\ mem' = Pushed(mem, val[SP], ws, s)
      /\ val' = [val EXCEPT ![SP] = Slot(val[SP], n)]
      /\ Execute(i, FALSE) /\ UNCHANGED flag
  BY DEF translate_tPUSH
<1>3. val[SP] \in Word /\ SP \in Regs /\ SP # "CPSR"
  BY InstAssumption DEF TypeOK, IsCpu
<1>4. ws \in [1..n -> Word] /\ s \in [1..n -> 1..n]
  BY <1>1 DEF TypeOK, IsCpu
<1> HIDE DEF n, ws, s
<1>5. mem' \in [Word -> Bytes]
  BY <1>1, <1>2, <1>3, <1>4, PushedBytes DEF TypeOK
<1>6. Slot(val[SP], n) \in Word
  BY <1>1, <1>3, SlotWord
<1>7. IsCpu(val') /\ flag' \in [Flags -> BOOLEAN]
  BY <1>2, <1>3, <1>6 DEF TypeOK, IsCpu
<1> QED
  BY <1>2, <1>5, <1>7, Executed

LEMMA BranchTyped ==
  ASSUME TypeOK, NEW i \in Insts, translate_tB(i) \/ translate_tBcc(i)
  PROVE  TypeOK'
<1>1. PICK t \in BOOLEAN : Execute(i, t) /\ UNCHANGED <<val, flag, mem>>
  <2>1. getCondition(i.cond) \in BOOLEAN
    <3>1. /\ flag["Z"] \in BOOLEAN /\ flag["N"] \in BOOLEAN
          /\ flag["C"] \in BOOLEAN /\ flag["V"] \in BOOLEAN
      BY DEF TypeOK, Flags
    <3>2. i.cond \in Conditions
      BY InstTyped
    <3> QED
      BY <3>1, <3>2 DEF Conditions, getCondition
  <2> QED
    BY <2>1 DEF translate_tB, translate_tBcc
<1>2. IsCpu(val') /\ flag' \in [Flags -> BOOLEAN] /\ mem' \in [Word -> Bytes]
  BY <1>1 DEF TypeOK, IsCpu
<1> QED
  BY <1>1, <1>2, Executed

LEMMA EntryTyped ==
  ASSUME TypeOK, genCodeEntry
  PROVE  TypeOK'
<1>1. IsCpu(val') /\ IsCpu(cpu')
  BY DEF TypeOK, genCodeEntry, IsCpu
<1>2. flag' \in [Flags -> BOOLEAN]
  BY Decoded DEF genCodeEntry
<1> QED
  BY <1>1, <1>2 DEF TypeOK, genCodeEntry, IsCpu

LEMMA ExitTyped ==
  ASSUME TypeOK, genCodeExit
  PROVE  /\ TypeOK'
         /\ decode_cpsr_to_flags(cpu'["CPSR"]) = flag
         /\ cpu'["CPSR"] % CpsrLow = val["CPSR"] % CpsrLow
         /\ \A r \in Regs : cpu'[r] = val[r]
<1> DEFINE e == encode_flags_to_cpsr(val["CPSR"], flag)
<1>1. /\ e \in Cpsr /\ e % CpsrLow = val["CPSR"] % CpsrLow
      /\ decode_cpsr_to_flags(e) = flag
  BY RoundTrip DEF TypeOK, IsCpu
<1>2. cpu' = [val EXCEPT !["CPSR"] = e] /\ val' = [val EXCEPT !["CPSR"] = e]
  BY DEF genCodeExit
<1> HIDE DEF e
<1>3. cpu'["CPSR"] = e /\ \A r \in Regs : cpu'[r] = val[r]
  BY <1>2, InstAssumption DEF TypeOK, IsCpu
<1>4. IsCpu(val') /\ IsCpu(cpu')
  BY <1>1, <1>2, InstAssumption DEF TypeOK, IsCpu
<1>5. TypeOK'
  BY <1>4 DEF TypeOK, genCodeExit, IsCpu
<1> QED
  BY <1>1, <1>3, <1>5

-----------------------------------------------------------------------------
(* The invariant: besides the types, the flags in force stay those of the   *)
(* last comparison, be they in the values of the unit or, between two calls *)
(* of the function, encoded in the CPSR of the struct.                      *)
InForce == IF inside THEN flag ELSE decode_cpsr_to_flags(cpu["CPSR"])

Compared ==
  inst # NoInst =>
    /\ inst.op = "tCMPr" =>
         InForce = SubFlags(Visible[inst.rn], Visible[inst.rm])
    /\ inst.op = "tCMPi8" => InForce = SubFlags(Visible[inst.rn], inst.imm)

Inv == TypeOK /\ Compared /\ AccessesReported

LEMMA ComputeKinds ==
  ASSUME TypeOK, NEW i \in Insts, Translated(i)
  PROVE  \/ i.op = "tCMPr" /\ Computes(i, val, SubFlags(val[i.rn], val[i.rm]))
         \/ i.op = "tCMPi8" /\ Computes(i, val, SubFlags(val[i.rn], i.imm))
         \/ /\ i.op \in DataOps \ {"tCMPr", "tCMPi8"}
            /\ \E v, fl : Computes(i, v, fl)
         \/ i.op \in LoadOps /\ Load(i)
         \/ i.op \in StoreOps /\ Store(i)
         \/ translate_tPUSH(i)
         \/ translate_tB(i) \/ translate_tBcc(i)
<1>1. CASE translate_tCMPr(i)
  BY <1>1, Computing DEF translate_tCMPr
<1>2. CASE translate_tCMPi8(i)
  BY <1>2, Computing DEF translate_tCMPi8
<1>3. CASE translate_tSUBi8(i)
  BY <1>3, Computing DEF translate_tSUBi8, DataOps
<1>4. CASE translate_tADDi8(i)
  BY <1>4, Computing DEF translate_tADDi8, DataOps
<1>5. CASE translate_tADDrr(i)
  BY <1>5, Computing DEF translate_tADDrr, DataOps
<1>6. CASE translate_tMOVi8(i)
  BY <1>6, Computing DEF translate_tMOVi8, DataOps
<1>7. CASE translate_tORR(i)
  BY <1>7, Computing DEF translate_tORR, DataOps
<1>8. CASE translate_tAND(i)
  BY <1>8, Computing DEF translate_tAND, DataOps
<1>9. CASE translate_tBIC(i)
  BY <1>9, Computing DEF translate_tBIC, DataOps
<1>10. CASE translate_tLSLri(i)
  BY <1>10, Computing DEF translate_tLSLri, DataOps
<1>11. CASE translate_tLSRri(i)
  BY <1>11, Computing DEF translate_tLSRri, DataOps
<1>12. CASE translate_tLDRpciASM(i)
  BY <1>12, Computing DEF translate_tLDRpciASM, DataOps
<1>13. CASE translate_tLDRi(i) \/ translate_tLDRHi(i)
  BY <1>13 DEF translate_tLDRi, translate_tLDRHi, LoadOps
<1>14. CASE translate_tSTRi(i) \/ translate_tSTRHi(i)
  BY <1>14 DEF translate_tSTRi, translate_tSTRHi, StoreOps
<1> QED
  BY <1>1, <1>2, <1>3, <1>4, <1>5, <1>6, <1>7, <1>8, <1>9, <1>10, <1>11, <1>12,
     <1>13, <1>14 DEF Translated

LEMMA NotCompare ==
  ASSUME NEW i \in Insts, inst' = i, i.op \notin {"tCMPr", "tCMPi8"}
  PROVE  Compared'
BY DEF Compared

(* A load or a store of instrumented code calls a handler for its access.   *)
LEMMA Reported ==
  ASSUME TypeOK, NEW i \in Insts, i.op \in LoadOps \cup StoreOps, NEW kind, NEW a, NEW x,
         runOnBasicBlock(i, kind, a, x), Execute(i, FALSE),
         bus' = <<Access(kind, a, Size(i), x)>>
  PROVE  AccessesReported'
<1>1. Bits(i) \div 8 = Size(i)
  BY DEF LoadOps, StoreOps, Bits, Size
<1>2. i.op \in Marked /\ i.op # "tPUSH"
  BY DEF LoadOps, StoreOps, Marked
<1>3. inst' = i /\ instrumented' = instrumented
  BY DEF Execute
<1> QED
  BY <1>1, <1>2, <1>3 DEF runOnBasicBlock, AccessesReported

LEMMA InstructionStep ==
  ASSUME Inv, NEW i \in Insts, Translated(i)
  PROVE  Inv'
<1> USE DEF Inv
<1>1. CASE i.op = "tCMPr" /\ Computes(i, val, SubFlags(val[i.rn], val[i.rm]))
  <2>1. TypeOK'
    BY <1>1, ComputeTyped DEF Computes
  <2>2. /\ inst' = i /\ inside' = TRUE /\ val' = val
        /\ flag' = SubFlags(val[i.rn], val[i.rm]) /\ handled' = <<>> /\ bus' = <<>>
    BY <1>1 DEF Computes, Compute, Execute
  <2>3. Compared'
    BY <1>1, <2>2 DEF Compared, InForce, Visible
  <2>4. AccessesReported'
    BY <2>2 DEF AccessesReported
  <2> QED
    BY <2>1, <2>3, <2>4
<1>2. CASE i.op = "tCMPi8" /\ Computes(i, val, SubFlags(val[i.rn], i.imm))
  <2>1. TypeOK'
    BY <1>2, ComputeTyped DEF Computes
  <2>2. /\ inst' = i /\ inside' = TRUE /\ val' = val
        /\ flag' = SubFlags(val[i.rn], i.imm) /\ handled' = <<>> /\ bus' = <<>>
    BY <1>2 DEF Computes, Compute, Execute
  <2>3. Compared'
    BY <1>2, <2>2 DEF Compared, InForce, Visible
  <2>4. AccessesReported'
    BY <2>2 DEF AccessesReported
  <2> QED
    BY <2>1, <2>3, <2>4
<1>3. CASE /\ i.op \in DataOps \ {"tCMPr", "tCMPi8"}
           /\ \E v, fl : Computes(i, v, fl)
  <2>1. PICK v, fl : Computes(i, v, fl)
    BY <1>3
  <2>2. TypeOK'
    BY <2>1, ComputeTyped DEF Computes
  <2>3. inst' = i /\ handled' = <<>> /\ bus' = <<>>
    BY <2>1 DEF Computes, Compute, Execute
  <2>4. Compared'
    BY <1>3, <2>3, NotCompare
  <2>5. AccessesReported'
    BY <2>3 DEF AccessesReported
  <2> QED
    BY <2>2, <2>4, <2>5
<1>4. CASE i.op \in LoadOps /\ Load(i)
  <2>1. TypeOK'
    BY <1>4, LoadTyped
  <2>2. inst' = i /\ i.op \notin {"tCMPr", "tCMPi8"}
    BY <1>4 DEF Load, Execute, LoadOps
  <2>3. AccessesReported'
    BY <1>4, Reported DEF Load
  <2> QED
    BY <2>1, <2>2, <2>3, NotCompare
<1>5. CASE i.op \in StoreOps /\ Store(i)
  <2>1. TypeOK'
    BY <1>5, StoreTyped
  <2>2. inst' = i /\ i.op \notin {"tCMPr", "tCMPi8"}
    BY <1>5 DEF Store, Execute, StoreOps
  <2>3. AccessesReported'
    BY <1>5, Reported DEF Store
  <2> QED
    BY <2>1, <2>2, <2>3, NotCompare
<1>6. CASE translate_tPUSH(i)
  <2>1. TypeOK'
    BY <1>6, PushTyped
  <2>2. inst' = i /\ i.op = "tPUSH" /\ handled' = <<>>
    BY <1>6 DEF translate_tPUSH, Execute
  <2>3. AccessesReported'
    BY <2>2 DEF AccessesReported
  <2> QED
    BY <2>1, <2>2, <2>3, NotCompare
<1>7. CASE translate_tB(i) \/ translate_tBcc(i)
  <2>1. TypeOK'
    BY <1>7, BranchTyped
  <2>2. /\ inst' = i /\ i.op \in BranchOps
        /\ handled' = <<>> /\ bus' = <<>>
    BY <1>7 DEF translate_tB, translate_tBcc, Execute, BranchOps
  <2>3. Compared'
    BY <2>2, NotCompare DEF BranchOps
  <2>4. AccessesReported'
    BY <2>2 DEF AccessesReported, BranchOps
  <2> QED
    BY <2>1, <2>3, <2>4
<1> QED
  BY <1>1, <1>2, <1>3, <1>4, <1>5, <1>6, <1>7, ComputeKinds

LEMMA InvInit == Init => Inv
<1> SUFFICES ASSUME Init PROVE Inv
  OBVIOUS
<1>1. IsCpu(cpu) /\ val = cpu /\ mem \in [Word -> Bytes] /\ steps \in 0 .. MaxSteps
  BY InitAssumption DEF Init
<1>2. flag \in [Flags -> BOOLEAN]
  BY Decoded DEF Init
<1>3. TypeOK
  BY <1>1, <1>2 DEF Init, TypeOK, IsCpu
<1> QED
  BY <1>3 DEF Init, Inv, Compared, AccessesReported

LEMMA InvNext == Inv /\ [Next]_vars => Inv'
<1> SUFFICES ASSUME Inv, [Next]_vars PROVE Inv'
  OBVIOUS
<1> USE DEF Inv
<1>1. CASE genCodeEntry
  <2>1. TypeOK'
    BY <1>1, EntryTyped
  <2>2. InForce' = InForce /\ Visible' = Visible /\ inst' = inst
    BY <1>1 DEF genCodeEntry, InForce, Visible
  <2>3. Compared'
    BY <2>2 DEF Compared
  <2>4. AccessesReported'
    BY <1>1 DEF genCodeEntry, AccessesReported
  <2> QED
    BY <2>1, <2>3, <2>4
<1>2. CASE genCodeExit
  <2>1. TypeOK'
    BY <1>2, ExitTyped
  <2>2. inside /\ ~inside' /\ inst' = inst
    BY <1>2 DEF genCodeExit
  <2>3. InForce' = InForce /\ \A r \in Regs : Visible'[r] = Visible[r]
    BY <1>2, <2>2, ExitTyped DEF InForce, Visible
  <2>4. inst # NoInst => inst.rn \in Regs /\ inst.rm \in Regs
    BY InstTyped DEF TypeOK
  <2>5. Compared'
    BY <2>2, <2>3, <2>4 DEF Compared
  <2>6. AccessesReported'
    BY <1>2 DEF genCodeExit, AccessesReported
  <2> QED
    BY <2>1, <2>5, <2>6
<1>3. CASE \E i \in Insts : Translated(i)
  BY <1>3, InstructionStep
<1>4. CASE UNCHANGED vars
  <2>1. TypeOK'
    BY <1>4 DEF vars, TypeOK, IsCpu
  <2>2. Compared' /\ AccessesReported'
    BY <1>4 DEF vars, Compared, AccessesReported, InForce, Visible
  <2> QED
    BY <2>1, <2>2
<1> QED
  BY <1>1, <1>2, <1>3, <1>4 DEF Next

LEMMA InvAlways == Spec => []Inv
BY InvInit, InvNext, PTL DEF Spec

-----------------------------------------------------------------------------
(* The flags of a subtraction decide as the operands compare.               *)
LEMMA SubDecides ==
  ASSUME NEW l \in Word, NEW r \in Word, flag = SubFlags(l, r)
  PROVE  Decides(l, r)
<1> DEFINE res == Wrap(l - r)
<1>1. /\ flag["Z"] = (l = r) /\ flag["C"] = NoBorrow(l, r)
      /\ flag["N"] = TopBit(res)
      /\ flag["V"] = (Xor(TopBit(l), TopBit(r)) /\ Xor(TopBit(l), TopBit(res)))
  BY DEF SubFlags
<1>2. /\ l \in Int /\ r \in Int /\ 0 <= l /\ l < M /\ 0 <= r /\ r < M
      /\ M \in Int /\ HalfM \in Int /\ HalfM > 0 /\ M = HalfM + HalfM
  BY WordFacts DEF Word
<1>3. (TopBit(res) = (Xor(TopBit(l), TopBit(r)) /\ Xor(TopBit(l), TopBit(res))))
        = (Signed(l) >= Signed(r))
  BY <1>2 DEF Wrap, TopBit, Xor, Signed
<1>4. (Signed(l) = Signed(r)) = (l = r) /\ Signed(l) \in Int /\ Signed(r) \in Int
  BY <1>2 DEF TopBit, Signed
<1> DEFINE eq == l = r
           ge == l >= r
           sge == Signed(l) >= Signed(r)
<1>5. /\ flag["Z"] = eq /\ flag["C"] = ge
      /\ (flag["N"] = flag["V"]) = sge
  BY <1>1, <1>3, Zenon DEF NoBorrow
<1>6. /\ (l < r) = ~ge /\ (l > r) = (~eq /\ ge) /\ (l <= r) = (~ge \/ eq)
      /\ (Signed(l) < Signed(r)) = ~sge
      /\ (Signed(l) > Signed(r)) = (sge /\ ~eq)
      /\ (Signed(l) <= Signed(r)) = (~sge \/ eq)
  BY <1>2, <1>4
<1>7. /\ getCondition("EQ") = flag["Z"]  /\ getCondition("NE") = ~flag["Z"]
      /\ getCondition("HS") = flag["C"]  /\ getCondition("LO") = ~flag["C"]
      /\ getCondition("HI") = (~flag["Z"] /\ flag["C"])
      /\ getCondition("LS") = (~flag["C"] \/ flag["Z"])
      /\ getCondition("GE") = (flag["N"] = flag["V"])
      /\ getCondition("LT") = (flag["N"] # flag["V"])
      /\ getCondition("GT") = (flag["N"] = flag["V"] /\ ~flag["Z"])
      /\ getCondition("LE") = (flag["N"] # flag["V"] \/ flag["Z"])
  BY DEF getCondition
<1> HIDE DEF res, eq, ge, sge
<1>8. /\ eq \in BOOLEAN /\ ge \in BOOLEAN /\ sge \in BOOLEAN
  BY <1>2, <1>4 DEF eq, ge, sge
<1>9. /\ getCondition("EQ") = eq /\ getCondition("NE") = ~eq
      /\ getCondition("HS") = ge /\ getCondition("LO") = ~ge
      /\ getCondition("HI") = (~eq /\ ge) /\ getCondition("LS") = (~ge \/ eq)
      /\ getCondition("GE") = sge /\ getCondition("LT") = ~sge
      /\ getCondition("GT") = (sge /\ ~eq) /\ getCondition("LE") = (~sge \/ eq)
  BY <1>5, <1>7, <1>8, Zenon
<1> QED
  BY <1>6, <1>9, Zenon DEF Decides, eq, ge, sge

(* Every value of the translated code keeps its type and its width. *)
THEOREM TypeCorrect == Spec => []TypeOK
BY InvAlways, PTL DEF Inv

(* A conditional branch after a comparison decides as its operands compare, *)
(* unsigned and signed, even when control left the translated ranges and    *)
(* came back in between.                                                    *)
THEOREM BranchesDecide == Spec => []ComparesDecide
<1>1. Inv => ComparesDecide
  <2> SUFFICES ASSUME Inv, inst # NoInst, inside
               PROVE  /\ inst.op = "tCMPr" => Decides(val[inst.rn], val[inst.rm])
                      /\ inst.op = "tCMPi8" => Decides(val[inst.rn], inst.imm)
    BY DEF ComparesDecide
  <2>1. inst \in Insts
    BY DEF Inv, TypeOK
  <2>2. val[inst.rn] \in Word /\ val[inst.rm] \in Word /\ inst.imm \in Word
    BY <2>1, ValWord, InstTyped DEF Inv
  <2> QED
    BY <2>2, SubDecides DEF Inv, Compared, InForce, Visible
<1> QED
  BY <1>1, InvAlways, PTL

(* Instrumented code reports every access of a load or store instruction.   *)
THEOREM AllReported == Spec => []AccessesReported
BY InvAlways, PTL DEF Inv
=============================================================================
