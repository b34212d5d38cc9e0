---------------------------- MODULE GdbMIProofs ----------------------------
(***************************************************************************)
(* Proofs about GdbMI, for any threads and any number of calls: there is   *)
(* one result under way for each call that waits for one, and as long as   *)
(* calls do not overlap, each takes the result of its own command.         *)
(***************************************************************************)
EXTENDS GdbMI, FiniteSetTheorems, SequenceTheorems, TLAPS

Waiting == {c \in Callers : pc[c] \in {"written", "adding", "blocked"}}
Count(lines) == Cardinality(ResultsIn(lines))

(* A result is somebody's, wherever it is.                                  *)
OfACall(lines) == \A i \in DOMAIN lines : IsResult(lines[i]) => lines[i].call \in Calls

(* The balance counts finite sets.                                          *)
BalanceInv ==
  /\ OfACall(stdout) /\ OfACall(chunk)
  /\ IsFiniteSet(Waiting)
  /\ ResultsBalanced

(* A command or a result that a waiting caller expects; the token of a      *)
(* result that lost its beginning is another.                               *)
Expected(x) == \E c \in Waiting : x.call = Current(c) /\ (torn \/ x.token = t[c])

(* With one call open at a time, the token stays the one in its command,    *)
(* and all that is under way belongs to it.                                 *)
OneOpen == \A c, d \in Callers : pc[c] # "idle" /\ pc[d] # "idle" => c = d
TokenKept == \A c \in Callers : /\ pc[c] = "formatted" => sent[c] = token
                                /\ pc[c] = "noted" => sent[c] = t[c]
AllExpected ==
  /\ \A i \in DOMAIN stdin : Expected(stdin[i])
  /\ \A i \in DOMAIN stdout : IsResult(stdout[i]) => Expected(stdout[i])
  /\ \A i \in DOMAIN chunk : IsResult(chunk[i]) => Expected(chunk[i])
  /\ \A i \in DOMAIN results : Expected(results[i])
SoloInv == ~overlap => OneOpen /\ TokenKept /\ AllExpected

(* A read that ends in a line leaves the rest of it to be read.             *)
CutInv == cut => stdout # <<>>

IInv == TypeOK /\ CutInv /\ BalanceInv /\ SoloInv /\ InStep
-----------------------------------------------------------------------------
(* Results in sequences of lines: how many there are in two of them put     *)
(* together, at the head and in the rest, before and after a cut.           *)
LEMMA Counted ==
  ASSUME NEW s \in Seq(Lines)
  PROVE  /\ Count(s) \in Nat /\ IsFiniteSet(ResultsIn(s))
         /\ Count(s) = 0 <=> ResultsIn(s) = {}
         /\ Len(s) \in Nat /\ DOMAIN s = 1 .. Len(s)
         /\ ResultsIn(s) \subseteq 1 .. Len(s)
<1>1. Len(s) \in Nat /\ DOMAIN s = 1 .. Len(s)
  BY LenProperties
<1>2. ResultsIn(s) \subseteq 1 .. Len(s)
  BY <1>1 DEF ResultsIn
<1>3. IsFiniteSet(1 .. Len(s))
  BY <1>1, FS_Interval
<1>4. IsFiniteSet(ResultsIn(s))
  BY <1>2, <1>3, FS_Subset
<1> QED
  BY <1>1, <1>2, <1>4, FS_CardinalityType, FS_EmptySet DEF Count

LEMMA CountEmpty == Count(<<>>) = 0
<1>1. ResultsIn(<<>>) = {}
  BY DEF ResultsIn
<1> QED
  BY <1>1, FS_EmptySet DEF Count

LEMMA CountSingle ==
  ASSUME NEW line \in Lines
  PROVE  Count(<<line>>) = IF IsResult(line) THEN 1 ELSE 0
<1>1. <<line>> \in Seq(Lines) /\ DOMAIN <<line>> = {1} /\ <<line>>[1] = line
  OBVIOUS
<1>2. ResultsIn(<<line>>) = IF IsResult(line) THEN {1} ELSE {}
  BY <1>1 DEF ResultsIn
<1> QED
  BY <1>2, FS_Singleton, FS_EmptySet DEF Count

LEMMA CountConcat ==
  ASSUME NEW s \in Seq(Lines), NEW u \in Seq(Lines)
  PROVE  Count(s \o u) = Count(s) + Count(u)
<1> DEFINE moved == {j \in Len(s) + 1 .. Len(s) + Len(u) : j - Len(s) \in ResultsIn(u)}
           shift == [i \in ResultsIn(u) |-> i + Len(s)]
<1>1. /\ Len(s) \in Nat /\ Len(u) \in Nat
      /\ DOMAIN s = 1 .. Len(s) /\ DOMAIN u = 1 .. Len(u)
      /\ IsFiniteSet(ResultsIn(s)) /\ IsFiniteSet(ResultsIn(u))
      /\ ResultsIn(s) \subseteq 1 .. Len(s) /\ ResultsIn(u) \subseteq 1 .. Len(u)
  BY Counted
<1>2. /\ s \o u \in Seq(Lines) /\ DOMAIN (s \o u) = 1 .. Len(s) + Len(u)
      /\ \A i \in 1 .. Len(s) + Len(u) :
           (s \o u)[i] = IF i <= Len(s) THEN s[i] ELSE u[i - Len(s)]
  BY ConcatProperties, LenProperties
<1>3. ResultsIn(s \o u) = ResultsIn(s) \cup moved
  BY <1>1, <1>2 DEF ResultsIn
<1>4. ResultsIn(s) \cap moved = {}
  BY <1>1
<1>5. shift \in Bijection(ResultsIn(u), moved)
  <2>1. shift \in [ResultsIn(u) -> moved]
    BY <1>1
  <2>2. \A i, j \in ResultsIn(u) : shift[i] = shift[j] => i = j
    BY <1>1
  <2>3. \A j \in moved : \E i \in ResultsIn(u) : shift[i] = j
    <3> TAKE j \in moved
    <3>1. j - Len(s) \in ResultsIn(u) /\ shift[j - Len(s)] = j
      BY <1>1
    <3> QED
      BY <3>1
  <2> HIDE DEF moved, shift
  <2> QED
    BY <2>1, <2>2, <2>3 DEF Bijection, Injection, Surjection, IsInjective
<1> HIDE DEF moved, shift
<1>6. IsFiniteSet(moved) /\ Cardinality(moved) = Cardinality(ResultsIn(u))
  BY <1>1, <1>5, FS_Bijection DEF ExistsBijection
<1>7. Cardinality(ResultsIn(s) \cup moved)
        = Cardinality(ResultsIn(s)) + Cardinality(moved) - Cardinality({})
  BY <1>1, <1>4, <1>6, FS_Union
<1> QED
  BY <1>1, <1>3, <1>6, <1>7, FS_EmptySet, FS_CardinalityType DEF Count

LEMMA CountAppend ==
  ASSUME NEW s \in Seq(Lines), NEW line \in Lines
  PROVE  Count(Append(s, line)) = Count(s) + (IF IsResult(line) THEN 1 ELSE 0)
<1>1. Append(s, line) = s \o <<line>> /\ <<line>> \in Seq(Lines)
  BY AppendIsConcat
<1> QED
  BY <1>1, CountConcat, CountSingle

LEMMA CountCut ==
  ASSUME NEW s \in Seq(Lines), NEW n \in DOMAIN s
  PROVE  /\ SubSeq(s, 1, n) \in Seq(Lines) /\ SubSeq(s, n + 1, Len(s)) \in Seq(Lines)
         /\ Count(s) = Count(SubSeq(s, 1, n)) + Count(SubSeq(s, n + 1, Len(s)))
<1>1. Len(s) \in Nat /\ n \in 1 .. Len(s) /\ \A i \in 1 .. Len(s) : s[i] \in Lines
  BY LenProperties, ElementOfSeq
<1>2. SubSeq(s, 1, n) \in Seq(Lines) /\ SubSeq(s, n + 1, Len(s)) \in Seq(Lines)
  BY <1>1, SubSeqProperties
<1>3. SubSeq(s, 1, n) \o SubSeq(s, n + 1, Len(s)) = SubSeq(s, 1, Len(s))
  <2>1. 1 \in 1 .. Len(s) + 1 /\ n \in 1 - 1 .. Len(s) /\ Len(s) \in n .. Len(s)
    BY <1>1
  <2> QED
    BY <2>1, ConcatAdjacentSubSeq
<1>4. SubSeq(s, 1, Len(s)) = s
  BY SubSeqFull
<1> QED
  BY <1>2, <1>3, <1>4, CountConcat

LEMMA CountHead ==
  ASSUME NEW s \in Seq(Lines), s # <<>>
  PROVE  /\ Head(s) \in Lines /\ Tail(s) \in Seq(Lines)
         /\ Count(s) = Count(Tail(s)) + (IF IsResult(Head(s)) THEN 1 ELSE 0)
<1>1. /\ Head(s) \in Lines /\ Tail(s) \in Seq(Lines) /\ <<Head(s)>> \in Seq(Lines)
      /\ Len(s) \in Nat \ {0}
  BY HeadTailProperties, EmptySeq
<1>2. s = <<Head(s)>> \o Tail(s)
  <2>1. <<Head(s)>> \o Tail(s) \in Seq(Lines)
    BY <1>1, ConcatProperties
  <2>2. Len(<<Head(s)>>) = 1 /\ <<Head(s)>>[1] = s[1]
    BY <1>1
  <2>3. Len(Tail(s)) = Len(s) - 1 /\ \A i \in 1 .. Len(Tail(s)) : Tail(s)[i] = s[i + 1]
    BY HeadTailProperties
  <2>4. Len(<<Head(s)>> \o Tail(s)) = Len(s)
    BY <1>1, <2>2, <2>3, ConcatProperties
  <2>5. \A i \in 1 .. 1 + Len(Tail(s)) :
          (<<Head(s)>> \o Tail(s))[i] = IF i <= 1 THEN <<Head(s)>>[i] ELSE Tail(s)[i - 1]
    BY <1>1, <2>2, ConcatProperties
  <2>6. \A i \in 1 .. Len(s) : s[i] = (<<Head(s)>> \o Tail(s))[i]
    BY <1>1, <2>2, <2>3, <2>5
  <2> QED
    BY <2>1, <2>4, <2>6, SeqEqual
<1>3. Count(<<Head(s)>> \o Tail(s)) = Count(<<Head(s)>>) + Count(Tail(s))
  BY <1>1, CountConcat
<1>4. Count(s) = (IF IsResult(Head(s)) THEN 1 ELSE 0) + Count(Tail(s))
  BY <1>1, <1>2, <1>3, CountSingle
<1>5. Count(Tail(s)) \in Nat
  BY <1>1, Counted
<1>6. Count(s) = Count(Tail(s)) + (IF IsResult(Head(s)) THEN 1 ELSE 0)
  BY <1>4, <1>5
<1> QED
  BY <1>1, <1>6

(* Sequences, element by element. *)
LEMMA Appended ==
  ASSUME NEW S, NEW s \in Seq(S), NEW e \in S
  PROVE  /\ Append(s, e) \in Seq(S)
         /\ Len(s) \in Nat /\ Len(Append(s, e)) = Len(s) + 1
         /\ \A j \in DOMAIN Append(s, e) :
              Append(s, e)[j] = e \/ (j \in DOMAIN s /\ Append(s, e)[j] = s[j])
<1>1. /\ Append(s, e) \in Seq(S) /\ Len(s) \in Nat
      /\ Len(Append(s, e)) = Len(s) + 1 /\ DOMAIN s = 1 .. Len(s)
      /\ \A j \in 1 .. Len(s) : Append(s, e)[j] = s[j]
      /\ Append(s, e)[Len(s) + 1] = e
  BY AppendProperties, LenProperties
<1>2. DOMAIN Append(s, e) = 1 .. Len(s) + 1
  BY <1>1, LenProperties
<1> QED
  BY <1>1, <1>2

LEMMA Taken ==
  ASSUME NEW S, NEW s \in Seq(S), s # <<>>
  PROVE  /\ Head(s) \in S /\ 1 \in DOMAIN s /\ Head(s) = s[1]
         /\ Tail(s) \in Seq(S) /\ Len(s) \in Nat \ {0} /\ Len(Tail(s)) = Len(s) - 1
         /\ \A j \in DOMAIN Tail(s) : \E i \in DOMAIN s : Tail(s)[j] = s[i]
<1>1. /\ Len(s) \in Nat \ {0} /\ DOMAIN s = 1 .. Len(s) /\ Head(s) = s[1]
      /\ Head(s) \in S /\ Tail(s) \in Seq(S) /\ Len(Tail(s)) = Len(s) - 1
      /\ \A j \in 1 .. Len(Tail(s)) : Tail(s)[j] = s[j + 1]
  BY EmptySeq, LenProperties, HeadTailProperties
<1>2. DOMAIN Tail(s) = 1 .. Len(s) - 1
  BY <1>1, LenProperties
<1>3. ASSUME NEW j \in DOMAIN Tail(s) PROVE j + 1 \in DOMAIN s /\ Tail(s)[j] = s[j + 1]
  BY <1>1, <1>2
<1> QED
  BY <1>1, <1>3

LEMMA TwoLines ==
  ASSUME NEW a \in Lines, NEW b \in Lines
  PROVE  <<a>> \o <<b>> = <<a, b>>
<1>1. /\ <<a>> \in Seq(Lines) /\ Len(<<a>>) = 1 /\ <<a>>[1] = a
      /\ <<b>> \in Seq(Lines) /\ Len(<<b>>) = 1 /\ <<b>>[1] = b
      /\ <<a, b>> \in Seq(Lines) /\ Len(<<a, b>>) = 2
      /\ <<a, b>>[1] = a /\ <<a, b>>[2] = b
  OBVIOUS
<1>2. /\ <<a>> \o <<b>> \in Seq(Lines) /\ Len(<<a>> \o <<b>>) = 2
      /\ \A i \in 1 .. 1 + 1 : (<<a>> \o <<b>>)[i] = IF i <= 1 THEN <<a>>[i] ELSE <<b>>[i - 1]
  BY <1>1, ConcatProperties
<1>3. \A i \in 1 .. 2 : (<<a>> \o <<b>>)[i] = <<a, b>>[i]
  <2>1. (<<a>> \o <<b>>)[1] = a /\ (<<a>> \o <<b>>)[2] = b
    BY <1>1, <1>2
  <2>2. \A i \in 1 .. 2 : i = 1 \/ i = 2
    OBVIOUS
  <2> QED
    BY <1>1, <2>1, <2>2
<1> QED
  BY <1>1, <1>2, <1>3, SeqEqual

LEMMA Sliced ==
  ASSUME NEW s \in Seq(Lines), NEW n \in DOMAIN s
  PROVE  /\ \A j \in DOMAIN SubSeq(s, 1, n) : \E i \in DOMAIN s : SubSeq(s, 1, n)[j] = s[i]
         /\ \A j \in DOMAIN SubSeq(s, n + 1, Len(s)) :
              \E i \in DOMAIN s : SubSeq(s, n + 1, Len(s))[j] = s[i]
<1>1. /\ Len(s) \in Nat /\ n \in 1 .. Len(s) /\ DOMAIN s = 1 .. Len(s)
      /\ \A i \in 1 .. Len(s) : s[i] \in Lines
  BY LenProperties, ElementOfSeq
<1>2. ASSUME NEW j \in DOMAIN SubSeq(s, 1, n)
      PROVE  \E i \in DOMAIN s : SubSeq(s, 1, n)[j] = s[i]
  <2>1. SubSeq(s, 1, n) \in Seq(Lines) /\ Len(SubSeq(s, 1, n)) = n
        /\ \A i \in 1 .. n - 1 + 1 : SubSeq(s, 1, n)[i] = s[1 + i - 1]
    BY <1>1, SubSeqProperties
  <2>2. j \in 1 .. n
    BY <2>1, LenProperties
  <2>3. j \in DOMAIN s /\ SubSeq(s, 1, n)[j] = s[j]
    BY <1>1, <2>1, <2>2
  <2> QED
    BY <2>3
<1>3. ASSUME NEW j \in DOMAIN SubSeq(s, n + 1, Len(s))
      PROVE  \E i \in DOMAIN s : SubSeq(s, n + 1, Len(s))[j] = s[i]
  <2>1. /\ SubSeq(s, n + 1, Len(s)) \in Seq(Lines)
        /\ Len(SubSeq(s, n + 1, Len(s))) = Len(s) - n
        /\ \A i \in 1 .. Len(s) - (n + 1) + 1 :
             SubSeq(s, n + 1, Len(s))[i] = s[n + 1 + i - 1]
    <3>1. n + 1 \in 1 .. Len(s) + 1 /\ Len(s) \in n + 1 - 1 .. Len(s)
      BY <1>1
    <3>2. \A i \in n + 1 .. Len(s) : s[i] \in Lines
      BY <1>1
    <3>3. Len(s) - (n + 1) + 1 = Len(s) - n
      BY <1>1
    <3> QED
      BY <3>1, <3>2, <3>3, SubSeqProperties
  <2>2. j \in 1 .. Len(s) - n
    BY <2>1, LenProperties
  <2>3. j + n \in DOMAIN s /\ SubSeq(s, n + 1, Len(s))[j] = s[j + n]
    BY <1>1, <2>1, <2>2
  <2> QED
    BY <2>3
<1> QED
  BY <1>2, <1>3
-----------------------------------------------------------------------------
LEMMA CurrentIsCall ==
  ASSUME TypeOK, NEW c \in Callers
  PROVE  Current(c) \in Calls
BY DEF TypeOK, Current, Calls

(* Steps that change nothing under way, and nobody's waiting. *)
LEMMA BalanceKept ==
  ASSUME BalanceInv, Waiting' = Waiting,
         UNCHANGED <<stdin, stdout, chunk, results, dropped>>
  PROVE  BalanceInv'
<1>1. OfACall(stdout)' /\ OfACall(chunk)' /\ IsFiniteSet(Waiting')
  BY DEF BalanceInv, OfACall
<1>2. ResultsBalanced'
  BY DEF BalanceInv, ResultsBalanced, Waiting
<1> QED
  BY <1>1, <1>2 DEF BalanceInv

LEMMA ExpectedKept ==
  ASSUME AllExpected, UNCHANGED <<stdin, stdout, chunk, results, torn>>,
         \A d \in Waiting : d \in Waiting' /\ t'[d] = t[d] /\ calls'[d] = calls[d]
  PROVE  AllExpected'
<1>1. ASSUME NEW x, \E d \in Waiting : x.call = [caller |-> d, n |-> calls[d]] /\ (torn \/ x.token = t[d])
      PROVE  \E d \in Waiting' : x.call = [caller |-> d, n |-> calls'[d]] /\ (torn' \/ x.token = t'[d])
  <2>1. PICK d \in Waiting : x.call = [caller |-> d, n |-> calls[d]] /\ (torn \/ x.token = t[d])
    BY <1>1
  <2>2. d \in Waiting' /\ t'[d] = t[d] /\ calls'[d] = calls[d]
    OBVIOUS
  <2> QED
    BY <2>1, <2>2
<1>2. ASSUME NEW i \in DOMAIN stdin' PROVE Expected(stdin[i])'
  BY <1>1 DEF AllExpected, Expected, Current
<1>3. ASSUME NEW i \in DOMAIN results' PROVE Expected(results[i])'
  <2>1. Expected(results[i])
    BY DEF AllExpected
  <2> QED
    BY <1>1, <2>1 DEF Expected, Current
<1>4. ASSUME NEW i \in DOMAIN stdout', IsResult(stdout'[i]) PROVE Expected(stdout[i])'
  BY <1>1, <1>4 DEF AllExpected, Expected, Current
<1>5. ASSUME NEW i \in DOMAIN chunk', IsResult(chunk'[i]) PROVE Expected(chunk[i])'
  BY <1>1, <1>5 DEF AllExpected, Expected, Current
<1> QED
  BY <1>2, <1>3, <1>4, <1>5 DEF AllExpected

LEMMA InitInv == Init => IInv
<1> SUFFICES ASSUME Init PROVE IInv
  OBVIOUS
<1>1. /\ DOMAIN stdin = {} /\ DOMAIN stdout = {} /\ DOMAIN chunk = {}
      /\ DOMAIN results = {} /\ Len(stdin) = 0 /\ Len(results) = 0
  BY DEF Init
<1>2. TypeOK
  <2>1. /\ stdin \in Seq(Commands) /\ stdout \in Seq(Lines) /\ chunk \in Seq(Lines)
        /\ results \in Seq([class : {"done", "error"}, token : Nat, call : Calls])
    BY DEF Init
  <2>2. /\ token \in Nat /\ unasked \in Nat /\ overlap \in BOOLEAN /\ dropped \in Nat
        /\ reader \in {"alive", "dead"} /\ gdb \in {"alive", "dead"}
        /\ cut \in BOOLEAN /\ torn \in BOOLEAN
    BY DEF Init
  <2>3. /\ pc \in [Callers -> {"idle", "formatted", "noted", "written", "adding", "blocked"}]
        /\ outcome \in [Callers -> {"none", "ok", "error", "mismatch"}]
        /\ got \in [Callers -> Calls \cup {NoCall}]
    BY DEF Init
  <2>4. /\ calls \in [Callers -> Nat] /\ script \in [Callers -> BOOLEAN]
        /\ sent \in [Callers -> Nat] /\ t \in [Callers -> Nat] /\ old \in [Callers -> Nat]
    BY DEF Init
  <2> QED
    BY <2>1, <2>2, <2>3, <2>4 DEF TypeOK
<1>3. Waiting = {}
  BY DEF Init, Waiting
<1>4. ResultsBalanced
  <2>1. Count(stdout) = 0 /\ Count(chunk) = 0 /\ dropped = 0
    BY CountEmpty DEF Init
  <2> QED
    BY <1>1, <1>3, <2>1, FS_EmptySet DEF ResultsBalanced, Waiting, Count
<1>5. BalanceInv
  BY <1>1, <1>3, <1>4, FS_EmptySet DEF BalanceInv, OfACall
<1>6. SoloInv
  BY <1>1 DEF Init, SoloInv, OneOpen, TokenKept, AllExpected
<1>7. InStep
  BY DEF Init, InStep, OwnResult
<1>8. CutInv
  BY DEF Init, CutInv
<1> QED
  BY <1>2, <1>5, <1>6, <1>7, <1>8 DEF IInv

LEMMA FormatStep ==
  ASSUME IInv, NEW c \in Callers, Format(c)
  PROVE  IInv'
<1>1. /\ pc[c] = "idle" /\ pc' = [pc EXCEPT ![c] = "formatted"]
      /\ calls' = [calls EXCEPT ![c] = @ + 1] /\ sent' = [sent EXCEPT ![c] = token]
      /\ overlap' = (overlap \/ \E d \in Callers : pc[d] # "idle")
      /\ UNCHANGED <<token, t, old, outcome, got, stdin, stdout, chunk, results,
                     reader, unasked, dropped,
                     cut, gdb, torn>>
  BY DEF Format, readerVars
<1>2. /\ pc \in [Callers -> {"idle", "formatted", "noted", "written", "adding", "blocked"}]
      /\ calls \in [Callers -> Nat] /\ sent \in [Callers -> Nat] /\ token \in Nat
      /\ script \in [Callers -> BOOLEAN] /\ overlap \in BOOLEAN
  BY DEF IInv, TypeOK
<1>3. TypeOK'
  <2>1. script' \in [Callers -> BOOLEAN]
    BY <1>2 DEF Format
  <2>2. overlap' \in BOOLEAN
    BY <1>1, <1>2
  <2>3. calls' \in [Callers -> Nat] /\ sent' \in [Callers -> Nat]
        /\ pc' \in [Callers -> {"idle", "formatted", "noted", "written", "adding", "blocked"}]
    BY <1>1, <1>2
  <2> QED
    BY <1>1, <2>1, <2>2, <2>3 DEF IInv, TypeOK
<1>4. BalanceInv'
  <2>1. Waiting' = Waiting
    BY <1>1, <1>2 DEF Waiting
  <2> QED
    BY <1>1, <2>1, BalanceKept DEF IInv
<1>5. SoloInv'
  <2> SUFFICES ASSUME ~overlap' PROVE OneOpen' /\ TokenKept' /\ AllExpected'
    BY DEF SoloInv
  <2>1. ~overlap /\ \A d \in Callers : pc[d] = "idle"
    BY <1>1, <1>2
  <2>2. OneOpen' /\ TokenKept'
    BY <1>1, <1>2, <2>1 DEF OneOpen, TokenKept
  <2>3. Waiting = {} /\ AllExpected
    BY <2>1 DEF IInv, SoloInv, Waiting
  <2> QED
    BY <1>1, <2>2, <2>3, ExpectedKept
<1>6. InStep'
  BY <1>1, <1>2 DEF IInv, InStep, OwnResult, Current
<1>7. CutInv'
  BY <1>1 DEF IInv, CutInv
<1> QED
  BY <1>3, <1>4, <1>5, <1>6, <1>7 DEF IInv

LEMMA NoteStep ==
  ASSUME IInv, NEW c \in Callers, Note(c)
  PROVE  IInv'
<1>1. /\ pc[c] = "formatted" /\ pc' = [pc EXCEPT ![c] = "noted"]
      /\ t' = [t EXCEPT ![c] = token]
      /\ UNCHANGED <<token, calls, script, sent, old, outcome, got, stdin, stdout,
                     chunk, results, reader, unasked, overlap, dropped,
                     cut, gdb, torn>>
  BY DEF Note, readerVars
<1>2. /\ pc \in [Callers -> {"idle", "formatted", "noted", "written", "adding", "blocked"}]
      /\ t \in [Callers -> Nat] /\ token \in Nat
  BY DEF IInv, TypeOK
<1>3. TypeOK'
  BY <1>1 DEF IInv, TypeOK
<1>4. Waiting' = Waiting /\ c \notin Waiting /\ Waiting \subseteq Callers
  BY <1>1, <1>2 DEF Waiting
<1>5. BalanceInv'
  BY <1>1, <1>4, BalanceKept DEF IInv
<1>6. SoloInv'
  <2> SUFFICES ASSUME ~overlap' PROVE OneOpen' /\ TokenKept' /\ AllExpected'
    BY DEF SoloInv
  <2>1. OneOpen /\ TokenKept /\ AllExpected
    BY <1>1 DEF IInv, SoloInv
  <2>2. OneOpen'
    BY <1>1, <1>2, <2>1 DEF OneOpen
  <2>3. /\ sent[c] = token /\ t'[c] = token
        /\ \A d \in Callers \ {c} : pc'[d] = "idle"
    <3>1. sent[c] = token
      BY <1>1, <2>1 DEF TokenKept
    <3>2. \A d \in Callers \ {c} : pc[d] = "idle" /\ pc'[d] = pc[d]
      BY <1>1, <1>2, <2>1 DEF OneOpen
    <3> QED
      BY <1>1, <1>2, <3>1, <3>2
  <2>4. TokenKept'
    BY <1>1, <1>2, <2>3 DEF TokenKept
  <2> QED
    BY <1>1, <1>2, <1>4, <2>1, <2>2, <2>4, ExpectedKept
<1>7. InStep'
  BY <1>1, <1>2 DEF IInv, InStep, OwnResult, Current
<1>8. CutInv'
  BY <1>1 DEF IInv, CutInv
<1> QED
  BY <1>3, <1>5, <1>6, <1>7, <1>8 DEF IInv

LEMMA ReadTokenStep ==
  ASSUME IInv, NEW c \in Callers, ReadToken(c)
  PROVE  IInv'
<1>1. /\ pc[c] = "written" /\ pc' = [pc EXCEPT ![c] = "adding"]
      /\ old' = [old EXCEPT ![c] = token]
      /\ UNCHANGED <<token, calls, script, sent, t, outcome, got, stdin, stdout,
                     chunk, results, reader, unasked, overlap, dropped,
                     cut, gdb, torn>>
  BY DEF ReadToken, readerVars
<1>2. pc \in [Callers -> {"idle", "formatted", "noted", "written", "adding", "blocked"}]
  BY DEF IInv, TypeOK
<1>3. TypeOK'
  BY <1>1 DEF IInv, TypeOK
<1>4. Waiting' = Waiting
  BY <1>1, <1>2 DEF Waiting
<1>5. BalanceInv'
  BY <1>1, <1>4, BalanceKept DEF IInv
<1>6. SoloInv'
  <2> SUFFICES ASSUME ~overlap' PROVE OneOpen' /\ TokenKept' /\ AllExpected'
    BY DEF SoloInv
  <2>1. OneOpen /\ TokenKept /\ AllExpected
    BY <1>1 DEF IInv, SoloInv
  <2>2. OneOpen' /\ TokenKept'
    BY <1>1, <1>2, <2>1 DEF OneOpen, TokenKept
  <2> QED
    BY <1>1, <1>4, <2>1, <2>2, ExpectedKept
<1>7. InStep'
  BY <1>1, <1>2 DEF IInv, InStep, OwnResult, Current
<1>8. CutInv'
  BY <1>1 DEF IInv, CutInv
<1> QED
  BY <1>3, <1>5, <1>6, <1>7, <1>8 DEF IInv

LEMMA StoreTokenStep ==
  ASSUME IInv, NEW c \in Callers, StoreToken(c)
  PROVE  IInv'
<1>1. /\ pc[c] = "adding" /\ pc' = [pc EXCEPT ![c] = "blocked"]
      /\ token' = old[c] + 1 /\ old' = [old EXCEPT ![c] = 0]
      /\ UNCHANGED <<calls, script, sent, t, outcome, got, stdin, stdout,
                     chunk, results, reader, unasked, overlap, dropped,
                     cut, gdb, torn>>
  BY DEF StoreToken, NextToken, readerVars
<1>2. /\ pc \in [Callers -> {"idle", "formatted", "noted", "written", "adding", "blocked"}]
      /\ old \in [Callers -> Nat]
  BY DEF IInv, TypeOK
<1>3. TypeOK'
  <2>1. token' \in Nat /\ old' \in [Callers -> Nat]
        /\ pc' \in [Callers -> {"idle", "formatted", "noted", "written", "adding", "blocked"}]
    BY <1>1, <1>2
  <2> QED
    BY <1>1, <2>1 DEF IInv, TypeOK
<1>4. Waiting' = Waiting
  BY <1>1, <1>2 DEF Waiting
<1>5. BalanceInv'
  BY <1>1, <1>4, BalanceKept DEF IInv
<1>6. SoloInv'
  <2> SUFFICES ASSUME ~overlap' PROVE OneOpen' /\ TokenKept' /\ AllExpected'
    BY DEF SoloInv
  <2>1. OneOpen /\ TokenKept /\ AllExpected
    BY <1>1 DEF IInv, SoloInv
  <2>2. OneOpen'
    BY <1>1, <1>2, <2>1 DEF OneOpen
  <2>3. \A d \in Callers : pc'[d] # "formatted"
    BY <1>1, <1>2, <2>1 DEF OneOpen
  <2>4. TokenKept'
    BY <1>1, <1>2, <2>1, <2>3 DEF TokenKept
  <2> QED
    BY <1>1, <1>4, <2>1, <2>2, <2>4, ExpectedKept
<1>7. InStep'
  BY <1>1, <1>2 DEF IInv, InStep, OwnResult, Current
<1>8. CutInv'
  BY <1>1 DEF IInv, CutInv
<1> QED
  BY <1>3, <1>5, <1>6, <1>7, <1>8 DEF IInv
-----------------------------------------------------------------------------
(* The numbers in the balance. *)
LEMMA Balanced ==
  ASSUME TypeOK, BalanceInv
  PROVE  /\ Len(stdin) \in Nat /\ Count(stdout) \in Nat /\ Count(chunk) \in Nat
         /\ Len(results) \in Nat /\ dropped \in Nat
         /\ Cardinality(Waiting) \in Nat
         /\ Cardinality(Waiting)
              = Len(stdin) + Count(stdout) + Count(chunk) + Len(results) + dropped
<1>1. Len(stdin) \in Nat /\ Len(results) \in Nat /\ dropped \in Nat
  BY LenProperties DEF TypeOK
<1>2. Count(stdout) \in Nat /\ Count(chunk) \in Nat
  BY Counted DEF TypeOK
<1>3. Cardinality(Waiting) \in Nat
  BY FS_CardinalityType DEF BalanceInv
<1> QED
  BY <1>1, <1>2, <1>3 DEF BalanceInv, ResultsBalanced, Waiting, Count

LEMMA WrittenStep ==
  ASSUME IInv, NEW c \in Callers, Write(c), gdb = "alive"
  PROVE  IInv'
<1> DEFINE command == [token |-> sent[c], call |-> Current(c), script |-> script[c]]
<1>1. /\ pc[c] = "noted" /\ pc' = [pc EXCEPT ![c] = "written"]
      /\ stdin' = Append(stdin, command)
      /\ sent' = [sent EXCEPT ![c] = 0] /\ script' = [script EXCEPT ![c] = FALSE]
      /\ UNCHANGED <<token, calls, t, old, outcome, got, stdout,
                     chunk, results, reader, unasked, overlap, dropped,
                     cut, gdb, torn>>
  BY DEF Write, readerVars
<1>2. /\ pc \in [Callers -> {"idle", "formatted", "noted", "written", "adding", "blocked"}]
      /\ sent \in [Callers -> Nat] /\ script \in [Callers -> BOOLEAN]
      /\ stdin \in Seq(Commands) /\ TypeOK
  BY DEF IInv, TypeOK
<1>3. command \in Commands /\ command.token = sent[c] /\ command.call = Current(c)
  BY <1>2, CurrentIsCall DEF Commands
<1> HIDE DEF command
<1>4. TypeOK'
  <2>1. /\ stdin' \in Seq(Commands) /\ sent' \in [Callers -> Nat]
        /\ script' \in [Callers -> BOOLEAN]
        /\ pc' \in [Callers -> {"idle", "formatted", "noted", "written", "adding", "blocked"}]
    BY <1>1, <1>2, <1>3, Appended
  <2> QED
    BY <1>1, <2>1 DEF IInv, TypeOK
<1>5. Waiting' = Waiting \cup {c} /\ c \notin Waiting /\ Waiting \subseteq Callers
  BY <1>1, <1>2 DEF Waiting
<1>6. BalanceInv'
  <2>1. IsFiniteSet(Waiting') /\ Cardinality(Waiting') = Cardinality(Waiting) + 1
    BY <1>5, FS_AddElement DEF IInv, BalanceInv
  <2>2. Len(stdin') = Len(stdin) + 1
    BY <1>1, <1>2, <1>3, Appended
  <2>3. Cardinality(Waiting')
          = Len(stdin') + Count(stdout) + Count(chunk) + Len(results) + dropped
    BY <1>2, <2>1, <2>2, Balanced DEF IInv
  <2>4. ResultsBalanced'
    BY <1>1, <2>3 DEF ResultsBalanced, Waiting, Count
  <2>5. OfACall(stdout)' /\ OfACall(chunk)'
    BY <1>1 DEF IInv, BalanceInv, OfACall
  <2> QED
    BY <2>1, <2>4, <2>5 DEF BalanceInv
<1>7. SoloInv'
  <2> SUFFICES ASSUME ~overlap' PROVE OneOpen' /\ TokenKept' /\ AllExpected'
    BY DEF SoloInv
  <2>1. OneOpen /\ TokenKept /\ AllExpected
    BY <1>1 DEF IInv, SoloInv
  <2>2. OneOpen'
    BY <1>1, <1>2, <2>1 DEF OneOpen
  <2>3. TokenKept'
    <3>1. \A d \in Callers \ {c} : pc'[d] = pc[d] /\ sent'[d] = sent[d] /\ t'[d] = t[d]
      BY <1>1
    <3>2. pc'[c] = "written"
      BY <1>1, <1>2
    <3> QED
      BY <1>1, <2>1, <3>1, <3>2 DEF TokenKept
  <2>4. ASSUME NEW x, \E d \in Waiting : x.call = [caller |-> d, n |-> calls[d]] /\ (torn \/ x.token = t[d])
        PROVE  \E d \in Waiting' : x.call = [caller |-> d, n |-> calls'[d]] /\ (torn' \/ x.token = t'[d])
    BY <1>1, <1>5, <2>4
  <2>5. /\ c \in Waiting' /\ command.token = t'[c]
        /\ command.call = [caller |-> c, n |-> calls'[c]]
    BY <1>1, <1>3, <1>5, <2>1 DEF TokenKept, Current
  <2>6. ASSUME NEW i \in DOMAIN stdin' PROVE Expected(stdin[i])'
    <3>1. stdin'[i] = command \/ (i \in DOMAIN stdin /\ stdin'[i] = stdin[i])
      BY <1>1, <1>2, <1>3, Appended
    <3>2. CASE stdin'[i] = command
      BY <2>5, <3>2 DEF Expected, Current
    <3>3. CASE i \in DOMAIN stdin /\ stdin'[i] = stdin[i]
      BY <2>1, <2>4, <3>3 DEF AllExpected, Expected, Current
    <3> QED
      BY <3>1, <3>2, <3>3
  <2>7. ASSUME NEW i \in DOMAIN results' PROVE Expected(results[i])'
    BY <1>1, <2>1, <2>4 DEF AllExpected, Expected, Current
  <2>8. ASSUME NEW i \in DOMAIN stdout', IsResult(stdout'[i]) PROVE Expected(stdout[i])'
    BY <1>1, <2>1, <2>4, <2>8 DEF AllExpected, Expected, Current
  <2>9. ASSUME NEW i \in DOMAIN chunk', IsResult(chunk'[i]) PROVE Expected(chunk[i])'
    BY <1>1, <2>1, <2>4, <2>9 DEF AllExpected, Expected, Current
  <2>10. AllExpected'
    BY <2>6, <2>7, <2>8, <2>9 DEF AllExpected
  <2> QED
    BY <2>2, <2>3, <2>10
<1>8. InStep'
  BY <1>1, <1>2 DEF IInv, InStep, OwnResult, Current
<1>9. CutInv'
  BY <1>1 DEF IInv, CutInv
<1> QED
  BY <1>4, <1>6, <1>7, <1>8, <1>9 DEF IInv

(* GDB has ended: nothing is written and the call is over. *)
LEMMA NotWrittenStep ==
  ASSUME IInv, NEW c \in Callers, Write(c), gdb # "alive"
  PROVE  IInv'
<1>1. /\ pc[c] = "noted" /\ pc' = [pc EXCEPT ![c] = "idle"]
      /\ outcome' = [outcome EXCEPT ![c] = "error"] /\ t' = [t EXCEPT ![c] = 0]
      /\ sent' = [sent EXCEPT ![c] = 0] /\ script' = [script EXCEPT ![c] = FALSE]
      /\ UNCHANGED <<token, calls, old, got, stdin, stdout, chunk, results, reader,
                     unasked, overlap, dropped, cut, gdb, torn>>
  BY DEF Write, readerVars
<1>2. /\ pc \in [Callers -> {"idle", "formatted", "noted", "written", "adding", "blocked"}]
      /\ sent \in [Callers -> Nat] /\ script \in [Callers -> BOOLEAN]
      /\ t \in [Callers -> Nat]
      /\ outcome \in [Callers -> {"none", "ok", "error", "mismatch"}]
  BY DEF IInv, TypeOK
<1>3. TypeOK'
  <2>1. /\ sent' \in [Callers -> Nat] /\ t' \in [Callers -> Nat]
        /\ script' \in [Callers -> BOOLEAN]
        /\ outcome' \in [Callers -> {"none", "ok", "error", "mismatch"}]
        /\ pc' \in [Callers -> {"idle", "formatted", "noted", "written", "adding", "blocked"}]
    BY <1>1, <1>2
  <2> QED
    BY <1>1, <2>1 DEF IInv, TypeOK
<1>4. Waiting' = Waiting /\ c \notin Waiting /\ Waiting \subseteq Callers
  BY <1>1, <1>2 DEF Waiting
<1>5. BalanceInv'
  BY <1>1, <1>4, BalanceKept DEF IInv
<1>6. SoloInv'
  <2> SUFFICES ASSUME ~overlap' PROVE OneOpen' /\ TokenKept' /\ AllExpected'
    BY DEF SoloInv
  <2>1. OneOpen /\ TokenKept /\ AllExpected
    BY <1>1 DEF IInv, SoloInv
  <2>2. OneOpen'
    BY <1>1, <1>2, <2>1 DEF OneOpen
  <2>3. TokenKept'
    BY <1>1, <1>2, <2>1 DEF TokenKept
  <2>4. \A d \in Waiting : d \in Waiting' /\ t'[d] = t[d] /\ calls'[d] = calls[d]
    BY <1>1, <1>2, <1>4
  <2> QED
    BY <1>1, <2>1, <2>2, <2>3, <2>4, ExpectedKept
<1>7. InStep'
  <2> SUFFICES ASSUME ~overlap', NEW d \in Callers
               PROVE  (outcome'[d] = "mismatch" => torn') /\ OwnResult(d)'
    BY DEF InStep
  <2>1. CASE d = c
    BY <1>1, <1>2, <2>1 DEF OwnResult
  <2>2. CASE d # c
    <3>1. /\ pc'[d] = pc[d] /\ outcome'[d] = outcome[d] /\ got' = got
          /\ calls' = calls /\ torn' = torn /\ ~overlap
      BY <1>1, <1>2, <2>2
    <3>2. (outcome[d] = "mismatch" => torn) /\ OwnResult(d)
      <4>1. InStep
        BY DEF IInv
      <4>2. \A e \in Callers : OwnResult(e) /\ (outcome[e] = "mismatch" => torn)
        BY <3>1, <4>1 DEF InStep
      <4> QED
        BY <4>2
    <3> QED
      BY <3>1, <3>2 DEF OwnResult, Current
  <2> QED
    BY <2>1, <2>2
<1>8. CutInv'
  BY <1>1 DEF IInv, CutInv
<1> QED
  BY <1>3, <1>5, <1>6, <1>7, <1>8 DEF IInv

LEMMA WriteStep ==
  ASSUME IInv, NEW c \in Callers, Write(c)
  PROVE  IInv'
BY WrittenStep, NotWrittenStep

(* With one call open, the result that is there is the only one and its own. *)
LEMMA OnlyResult ==
  ASSUME IInv, NEW c \in Callers, pc[c] = "blocked", results # <<>>, ~overlap
  PROVE  /\ Waiting = {c} /\ stdin = <<>> /\ Tail(results) = <<>>
         /\ Count(stdout) = 0 /\ Count(chunk) = 0
         /\ Head(results).call = Current(c)
         /\ (torn \/ Head(results).token = t[c])
<1>1. /\ OneOpen /\ AllExpected /\ TypeOK /\ BalanceInv
      /\ stdin \in Seq(Commands)
      /\ results \in Seq([class : {"done", "error"}, token : Nat, call : Calls])
  BY DEF IInv, SoloInv, TypeOK
<1>2. Waiting = {c}
  BY <1>1 DEF OneOpen, Waiting
<1>3. Cardinality(Waiting) = 1
  BY <1>2, FS_Singleton
<1>4. /\ Len(results) \in Nat \ {0} /\ Len(Tail(results)) = Len(results) - 1
      /\ 1 \in DOMAIN results /\ Head(results) = results[1]
      /\ Tail(results) \in Seq([class : {"done", "error"}, token : Nat, call : Calls])
  BY <1>1, Taken
<1>5. /\ Len(stdin) = 0 /\ Len(results) = 1 /\ Count(stdout) = 0 /\ Count(chunk) = 0
  BY <1>1, <1>3, <1>4, Balanced
<1>6. stdin = <<>>
  BY <1>1, <1>5, EmptySeq
<1>7. Tail(results) = <<>>
  <2>1. Len(Tail(results)) = 0
    BY <1>4, <1>5
  <2> QED
    BY <1>4, <2>1, EmptySeq
<1>8. Expected(results[1])
  BY <1>1, <1>4 DEF AllExpected
<1> QED
  BY <1>2, <1>4, <1>5, <1>6, <1>7, <1>8 DEF Expected

LEMMA GetResultStep ==
  ASSUME IInv, NEW c \in Callers, GetResult(c)
  PROVE  IInv'
<1> DEFINE R == [class : {"done", "error"}, token : Nat, call : Calls]
           r == Head(results)
<1>1. /\ pc[c] = "blocked" /\ results # <<>> /\ pc' = [pc EXCEPT ![c] = "idle"]
      /\ results' = Tail(results) /\ got' = [got EXCEPT ![c] = r.call]
      /\ outcome' = [outcome EXCEPT ![c] = Judged(c, r)]
      /\ t' = [t EXCEPT ![c] = 0]
      /\ UNCHANGED <<token, calls, script, sent, old, stdin, stdout, chunk,
                     reader, unasked, overlap, dropped,
                     cut, gdb, torn>>
  BY DEF GetResult, ResultsAfter, readerVars
<1>2. /\ pc \in [Callers -> {"idle", "formatted", "noted", "written", "adding", "blocked"}]
      /\ t \in [Callers -> Nat] /\ results \in Seq(R) /\ TypeOK
      /\ got \in [Callers -> Calls \cup {NoCall}]
      /\ outcome \in [Callers -> {"none", "ok", "error", "mismatch"}]
  BY DEF IInv, TypeOK
<1>3. /\ r \in R /\ Tail(results) \in Seq(R)
      /\ Len(results) \in Nat \ {0} /\ Len(Tail(results)) = Len(results) - 1
  BY <1>1, <1>2, Taken
<1>4. r.call \in Calls
  BY <1>3
<1>5. Judged(c, r) \in {"ok", "error", "mismatch"}
  BY DEF Judged
<1> HIDE DEF r
<1>6. TypeOK'
  <2>1. /\ results' \in Seq(R) /\ t' \in [Callers -> Nat]
        /\ got' \in [Callers -> Calls \cup {NoCall}]
        /\ outcome' \in [Callers -> {"none", "ok", "error", "mismatch"}]
        /\ pc' \in [Callers -> {"idle", "formatted", "noted", "written", "adding", "blocked"}]
    BY <1>1, <1>2, <1>3, <1>4, <1>5
  <2> QED
    BY <1>1, <2>1 DEF IInv, TypeOK
<1>7. Waiting' = Waiting \ {c} /\ c \in Waiting
  BY <1>1, <1>2 DEF Waiting
<1>8. BalanceInv'
  <2>1. IsFiniteSet(Waiting') /\ Cardinality(Waiting') = Cardinality(Waiting) - 1
    BY <1>7, FS_RemoveElement DEF IInv, BalanceInv
  <2>2. Cardinality(Waiting')
          = Len(stdin) + Count(stdout) + Count(chunk) + Len(results') + dropped
    BY <1>1, <1>2, <1>3, <2>1, Balanced DEF IInv
  <2>3. ResultsBalanced'
    BY <1>1, <2>2 DEF ResultsBalanced, Waiting, Count
  <2>4. OfACall(stdout)' /\ OfACall(chunk)'
    BY <1>1 DEF IInv, BalanceInv, OfACall
  <2> QED
    BY <2>1, <2>3, <2>4 DEF BalanceInv
<1>9. ASSUME ~overlap'
      PROVE  /\ OneOpen /\ TokenKept /\ stdin' = <<>> /\ results' = <<>>
             /\ ResultsIn(stdout') = {} /\ ResultsIn(chunk') = {}
             /\ (torn \/ r.token = t[c]) /\ r.call = Current(c)
  <2>1. ~overlap /\ OneOpen /\ TokenKept
    BY <1>1, <1>9 DEF IInv, SoloInv
  <2>2. /\ stdin = <<>> /\ Tail(results) = <<>> /\ Count(stdout) = 0 /\ Count(chunk) = 0
        /\ (torn \/ r.token = t[c]) /\ r.call = Current(c)
    BY <1>1, <2>1, OnlyResult DEF r
  <2>3. ResultsIn(stdout) = {} /\ ResultsIn(chunk) = {}
    BY <2>2, Counted DEF IInv, TypeOK
  <2> QED
    BY <1>1, <2>1, <2>2, <2>3
<1>10. SoloInv'
  <2> SUFFICES ASSUME ~overlap' PROVE OneOpen' /\ TokenKept' /\ AllExpected'
    BY DEF SoloInv
  <2>1. OneOpen'
    BY <1>1, <1>2, <1>9 DEF OneOpen
  <2>2. TokenKept'
    <3>1. \A d \in Callers \ {c} : pc'[d] = pc[d] /\ sent'[d] = sent[d] /\ t'[d] = t[d]
      BY <1>1
    <3>2. pc'[c] = "idle"
      BY <1>1, <1>2
    <3> QED
      BY <1>1, <1>9, <3>1, <3>2 DEF TokenKept
  <2>3. AllExpected'
    BY <1>9 DEF AllExpected, ResultsIn
  <2> QED
    BY <2>1, <2>2, <2>3
<1>11. InStep'
  <2> SUFFICES ASSUME ~overlap', NEW d \in Callers
               PROVE  (outcome'[d] = "mismatch" => torn') /\ OwnResult(d)'
    BY DEF InStep
  <2>1. CASE d = c
    <3>1. /\ (Judged(c, r) = "mismatch" => torn') /\ got'[c] = Current(c)'
          /\ outcome'[c] = Judged(c, r)
      BY <1>1, <1>2, <1>9 DEF Judged, Current
    <3> QED
      BY <2>1, <3>1 DEF OwnResult
  <2>2. CASE d # c
    <3>1. /\ pc'[d] = pc[d] /\ outcome'[d] = outcome[d] /\ got'[d] = got[d]
          /\ calls'[d] = calls[d] /\ torn' = torn /\ ~overlap
      BY <1>1, <1>2, <2>2
    <3>2. (outcome[d] = "mismatch" => torn) /\ OwnResult(d)
      <4>1. InStep
        BY DEF IInv
      <4>2. \A e \in Callers : OwnResult(e) /\ (outcome[e] = "mismatch" => torn)
        BY <3>1, <4>1 DEF InStep
      <4> QED
        BY <4>2
    <3> QED
      BY <3>1, <3>2 DEF OwnResult, Current
  <2> QED
    BY <2>1, <2>2
<1>12. CutInv'
  BY <1>1 DEF IInv, CutInv
<1> QED
  BY <1>6, <1>8, <1>10, <1>11, <1>12 DEF IInv
-----------------------------------------------------------------------------
(* The reader and GDB change no caller, so what was expected still is. *)
LEMMA StillExpected ==
  ASSUME NEW x, \E d \in Waiting : x.call = [caller |-> d, n |-> calls[d]] /\ (torn \/ x.token = t[d]),
         UNCHANGED callerVars, torn => torn'
  PROVE  \E d \in Waiting' : x.call = [caller |-> d, n |-> calls'[d]] /\ (torn' \/ x.token = t'[d])
<1>1. Waiting' = Waiting /\ t' = t /\ calls' = calls
  BY DEF callerVars, Waiting
<1> QED
  BY <1>1

LEMMA CallersKept ==
  ASSUME IInv, UNCHANGED <<token, callerVars, overlap>>, torn => torn'
  PROVE  /\ Waiting' = Waiting /\ InStep'
         /\ ~overlap' => /\ OneOpen' /\ TokenKept'
                         /\ ~overlap /\ AllExpected
<1>1. Waiting' = Waiting
  BY DEF callerVars, Waiting
<1>2. InStep'
  BY DEF IInv, InStep, OwnResult, Current, callerVars
<1>3. ASSUME ~overlap' PROVE ~overlap /\ AllExpected /\ OneOpen' /\ TokenKept'
  <2>1. ~overlap /\ OneOpen /\ TokenKept /\ AllExpected
    BY <1>3 DEF IInv, SoloInv
  <2> QED
    BY <2>1 DEF OneOpen, TokenKept, callerVars
<1> QED
  BY <1>1, <1>2, <1>3

(* A line put in front of others. *)
LEMMA Prefixed ==
  ASSUME NEW s \in Seq(Lines), NEW line \in Lines
  PROVE  /\ <<line>> \o s \in Seq(Lines) /\ <<line>> \o s # <<>>
         /\ Count(<<line>> \o s) = Count(s) + (IF IsResult(line) THEN 1 ELSE 0)
         /\ \A j \in DOMAIN (<<line>> \o s) :
              \/ (<<line>> \o s)[j] = line
              \/ \E i \in DOMAIN s : (<<line>> \o s)[j] = s[i]
<1>1. <<line>> \in Seq(Lines) /\ Len(<<line>>) = 1 /\ <<line>>[1] = line
  OBVIOUS
<1>2. /\ <<line>> \o s \in Seq(Lines) /\ Len(<<line>> \o s) = 1 + Len(s)
      /\ Len(s) \in Nat /\ DOMAIN s = 1 .. Len(s)
      /\ \A j \in 1 .. 1 + Len(s) :
           (<<line>> \o s)[j] = IF j <= 1 THEN <<line>>[j] ELSE s[j - 1]
  BY <1>1, ConcatProperties, LenProperties
<1>3. DOMAIN (<<line>> \o s) = 1 .. 1 + Len(s)
  BY <1>2, LenProperties
<1>4. <<line>> \o s # <<>>
  BY <1>2, EmptySeq
<1>5. Count(<<line>> \o s) = Count(s) + (IF IsResult(line) THEN 1 ELSE 0)
  <2>1. Count(<<line>> \o s) = Count(<<line>>) + Count(s)
    BY <1>1, CountConcat
  <2>2. Count(s) \in Nat
    BY Counted
  <2> QED
    BY <2>1, <2>2, CountSingle
<1>6. ASSUME NEW j \in DOMAIN (<<line>> \o s)
      PROVE  \/ (<<line>> \o s)[j] = line
             \/ \E i \in DOMAIN s : (<<line>> \o s)[j] = s[i]
  <2>1. CASE j = 1
    BY <1>1, <1>2, <2>1
  <2>2. CASE j # 1
    <3>1. j - 1 \in DOMAIN s /\ (<<line>> \o s)[j] = s[j - 1]
      BY <1>2, <1>3, <2>2
    <3> QED
      BY <3>1
  <2> QED
    BY <2>1, <2>2
<1> QED
  BY <1>2, <1>4, <1>5, <1>6

LEMMA ReadChunkStep ==
  ASSUME IInv, ReadChunk
  PROVE  IInv'
<1>1. PICK n \in DOMAIN stdout, end \in {"line", "part", "prompt"} :
        LET rest == SubSeq(stdout, n + 1, Len(stdout))
        IN /\ chunk' = SubSeq(stdout, 1, n)
           /\ cut' = (end = "part")
           /\ end = "part" => rest # <<>>
           /\ stdout' = IF end = "prompt" THEN <<Unasked("junk")>> \o rest ELSE rest
  BY DEF ReadChunk
<1> DEFINE rest == SubSeq(stdout, n + 1, Len(stdout))
           junk == Unasked("junk")
<1>2. /\ chunk = <<>>
      /\ UNCHANGED <<token, callerVars, stdin, results, reader, gdb, unasked, overlap,
                     torn, dropped>>
  BY DEF ReadChunk
<1>3. stdout \in Seq(Lines) /\ TypeOK
  BY DEF IInv, TypeOK
<1>4. /\ chunk' \in Seq(Lines) /\ rest \in Seq(Lines)
      /\ Count(stdout) = Count(chunk') + Count(rest)
  BY <1>1, <1>3, CountCut
<1>5. /\ \A j \in DOMAIN chunk' : \E i \in DOMAIN stdout : chunk'[j] = stdout[i]
      /\ \A j \in DOMAIN rest : \E i \in DOMAIN stdout : rest[j] = stdout[i]
  BY <1>1, <1>3, Sliced
<1>6. junk \in Lines /\ ~IsResult(junk)
  BY DEF Lines, IsResult, Unasked, NoCall
<1>7. /\ stdout' = (IF end = "prompt" THEN <<junk>> \o rest ELSE rest)
      /\ cut' = (end = "part") /\ (end = "part" => rest # <<>>)
  BY <1>1
<1> HIDE DEF rest, junk
<1>8. /\ stdout' \in Seq(Lines) /\ Count(stdout') = Count(rest)
      /\ \A j \in DOMAIN stdout' : IsResult(stdout'[j]) =>
           \E i \in DOMAIN stdout : stdout'[j] = stdout[i]
  <2>1. CASE end # "prompt"
    BY <1>4, <1>5, <1>7, <2>1
  <2>2. CASE end = "prompt"
    <3>1. stdout' = <<junk>> \o rest
      BY <1>7, <2>2
    <3>2. /\ <<junk>> \o rest \in Seq(Lines) /\ Count(<<junk>> \o rest) = Count(rest) + 0
          /\ \A j \in DOMAIN (<<junk>> \o rest) :
               \/ (<<junk>> \o rest)[j] = junk
               \/ \E i \in DOMAIN rest : (<<junk>> \o rest)[j] = rest[i]
      BY <1>4, <1>6, Prefixed
    <3>3. Count(rest) \in Nat
      BY <1>4, Counted
    <3>4. ASSUME NEW j \in DOMAIN stdout', IsResult(stdout'[j])
          PROVE  \E i \in DOMAIN stdout : stdout'[j] = stdout[i]
      <4>1. PICK i \in DOMAIN rest : stdout'[j] = rest[i]
        BY <1>6, <3>1, <3>2, <3>4
      <4> QED
        BY <1>5, <4>1
    <3> QED
      BY <3>1, <3>2, <3>3, <3>4
  <2> QED
    BY <2>1, <2>2
<1>9. TypeOK'
  BY <1>2, <1>4, <1>7, <1>8 DEF IInv, TypeOK, callerVars
<1>10. Waiting' = Waiting
  BY <1>2, CallersKept
<1>11. BalanceInv'
  <2>1. Count(chunk) = 0 /\ Count(chunk') \in Nat /\ Count(rest) \in Nat
    BY <1>2, <1>4, CountEmpty, Counted
  <2>2. Cardinality(Waiting')
          = Len(stdin) + Count(stdout') + Count(chunk') + Len(results) + dropped
    BY <1>3, <1>4, <1>8, <1>10, <2>1, Balanced DEF IInv
  <2>3. ResultsBalanced'
    BY <1>2, <2>2 DEF ResultsBalanced, Waiting, Count
  <2>4. OfACall(stdout)' /\ OfACall(chunk)'
    BY <1>5, <1>8 DEF IInv, BalanceInv, OfACall
  <2> QED
    BY <1>10, <2>3, <2>4 DEF IInv, BalanceInv
<1>12. SoloInv'
  <2> SUFFICES ASSUME ~overlap' PROVE OneOpen' /\ TokenKept' /\ AllExpected'
    BY DEF SoloInv
  <2>1. OneOpen' /\ TokenKept' /\ AllExpected
    BY <1>2, CallersKept
  <2>2. ASSUME NEW i \in DOMAIN stdin' PROVE Expected(stdin[i])'
    <3>1. Expected(stdin[i])
      BY <1>2, <2>1 DEF AllExpected
    <3> QED
      BY <1>2, <3>1, StillExpected DEF Expected, Current
  <2>3. ASSUME NEW i \in DOMAIN results' PROVE Expected(results[i])'
    <3>1. Expected(results[i])
      BY <1>2, <2>1 DEF AllExpected
    <3> QED
      BY <1>2, <3>1, StillExpected DEF Expected, Current
  <2>4. ASSUME NEW j \in DOMAIN stdout', IsResult(stdout'[j]) PROVE Expected(stdout[j])'
    <3>1. PICK i \in DOMAIN stdout : stdout'[j] = stdout[i]
      BY <1>8, <2>4
    <3>2. Expected(stdout[i])
      BY <2>1, <2>4, <3>1 DEF AllExpected
    <3> QED
      BY <1>2, <3>1, <3>2, StillExpected DEF Expected, Current
  <2>5. ASSUME NEW j \in DOMAIN chunk', IsResult(chunk'[j]) PROVE Expected(chunk[j])'
    <3>1. PICK i \in DOMAIN stdout : chunk'[j] = stdout[i]
      BY <1>5
    <3>2. Expected(stdout[i])
      BY <2>1, <2>5, <3>1 DEF AllExpected
    <3> QED
      BY <1>2, <3>1, <3>2, StillExpected DEF Expected, Current
  <2> QED
    BY <2>1, <2>2, <2>3, <2>4, <2>5 DEF AllExpected
<1>13. InStep'
  BY <1>2, CallersKept
<1>14. CutInv'
  BY <1>7 DEF CutInv
<1> QED
  BY <1>9, <1>11, <1>12, <1>13, <1>14 DEF IInv

(* What is left of a result is of the same call, if it is one. *)
LEMMA Remains ==
  ASSUME NEW line \in Lines, NEW rest \in Remainders(line)
  PROVE  /\ rest \in Lines
         /\ IsResult(rest) => IsResult(line) /\ rest.call = line.call
<1>1. \A class \in {"bare", "notice", "junk"} :
        Unasked(class) \in Lines /\ ~IsResult(Unasked(class))
  BY DEF Lines, IsResult, Unasked, NoCall
<1>2. CASE IsResult(line)
  <2>1. CASE rest \in {Unasked("junk"), Unasked("bare")}
    BY <1>1, <2>1
  <2>2. CASE rest \in {[line EXCEPT !.token = k] : k \in Endings(line.token)}
    <3>1. PICK k \in Endings(line.token) : rest = [line EXCEPT !.token = k]
      BY <2>2
    <3>2. k \in Nat
      BY <3>1 DEF Endings, Lines
    <3> QED
      BY <1>2, <3>1, <3>2 DEF Lines
  <2> QED
    BY <1>2, <2>1, <2>2 DEF Remainders
<1>3. CASE ~IsResult(line)
  BY <1>1, <1>3 DEF Remainders
<1> QED
  BY <1>2, <1>3

(* What GDB printed and is still to be read, after line has been. *)
LEMMA StdoutLeft ==
  ASSUME IInv, NEW line \in Lines, stdout' \in StdoutAfter(line)
  PROVE  /\ stdout' \in Seq(Lines) /\ (stdout # <<>> => stdout' # <<>>)
         /\ Count(stdout) \in Nat /\ Count(stdout') \in 0 .. Count(stdout)
         /\ line.class # "bare" => stdout' = stdout
         /\ \A j \in DOMAIN stdout' : IsResult(stdout'[j]) =>
              \E i \in DOMAIN stdout :
                /\ IsResult(stdout[i]) /\ stdout'[j].call = stdout[i].call
                /\ \/ stdout'[j].token = stdout[i].token
                   \/ line.class = "bare" /\ cut /\ IsResult(Head(stdout))
<1>1. stdout \in Seq(Lines) /\ (cut => stdout # <<>>)
  BY DEF IInv, TypeOK, CutInv
<1>2. Count(stdout) \in Nat
  BY <1>1, Counted
<1>3. CASE ~(line.class = "bare" /\ cut)
  <2>1. stdout' = stdout
    BY <1>3 DEF StdoutAfter
  <2> QED
    BY <1>1, <1>2, <2>1
<1>4. CASE line.class = "bare" /\ cut
  <2> DEFINE h == Head(stdout)
             u == Tail(stdout)
  <2>1. PICK rest \in Remainders(h) : stdout' = <<rest>> \o u
    BY <1>4 DEF StdoutAfter
  <2>2. /\ h \in Lines /\ u \in Seq(Lines) /\ 1 \in DOMAIN stdout /\ h = stdout[1]
        /\ \A j \in DOMAIN u : \E i \in DOMAIN stdout : u[j] = stdout[i]
    BY <1>1, <1>4, Taken
  <2>3. Count(stdout) = Count(u) + (IF IsResult(h) THEN 1 ELSE 0) /\ Count(u) \in Nat
    BY <1>1, <1>4, <2>2, CountHead, Counted
  <2> HIDE DEF h, u
  <2>4. rest \in Lines /\ (IsResult(rest) => IsResult(h) /\ rest.call = h.call)
    BY <2>1, <2>2, Remains
  <2>5. /\ stdout' \in Seq(Lines) /\ stdout' # <<>>
        /\ Count(stdout') = Count(u) + (IF IsResult(rest) THEN 1 ELSE 0)
        /\ \A j \in DOMAIN stdout' : \/ stdout'[j] = rest
                                     \/ \E i \in DOMAIN u : stdout'[j] = u[i]
    BY <2>1, <2>2, <2>4, Prefixed
  <2>6. Count(stdout') \in 0 .. Count(stdout)
    BY <2>3, <2>4, <2>5
  <2>7. ASSUME NEW j \in DOMAIN stdout', IsResult(stdout'[j])
        PROVE  \E i \in DOMAIN stdout :
                 /\ IsResult(stdout[i]) /\ stdout'[j].call = stdout[i].call
                 /\ \/ stdout'[j].token = stdout[i].token
                    \/ line.class = "bare" /\ cut /\ IsResult(Head(stdout))
    <3>1. CASE stdout'[j] = rest
      BY <1>4, <2>2, <2>4, <2>7, <3>1 DEF h
    <3>2. CASE \E i \in DOMAIN u : stdout'[j] = u[i]
      <4>1. PICK i \in DOMAIN stdout : stdout'[j] = stdout[i]
        BY <2>2, <3>2
      <4> QED
        BY <2>7, <4>1
    <3> QED
      BY <2>5, <3>1, <3>2
  <2> QED
    BY <1>2, <1>4, <2>5, <2>6, <2>7
<1> QED
  BY <1>3, <1>4

LEMMA ReadLineStep ==
  ASSUME IInv, ReadLine
  PROVE  IInv'
<1> DEFINE R == [class : {"done", "error"}, token : Nat, call : Calls]
           line == Head(chunk)
<1>1. /\ chunk # <<>>
      /\ chunk' = IF line.class = "bare" THEN <<>> ELSE Tail(chunk)
      /\ results' = IF IsResult(line) THEN Append(results, line) ELSE results
      /\ reader' \in {"alive", "dead"}
      /\ stdout' \in StdoutAfter(line)
      /\ cut' = (cut /\ chunk' # <<>>)
      /\ torn' = (torn \/ (line.class = "bare" /\ cut /\ IsResult(Head(stdout))))
      /\ dropped' = IF line.class = "bare"
                    THEN dropped + Count(Tail(chunk)) + (Count(stdout) - Count(stdout'))
                    ELSE dropped
      /\ UNCHANGED <<token, callerVars, stdin, gdb, unasked, overlap>>
  BY DEF ReadLine, ChunkAfter, Count
<1>2. chunk \in Seq(Lines) /\ results \in Seq(R) /\ TypeOK
  BY DEF IInv, TypeOK
<1>3. /\ line \in Lines /\ Tail(chunk) \in Seq(Lines)
      /\ 1 \in DOMAIN chunk /\ line = chunk[1]
      /\ \A j \in DOMAIN Tail(chunk) : \E i \in DOMAIN chunk : Tail(chunk)[j] = chunk[i]
  BY <1>1, <1>2, Taken
<1>4. /\ Count(chunk) = Count(Tail(chunk)) + (IF IsResult(line) THEN 1 ELSE 0)
      /\ Count(Tail(chunk)) \in Nat
  BY <1>1, <1>2, <1>3, CountHead, Counted
<1> HIDE DEF line
<1>5. IsResult(line) => line \in R /\ line.class # "bare"
  <2> SUFFICES ASSUME IsResult(line) PROVE line \in R /\ line.class # "bare"
    OBVIOUS
  <2>1. line.call \in Calls
    BY <1>3 DEF IInv, BalanceInv, OfACall
  <2> QED
    BY <1>3, <2>1 DEF IsResult, Lines
<1>6. /\ chunk' \in Seq(Lines)
      /\ \A j \in DOMAIN chunk' : \E i \in DOMAIN chunk : chunk'[j] = chunk[i]
  BY <1>1, <1>3
<1>7. /\ IsResult(line) => /\ results' \in Seq(R) /\ Len(results') = Len(results) + 1
                           /\ \A j \in DOMAIN results' :
                                \/ results'[j] = line
                                \/ j \in DOMAIN results /\ results'[j] = results[j]
      /\ ~IsResult(line) => results' = results
  <2>1. ASSUME IsResult(line)
        PROVE  /\ results' \in Seq(R) /\ Len(results') = Len(results) + 1
               /\ \A j \in DOMAIN results' :
                    \/ results'[j] = line
                    \/ j \in DOMAIN results /\ results'[j] = results[j]
    <3>1. results' = Append(results, line) /\ line \in R
      BY <1>1, <1>5, <2>1
    <3> HIDE DEF R
    <3> QED
      BY <1>2, <3>1, Appended
  <2> QED
    BY <1>1, <2>1
<1>13. /\ stdout' \in Seq(Lines) /\ (stdout # <<>> => stdout' # <<>>)
       /\ Count(stdout) \in Nat /\ Count(stdout') \in 0 .. Count(stdout)
       /\ line.class # "bare" => stdout' = stdout
       /\ \A j \in DOMAIN stdout' : IsResult(stdout'[j]) =>
            \E i \in DOMAIN stdout :
              /\ IsResult(stdout[i]) /\ stdout'[j].call = stdout[i].call
              /\ \/ stdout'[j].token = stdout[i].token
                 \/ line.class = "bare" /\ cut /\ IsResult(Head(stdout))
  BY <1>1, <1>3, StdoutLeft
<1>14. torn => torn'
  BY <1>1
<1>8. TypeOK'
  <2>1. dropped' \in Nat
    BY <1>1, <1>2, <1>4, <1>13 DEF TypeOK
  <2>3. torn' \in BOOLEAN /\ cut' \in BOOLEAN
    BY <1>1, <1>2 DEF TypeOK
  <2>2. results' \in Seq(R)
    BY <1>2, <1>7
  <2> QED
    BY <1>1, <1>2, <1>6, <1>13, <2>1, <2>2, <2>3 DEF TypeOK, callerVars
<1>9. Waiting' = Waiting
  BY <1>1, <1>14, CallersKept
<1>10. BalanceInv'
  <2>1. Cardinality(Waiting')
          = Len(stdin) + Count(stdout') + Count(chunk') + Len(results') + dropped'
    <3>1. /\ Cardinality(Waiting') = Len(stdin) + Count(stdout) + Count(chunk)
                                       + Len(results) + dropped
          /\ Len(stdin) \in Nat /\ Count(stdout) \in Nat /\ Len(results) \in Nat
          /\ dropped \in Nat
      BY <1>2, <1>9, Balanced DEF IInv
    <3>2. CASE line.class = "bare"
      <4>1. /\ Count(chunk') = 0 /\ Count(chunk) = Count(Tail(chunk))
            /\ results' = results
            /\ dropped' = dropped + Count(Tail(chunk)) + (Count(stdout) - Count(stdout'))
        BY <1>1, <1>4, <1>5, <1>7, <3>2, CountEmpty
      <4> QED
        BY <1>4, <1>13, <3>1, <4>1
    <3>3. CASE IsResult(line)
      <4>1. /\ chunk' = Tail(chunk) /\ Count(chunk) = Count(Tail(chunk)) + 1
            /\ Len(results') = Len(results) + 1 /\ dropped' = dropped
            /\ stdout' = stdout
        BY <1>1, <1>4, <1>5, <1>7, <1>13, <3>3
      <4> QED
        BY <1>4, <3>1, <4>1
    <3>4. CASE line.class # "bare" /\ ~IsResult(line)
      <4>1. /\ chunk' = Tail(chunk) /\ Count(chunk) = Count(Tail(chunk))
            /\ results' = results /\ dropped' = dropped
        BY <1>1, <1>4, <1>7, <3>4
      <4> QED
        BY <1>4, <1>13, <3>1, <3>4, <4>1
    <3> QED
      BY <3>2, <3>3, <3>4
  <2>2. ResultsBalanced'
    BY <1>1, <2>1 DEF ResultsBalanced, Waiting, Count
  <2>3. OfACall(stdout)' /\ OfACall(chunk)'
    BY <1>6, <1>13 DEF IInv, BalanceInv, OfACall
  <2> QED
    BY <1>9, <2>2, <2>3 DEF IInv, BalanceInv
<1>11. SoloInv'
  <2> SUFFICES ASSUME ~overlap' PROVE OneOpen' /\ TokenKept' /\ AllExpected'
    BY DEF SoloInv
  <2>1. OneOpen' /\ TokenKept' /\ AllExpected
    BY <1>1, <1>14, CallersKept
  <2>2. ASSUME NEW i \in DOMAIN stdin' PROVE Expected(stdin[i])'
    <3>1. Expected(stdin[i])
      BY <1>1, <1>14, <2>1 DEF AllExpected
    <3> QED
      BY <1>1, <1>14, <3>1, StillExpected DEF Expected, Current
  <2>3. ASSUME NEW j \in DOMAIN results' PROVE Expected(results[j])'
    <3>1. \/ j \in DOMAIN results /\ results'[j] = results[j]
          \/ IsResult(chunk[1]) /\ results'[j] = chunk[1]
      BY <1>3, <1>7
    <3> QED
      <4>1. CASE j \in DOMAIN results /\ results'[j] = results[j]
        <5>1. Expected(results[j])
          BY <2>1, <4>1 DEF AllExpected
        <5> QED
          BY <1>1, <1>14, <4>1, <5>1, StillExpected DEF Expected, Current
      <4>2. CASE IsResult(chunk[1]) /\ results'[j] = chunk[1]
        <5>1. Expected(chunk[1])
          BY <1>3, <2>1, <4>2 DEF AllExpected
        <5> QED
          BY <1>1, <1>14, <4>2, <5>1, StillExpected DEF Expected, Current
      <4> QED
        BY <3>1, <4>1, <4>2
  <2>4. ASSUME NEW j \in DOMAIN stdout', IsResult(stdout'[j]) PROVE Expected(stdout[j])'
    <3>1. PICK i \in DOMAIN stdout :
            /\ IsResult(stdout[i]) /\ stdout'[j].call = stdout[i].call
            /\ \/ stdout'[j].token = stdout[i].token
               \/ line.class = "bare" /\ cut /\ IsResult(Head(stdout))
      BY <1>13, <2>4
    <3>2. PICK d \in Waiting : stdout[i].call = Current(d) /\ (torn \/ stdout[i].token = t[d])
      BY <2>1, <3>1 DEF AllExpected, Expected
    <3>3. torn' \/ stdout'[j].token = t[d]
      BY <1>1, <3>1, <3>2
    <3>4. Waiting' = Waiting /\ t' = t /\ calls' = calls
      BY <1>1, <1>9 DEF callerVars
    <3> QED
      BY <3>1, <3>2, <3>3, <3>4 DEF Expected, Current
  <2>5. ASSUME NEW j \in DOMAIN chunk', IsResult(chunk'[j]) PROVE Expected(chunk[j])'
    <3>1. PICK i \in DOMAIN chunk : chunk'[j] = chunk[i]
      BY <1>6
    <3>2. Expected(chunk[i])
      BY <2>1, <2>5, <3>1 DEF AllExpected
    <3> QED
      BY <1>1, <1>14, <3>1, <3>2, StillExpected DEF Expected, Current
  <2> QED
    BY <2>1, <2>2, <2>3, <2>4, <2>5 DEF AllExpected
<1>12. InStep'
  BY <1>1, <1>14, CallersKept
<1>15. CutInv'
  BY <1>1, <1>13 DEF IInv, CutInv
<1> QED
  BY <1>8, <1>10, <1>11, <1>12, <1>15 DEF IInv

LEMMA ReadEndStep ==
  ASSUME IInv, ReadEnd
  PROVE  IInv'
<1>1. /\ reader' = "dead"
      /\ UNCHANGED <<token, callerVars, stdin, stdout, chunk, cut, results, gdb,
                     unasked, overlap, torn, dropped>>
  BY DEF ReadEnd
<1>2. TypeOK'
  BY <1>1 DEF IInv, TypeOK, callerVars
<1>3. Waiting' = Waiting /\ InStep'
  BY <1>1, CallersKept
<1>4. BalanceInv'
  BY <1>1, <1>3, BalanceKept DEF IInv
<1>5. SoloInv'
  BY <1>1, <1>3, CallersKept, ExpectedKept DEF SoloInv, callerVars
<1>6. CutInv'
  BY <1>1 DEF IInv, CutInv
<1> QED
  BY <1>2, <1>3, <1>4, <1>5, <1>6 DEF IInv

(* GDB takes the commands it has not answered along. *)
LEMMA QuitStep ==
  ASSUME IInv, Quit
  PROVE  IInv'
<1>1. /\ gdb' = "dead" /\ stdin' = <<>> /\ dropped' = dropped + Len(stdin)
      /\ UNCHANGED <<token, callerVars, stdout, chunk, cut, results, reader,
                     unasked, overlap, torn>>
  BY DEF Quit
<1>2. /\ TypeOK /\ stdin' \in Seq(Commands) /\ Len(stdin') = 0 /\ DOMAIN stdin' = {}
      /\ Len(stdin) \in Nat /\ dropped \in Nat
  BY <1>1, LenProperties DEF IInv, TypeOK
<1>3. TypeOK'
  <2>1. dropped' \in Nat
    BY <1>1, <1>2
  <2> QED
    BY <1>1, <1>2, <2>1 DEF TypeOK, callerVars
<1>4. Waiting' = Waiting /\ InStep'
  BY <1>1, CallersKept
<1>5. BalanceInv'
  <2>1. Cardinality(Waiting')
          = Len(stdin') + Count(stdout) + Count(chunk) + Len(results) + dropped'
    BY <1>1, <1>2, <1>4, Balanced DEF IInv
  <2>2. ResultsBalanced'
    BY <1>1, <2>1 DEF ResultsBalanced, Waiting, Count
  <2>3. OfACall(stdout)' /\ OfACall(chunk)'
    BY <1>1 DEF IInv, BalanceInv, OfACall
  <2> QED
    BY <1>4, <2>2, <2>3 DEF IInv, BalanceInv
<1>6. SoloInv'
  <2> SUFFICES ASSUME ~overlap' PROVE OneOpen' /\ TokenKept' /\ AllExpected'
    BY DEF SoloInv
  <2>1. OneOpen' /\ TokenKept' /\ AllExpected
    BY <1>1, CallersKept
  <2>2. ASSUME NEW j \in DOMAIN results' PROVE Expected(results[j])'
    <3>1. Expected(results[j])
      BY <1>1, <2>1 DEF AllExpected
    <3> QED
      BY <1>1, <3>1, StillExpected DEF Expected, Current
  <2>3. ASSUME NEW j \in DOMAIN stdout', IsResult(stdout'[j]) PROVE Expected(stdout[j])'
    <3>1. Expected(stdout[j])
      BY <1>1, <2>1, <2>3 DEF AllExpected
    <3> QED
      BY <1>1, <3>1, StillExpected DEF Expected, Current
  <2>4. ASSUME NEW j \in DOMAIN chunk', IsResult(chunk'[j]) PROVE Expected(chunk[j])'
    <3>1. Expected(chunk[j])
      BY <1>1, <2>1, <2>4 DEF AllExpected
    <3> QED
      BY <1>1, <3>1, StillExpected DEF Expected, Current
  <2> QED
    BY <1>2, <2>1, <2>2, <2>3, <2>4 DEF AllExpected
<1>7. CutInv'
  BY <1>1 DEF IInv, CutInv
<1> QED
  BY <1>3, <1>4, <1>5, <1>6, <1>7 DEF IInv

LEMMA AnswerStep ==
  ASSUME IInv, Answer
  PROVE  IInv'
<1> DEFINE command == Head(stdin)
           line(class) == [class |-> class, token |-> command.token, call |-> command.call]
           bare == Unasked("bare")
<1>1. PICK class \in {"done", "error"} :
        stdout' = stdout \o IF command.script THEN <<line(class), bare>> ELSE <<line(class)>>
  BY DEF Answer
<1>2. /\ stdin # <<>> /\ stdin' = Tail(stdin)
      /\ UNCHANGED <<token, callerVars, chunk, results, reader, unasked, overlap, dropped,
                     cut, gdb, torn>>
  BY DEF Answer
<1>3. stdin \in Seq(Commands) /\ stdout \in Seq(Lines) /\ TypeOK
  BY DEF IInv, TypeOK
<1>4. /\ command \in Commands /\ Tail(stdin) \in Seq(Commands)
      /\ 1 \in DOMAIN stdin /\ command = stdin[1]
      /\ Len(stdin) \in Nat \ {0} /\ Len(Tail(stdin)) = Len(stdin) - 1
      /\ \A j \in DOMAIN Tail(stdin) : \E i \in DOMAIN stdin : Tail(stdin)[j] = stdin[i]
  BY <1>2, <1>3, Taken
<1> HIDE DEF command
<1>5. command.token \in Nat /\ command.call \in Calls /\ command.script \in BOOLEAN
  BY <1>4 DEF Commands
<1>6. /\ line(class) \in Lines /\ IsResult(line(class))
      /\ line(class).token = command.token /\ line(class).call = command.call
  BY <1>5 DEF Lines, IsResult
<1>7. bare \in Lines /\ ~IsResult(bare)
  BY DEF Lines, IsResult, Unasked, NoCall
<1> DEFINE first == Append(stdout, line(class))
<1> HIDE DEF line, bare
<1>8. /\ first \in Seq(Lines) /\ Count(first) = Count(stdout) + 1
      /\ \A j \in DOMAIN first : \/ first[j] = line(class)
                                 \/ j \in DOMAIN stdout /\ first[j] = stdout[j]
  BY <1>3, <1>6, Appended, CountAppend
<1>9. stdout' = IF command.script THEN Append(first, bare) ELSE first
  <2>1. first = stdout \o <<line(class)>> /\ <<line(class)>> \in Seq(Lines)
    BY <1>3, <1>6, AppendIsConcat
  <2>2. Append(first, bare) = first \o <<bare>> /\ <<bare>> \in Seq(Lines)
    BY <1>7, <1>8, AppendIsConcat
  <2>3. (stdout \o <<line(class)>>) \o <<bare>> = stdout \o (<<line(class)>> \o <<bare>>)
    BY <1>3, <2>1, <2>2, ConcatAssociative
  <2>4. <<line(class)>> \o <<bare>> = <<line(class), bare>>
    BY <1>6, <1>7, TwoLines
  <2> QED
    BY <1>1, <2>1, <2>2, <2>3, <2>4
<1> HIDE DEF first
<1>10. /\ stdout' \in Seq(Lines) /\ Count(stdout') = Count(stdout) + 1
       /\ \A j \in DOMAIN stdout' : IsResult(stdout'[j]) =>
            \/ stdout'[j] = line(class)
            \/ j \in DOMAIN stdout /\ stdout'[j] = stdout[j]
  <2>1. CASE ~command.script
    BY <1>8, <1>9, <2>1
  <2>2. CASE command.script
    <3>1. /\ stdout' \in Seq(Lines) /\ Count(stdout') = Count(first) + 0
          /\ \A j \in DOMAIN stdout' : \/ stdout'[j] = bare
                                       \/ j \in DOMAIN first /\ stdout'[j] = first[j]
      BY <1>7, <1>8, <1>9, <2>2, Appended, CountAppend
    <3>2. Count(stdout') = Count(stdout) + 1
      BY <1>3, <1>8, <3>1, Counted
    <3>3. ASSUME NEW j \in DOMAIN stdout', IsResult(stdout'[j])
          PROVE  \/ stdout'[j] = line(class)
                 \/ j \in DOMAIN stdout /\ stdout'[j] = stdout[j]
      <4>1. j \in DOMAIN first /\ stdout'[j] = first[j]
        BY <1>7, <3>1, <3>3
      <4> QED
        BY <1>8, <4>1
    <3> QED
      BY <3>1, <3>2, <3>3
  <2> QED
    BY <2>1, <2>2
<1>11. TypeOK'
  BY <1>2, <1>4, <1>10 DEF IInv, TypeOK, callerVars
<1>12. Waiting' = Waiting
  BY <1>2, CallersKept
<1>13. BalanceInv'
  <2>1. Cardinality(Waiting')
          = Len(stdin') + Count(stdout') + Count(chunk) + Len(results) + dropped
    BY <1>2, <1>3, <1>4, <1>10, <1>12, Balanced DEF IInv
  <2>2. ResultsBalanced'
    BY <1>2, <2>1 DEF ResultsBalanced, Waiting, Count
  <2>3. OfACall(chunk)'
    BY <1>2 DEF IInv, BalanceInv, OfACall
  <2>4. OfACall(stdout)'
    <3> SUFFICES ASSUME NEW j \in DOMAIN stdout', IsResult(stdout'[j])
                 PROVE  stdout'[j].call \in Calls
      BY DEF OfACall
    <3>1. CASE stdout'[j] = line(class)
      BY <1>5, <1>6, <3>1
    <3>2. CASE j \in DOMAIN stdout /\ stdout'[j] = stdout[j]
      BY <3>2 DEF IInv, BalanceInv, OfACall
    <3> QED
      BY <1>10, <3>1, <3>2
  <2> QED
    BY <1>12, <2>2, <2>3, <2>4 DEF IInv, BalanceInv
<1>14. SoloInv'
  <2> SUFFICES ASSUME ~overlap' PROVE OneOpen' /\ TokenKept' /\ AllExpected'
    BY DEF SoloInv
  <2>1. OneOpen' /\ TokenKept' /\ AllExpected
    BY <1>2, CallersKept
  <2>2. ASSUME NEW j \in DOMAIN stdin' PROVE Expected(stdin[j])'
    <3>1. PICK i \in DOMAIN stdin : stdin'[j] = stdin[i]
      BY <1>2, <1>4
    <3>2. Expected(stdin[i])
      BY <2>1 DEF AllExpected
    <3> QED
      BY <1>2, <3>1, <3>2, StillExpected DEF Expected, Current
  <2>3. ASSUME NEW j \in DOMAIN results' PROVE Expected(results[j])'
    <3>1. Expected(results[j])
      BY <1>2, <2>1 DEF AllExpected
    <3> QED
      BY <1>2, <3>1, StillExpected DEF Expected, Current
  <2>4. ASSUME NEW j \in DOMAIN stdout', IsResult(stdout'[j]) PROVE Expected(stdout[j])'
    <3>1. CASE stdout'[j] = line(class)
      <4>1. Expected(stdin[1])
        BY <1>4, <2>1 DEF AllExpected
      <4>2. stdout'[j].token = stdin[1].token /\ stdout'[j].call = stdin[1].call
        BY <1>4, <1>6, <3>1
      <4> QED
        BY <1>2, <4>1, <4>2, StillExpected DEF Expected, Current
    <3>2. CASE j \in DOMAIN stdout /\ stdout'[j] = stdout[j]
      <4>1. Expected(stdout[j])
        BY <2>1, <2>4, <3>2 DEF AllExpected
      <4> QED
        BY <1>2, <3>2, <4>1, StillExpected DEF Expected, Current
    <3> QED
      BY <1>10, <2>4, <3>1, <3>2
  <2>5. ASSUME NEW j \in DOMAIN chunk', IsResult(chunk'[j]) PROVE Expected(chunk[j])'
    <3>1. Expected(chunk[j])
      BY <1>2, <2>1, <2>5 DEF AllExpected
    <3> QED
      BY <1>2, <3>1, StillExpected DEF Expected, Current
  <2> QED
    BY <2>1, <2>2, <2>3, <2>4, <2>5 DEF AllExpected
<1>15. InStep'
  BY <1>2, CallersKept
<1>16. stdout' # <<>>
  <2>1. first # <<>>
    BY <1>3, <1>6, AppendProperties DEF first
  <2>2. Append(first, bare) # <<>>
    BY <1>7, <1>8, AppendProperties
  <2> QED
    BY <1>9, <2>1, <2>2
<1>17. CutInv'
  BY <1>16 DEF CutInv
<1> QED
  BY <1>11, <1>13, <1>14, <1>15, <1>17 DEF IInv

LEMMA UnpromptedStep ==
  ASSUME IInv, NEW class \in {"notice", "junk"}, Unprompted(class)
  PROVE  IInv'
<1>1. /\ unasked' = unasked + 1 /\ stdout' = Append(stdout, Unasked(class))
      /\ UNCHANGED <<token, callerVars, stdin, chunk, results, reader, overlap, dropped,
                     cut, gdb, torn>>
  BY DEF Unprompted
<1>2. stdout \in Seq(Lines) /\ TypeOK
  BY DEF IInv, TypeOK
<1>3. Unasked(class) \in Lines /\ ~IsResult(Unasked(class))
  BY DEF Lines, IsResult, Unasked, NoCall
<1>4. /\ stdout' \in Seq(Lines) /\ Count(stdout') = Count(stdout) + 0
      /\ \A j \in DOMAIN stdout' : \/ stdout'[j] = Unasked(class)
                                   \/ j \in DOMAIN stdout /\ stdout'[j] = stdout[j]
  BY <1>1, <1>2, <1>3, Appended, CountAppend
<1>5. ASSUME NEW j \in DOMAIN stdout', IsResult(stdout'[j])
      PROVE  j \in DOMAIN stdout /\ stdout'[j] = stdout[j]
  BY <1>3, <1>4, <1>5
<1>6. TypeOK'
  BY <1>1, <1>4 DEF IInv, TypeOK, callerVars
<1>7. Waiting' = Waiting
  BY <1>1, CallersKept
<1>8. BalanceInv'
  <2>1. Cardinality(Waiting')
          = Len(stdin) + Count(stdout') + Count(chunk) + Len(results) + dropped
    BY <1>2, <1>4, <1>7, Balanced DEF IInv
  <2>2. ResultsBalanced'
    BY <1>1, <2>1 DEF ResultsBalanced, Waiting, Count
  <2>3. OfACall(stdout)' /\ OfACall(chunk)'
    BY <1>1, <1>5 DEF IInv, BalanceInv, OfACall
  <2> QED
    BY <1>7, <2>2, <2>3 DEF IInv, BalanceInv
<1>9. SoloInv'
  <2> SUFFICES ASSUME ~overlap' PROVE OneOpen' /\ TokenKept' /\ AllExpected'
    BY DEF SoloInv
  <2>1. OneOpen' /\ TokenKept' /\ AllExpected
    BY <1>1, CallersKept
  <2>2. ASSUME NEW i \in DOMAIN stdin' PROVE Expected(stdin[i])'
    <3>1. Expected(stdin[i])
      BY <1>1, <2>1 DEF AllExpected
    <3> QED
      BY <1>1, <3>1, StillExpected DEF Expected, Current
  <2>3. ASSUME NEW i \in DOMAIN results' PROVE Expected(results[i])'
    <3>1. Expected(results[i])
      BY <1>1, <2>1 DEF AllExpected
    <3> QED
      BY <1>1, <3>1, StillExpected DEF Expected, Current
  <2>4. ASSUME NEW j \in DOMAIN stdout', IsResult(stdout'[j]) PROVE Expected(stdout[j])'
    <3>1. j \in DOMAIN stdout /\ stdout'[j] = stdout[j]
      BY <1>5, <2>4
    <3>2. Expected(stdout[j])
      BY <2>1, <2>4, <3>1 DEF AllExpected
    <3> QED
      BY <1>1, <3>1, <3>2, StillExpected DEF Expected, Current
  <2>5. ASSUME NEW j \in DOMAIN chunk', IsResult(chunk'[j]) PROVE Expected(chunk[j])'
    <3>1. Expected(chunk[j])
      BY <1>1, <2>1, <2>5 DEF AllExpected
    <3> QED
      BY <1>1, <3>1, StillExpected DEF Expected, Current
  <2> QED
    BY <2>1, <2>2, <2>3, <2>4, <2>5 DEF AllExpected
<1>10. InStep'
  BY <1>1, CallersKept
<1>11. CutInv'
  <2>1. stdout' # <<>>
    BY <1>1, <1>2, <1>3, AppendProperties
  <2> QED
    BY <2>1 DEF CutInv
<1> QED
  BY <1>6, <1>8, <1>9, <1>10, <1>11 DEF IInv

LEMMA StutterStep == IInv /\ UNCHANGED vars => IInv'
<1> SUFFICES ASSUME IInv, UNCHANGED vars PROVE IInv'
  OBVIOUS
<1>1. UNCHANGED <<token, callerVars, stdin, stdout, chunk, results, reader, unasked,
                  overlap, dropped,
                     cut, gdb, torn>>
  BY DEF vars
<1>2. TypeOK'
  BY <1>1 DEF IInv, TypeOK, callerVars
<1>3. Waiting' = Waiting /\ InStep'
  BY <1>1, CallersKept
<1>4. BalanceInv'
  BY <1>1, <1>3, BalanceKept DEF IInv
<1>5. SoloInv'
  BY <1>1, <1>3, CallersKept, ExpectedKept DEF SoloInv, callerVars
<1>6. CutInv'
  BY <1>1 DEF IInv, CutInv
<1> QED
  BY <1>2, <1>3, <1>4, <1>5, <1>6 DEF IInv

-----------------------------------------------------------------------------
(* The invariant is inductive: every step of a caller, of the reader and of *)
(* GDB keeps it.                                                            *)
THEOREM Inductive == Spec => []IInv
<1>1. Init => IInv
  BY InitInv
<1>2. IInv /\ [Next]_vars => IInv'
  <2> SUFFICES ASSUME IInv, [Next]_vars PROVE IInv'
    OBVIOUS
  <2>1. ASSUME NEW c \in Callers, Format(c) PROVE IInv'
    BY <2>1, FormatStep
  <2>2. ASSUME NEW c \in Callers, Note(c) PROVE IInv'
    BY <2>2, NoteStep
  <2>3. ASSUME NEW c \in Callers, Write(c) PROVE IInv'
    BY <2>3, WriteStep
  <2>4. ASSUME NEW c \in Callers, ReadToken(c) PROVE IInv'
    BY <2>4, ReadTokenStep
  <2>5. ASSUME NEW c \in Callers, StoreToken(c) PROVE IInv'
    BY <2>5, StoreTokenStep
  <2>6. ASSUME NEW c \in Callers, GetResult(c) PROVE IInv'
    BY <2>6, GetResultStep
  <2>7. CASE ReadChunk
    BY <2>7, ReadChunkStep
  <2>8. CASE ReadLine
    BY <2>8, ReadLineStep
  <2>9. CASE Answer
    BY <2>9, AnswerStep
  <2>10. ASSUME NEW class \in {"notice", "junk"}, Unprompted(class) PROVE IInv'
    BY <2>10, UnpromptedStep
  <2>11. CASE ReadEnd
    BY <2>11, ReadEndStep
  <2>12. CASE Quit
    BY <2>12, QuitStep
  <2>13. CASE UNCHANGED vars
    BY <2>13, StutterStep
  <2> QED
    BY <2>1, <2>2, <2>3, <2>4, <2>5, <2>6, <2>7, <2>8, <2>9, <2>10, <2>11, <2>12, <2>13
       DEF Next, CallerStep, ReaderStep
<1> QED
  BY <1>1, <1>2, PTL DEF Spec

(* Every variable keeps its type; in particular what get_result takes from  *)
(* results_queue is always the result of some call, never an event or an    *)
(* answer to a line without a token.                                        *)
THEOREM TypeCorrect == Spec => []TypeOK
<1>1. IInv => TypeOK
  BY DEF IInv
<1> QED
  BY <1>1, Inductive, PTL

(* However the threads mix up tokens and results, for each call of sync_cmd *)
(* that has written its command and not got a result there is one result    *)
(* under way, but for those lost with a line ^done or with GDB.             *)
THEOREM OneResultPerCall == Spec => []ResultsBalanced
<1>1. IInv => ResultsBalanced
  BY DEF IInv, BalanceInv
<1> QED
  BY <1>1, Inductive, PTL

(* As long as no two calls of sync_cmd are open at once, each takes the     *)
(* result of its own command, and no token is ever a mismatch unless the    *)
(* beginning of a result was lost with a line ^done.                        *)
THEOREM CallsInStep == Spec => []InStep
<1>1. IInv => InStep
  BY DEF IInv
<1> QED
  BY <1>1, Inductive, PTL
=============================================================================
