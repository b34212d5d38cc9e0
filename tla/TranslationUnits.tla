-------------------------- MODULE TranslationUnits --------------------------
(***************************************************************************)
(* How the binary translator finds the code to translate: the process-wide *)
(* InstructionTranslationUnitCache with its list of unfinished units, and  *)
(* the loop of BinaryTranslator::translate over it.  A unit is the basic   *)
(* block of one instruction and begins with phi nodes; its predecessors    *)
(* add their values to them as they are translated.                        *)
(*                                                                         *)
(* The cache outlives the translations.  The module of one, with its       *)
(* blocks and phi nodes, is freed at its end, and the units that were made *)
(* for it then point to freed memory.  Behaviours are not followed past    *)
(* the use of such a unit (fault).                                         *)
(***************************************************************************)
EXTENDS Integers, Sequences, FiniteSets

CONSTANTS
  MaxPc,       \* program counters are 0 .. MaxPc, counted in instructions;
               \* MaxPc stands for the largest number of 64 bits
  Programs,    \* the codes that may be in the memory
  Functions,   \* the addresses a Function object may be allocated at
  MaxCalls     \* bound on the calls of a behaviour

Pcs == 0 .. MaxPc
Kinds == {"seq",      \* goes on to the next instruction
          "literal",  \* likewise, and loads a word of the code memory
          "jump", "cond",
          "unknown",  \* decodes to an opcode without a translator
          "invalid",  \* does not decode
          "soft"}     \* decodes to MCDisassembler::SoftFail
Blocks == Pcs \cup {MaxPc + 1}
Entry == MaxPc + 1    \* the entry block of the function

ASSUME UnitsAssumption ==
  /\ MaxPc \in Nat /\ MaxCalls \in Nat
  /\ Programs \subseteq [Pcs -> [kind : Kinds, target : Pcs]]

VARIABLES
  prog,       \* the code
  entry,      \* the entry point of the translation
  ranges,     \* its ranges, a sequence of <<first, end>>
  function,   \* its Function object
  call,       \* its number
  cache,      \* for each function and pc the call that made the unit, or 0
  unfinished, \* the units still to translate: <<function, pc, call>>
  incoming,   \* number of values the phi nodes of a pc have from a block
  term,       \* successors in the terminator of each block, or Open
  translated, \* times each pc was translated in this call
  state,      \* "idle", "constructing", "translating", "ended" or "dead"
  cut,        \* an exception ended the loop of this call before its end
  cutBefore,  \* likewise of an earlier call
  reused,     \* a function was allocated where an earlier one had been
  soft,       \* an instruction of this call was left out as SoftFail
  fault       \* why the process is dead

translationVars == <<prog, entry, ranges, function, call, cache, unfinished,
                     incoming, term, translated, cut, cutBefore, reused, soft>>
unitVars == <<translationVars, state, fault>>

-----------------------------------------------------------------------------
(* The array of ranges ends before the first one that ends at 0.            *)
is_in_range(pc) ==
  \E k \in DOMAIN ranges : /\ ranges[k][1] <= pc /\ pc < ranges[k][2]
                           /\ \A j \in 1 .. k : ranges[j][2] # 0

(* Successors of an instruction, in the order of the calls of find_create.  *)
TargetsStraight(pc) ==    \* seeded fault: tBcc's branch target left out
  IF prog[pc].kind = "jump" THEN <<prog[pc].target>> ELSE <<pc + 1>>
Targets(pc) ==
  CASE prog[pc].kind = "jump" -> <<prog[pc].target>>
    [] prog[pc].kind = "cond" -> <<pc + 1, prog[pc].target>>
    [] OTHER -> <<pc + 1>>

Elements(s) == {s[k] : k \in DOMAIN s}
Edges(ts, pc) == Cardinality({k \in DOMAIN ts : ts[k] = pc})
Open == <<Entry>>    \* no terminator yet; nothing branches to the entry block
Terminators == {Open, <<>>} \cup {<<p>> : p \in Pcs} \cup (Pcs \X Pcs)

(* find finds a unit of another call, whose block is freed.                 *)
Stale(f, pc) == cache[f][pc] \notin {0, call}

(* The second target is found: the unit of the first was just made for it.  *)
NeverMade(ts) == FALSE    \* seeded fault: both looked up before either is made
JustMade(ts) == ts[2] = ts[1]

(* find_create for each of ts: the units that are not there are made and    *)
(* queued behind the others (rest), and all get values from block b.        *)
New(f, ts) ==
  LET absent(k) == k <= Len(ts) /\ cache[f][ts[k]] = 0
      two == absent(2) /\ ~JustMade(ts)
  IN IF absent(1) THEN IF two THEN <<ts[1], ts[2]>> ELSE <<ts[1]>>
                  ELSE IF two THEN <<ts[2]>> ELSE <<>>

IncomingIfNew(f, b, ts) ==   \* seeded fault: no value for a unit that was there
  [pc \in Pcs |-> [incoming[pc] EXCEPT ![b] = @ + Edges(New(f, ts), pc)]]
addIncoming(f, b, ts) ==
  [pc \in Pcs |-> [incoming[pc] EXCEPT ![b] = @ + Edges(ts, pc)]]

find_create(f, c, b, ts, rest) ==
  /\ cache' = [cache EXCEPT ![f] =
       [pc \in Pcs |-> IF pc \in Elements(New(f, ts)) THEN c ELSE cache[f][pc]]]
  /\ unfinished' = rest \o [k \in DOMAIN New(f, ts) |-> <<f, New(f, ts)[k], c>>]
  /\ incoming' = addIncoming(f, b, ts)

Die(why) == state' = "dead" /\ fault' = why
Live == UNCHANGED <<state, fault>>

NoModule ==
  /\ incoming' = [p \in Pcs |-> [b \in Blocks |-> 0]]
  /\ term' = [b \in Blocks |-> Open]
  /\ translated' = [p \in Pcs |-> 0]

-----------------------------------------------------------------------------
(* The constructor of BinaryTranslator makes a module and a function; the   *)
(* module of the call before is gone.                                       *)
NewTranslator(pc, rs) ==
  /\ state = "idle"
  /\ call < MaxCalls
  /\ state' = "constructing"
  /\ entry' = pc /\ ranges' = rs
  /\ call' = call + 1
  /\ \E f \in Functions :
       /\ function' = f
       /\ reused' = (reused \/ \E p \in Pcs : cache[f][p] # 0)
  /\ NoModule
  /\ cut' = FALSE /\ soft' = FALSE
  /\ cutBefore' = (cutBefore \/ cut)
  /\ UNCHANGED <<prog, cache, unfinished, fault>>

(* genCodeEntry, and the assertion at the start of translate.               *)
genCodeEntry ==
  /\ state = "constructing"
  /\ IF Stale(function, entry)
     THEN /\ Die("freed unit")
          /\ UNCHANGED <<cache, unfinished, incoming, term>>
     ELSE /\ find_create(function, call, Entry, <<entry>>, unfinished)
          /\ term' = [term EXCEPT ![Entry] = <<entry>>]
          /\ IF is_in_range(entry) THEN state' = "translating" /\ UNCHANGED fault
                                   ELSE Die("assertion")
  /\ UNCHANGED <<prog, entry, ranges, function, call, translated, cut,
                 cutBefore, reused, soft>>

(* A pass of the loop of translate takes the first unit.                    *)
Pop(f, pc, c) ==
  /\ state = "translating"
  /\ unfinished # <<>>
  /\ <<f, pc, c>> = Head(unfinished)
  /\ UNCHANGED <<prog, entry, ranges, function, call, cutBefore, reused>>

Emitted(pc, ts) ==
  /\ term' = [term EXCEPT ![pc] = ts]
  /\ translated' = [translated EXCEPT ![pc] = @ + 1]

(* The block of a unit of an earlier call is gone.                          *)
genCodeExit(f, pc, c) ==
  /\ Pop(f, pc, c)
  /\ ~is_in_range(pc)
  /\ unfinished' = Tail(unfinished)
  /\ IF c = call THEN Emitted(pc, <<>>) /\ Live
                 ELSE Die("freed unit") /\ UNCHANGED <<term, translated>>
  /\ UNCHANGED <<cache, incoming, cut, soft>>

(* translateSingleInstruction, when there is a translator for the opcode.   *)
translateSingleInstruction(f, pc, c) ==
  /\ Pop(f, pc, c)
  /\ is_in_range(pc)
  /\ prog[pc].kind \in {"seq", "literal", "jump", "cond"}
  /\ LET ts == Targets(pc)
     IN IF c = call /\ \A p \in Elements(ts) : ~Stale(f, p)
        THEN /\ find_create(f, c, pc, ts, Tail(unfinished))
             /\ Emitted(pc, ts)
             /\ Live
        ELSE /\ Die("freed unit")
             /\ unfinished' = Tail(unfinished)
             /\ UNCHANGED <<cache, incoming, term, translated>>
  /\ UNCHANGED <<cut, soft>>

(* It throws an exception, which ends the loop: the instruction does not    *)
(* decode, or cannot be read, or has no translator.  The units behind it    *)
(* stay in the list.                                                        *)
throwException(f, pc, c, readable) ==
  /\ Pop(f, pc, c)
  /\ is_in_range(pc)
  /\ readable => prog[pc].kind \in {"unknown", "invalid"}
  /\ unfinished' = Tail(unfinished)
  /\ cut' = TRUE
  /\ state' = "ended"
  /\ UNCHANGED <<cache, incoming, term, translated, soft, fault>>

(* It returns at MCDisassembler::SoftFail: the block stays open.            *)
softFail(f, pc, c) ==
  /\ Pop(f, pc, c)
  /\ is_in_range(pc)
  /\ prog[pc].kind = "soft"
  /\ unfinished' = Tail(unfinished)
  /\ soft' = (soft \/ c = call)
  /\ Live
  /\ UNCHANGED <<cache, incoming, term, translated, cut>>

OneLeft == Len(unfinished) <= 1   \* seeded fault: off by one in has_more
Finished == unfinished = <<>>

noMoreUnits ==
  /\ state = "translating"
  /\ Finished
  /\ state' = "ended"
  /\ UNCHANGED <<prog, entry, ranges, function, call, cache, unfinished,
                 incoming, term, translated, cut, cutBefore, reused, soft, fault>>

(* compile returns and the module is freed, or it throws an exception that   *)
(* no caller catches.                                                       *)
compile ==
  /\ state = "ended"
  /\ \/ /\ state' = "idle"
        /\ entry' = 0 /\ ranges' = <<>>
        /\ NoModule
        /\ UNCHANGED fault
     \/ /\ Die("exception")
        /\ UNCHANGED <<entry, ranges, incoming, term, translated>>
  /\ UNCHANGED <<prog, function, call, cache, unfinished, cut, cutBefore,
                 reused, soft>>

UnitsInit ==
  /\ prog \in Programs
  /\ entry = 0 /\ ranges = <<>>
  /\ function \in Functions
  /\ call = 0
  /\ cache = [f \in Functions |-> [pc \in Pcs |-> 0]]
  /\ unfinished = <<>>
  /\ incoming = [p \in Pcs |-> [b \in Blocks |-> 0]]
  /\ term = [b \in Blocks |-> Open]
  /\ translated = [p \in Pcs |-> 0]
  /\ state = "idle"
  /\ cut = FALSE /\ cutBefore = FALSE /\ reused = FALSE /\ soft = FALSE
  /\ fault = "none"

-----------------------------------------------------------------------------
UnitsTypeOK ==
  /\ prog \in Programs
  /\ entry \in Pcs
  /\ function \in Functions
  /\ call \in 0 .. MaxCalls
  /\ cache \in [Functions -> [Pcs -> 0 .. MaxCalls]]
  /\ unfinished \in Seq(Functions \X Pcs \X (1 .. MaxCalls))
  /\ incoming \in [Pcs -> [Blocks -> Nat]]
  /\ term \in [Blocks -> Terminators]
  /\ translated \in [Pcs -> Nat]
  /\ state \in {"idle", "constructing", "translating", "ended", "dead"}
  /\ cut \in BOOLEAN /\ cutBefore \in BOOLEAN
  /\ reused \in BOOLEAN /\ soft \in BOOLEAN
  /\ fault \in {"none", "freed unit", "assertion", "exception", "no options",
                "overrun"}

(* The phi nodes of a unit have one value for each edge of the code that    *)
(* leads to it, from the block the edge comes from, as LLVM demands: the    *)
(* terminators the translators create and the calls of find_create, with or *)
(* without terminate_last_block, fit together.  This holds while the list   *)
(* that is worked on grows, for loops and for a branch to the next          *)
(* instruction.                                                             *)
PhisMatchEdges ==
  state # "dead" =>
    \A pc \in Pcs, b \in Blocks :
      incoming[pc][b] = Edges(term[b], pc)

(* No instruction is translated twice in a call, and none that is still     *)
(* queued was translated: a block has one terminator.                       *)
TranslatedOnce ==
  /\ \A pc \in Pcs : translated[pc] <= 1
  /\ state = "translating" =>
       \A k \in DOMAIN unfinished : unfinished[k][3] = call =>
         /\ translated[unfinished[k][2]] = 0
         /\ \A j \in DOMAIN unfinished : unfinished[j] = unfinished[k] => j = k

(* Memory of a module that is gone is used only after a call that was cut   *)
(* short by an exception, which leaves its units in the process-wide list,  *)
(* or when a Function is allocated at the address of an earlier one, whose  *)
(* units are still in the cache.  (Calls follow one another here: a         *)
(* callback that calls the translator again, or another thread that does    *)
(* while the callback runs, would share the list as well.)                  *)
FreedOnlyAfterCut == fault = "freed unit" => cutBefore \/ reused

(* A call that leaves nothing out has translated all the code that control  *)
(* reaches from the entry, and nothing else (Reachability).                 *)
Succs(pc) ==
  IF ~is_in_range(pc) THEN {}
  ELSE (IF prog[pc].kind = "jump" THEN {} ELSE {pc + 1})
       \cup (IF prog[pc].kind \in {"jump", "cond"} THEN {prog[pc].target} ELSE {})
Reach == INSTANCE Reachability WITH
  Points <- Pcs,
  phase <- CASE state = "idle" -> "none"
             [] state \in {"constructing", "translating"} -> "running"
             [] state = "dead" -> "dead"
             [] OTHER -> IF cut \/ soft THEN "given up" ELSE "complete",
  root <- entry,
  succ <- [pc \in Pcs |-> Succs(pc)],
  visited <- {pc \in Pcs : translated[pc] > 0}
ReachSpec == Reach!ReachSpec
=============================================================================
