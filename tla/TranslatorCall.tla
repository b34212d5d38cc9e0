--------------------------- MODULE TranslatorCall ---------------------------
(***************************************************************************)
(* binary_translator.instrument_memory_access, the function Python calls:  *)
(* the wrapper of python_interface.c with the memory it allocates and      *)
(* frees, instrument_memory_access of c_interface.cpp and the translation  *)
(* (TranslationUnits).  The translator reads the code with the callback    *)
(* the caller gave, which is Python code: it may fail, return too little,  *)
(* or change the options it was called with.                               *)
(***************************************************************************)
EXTENDS TranslationUnits

CONSTANTS
  RangeLists,  \* the lists of ranges a caller may pass
  BadRange,    \* an element of a list that is no pair of integers
  TooWide,     \* an integer below 0 or above the largest of 64 bits
  OptionLists, \* the options it may pass, in the order of the dictionary
  Extra,       \* most options the dictionary may have in the end
  CallbackFails  \* the callback may fail

OptionKinds == {"ok", "no string", "key not ASCII", "value not ASCII"}
Absent == <<"absent">>   \* the argument opts was left out

Limits == Pcs \cup {TooWide}

ASSUME CallAssumption ==
  /\ OptionLists \subseteq Seq(OptionKinds) \cup {Absent}
  /\ Extra \in Nat
  /\ RangeLists \subseteq Seq((Limits \X Limits) \cup {BadRange})
  /\ TooWide \notin Pcs

(* What is allocated in a call. *)
PcRanges == <<"pc_ranges", 0>>
Opts == <<"opts", 0>>
Code == <<"code", 0>>

VARIABLES
  stage,     \* where py_instrument_memory_access is; "out": not called
  given,     \* the list of ranges, and then the array made of it
  wide,      \* a limit of the ranges was too wide
  options, parsed,   \* the options and how many are converted
  dictSize,  \* size of the dictionary now
  allocated, \* what malloc and strdup returned and was not freed
  lost,      \* ... when the last call returned
  error,     \* a Python exception is set
  failed,    \* the callback failed in this call
  result     \* of the last call: "none", "NULL" or "dict"

callVars == <<stage, given, wide, options, parsed, dictSize, allocated, lost,
              error, failed, result>>
vars == <<unitVars, callVars>>

-----------------------------------------------------------------------------
NotReset == parsed     \* seeded fault: a count left from the call before
Reset == 0

Return(r, kept) ==
  /\ stage' = "out"
  /\ result' = r
  /\ allocated' = {}
  /\ lost' = kept
  /\ given' = <<>> /\ options' = <<>> /\ parsed' = Reset /\ dictSize' = 0

Unset == UNCHANGED error   \* seeded fault: returns NULL without an exception
PyErr_SetString == error' = TRUE

(* PyArg_ParseTupleAndKeywords and the test of the callback.  The exception *)
(* of the call before is the caller's.                                      *)
parseArguments ==
  /\ stage = "out" /\ state = "idle"
  /\ call < MaxCalls
  /\ \/ /\ Return("NULL", {})
        /\ PyErr_SetString
     \/ /\ stage' = "ranges"
        /\ error' = FALSE
        /\ given' \in RangeLists
        /\ options' \in OptionLists
        /\ parsed' = 0 /\ dictSize' = Len(options')
        /\ lost' = {}
        /\ result' = "none"
        /\ UNCHANGED allocated
  /\ failed' = FALSE /\ wide' = FALSE
  /\ UNCHANGED unitVars

(* A number that is too wide gives the largest there is and leaves an       *)
(* OverflowError set, which nobody looks for.                               *)
PyLong_AsUnsignedLongLong(v) == IF v = TooWide THEN MaxPc ELSE v
Converted(list) ==
  [k \in DOMAIN list |-> <<PyLong_AsUnsignedLongLong(list[k][1]),
                           PyLong_AsUnsignedLongLong(list[k][2])>>]
AnyTooWide(list) == \E k \in DOMAIN list : TooWide \in {list[k][1], list[k][2]}

(* The array of ranges.                                                     *)
parseRanges ==
  /\ stage = "ranges"
  /\ \/ /\ Return("NULL", {})            \* malloc failed
        /\ PyErr_SetString
        /\ UNCHANGED wide
     \/ /\ \E k \in DOMAIN given : given[k] = BadRange
        /\ Return("NULL", {})            \* the array is freed again
        /\ PyErr_SetString
        /\ UNCHANGED wide
     \/ /\ \A k \in DOMAIN given : given[k] # BadRange
        /\ stage' = "options"
        /\ given' = Converted(given)
        /\ wide' = AnyTooWide(given)
        /\ error' = (error \/ wide')
        /\ allocated' = {PcRanges}
        /\ UNCHANGED <<options, parsed, dictSize, lost, result>>
  /\ UNCHANGED <<failed, unitVars>>

(* The array of options, sized with PyDict_Size of a pointer that is not    *)
(* initialised when the argument was left out.                              *)
allocateOptions ==
  /\ stage = "options" /\ Opts \notin allocated
  /\ IF options = Absent THEN Die("no options") /\ UNCHANGED allocated
                         ELSE allocated' = allocated \cup {Opts} /\ Live
  /\ UNCHANGED <<stage, given, wide, options, parsed, dictSize, lost, error,
                 failed, result, translationVars>>

SameAgain(k) == k - 1    \* seeded fault: the iteration does not advance
Advanced(k) == k

(* One option; the strings of the ones before it are never freed when it is *)
(* refused, and nothing is when it cannot be converted.                     *)
parseOption ==
  /\ stage = "options" /\ Opts \in allocated
  /\ parsed < Len(options)
  /\ LET k == parsed + 1
     IN \/ /\ options[k] = "ok"
           /\ allocated' = allocated \cup {<<"key", k>>, <<"value", k>>}
           /\ parsed' = Advanced(k)
           /\ UNCHANGED <<stage, result, lost, error, given, options, dictSize>>
        \/ /\ options[k] = "no string"
           /\ Return("NULL", allocated \ {PcRanges, Opts})
           /\ PyErr_SetString
        \/ /\ options[k] = "key not ASCII"
           /\ Return("NULL", allocated)
           /\ PyErr_SetString
        \/ /\ options[k] = "value not ASCII"
           /\ Return("NULL", allocated \cup {<<"key", k>>})
           /\ PyErr_SetString
  /\ UNCHANGED <<failed, wide, unitVars>>

(* The name of the architecture may be one it does not know.                *)
instrument_memory_access ==
  /\ stage = "options" /\ Opts \in allocated
  /\ parsed = Len(options)
  /\ stage' = "translation"
  /\ \/ \E pc \in Pcs : NewTranslator(pc, given)
     \/ Die("assertion") /\ UNCHANGED translationVars
  /\ UNCHANGED <<given, wide, options, parsed, dictSize, allocated, lost, error,
                 failed, result>>

(* What py_read_code_memory does with the answer of the callback.           *)
py_read_code_memory(answer) ==
  /\ failed' = (failed \/ answer # "bytes")
  /\ error' = (error \/ answer = "exception")
Answers == IF CallbackFails THEN {"bytes", "exception", "short"} ELSE {"bytes"}

(* A pass of the loop of translate.  The literal of an instruction is       *)
(* whatever the callback gives, and the answer is not looked at.            *)
translateUnit ==
  /\ \E f \in Functions, pc \in Pcs, c \in 1 .. MaxCalls :
       \/ genCodeExit(f, pc, c) /\ UNCHANGED <<failed, error>>
       \/ softFail(f, pc, c) /\ UNCHANGED <<failed, error>>
       \/ /\ translateSingleInstruction(f, pc, c)
          /\ \E answer \in Answers :
               /\ answer = "bytes" \/ prog[pc].kind = "literal"
               /\ py_read_code_memory(answer)
       \/ \E answer \in Answers :
            /\ throwException(f, pc, c, answer = "bytes")
            /\ py_read_code_memory(answer)
  /\ UNCHANGED <<stage, given, wide, options, parsed, dictSize, allocated, lost,
                 result>>

(* The callback puts options into the dictionary or takes some out.         *)
editOptions ==
  /\ state = "translating"
  /\ unfinished # <<>> /\ is_in_range(Head(unfinished)[2])
  /\ dictSize' \in {dictSize - 1, dictSize + 1} \cap (0 .. Extra)
  /\ UNCHANGED <<stage, given, wide, options, parsed, allocated, lost, error,
                 failed, result, unitVars>>

enterTranslation == genCodeEntry /\ UNCHANGED callVars
leaveTranslation == noMoreUnits /\ UNCHANGED callVars

compileCode ==
  /\ compile
  /\ IF state' = "idle"
     THEN stage' = "cleanup" /\ allocated' = allocated \cup {Code}
     ELSE UNCHANGED <<stage, allocated>>
  /\ UNCHANGED <<given, wide, options, parsed, dictSize, lost, error, failed,
                 result>>

KeptLast == {s \in allocated : s[2] >= dictSize}   \* seeded fault: off by one
Kept == {s \in allocated : s[2] > dictSize}

(* The end: as many options are freed as the dictionary has now, of an      *)
(* array of one more than it had; making the result may fail.               *)
cleanUp ==
  /\ stage = "cleanup"
  /\ IF dictSize > Len(options) + 1
     THEN /\ Die("overrun")
          /\ UNCHANGED <<stage, result, allocated, lost, error, given, options,
                         parsed, dictSize>>
     ELSE /\ Live
          /\ \E r \in {"NULL", "dict"} :
               /\ Return(r, Kept)
               /\ error' = (error \/ r = "NULL")
  /\ UNCHANGED <<failed, wide, translationVars>>

-----------------------------------------------------------------------------
Init ==
  /\ UnitsInit
  /\ stage = "out"
  /\ given = <<>> /\ options = <<>> /\ parsed = 0 /\ dictSize = 0
  /\ allocated = {} /\ lost = {}
  /\ error = FALSE /\ failed = FALSE /\ wide = FALSE
  /\ result = "none"

Step == /\ state # "dead"
        /\ \/ parseRanges \/ allocateOptions \/ parseOption
           \/ instrument_memory_access \/ enterTranslation \/ translateUnit
           \/ leaveTranslation \/ compileCode \/ cleanUp
Next == parseArguments \/ editOptions \/ Step

Spec == Init /\ [][Next]_vars
FairSpec == Spec /\ WF_vars(Step)

-----------------------------------------------------------------------------
TypeOK ==
  /\ UnitsTypeOK
  /\ stage \in {"out", "ranges", "options", "translation", "cleanup"}
  /\ options \in OptionLists \cup {<<>>}
  /\ parsed \in 0 .. Len(options)
  /\ dictSize \in Nat
  /\ error \in BOOLEAN /\ failed \in BOOLEAN /\ wide \in BOOLEAN
  /\ result \in {"none", "NULL", "dict"}

(* A call that returns NULL leaves an exception set, as the interpreter     *)
(* demands of every extension function.  One that returns a result may      *)
(* leave one too, which the interpreter forbids, but has only two ways to:  *)
(* the callback failed, and the translator went on with what it could not   *)
(* read, or a limit of the ranges was negative or too wide, and it went on  *)
(* with the largest number.                                                 *)
ErrorFitsResult ==
  stage = "out" =>
    /\ result = "NULL" => error
    /\ result = "dict" /\ error => failed \/ wide

(* No string is lost, unless an option is refused or the callback has taken *)
(* options out of the dictionary: the code frees as many as it has at the   *)
(* end.                                                                     *)
LostOnlyIfRefused ==
  [][(stage' = "out" /\ lost' # {}) =>
       \/ \E k \in DOMAIN options : options[k] # "ok"
       \/ dictSize < Len(options)]_vars

(* Every call ends: it returns to Python or the process dies, whatever the  *)
(* code and the callback do.                                                *)
EveryCallEnds == stage # "out" ~> (stage = "out" \/ state = "dead")
=============================================================================
