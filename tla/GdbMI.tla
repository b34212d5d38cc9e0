-------------------------------- MODULE GdbMI --------------------------------
(***************************************************************************)
(* The connection to a GDB process in machine-interface mode: class GDB    *)
(* (bintools/gdb/mi.py) as GdbDebugger (gdb_debugger.py) uses it for the   *)
(* GDB-server target and for the emulator.                                 *)
(*                                                                         *)
(* Any thread may call a method of GdbDebugger; each sends one command     *)
(* that carries a token and takes one result from results_queue.  Nothing  *)
(* locks the token, the pipe or the queue.  The reader thread takes what   *)
(* GDB printed in chunks and sorts the lines: results to results_queue,    *)
(* the rest to handlers that only post events or log.  A line cut in two   *)
(* by the end of a chunk is put together again by "buffer", unless a line  *)
(* that is just ^done came before it in the chunk: then its first part is  *)
(* lost and what is left of it is read as a line.                          *)
(*                                                                         *)
(* Not modelled: contents of results other than their class, prompts (but  *)
(* for one that a read ends in), and the cache of register names.  Lines   *)
(* that GDB prints unasked, and what can be left of them, are taken not to *)
(* look like results.                                                      *)
(***************************************************************************)
EXTENDS Naturals, Sequences, FiniteSets, Functions

CONSTANTS
  Callers,   \* threads that call methods of GdbDebugger
  MayScript, \* TRUE: execute_gdb_command may be given two lines at once
  MayJunk,   \* TRUE: GDB, or the program it runs, may print other lines
  MayQuit,   \* TRUE: GDB may end
  Radix,     \* of the numerals in which tokens are printed: 10
  MaxWork    \* bound: calls made and lines printed unasked, together

ASSUME GdbAssumption ==
  /\ MayScript \in BOOLEAN /\ MayJunk \in BOOLEAN /\ MayQuit \in BOOLEAN
  /\ Radix \in Nat \ {0, 1}
  /\ MaxWork \in Nat

(* A call, by its caller and its number; NoCall for lines nobody asked for. *)
Calls == [caller : Callers, n : Nat]
NoCall == [caller |-> "gdb", n |-> 0]

(* What GDB prints: "done" stands for the class of result that the method   *)
(* expects (done, running, connected), "error" for any other; "bare" is     *)
(* ^done without a token, "notice" an async or stream record, "junk" a line *)
(* that is no MI record.                                                    *)
Lines == [class : {"done", "error", "bare", "notice", "junk"},
          token : Nat, call : Calls \cup {NoCall}]
Unasked(class) == [class |-> class, token |-> 0, call |-> NoCall]
NotNotice(line) == line.class # "notice" \* seeded fault: all but events
IsResult(line) == line.class \in {"done", "error"}
ResultsIn(lines) == {i \in DOMAIN lines : IsResult(lines[i])}

(* What may be left of a token, or of a line, without its beginning: of     *)
(* 13^done, 3^done, ^done or something that does not parse.                 *)
Endings(n) == {k \in 0 .. n - 1 : \E d \in 1 .. n : k = n % Radix^d}
Remainders(line) ==
  {Unasked("junk")} \cup
  IF IsResult(line)
  THEN {[line EXCEPT !.token = k] : k \in Endings(line.token)} \cup
       {Unasked("bare") : x \in {line.class} \cap {"done"}}
  ELSE {Unasked("notice")}

VARIABLES
  token,    \* self.token
  pc,       \* pc[c]: where caller c is in sync_cmd
  calls,    \* calls[c]: calls c has started
  script,   \* script[c]: c's command has a second line
  sent,     \* sent[c]: the token in c's command
  t,        \* t[c]: the token c waits for
  old,      \* old[c]: the token as read by "self.token += 1" (these are set
            \* back when no longer used)
  outcome,  \* outcome[c]: how c's last finished call ended
  got,      \* got[c]: the call whose result c's last finished call took
  stdin,    \* commands on their way to GDB
  stdout,   \* what GDB printed and the reader has not read
  chunk,    \* what the reader has read and not looked at
  cut,      \* with it, the beginning of the first line of stdout
  results,  \* results_queue
  reader,   \* whether the reader thread is alive
  gdb,      \* whether GDB is
  unasked,  \* lines GDB printed unasked
  overlap,  \* two calls have been open at once
  torn,     \* the beginning of a result has been lost
  dropped   \* results lost with a chunk, commands lost with GDB

callerVars == <<pc, calls, script, sent, t, old, outcome, got>>
readerVars == <<stdout, chunk, cut, results, reader, torn, dropped>>
vars == <<token, callerVars, stdin, stdout, chunk, cut, results, reader, gdb,
          unasked, overlap, torn, dropped>>

Init ==
  /\ token = 1
  /\ pc = [c \in Callers |-> "idle"]
  /\ calls = [c \in Callers |-> 0]
  /\ script = [c \in Callers |-> FALSE]
  /\ sent = [c \in Callers |-> 0]
  /\ t = [c \in Callers |-> 0]
  /\ old = [c \in Callers |-> 0]
  /\ outcome = [c \in Callers |-> "none"]
  /\ got = [c \in Callers |-> NoCall]
  /\ stdin = <<>> /\ stdout = <<>> /\ chunk = <<>> /\ results = <<>>
  /\ cut = FALSE
  /\ reader = "alive" /\ gdb = "alive"
  /\ unasked = 0 /\ overlap = FALSE /\ torn = FALSE /\ dropped = 0

-----------------------------------------------------------------------------
(* The callers: send_cmd, in the steps between which threads may switch,    *)
(* then get_result and the test of the class in sync_cmd.                   *)
Current(c) == [caller |-> c, n |-> calls[c]]
WorkLeft == FoldFunction(+, unasked, calls) < MaxWork

Format(c) ==
  /\ pc[c] = "idle"
  /\ WorkLeft
  /\ pc' = [pc EXCEPT ![c] = "formatted"]
  /\ calls' = [calls EXCEPT ![c] = @ + 1]
  /\ \E two \in BOOLEAN : /\ two => MayScript
                          /\ script' = [script EXCEPT ![c] = two]
  /\ sent' = [sent EXCEPT ![c] = token]
  /\ overlap' = (overlap \/ \E d \in Callers : pc[d] # "idle")
  /\ UNCHANGED <<token, t, old, outcome, got, stdin, readerVars, gdb, unasked>>

Note(c) ==
  /\ pc[c] = "formatted"
  /\ pc' = [pc EXCEPT ![c] = "noted"]
  /\ t' = [t EXCEPT ![c] = token]
  /\ UNCHANGED <<token, calls, script, sent, old, outcome, got, stdin,
                 readerVars, gdb, unasked, overlap>>

(* If GDB has ended, write or flush raises and the token is used again.     *)
Write(c) ==
  /\ pc[c] = "noted"
  /\ \/ /\ gdb = "alive"
        /\ pc' = [pc EXCEPT ![c] = "written"]
        /\ stdin' = Append(stdin, [token |-> sent[c], call |-> Current(c),
                                   script |-> script[c]])
        /\ UNCHANGED <<t, outcome>>
     \/ /\ gdb = "dead"
        /\ pc' = [pc EXCEPT ![c] = "idle"]
        /\ outcome' = [outcome EXCEPT ![c] = "error"]
        /\ t' = [t EXCEPT ![c] = 0]
        /\ UNCHANGED stdin
  /\ sent' = [sent EXCEPT ![c] = 0]
  /\ script' = [script EXCEPT ![c] = FALSE]
  /\ UNCHANGED <<token, calls, old, got, readerVars, gdb, unasked, overlap>>

ReadToken(c) ==
  /\ pc[c] = "written"
  /\ pc' = [pc EXCEPT ![c] = "adding"]
  /\ old' = [old EXCEPT ![c] = token]
  /\ UNCHANGED <<token, calls, script, sent, t, outcome, got, stdin,
                 readerVars, gdb, unasked, overlap>>

NextToken(c) == old[c] + 1

StoreToken(c) ==
  /\ pc[c] = "adding"
  /\ pc' = [pc EXCEPT ![c] = "blocked"]
  /\ token' = NextToken(c)
  /\ old' = [old EXCEPT ![c] = 0]
  /\ UNCHANGED <<calls, script, sent, t, outcome, got, stdin, readerVars, gdb,
                 unasked, overlap>>

(* get_result blocks until there is a result, whoever it is for.            *)
ResultLeft(r) == results               \* seeded fault: peeked at, not taken
ResultsAfter(r) == Tail(results)

(* A result with another token is thrown away, and MIProtocolException      *)
(* raised; so it is if the class is not the one expected.                   *)
Judged(c, r) == IF r.token # t[c] THEN "mismatch"
                ELSE IF r.class = "done" THEN "ok" ELSE "error"

GetResult(c) ==
  /\ pc[c] = "blocked"
  /\ results # <<>>
  /\ pc' = [pc EXCEPT ![c] = "idle"]
  /\ results' = ResultsAfter(Head(results))
  /\ got' = [got EXCEPT ![c] = Head(results).call]
  /\ outcome' = [outcome EXCEPT ![c] = Judged(c, Head(results))]
  /\ t' = [t EXCEPT ![c] = 0]
  /\ UNCHANGED <<token, calls, script, sent, old, stdin, stdout, chunk, cut,
                 reader, gdb, unasked, overlap, torn, dropped>>

-----------------------------------------------------------------------------
(* The reader thread (run, add_msg). *)

(* A read ends after a line, or in the next one, or between a prompt and    *)
(* its newline: then what is left of the prompt is an empty line, which     *)
(* does not parse.                                                          *)
ReadChunk ==
  /\ reader = "alive"
  /\ chunk = <<>>
  /\ \E n \in DOMAIN stdout, end \in {"line", "part", "prompt"} :
       LET rest == SubSeq(stdout, n + 1, Len(stdout))
       IN /\ chunk' = SubSeq(stdout, 1, n)
          /\ cut' = (end = "part")
          /\ end = "part" => rest # <<>>
          /\ stdout' = IF end = "prompt" THEN <<Unasked("junk")>> \o rest
                                         ELSE rest
  /\ UNCHANGED <<token, callerVars, stdin, results, reader, gdb, unasked,
                 overlap, torn, dropped>>

(* What is left of the chunk, and of what GDB printed: a line that is just  *)
(* ^done takes along all that was read with it.                             *)
ChunkDropped(line) == <<>>             \* seeded fault: after any line
ChunkAfter(line) == IF line.class = "bare" THEN <<>> ELSE Tail(chunk)
StdoutAfter(line) ==
  IF line.class = "bare" /\ cut
  THEN {<<rest>> \o Tail(stdout) : rest \in Remainders(Head(stdout))}
  ELSE {stdout}

(* A ParseError is not a MIProtocolException: it ends the thread.           *)
ReadLine ==
  /\ reader = "alive"
  /\ chunk # <<>>
  /\ LET line == Head(chunk)
         bare == line.class = "bare"
     IN /\ chunk' = ChunkAfter(line)
        /\ stdout' \in StdoutAfter(line)
        /\ results' = IF IsResult(line) THEN Append(results, line) ELSE results
        /\ reader' = IF line.class = "junk" THEN "dead" ELSE "alive"
        /\ cut' = (cut /\ chunk' # <<>>)
        /\ torn' = (torn \/ (bare /\ cut /\ IsResult(Head(stdout))))
        /\ dropped' = IF bare
                      THEN dropped + Cardinality(ResultsIn(Tail(chunk)))
                             + (Cardinality(ResultsIn(stdout))
                                  - Cardinality(ResultsIn(stdout')))
                      ELSE dropped
  /\ UNCHANGED <<token, callerVars, stdin, gdb, unasked, overlap>>

(* read returns no byte; nothing is put in results_queue. *)
ReadEnd ==
  /\ reader = "alive"
  /\ chunk = <<>> /\ stdout = <<>>
  /\ gdb = "dead"
  /\ reader' = "dead"
  /\ UNCHANGED <<token, callerVars, stdin, stdout, chunk, cut, results, gdb,
                 unasked, overlap, torn, dropped>>

-----------------------------------------------------------------------------
(* GDB: external.  It answers each line it is given; the second line of a   *)
(* command bears no token.  It prints other lines as it likes.              *)
Answer ==
  /\ stdin # <<>>
  /\ stdin' = Tail(stdin)
  /\ \E class \in {"done", "error"} :
       LET line == [class |-> class, token |-> Head(stdin).token,
                    call |-> Head(stdin).call]
       IN stdout' = stdout \o IF Head(stdin).script
                              THEN <<line, Unasked("bare")>> ELSE <<line>>
  /\ UNCHANGED <<token, callerVars, chunk, cut, results, reader, gdb, unasked,
                 overlap, torn, dropped>>

Unprompted(class) ==
  /\ WorkLeft
  /\ gdb = "alive"
  /\ class = "junk" => MayJunk
  /\ unasked' = unasked + 1
  /\ stdout' = Append(stdout, Unasked(class))
  /\ UNCHANGED <<token, callerVars, stdin, chunk, cut, results, reader, gdb,
                 overlap, torn, dropped>>

(* GDB ends, without an answer to the commands it has not read. *)
Quit ==
  /\ MayQuit /\ gdb = "alive"
  /\ gdb' = "dead"
  /\ stdin' = <<>>
  /\ dropped' = dropped + Len(stdin)
  /\ UNCHANGED <<token, callerVars, stdout, chunk, cut, results, reader, unasked,
                 overlap, torn>>

-----------------------------------------------------------------------------
CallerStep(c) == \/ Note(c) \/ Write(c) \/ ReadToken(c) \/ StoreToken(c)
                 \/ GetResult(c)
ReaderStep == ReadChunk \/ ReadLine \/ ReadEnd

Next == \/ \E c \in Callers : Format(c) \/ CallerStep(c)
        \/ ReaderStep
        \/ Answer
        \/ \E class \in {"notice", "junk"} : Unprompted(class)
        \/ Quit

Spec == Init /\ [][Next]_vars

(* Threads that can run do, and GDB answers. *)
FairSpec == /\ Spec
            /\ \A c \in Callers : WF_vars(CallerStep(c))
            /\ WF_vars(ReaderStep) /\ WF_vars(Answer)

-----------------------------------------------------------------------------
Commands == [token : Nat, call : Calls, script : BOOLEAN]

TypeOK ==
  /\ token \in Nat /\ unasked \in Nat
  /\ cut \in BOOLEAN /\ overlap \in BOOLEAN /\ torn \in BOOLEAN /\ dropped \in Nat
  /\ pc \in [Callers -> {"idle", "formatted", "noted", "written", "adding",
                         "blocked"}]
  /\ calls \in [Callers -> Nat]
  /\ script \in [Callers -> BOOLEAN]
  /\ sent \in [Callers -> Nat] /\ t \in [Callers -> Nat]
  /\ old \in [Callers -> Nat]
  /\ outcome \in [Callers -> {"none", "ok", "error", "mismatch"}]
  /\ got \in [Callers -> Calls \cup {NoCall}]
  /\ stdin \in Seq(Commands)
  /\ stdout \in Seq(Lines) /\ chunk \in Seq(Lines)
  /\ results \in Seq([class : {"done", "error"}, token : Nat, call : Calls])
  /\ reader \in {"alive", "dead"} /\ gdb \in {"alive", "dead"}

(* As long as calls do not overlap, a method that ends without an exception *)
(* has the result of its own command, not of another thread's or of an      *)
(* earlier one, whatever GDB prints in between; and no token is met that is *)
(* not expected, unless the beginning of a result was lost with a ^done.    *)
OwnResult(c) == pc[c] = "idle" /\ outcome[c] = "ok" => got[c] = Current(c)
InStep ==
  ~overlap => \A c \in Callers : OwnResult(c) /\ (outcome[c] = "mismatch" => torn)

(* However the threads mix up their tokens and take each other's results,   *)
(* there is one result under way for each call that waits for one, but for  *)
(* those lost with a line ^done or with GDB, counted where they are lost:   *)
(* the damage does not outlast the calls that are open, and nobody else is  *)
(* left without a result.                                                   *)
ResultsBalanced ==
  Cardinality({c \in Callers : pc[c] \in {"written", "adding", "blocked"}})
    = Len(stdin) + Cardinality(ResultsIn(stdout))
      + Cardinality(ResultsIn(chunk)) + Len(results) + dropped

(* Every call ends, unless the reader met a line that it cannot parse, or   *)
(* the end of GDB's output, or a result was lost.                           *)
CallsEnd ==
  \A c \in Callers :
    pc[c] # "idle" ~> pc[c] = "idle" \/ reader = "dead" \/ dropped > 0
=============================================================================
