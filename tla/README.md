# Verification of avatar-python

Avatar runs a firmware image in an emulator (S2E) while the memory accesses and, if wanted, the
execution of the firmware are forwarded to the real device. `avatar-python` is the program in the
middle: it talks to the emulator, to the device (through a debug stub, a GDB server or OpenOCD) and to
the user's script. `binary_translator`, an extension module, makes native code of Thumb code so that its
memory accesses can be handled by the caller. This directory holds TLA+ models of it, TLC runs that check them on small instances,
and TLAPS proofs for every instance.

## 1. The system

All paths are below `src/`. "Thread" is a Python thread.

| Component | Files | State | Operations | Interacts with |
|---|---|---|---|---|
| Avatar stub connection | `avatar/interfaces/avatar_stub/`, `avatar/targets/avatarstub_target.py` | command queue, queue of synchronous messages, a condition variable and a reference per call, terminate flags | set/get register, read/write memory (typed, untyped), execute codelet, cont, stop; send thread; receive thread; asynchronous handler | stub over a socket; posts events |
| Event dispatch and breakpoints | `avatar/system.py`, `avatar/debuggable.py`, the breakpoint classes in `avatar/targets/` and `avatar/emulators/` | event queue, listener list, terminate flag; per breakpoint a queue and a handler | post_event, register/unregister listener, set/clear breakpoint, wait, set_handler, delete; event thread | every component posts events |
| GDB machine interface | `avatar/bintools/gdb/mi.py`, `gdb_debugger.py` | token, results queue, reader thread | sync_cmd and the methods of GdbDebugger built on it | GDB process; async records become events |
| MI record parser | `avatar/bintools/gdb/mi_parser.py` | none | parse | used by the reader thread above |
| GDB remote serial server | `avatar/interfaces/gdb/gdb_server.py` | acknowledgement mode, breakpoints by address | `? g G m M c s Z z`; stop replies from the event thread | GDB client, target |
| Remote memory and call proxy | `avatar/interfaces/s2e_remote_memory.py`, `avatar/call_proxy.py`, `avatar/emulators/emulator.py` | monitors, handlers, stop event | read, write, set/get CPU state, continue, checksum | S2E plugin; target |
| System lifecycle | `avatar/system.py`, `avatar/emulators/s2e/s2e_emulator.py` | emulator, target, threads | init, start, stop, exit | all |
| OpenOCD target | `avatar/targets/openocd_target.py`, `openocd_jig.py` | telnet session | halt, resume, step, registers, memory | OpenOCD process |
| Memory range plugin | `avatar/plugins/` | ranges with access counts | record an access, merge ranges | monitor of the call proxy |
| Translator call | `binary_translator/src/python_interface.c`, `c_interface.cpp`, `ProxyMemoryObject.cpp` | arrays and strings allocated for a call, the interpreter's exception | instrument_memory_access; the callback that reads code | Python; worklist |
| Translation worklist | `binary_translator/src/InstructionTranslationUnitCache.cpp`, `InstructionDecoder.cpp` | units by function and address, their phi nodes, the list of unfinished ones; both for the life of the process | find_create, get_next, translate, compile | translators, LLVM |
| ARM instruction semantics | `binary_translator/src/ArmReverseTranslators.cpp` | values of registers and flags in a unit | one translator per opcode, getCondition; entry and exit code | worklist |
| Memory access instrumentation | `binary_translator/src/InstrumentMemoryAccessPass.cpp` | none | replaces marked loads and stores by calls of handlers | the code emitted |
| Path-based translation | `binary_translator/src/PathsManager.cpp`, `PathState.cpp` | open paths | none is called | |

The other parts of the repository (S2E configuration text, adapters between LLVM interfaces and byte
arrays, a remote-serial client that nobody instantiates, test data, packaging) are listed in
`PROJECT.json` with the reason they are left out.

### How they run together

A user script calls `System.start`, sets breakpoints on the target or the emulator and waits for them.
There are then at least these threads: the script's own; the event thread of `System`; the send and the
receive thread of the stub connection *or* the reader thread of GDB/MI; the reader thread of the
emulator's GDB; the remote-memory thread, which calls the target on behalf of the emulator; and, when
used, the RSP server's thread. They share the queues named above and, without a lock, the listener list,
the breakpoint tables and the MI token. Breakpoint handlers run on the event thread and call the target.

### What is hard, and what correctness means

* **Stub connection.** Replies bear no identifier, so the code relies on having one command in flight;
  a reply may be late, lost or repeated; a timeout kills the send thread; callers wait without a
  timeout; the handler of asynchronous messages runs on the very thread that delivers replies. Correct:
  a call gets the answer to *its* command, no wake-up is lost, calls end, stop ends the threads.
* **Events.** The listener list is iterated while others change it; tables are tested and updated in two
  steps; an event may be queued for longer than its breakpoint lives. Correct: in order, at most once,
  to those who listen; the hit of a breakpoint reaches its waiter; nobody gets another one's hit.
* **GDB/MI.** Token and results queue are shared by callers without a lock. Correct: a call gets its own
  result, no call waits for ever.
* **RSP server, OpenOCD.** Two threads write to one socket; output is attributed to commands by its
  order. Correct: framing holds, a reply follows its command.
* **Remote memory.** A failed request gets no reply although the emulator waits; `continue` is answered
  before the target has stopped. Correct: replies match requests in order, the emulator's view of memory
  is the target's.
* **Translator.** The worklist grows while it is consumed, edges are added as their targets are met, an
  exception cuts the work short, and list and cache outlive the call. Correct: every reachable
  instruction is translated once, each phi node has a value for each edge, freed memory is not used. The
  callback is Python code that may fail or change the arguments. Correct: the call ends, NULL means an
  exception, nothing is lost or freed twice.
* **Emitted code.** Flags are computed by formulas, read by other formulas, and packed into the CPSR and
  unpacked; loads and stores are replaced afterwards by calls. Correct: the function does what the
  processor does, and every access is reported.

`PROJECT.json` lists each hazard at its line, with the properties that cover it or a note that says why there
is none.

## 2. Modules

| Module | Models | State and actions in terms of the code |
|---|---|---|
| `StubMessages` | vocabulary of the stub protocol | `ReplyOf`/`Expected`: the `expected_replies` of each method of `AvatarProtocol`; `Outcome`: which methods look at the reply |
| `RemoteCalls` | abstract specification | a call is issued, performed by the stub at most once, and ends the way the answer to *it* says; no threads, no queues, no wire |
| `AvatarStub` | stub connection | `queue` = `_queued_commands`, `inbox` = `_received_synchronous_messages`, `cvFree`/`notified` = a call's condition variable, `ref` = its `Reference`. `Put`, `Wait`, `Return`: a method of `AvatarProtocol`; `Tx...`: `run_send`; `Rx...`: `run`, `parse_message`, `_handle_received_message`; `RxState`: the handler of `AvatarstubTarget`, which makes the receive thread a caller; `Construct`: the order in which the constructors start threads and set attributes; `StubAnswer`, `StubCorrupt`, `TargetHalts`, `Disconnect`: the device and the wire (external) |
| `AvatarStubProofs` | theorems about `AvatarStub` | section 5 |
| `EventDispatch` | event queue, event thread, breakpoints, `EventWaiter` | `posted`/`taken` = `_events`, `listeners` and `pos` = the list and the iterator over it. `SetCheck`, `SetArm`, `SetRegister`: set_breakpoint in the steps between which threads may switch; `Wait`, `WaitReturns`, `SetHandler`, `Unregister`, `Clear`: the breakpoint's methods; `LoopStep`, `Take`, `Deliver`, `HandlerReturns`, `RoundEnds`: `_process_events` |
| `GdbMI` | GDB/MI connection | `token`, `results` = `results_queue`, `t` = what `get_result` waits for. `Format`, `Note`, `Write`, `ReadToken`, `StoreToken`: `send_cmd` in its switchable steps; `GetResult`: `get_result` and the test in `sync_cmd`; `chunk` and `cut` = `data`, whole lines and whether a line is cut by its end. `ReadChunk`, `ReadLine`, `ReadEnd`: `run` and `add_msg`; `Answer`, `Unprompted`, `Quit`: GDB (external) |
| `ForwardedMemory` | abstract specification | requests are performed in order, each at most once and at one moment; a read answers what the memory held then; a request may fail and has no answer then |
| `RemoteMemory` | remote memory, call proxy, the end of S2E, the plugin's view | `inward`, `outward` = the socket, `request` = the request in `_run`, `events` = `System._events`, `stopped` = `_stop`. `Connect`, `Receive`, `End`: `_run`; `Before`, `After`: the monitors around an access; `Read`, `Write`, `SetRegister`, `GetRegister`, `Continue`, `Checksum`: the handlers of `EmulatorTargetCallProxy`, one call of the target per step; `launcher`: where `run_s2e_process` is, `Launch`: GDB is connected or given up, `Die`, `Exit`: its end; `Observe`: `MemoryRangeIdentifier._process_event`; `Request`, `TakeReply`, `Halt`: emulator and target (external); `ScriptWrites`: the script |
| `Reachability` | abstract specification | a translation visits what control can reach from the entry, each point once and in any order; it is complete or given up |
| `TranslationUnits` | worklist | `cache` and `unfinished` = the maps and the list of `InstructionTranslationUnitCache`, with the number of the call that made a unit; `incoming` = values in the phi nodes, `term` = terminators of the blocks. `NewTranslator`, `genCodeEntry`: constructor; `genCodeExit`, `translateSingleInstruction`, `softFail`, `throwException`: a pass of the loop of `translate`; `find_create`, `addIncoming`: the cache; `compile` |
| `TranslatorCall` | the call from Python, composed with the worklist | `allocated` = what malloc and strdup returned; `options`, `parsed`, `dictSize` = the dictionary, `i` and its size now; `error` = an exception is set. `parseArguments`, `parseRanges`, `allocateOptions`, `parseOption`, `cleanUp`: the parts of `py_instrument_memory_access`; `translateUnit` with the answer of `py_read_code_memory`; `editOptions`: the callback changes the dictionary (external) |
| `ThumbWords` | vocabulary | words, memory in bytes, instructions as records |
| `ThumbMachine` | abstract specification | the Thumb processor: one step per instruction |
| `TranslatedCode` | the function "wrapper" as it runs | `cpu` = the struct, `val` and `flag` = the values of a unit, `handled` = calls of the handlers. One action per translator; `genCodeEntry`, `genCodeExit`; `runOnBasicBlock`: the instrumentation |
| `EventDispatchProofs`, `GdbMIProofs`, `RemoteMemoryProofs`, `TranslatorCallProofs`, `TranslatorCallRefinement`, `TranslatedCodeProofs`, `TranslatedCodeRefinement` | theorems | section 5 |
| `MCAvatarStub`, `MCEventDispatch`, `MCGdbMI`, `MCRemoteMemory`, `MCTranslatorCall`, `MCTranslatedCode` | instances for TLC | symmetry sets, the order of registers, programs, instructions |

Definitions marked *seeded fault* are not part of any specification: each is a wrong version of the
definition after it, and serves to show that a property notices that error.

### Modelling decisions

* A message is its name. `cmd`, the command a reply answers, is carried along for the properties and
  never read by an action of the code; the same holds for `call` in `GdbMI` and for the histories
  `answered`, `abandoned`, `hits`, `reported`, `seen`, `born`, `skewed`, `stopAt`, `got`.
* **`AvatarStub`.** The `_terminate` flags of the two threads are one variable; `stop` sets them one
  after the other, and as each thread looks at its flag only at its own pace, nothing is gained by
  setting them apart. `_state` is written and never read. `_send_lock` is taken by the send thread alone,
  since the page-fault branch raises before it would take it (its handler does not exist). On a closed
  connection `send` may raise or may not; both are possible. `recv` then returns no byte, and the
  subscript raises. On an open one `send_message` may raise as well (`MayRaise`): `struct.pack` for an argument that does not fit
  its field, or the timeout of the socket.
* **`TimelyStub`** says that an answer that can still come does so within `RESPONSE_TIMEOUT`; it is FALSE
  except where liveness is checked.
* **`EventDispatch`.** The address of an `AvatarBreakpoint` may be used again; the numbers of
  `GdbBreakpoint` and `S2EBreakpoint` are fresh (`FreshKeys`). A SIGABRT of the inferior goes to all GDB
  breakpoints and, in the queue even if there is a handler. `clear_breakpoint` of `AvatarstubTarget` does
  not restore the instruction, so the address may still be hit. `EventWaiter.__del__` never runs: the
  listener list keeps the object alive. `Queue.get(1)` takes 1 as `block`.
* **`GdbMI`.** A thread may be preempted between the two reads of the token, and between read and store
  of `+= 1`. Registers of a thread (`sent`, `t`, `old`) are set back when no longer used, which merges
  states and changes nothing else. A line that does not parse raises an exception that the reader
  does not catch. A read ends after a line, within one (`cut`), or between a prompt and its newline; the last leaves an empty line, which
  does not parse. `buffer` puts a cut line together again, unless a line that is just `^done` came before it: its first part
  then goes with the chunk, and `Remainders` is what the rest of it may look like, a result with a shorter token among them.
  GDB may end: the reader thread ends without a word to those that wait, and `send_cmd` raises. `overlap`, `torn` (the beginning of a result
  was lost) and `dropped` (results lost with a `^done`, whole or in part, and commands lost with GDB) are histories.
* **`RemoteMemory`.** The target is a GDB server: `run_s2e_process` takes `get_checksum` of the target, which
  `AvatarstubTarget` does not have. A call is one step, in which GDB performs or refuses it; it refuses
  everything while the target runs. That a call gets its own result is what `GdbMI` shows for calls
  that do not overlap. The counter of connection attempts is the code's (nine). `written` and `wanted` are what the
  emulator last asked for, `failed` a history. `get_register` returns 0 for what GDB refuses, but for
  what is raised while the name of the register is looked up. The `cpsr` is among the registers and in every CPU state, and is never
  transferred. `run_s2e_process` connects GDB before it waits for the end of S2E, and gives up after ten attempts; then `exit` is not called. An attempt
  is taken to return. The plugin may not be given a write (`MayMiss`): the list of listeners is the one of `EventDispatch`, where
  one is skipped, and its assertions on the size of a write may fail. `unseen` are the addresses whose last write it missed.
* **`TranslationUnits`.** Program counters are counted in instructions; an instruction is the kind of its
  successors. A basic block is its program counter. LLVM allocates a `Function` at any address, also that of
  an earlier one. The use of a freed block is undefined; the behaviour ends there (`fault`). An
  exception of `translate` is swallowed by its `catch (...)`; one of `compile` reaches the C caller and
  ends the process. The instruction set is always Thumb: `getDisassembler` asserts it, and the
  constructor ignores its argument beyond an assertion.
* **`TranslatorCall`.** A limit of a range is a program counter or `TooWide`, any integer that is not one of 64 bits:
  `PyLong_AsUnsignedLongLong` makes of it the largest number, which `MaxPc` stands for, and sets an exception. `malloc` fails only where the code asks for its result. `strdup`s are counted, reference counts
  are not: the code keeps a reference to each ASCII string, to the arguments tuple of each callback and
  to `py_generated_code`, which are never given back.
* **`TranslatedCode`.** The order of the instructions is arbitrary, since every one may follow every other; where
  control goes is `TranslationUnits`' concern, here it is only `jumped`. A right shift by 0 means by the
  whole width. A left shift by 0 takes its carry from an LLVM shift by the whole width, which may give anything.
  The read handler's word is cut to the width of the load. The literal of `tLDRpciASM` is part of the
  instruction, being read at translation. `genCodeExit` does not write the program counter, and there is
  no field for it.

## 3. Runs

Passing runs:

| Run | Checks | Instance | Why that is enough |
|---|---|---|---|
| `StubFaults` | `TypeOK`, `ReplyRouted`, `OneInFlight`, `WaitersAccounted`, `NoneAbandoned` | 2 clients, 2 calls each, the handler's own call; 1 loss, 1 repeated reply, any timeouts | three callers compete, a caller comes back after an earlier call, and every fault meets every stage of a call; the proofs cover the rest |
| `StubShutdown` | `WaitersAccounted`, `RemoteSpec`, `StopEndsThreads` | 2 clients, 2 calls each, the handler of `AvatarstubTarget`, 1 halt; stop, disconnect, loss, failure to send at any moment | an implementation check with all that can end a thread; with two calls, an answer to the first can be mistaken for the second's |
| `StubLive` | `CallsReturn` | 2 clients, 2 calls each, a halt, default handler, timely stub, no stop | calls queue behind each other; each must come to its turn |
| `EventDelivery` | `TypeOK`, `DeliveredInOrder`, `MissedOnlyBySkew`, `StopQuiet` | 2 threads and the event thread in handlers, 2 breakpoints, 2 addresses, 2 events, stop | removal before, at and after the iterator's position; order needs two events |
| `EventNumbers` | `NoStaleHit`, `HitDeliveredUnlessSkewed` | 1 thread and the event thread, GDB numbers, 2 breakpoints, 2 events (hits, aborts) | a breakpoint can be deleted and another set between post and delivery |
| `GdbThreads` | `TypeOK`, `InStep`, `ResultsBalanced`, `CallsEnd` | 2 threads; 2 calls and unasked lines together (`MaxWork`), two-line commands, cut lines, tokens printed in base 2, GDB ends at any moment | two calls, one after the other or at once, that mix up their tokens or meet what a two-line command left; a call with a line of each kind before its result; in base 2 the second token already loses its first digit. What a third call meets is in the proofs |
| `MemoryForward` | `TypeOK`, `ReplyInStep`, `RegistersHandedOver`, `Tracked`, `ForwardedSpec`, `Answered`, `ServerEnds` | 1 address, 2 values, 2 registers and `cpsr`, 2 CPU states without a common value, 3 requests, 1 change by the script; refusals, exceptions, missed events, the end of S2E and of the attempts to connect at any moment | a CPU state half handed over, then another, then continue; a read behind two writes (what matters is their order, not where they go); a failure before, at and after the access; S2E ends before, while and after GDB is connected |
| `TranslatedThumb` | `TypeOK`, `ComparesDecide`, `AccessesReported`, `MachineSpec` | words of 4 bits (four bytes of one bit), all pairs of two registers with two CPSRs, all CPSRs for one pair; every opcode, immediates at both ends; 1 instruction between entry and exit, as often as entry and exit fit | each instruction meets all operands and flags; a step depends on the state alone, so that one instruction from each state is every sequence; the proofs cover the width |
| `TranslatorCalls` | `TypeOK`, `PhisMatchEdges`, `TranslatedOnce`, `FreedOnlyAfterCut`, `ErrorFitsResult`, `LostOnlyIfRefused`, `ReachSpec`, `EveryCallEnds` | 36 programs of three instructions, each entry, three lists of ranges, one with a limit too wide, five of options; 2 calls, 2 addresses of functions, any failure of the callback | loops, branches to the next instruction and to itself, two branches to one place, code cut short; the second call meets what the first left |

Runs in which TLC finds a violation, each of a statement made in the repository:

| Run | Property | What happens |
|---|---|---|
| `StubBreakpoint` | `HitsReported` | `AvatarstubTarget`'s handler calls `get_register` on the receive thread, which then waits for a reply only it can deliver; the send thread times out and dies; the breakpoint event is never posted |
| `EventSkipped` | `HitDelivered` | deleting a breakpoint during a round shifts the list under the iterator; the next listener is skipped, and its `wait` sleeps on |
| `AddCarry` | `CarryAsAdded` | 0 + 1 sets the carry: `translate_tADDi8` also sets it when the immediate is larger than the register |

More disagreements are in the models and have no run of their own. With addresses that are used
again (`FreshKeys = FALSE`), `NoStaleHit` fails: a hit still queued when its breakpoint is deleted wakes the
waiter of a new `AvatarBreakpoint` at the same address. When two threads send at the same time they can use the
same MI token, and one is given the other's result (`InStep` says so only of calls that do not overlap). The
remote memory replies to `continue` while the target runs ("here we should wait for the breakpoint to be
hit", `s2e_remote_memory.py:149`); the emulator's next read is refused by GDB and never answered. It also continues the target without the emulator's `cpsr`
(`call_proxy.py:65`), so with the flags and the T bit the target had. If S2E ends before GDB has been connected to it, `run_s2e_process` raises
(`s2e_emulator.py:143`), `exit` is not called, and the server thread runs on; `ServerEnds` says so only of what comes after the connection. After `stop`
the receive thread does not end if it waits for the reply to its own `get_register`, which `StopEndsThreads` excuses.

What the translator does beside its documents, without being a property: `instrument_memory_access` returns 0
always (`c_interface.h:47` promises an error code), so that code that could not be translated gives a function
with blocks without an end; a shift takes its carry from the result instead of the operand; `tPUSH` stores its registers in the
reverse of the architecture's order, and its stores are not instrumented; after a translation was cut short the
next one fails at once, since it takes the units that were left; without `opts` a pointer is used uninitialised; a limit below 0 or of more than 64 bits leaves an `OverflowError` set
beside the result;
a callback that adds two options makes the end of the call read past its array. `ThumbMachine` leaves the
carry of a shift and the order of `tPUSH` open on purpose.

`CHECK_DEADLOCK FALSE` is said in all of them: with bounded calls and events the models really end, and
threads of the program may block for good (a caller after the send thread died, the event thread
in `get`). That nobody blocks who should not is stated by the liveness properties instead.

The bounds are `MaxCalls`, `MaxHalts`, `MaxLost`, `MaxDup` (`AvatarStub`), `MaxEvents`
(`EventDispatch`), `MaxWork` (`GdbMI`), `MaxRequests`, `MaxOthers` (`RemoteMemory`); all are guards of environment actions or of the start
of a call, never of a step of the program's own threads. In `TranslatorCalls` they are `MaxCalls` (guard of
the start of a call), `MaxPc` (size of the code) and `Extra` (guard of the callback's edits); `TranslatedThumb` has `MaxSteps`, in
the guard of every instruction, which bounds the length of the run of the emitted code.

## 4. Fairness

Weak fairness is assumed of the steps of a thread that is not blocked: the operating system schedules
Python threads preemptively, and no thread of these components spins on a lock. `AvatarStub` further
assumes that the device answers what it receives (`WF(StubAnswer)`) and `GdbMI` that GDB does; `RemoteMemory` assumes that a call of the
target returns, that S2E reads its replies, that connecting GDB succeeds or is given up (`WF(Launch)`: ten attempts, three seconds apart), and
that the thread that then waits for the end of S2E runs `exit`. Nothing makes S2E live until GDB has been connected. `TranslatorCall` assumes that
a call that has begun goes on (`WF_vars(Step)`: one thread in C code, and a callback that returns). Nobody has
to call a method, post an event, call stop, halt or lose anything; GDB and S2E need not end. Under `TimelyStub` timeouts are only
taken when no answer can come. No strong fairness is used: a waiter that is notified finds its lock
free, since its only competitor has let go of it before.

## 5. Proofs

### The stub connection

`AvatarStubProofs` proves, for any set of clients, any subset of the operations, and any bounds (only
`StubAssumption` is assumed: the types of the constants, and that the receive thread is not a client):

| Theorem | Statement |
|---|---|
| `TypeCorrect` | `Spec => []TypeOK` |
| `RepliesRouted` | `Spec => []ReplyRouted`: a call never ends with the answer to another command |
| `OneAtATime` | `Spec => []OneInFlight` |
| `NoLostWakeup` | `Spec => []WaitersAccounted` |
| `CallersKept` | `Spec => []NoneAbandoned` |
| `Implements` | `MaxDup = 0` implies `Spec => RemoteSpec`: the threads, queues and condition variables implement the abstract remote calls, in spite of timeouts, losses, stop and disconnection |

All but the last follow from `Inductive`, `Spec => []IInv`. The invariants are not inductive alone. That
a matched reply belongs to the command of the send thread (`ReplyRouted`) depends on there being no other
reply about, which depends on the send thread not taking a command while an answer may be coming
(`OneInFlight`), which depends on its not going on after a timeout. `IInv` adds: `CallsInv`, a caller
holds its lock exactly until it waits, and has an answer when notified; `QueueInv` and `CurInv`, queued
commands and the one in work are *pending* (their caller waits, unanswered) and at most one per caller;
`WireInv`, whatever is on the wire or in the inbox is the answer to the command in work, and the
stub knows nothing of the queued ones; `BornInv`, the send thread starts late in the construction.
`WireInv` is claimed while the stub has repeated no reply. The proof goes through the actions one by one;
`PutInv`, `PutWire` and `DropInv` are the parts that several actions share. `Implements` maps `Put` to
`Issue`, `StubAnswer` to `Perform`, `Return` to `Return` and all else to stuttering; where `Return` maps to
`Return` it needs `ReplyRouted` for the outcome and `answered`.

`IInv` was model-checked on the instance of `StubFaults` before it was proved.

### Event dispatch

`EventDispatchProofs` assumes `DispatchAssumption` (the types of the constants) and proves, for any threads, breakpoints, keys and
number of events:

| Theorem | Statement |
|---|---|
| `TypeCorrect` | `Spec => []TypeOK` |
| `InOrder` | `Spec => []DeliveredInOrder` |
| `MissedBySkew` | `Spec => []MissedOnlyBySkew` |
| `QuietAfterStop` | `Spec => []StopQuiet` |
| `FreshHits` | `Spec => []NoStaleHit`, if `FreshKeys` |

The list may change between any two steps of the iteration. That a listener is given an event once rests on
`OrderInv`: those at or after `pos` were given earlier events only; an insertion is at the end and brings a breakpoint that was given nothing
(`UsersInv`: a breakpoint being set belongs to one thread and is not in the list), and a removal only
moves listeners down, so that none gets behind `pos` and back again. A removal before `pos` moves one past the iterator: this is the
miss that `RoundInv` allows only when `skewed`. `StopInv` adds where the loop looks at the flag. `NoStaleHit` rests on
`KeysInv`: a GDB number belongs to one breakpoint, and every hit of it was posted after the insertion. For addresses
this fails, as `MissedOnlyBySkew` would without `skewed`. The lemmas `Joins` and `Leaves` say what `Append` and
`RemoveAt` do to the list, position by position. `IInv` was model-checked for both kinds of keys before it was proved.

### The GDB machine interface

`GdbMIProofs` assumes `GdbAssumption` (the types of the constants; not that there are finitely many threads) and proves, for
any threads, any number of calls and any lines of GDB:

| Theorem | Statement |
|---|---|
| `TypeCorrect` | `Spec => []TypeOK` |
| `OneResultPerCall` | `Spec => []ResultsBalanced`: however tokens and results are mixed up, lines are cut, and GDB ends |
| `CallsInStep` | `Spec => []InStep`: while calls do not overlap, each gets its own result, and a token mismatches only after the beginning of a result was lost |

`ResultsBalanced` counts, so the proof is about cardinalities: the lemmas `CountConcat`, `CountAppend`, `CountHead` and
`CountCut` say how many results there are in sequences of lines that are put together, taken from or cut, and
`BalanceInv` adds that the callers that wait are a finite set and that a result line is always some call's. For what `^done` takes
along, `Remains` says what the remainder of a line can be, `Prefixed` counts a line put before others, and `StdoutLeft` that so
at most one result less is left of what GDB printed; `CutInv`, that there is a line to be cut when `cut`. `InStep` is not inductive and
needs the balance: when a caller takes a result and is the only one that waits, what it takes is all there is,
so nothing of its call is left for the next. `SoloInv` says the rest, for as long as calls do not overlap: one caller at most is under way, the token is
the one in its command until it has added to it, and every command and result between it and GDB carries its token, but for a result that has lost the beginning of it (`torn`).

### Remote memory

`RemoteMemoryProofs` assumes `MemoryAssumption` (the types of the constants, and that there is a register) and proves, for
any addresses, values, registers and number of requests:

| Theorem | Statement |
|---|---|
| `TypeCorrect` | `Spec => []TypeOK` |
| `RepliesInStep` | `Spec => []ReplyInStep` |
| `NoHalfState` | `Spec => []RegistersHandedOver`: all registers but `cpsr`, which is never handed over |
| `TrackerCatchesUp` | `Spec => []Tracked`: at every address but those whose last write the plugin was not given |
| `Implements` | `Spec => ForwardedSpec`: the server thread, the socket and the target perform reads and writes in order, each at most once and at one moment |

`AskedInv` follows the request the emulator waits on: it is the last one in the socket, or in work, or answered, or has
failed, and in only one of these places, so there is one reply at most and it fits. `HandoverInv` is about registers: while
`set_cpu_state` is in the socket the state it carries is what is wanted; in work, so are the registers up to the
one that is being set; once it is answered, all of them. A failed transfer leaves the emulator waiting, so nothing is continued
after it. `TrackedInv` says, for each address, where the last write to it is: in the socket, or else posted, or else handled or missed.
A write is posted when it is received, before it is performed, so the tracker follows what was asked for, whether the target took it or not.
`Implements` maps `Todo`, the requests in the socket and the one in work until it is performed, to the
abstract queue and the reply to a read, sent or not, to the answer. `Request` maps to `Issue`, the target's `Read` and `Write` to the
steps of these names, a failure and any other call to `Other`, taking a reply to `Forget`, what the running target or the script writes to
`Change`, the rest to stuttering.

### The translator call

`TranslatorCallProofs` assumes `UnitsAssumption` and `CallAssumption` (the types of the constants) and proves, for any
programs, ranges, options, functions and number of calls:

| Theorem | Statement |
|---|---|
| `TypeCorrect` | `Spec => []TypeOK` |
| `PhisMatch` | `Spec => []PhisMatchEdges`: phi nodes and edges agree, whatever the code |
| `OnceOnly` | `Spec => []TranslatedOnce` |
| `FreedCause` | `Spec => []FreedOnlyAfterCut` |
| `ErrorsFit` | `Spec => []ErrorFitsResult`: for integers of any size in the ranges |
| `LostRefused` | `Spec => LostOnlyIfRefused` |
| `ImplementsReachability` | `Spec => ReachSpec`, in `TranslatorCallRefinement`: a call that left nothing out has translated what control reaches, and nothing else |

A block gets its terminator when its unit is translated, so an edge is counted once only if no unit is translated twice. This rests
on the list: a unit of this call that is queued has an open block and was not translated, it is queued once,
and its cache entry carries the number of this call, whereas an absent cache entry means that it is neither
queued nor translated. `FreedOnlyAfterCut` further needs that, unless a call was cut short or an address
used again, there is no unit of an earlier call in the list or in the cache of this function. The memory of the wrapper is followed with what
`allocated` holds at each stage: the array of ranges, then that of options, then two strings for each option
converted.

`ImplementsReachability` adds `LinkInv`: while the list is worked on, each point control gets to from what was translated
has a unit of this call, and such a unit was translated, left out as SoftFail or is queued; nothing else of this
call is. It also says that a call that goes on was not cut short. When the list is empty, what control reaches is
therefore among what was translated (`Complete`). `genCodeExit` and `translateSingleInstruction` map to `Visit`,
`throwException` to `GiveUp`, `compile` to `Forget`, every step that ends the process to `Crash`, the rest
of the wrapper to stuttering.

### The emitted code

`TranslatedCodeProofs` and `TranslatedCodeRefinement` take `HalfByte` (a byte has any even number of values), `WordBits`, the
registers and the instructions as parameters. Assumed are `WordAssumption`, `InstAssumption` and
`InitAssumption`: bitwise operations return words, a right shift by the whole width returns 0, immediates are
smaller than a word, and a pushed frame fits into memory.

| Theorem | Statement |
|---|---|
| `TranslatedCodeProofs!TypeCorrect` | `Spec => []TypeOK` |
| `BranchesDecide` | `Spec => []ComparesDecide` |
| `AllReported` | `Spec => []AccessesReported` |
| `RefinesMachine` | `Spec => MachineSpec`: entry and exit stutter, each translator's code is the processor's step |

`ComparesDecide` is not inductive: function exit and entry come between a comparison and the branch, and the flags
must survive their encoding. `Compared` says that the flags in force, in the values of the unit or in the
struct's CPSR, are `SubFlags` of the operands of the last comparison. The lemma for the way back and forth is about
`div` and `%` by `CpsrLow`, 2, 4 and 8 times `CpsrLow`, separately for each flag. That `SubFlags` decides as the operands compare
is arithmetic on `HalfM`. The refinement is proved per opcode; a load needs that the lowest bytes of the handler's word are the memory's
(a Horner form of the four bytes), the overflow of an addition that the two signs agree and the sum leaves the
signed range exactly when the result's sign differs.

### Only model-checked

Liveness (`CallsReturn`, `StopEndsThreads`, `HitDeliveredUnlessSkewed`, `CallsEnd`, `Answered`, `ServerEnds`,
`EveryCallEnds`), which the prover does not do under fairness. Every invariant, action property and refinement
of the passing runs has a theorem. That the seeded faults are noticed is shown by TLC alone, and so are
the three violations.

## 6. Not modelled, and what could follow

* **GDB server** (`GdbServer`): framing, acknowledgements, stop replies of the event thread between
  answers. The server reads and writes one socket from two threads without a lock.
* **What the stub's commands do** (`StubBreakpoints`), and the **framing and checksum** of its messages: the
  stub connection is modelled with messages as names. Two breakpoints at one address, which two threads can set together, are
  possible in `EventDispatch`; no property forbids it, since nothing in the repository does.
* **Start and stop of the whole** (`System.start`, `run_s2e_process`): a sequence of constructors and process
  starts; the ends of the threads are in the modules of the components.
* **Re-entry of the translator**: the callback, or another Python thread while the callback runs, may call
  `instrument_memory_access` again, with the list and the cache shared; `TranslatorCall` has one call at a time.
* **OpenOCD**: a telnet session through a library, with one thread.
* **Memory range plugin**: pages and accesses of several bytes.
* **MI record parser**: a recursive-descent parser without state; `GdbMI` has lines that parse and lines that do not.
* **Path-based translation** (`PathsManager`, `PathState`, `BasicBlockCache`, `FunctionCache`): the constructor of
  `BinaryTranslator` makes a `PathsManager` and nothing calls it; its user, `translate_arm.cpp`, is not among
  the sources of `CMakeLists.txt`, nor is `test_code.cpp`.
* **LLVM**: disassembly, verification and code generation succeed or fail; the memory manager keeps sections.
* **S2E configuration**, process and socket helpers: text and wrappers without behaviour over time.

Contents of registers and memory, logging and message formats stay out of the modules about connections, but for
`RemoteMemory`. A proof that could follow: that `GdbMI`, while calls do not
overlap, implements the one-step calls of the target that `RemoteMemory` is built on.
