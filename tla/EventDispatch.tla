---------------------------- MODULE EventDispatch ----------------------------
(***************************************************************************)
(* How the hit of a breakpoint gets to whoever waits for it: the event     *)
(* queue, event thread and listener list of System (system.py), the        *)
(* breakpoints that are its listeners (AvatarBreakpoint, GdbBreakpoint and *)
(* S2EBreakpoint) and EventWaiter.                                         *)
(*                                                                         *)
(* Threads set breakpoints, wait for them and delete them.  Events are     *)
(* posted to a queue; the event thread takes one at a time and goes over   *)
(* the list of listeners, by position, while the threads change that list. *)
(* A breakpoint keeps the events that match its key in a queue of its own, *)
(* or runs its handler on the event thread.  A handler may use breakpoints *)
(* like any thread, so the event thread (EventThread) is one more of them. *)
(*                                                                         *)
(* The key of a breakpoint is its address (AvatarBreakpoint) or the number *)
(* GDB gave it (GdbBreakpoint, S2EBreakpoint): FreshKeys.  Not modelled:   *)
(* events that no breakpoint looks at, and exceptions raised by listeners, *)
(* which _process_events logs and forgets.                                 *)
(***************************************************************************)
EXTENDS SequencesExt, Naturals

CONSTANTS
  Users,        \* threads of the program that use breakpoints
  EventThread,  \* the event thread of System
  Bkpts,        \* breakpoint (and EventWaiter) objects
  Keys,         \* addresses, or GDB breakpoint numbers
  FreshKeys,    \* TRUE: GDB breakpoints; FALSE: AvatarBreakpoints
  MayHandle,    \* TRUE: breakpoints may be given handlers
  MayDelete,    \* TRUE: breakpoints may be deleted
  MayStop,      \* TRUE: System.stop may be called
  MaxEvents     \* bound: events posted

ASSUME DispatchAssumption ==
  /\ EventThread \notin Users
  /\ {"none", "any", "abort"} \cap Keys = {}
  /\ FreshKeys \in BOOLEAN /\ MayHandle \in BOOLEAN
  /\ MayDelete \in BOOLEAN /\ MayStop \in BOOLEAN
  /\ MaxEvents \in Nat

Threads == Users \cup {EventThread}
Events == Keys \cup (IF FreshKeys THEN {"abort"} ELSE {})

VARIABLES
  terminating, \* System._terminating
  listeners,   \* System._listeners
  posted,      \* every event posted, by its key; those after the first
  taken,       \* "taken" are still in System._events
  loop,        \* where the event thread is
  pos,         \* position of the next listener to call
  armed,       \* the keys of _breakpoints, or of GDB's breakpoints
  key,         \* key[b]: b's key, "any" for an EventWaiter, or "none"
  handler,     \* handler[b]: b has a handler
  queue,       \* queue[b]: numbers of the events in b's _queue
  at, on,      \* at[t], on[t]: what thread t does, on which breakpoint
  seen,        \* seen[b]: numbers of the events b was given, in order
  born,        \* born[b]: number of events posted when b was armed
  skewed,      \* a listener already passed was removed in this round
  stopAt       \* number of events taken when stop was called

threadVars == <<at, on>>
loopVars == <<taken, loop, pos>>
vars == <<terminating, listeners, posted, loopVars, armed, key, handler, queue,
          threadVars, seen, born, skewed, stopAt>>

Init ==
  /\ terminating = FALSE
  /\ listeners = <<>>
  /\ posted = <<>> /\ taken = 0
  /\ loop = "check" /\ pos = 1
  /\ armed = {}
  /\ key = [b \in Bkpts |-> "none"]
  /\ handler = [b \in Bkpts |-> FALSE]
  /\ queue = [b \in Bkpts |-> <<>>]
  /\ at = [t \in Threads |-> "idle"]
  /\ on = [t \in Threads |-> "none"]
  /\ seen = [b \in Bkpts |-> <<>>]
  /\ born = [b \in Bkpts |-> 0]
  /\ skewed = FALSE
  /\ stopAt = 0

-----------------------------------------------------------------------------
(* Setting, waiting for and deleting breakpoints.  The event thread does so *)
(* only from a handler.                                                     *)
Free(t) == at[t] = "idle" /\ (t = EventThread => loop = "handler")

Go(t, place, b) == /\ at' = [at EXCEPT ![t] = place]
                   /\ on' = [on EXCEPT ![t] = b]

Listening(b) == b \in Range(listeners)

(* set_breakpoint: an address must not be in the table; GDB numbers its     *)
(* breakpoints afresh.                                                      *)
KeyReused(k) == TRUE                   \* seeded fault: the table is not read
Available(k) ==
  IF FreshKeys THEN \A b \in Bkpts : key[b] # k ELSE k \notin armed

SetCheck(t, b, k) ==
  /\ Free(t)
  /\ key[b] = "none"
  /\ Available(k)
  /\ key' = [key EXCEPT ![b] = k]
  /\ Go(t, "checked", b)
  /\ UNCHANGED <<terminating, listeners, posted, loopVars, armed, handler,
                 queue, seen, born, skewed, stopAt>>

(* The address is put in the table, or GDB inserts the breakpoint. *)
SetArm(t) ==
  /\ at[t] = "checked"
  /\ armed' = armed \cup {key[on[t]]}
  /\ born' = [born EXCEPT ![on[t]] = Len(posted)]
  /\ Go(t, "armed", on[t])
  /\ UNCHANGED <<terminating, listeners, posted, loopVars, key, handler, queue,
                 seen, skewed, stopAt>>

(* The breakpoint object is made and registers its listener. *)
SetRegister(t) ==
  /\ at[t] = "armed"
  /\ listeners' = Append(listeners, on[t])
  /\ Go(t, "idle", "none")
  /\ UNCHANGED <<terminating, posted, loopVars, armed, key, handler, queue,
                 seen, born, skewed, stopAt>>

(* EventWaiter(system).  It is never unregistered: the list of listeners    *)
(* keeps the object alive, so that its __del__ does not run.                *)
NewWaiter(t, b) ==
  /\ Free(t)
  /\ key[b] = "none"
  /\ key' = [key EXCEPT ![b] = "any"]
  /\ listeners' = Append(listeners, b)
  /\ UNCHANGED <<terminating, posted, loopVars, armed, handler, queue,
                 threadVars, seen, born, skewed, stopAt>>

SetHandler(t, b) ==
  /\ MayHandle
  /\ Free(t)
  /\ Listening(b) /\ key[b] # "any" /\ ~handler[b]
  /\ handler' = [handler EXCEPT ![b] = TRUE]
  /\ UNCHANGED <<terminating, listeners, posted, loopVars, armed, key, queue,
                 threadVars, seen, born, skewed, stopAt>>

(* wait without a timeout, wait_event ("waiting"), or wait with one         *)
(* ("polling"); it raises if there is a handler.                            *)
Wait(t, b, place) ==
  /\ Free(t)
  /\ Listening(b) /\ ~handler[b]
  /\ place = "polling" => key[b] # "any"
  /\ Go(t, place, b)
  /\ UNCHANGED <<terminating, listeners, posted, loopVars, armed, key, handler,
                 queue, seen, born, skewed, stopAt>>

(* _queue.get returns an event, or raises Empty. *)
WaitReturns(t) ==
  /\ at[t] \in {"waiting", "polling"}
  /\ \/ queue[on[t]] # <<>> /\ queue' = [queue EXCEPT ![on[t]] = Tail(@)]
     \/ queue[on[t]] = <<>> /\ at[t] = "polling" /\ UNCHANGED queue
  /\ Go(t, "idle", "none")
  /\ UNCHANGED <<terminating, listeners, posted, loopVars, armed, key, handler,
                 seen, born, skewed, stopAt>>

(* delete: unregister_event_listener, while the event thread may be on its  *)
(* way through the list ...                                                 *)
Dispatching == loop \in {"deliver", "handler"}

Unregister(t, b) ==
  /\ MayDelete
  /\ Free(t)
  /\ Listening(b) /\ key[b] # "any"
  /\ \E i \in DOMAIN listeners :
       /\ listeners[i] = b
       /\ listeners' = RemoveAt(listeners, i)
       /\ skewed' = (skewed \/ (Dispatching /\ i < pos))
  /\ Go(t, "deleting", b)
  /\ UNCHANGED <<terminating, posted, loopVars, armed, key, handler, queue,
                 seen, born, stopAt>>

(* ... then clear_breakpoint, or GDB's -break-delete. *)
Clear(t) ==
  /\ at[t] = "deleting"
  /\ armed' = armed \ {key[on[t]]}
  /\ Go(t, "idle", "none")
  /\ UNCHANGED <<terminating, listeners, posted, loopVars, key, handler, queue,
                 seen, born, skewed, stopAt>>

-----------------------------------------------------------------------------
(* post_event.  The target stops at a breakpoint instruction, or (GDB) is   *)
(* aborted.  AvatarstubTarget does not take the instruction out of memory   *)
(* when it clears a breakpoint; GDB does.                                   *)
Armed(b) == /\ key[b] \in Keys
            /\ \A t \in Threads : ~(at[t] = "checked" /\ on[t] = b)

CanHit(k) == IF FreshKeys THEN k \in armed
                          ELSE \E b \in Bkpts : key[b] = k /\ Armed(b)

Post(e) ==
  /\ Len(posted) < MaxEvents
  /\ e = "abort" \/ CanHit(e)
  /\ posted' = Append(posted, e)
  /\ UNCHANGED <<terminating, listeners, loopVars, armed, key, handler, queue,
                 threadVars, seen, born, skewed, stopAt>>

-----------------------------------------------------------------------------
(* The event thread (_process_events). *)
LoopAgain == "get"                     \* seeded fault: flag not looked at
LoopCheck == IF terminating THEN "ended" ELSE "get"

LoopStep ==
  /\ loop = "check"
  /\ loop' = LoopCheck
  /\ UNCHANGED <<terminating, listeners, posted, taken, pos, armed, key,
                 handler, queue, threadVars, seen, born, skewed, stopAt>>

(* _events.get(1): the 1 is taken for "block", and there is no timeout. *)
NotBlocking == TRUE                    \* seeded fault: nothing to take
EventQueued == taken < Len(posted)

Take ==
  /\ loop = "get"
  /\ EventQueued
  /\ taken' = taken + 1
  /\ pos' = 1
  /\ loop' = "deliver"
  /\ skewed' = FALSE
  /\ UNCHANGED <<terminating, listeners, posted, armed, key, handler, queue,
                 threadVars, seen, born, stopAt>>

Event == posted[taken]
Matches(b) == \/ key[b] \in {"any", Event}
              \/ Event = "abort" /\ key[b] \in Keys

(* The iterator gives the listener at pos of the list as it is now. *)
NotAdvanced == pos                     \* seeded fault: the same one again
FirstOnly == Len(listeners) + 1        \* seeded fault: break after one
Advanced == pos + 1

Deliver ==
  /\ loop = "deliver"
  /\ pos <= Len(listeners)
  /\ pos' = Advanced
  /\ LET b == listeners[pos]
     IN IF ~Matches(b)
        THEN UNCHANGED <<loop, queue, seen>>
        ELSE /\ seen' = [seen EXCEPT ![b] = Append(@, taken)]
             /\ IF handler[b] /\ Event # "abort"
                THEN loop' = "handler" /\ UNCHANGED queue
                ELSE /\ queue' = [queue EXCEPT ![b] = Append(@, taken)]
                     /\ UNCHANGED loop
  /\ UNCHANGED <<terminating, listeners, posted, taken, armed, key, handler,
                 threadVars, born, skewed, stopAt>>

(* The handler returns, whatever it has done with breakpoints. *)
HandlerReturns ==
  /\ loop = "handler"
  /\ at[EventThread] = "idle"
  /\ loop' = "deliver"
  /\ UNCHANGED <<terminating, listeners, posted, taken, pos, armed, key,
                 handler, queue, threadVars, seen, born, skewed, stopAt>>

RoundEnds ==
  /\ loop = "deliver"
  /\ pos > Len(listeners)
  /\ loop' = "check"
  /\ UNCHANGED <<terminating, listeners, posted, taken, pos, armed, key,
                 handler, queue, threadVars, seen, born, skewed, stopAt>>

(* System.stop, as far as events are concerned. *)
Stop ==
  /\ MayStop
  /\ ~terminating
  /\ terminating' = TRUE
  /\ stopAt' = taken
  /\ UNCHANGED <<listeners, posted, loopVars, armed, key, handler, queue,
                 threadVars, seen, born, skewed>>

-----------------------------------------------------------------------------
UserStep(t) ==
  \/ \E b \in Bkpts, k \in Keys : SetCheck(t, b, k)
  \/ SetArm(t)
  \/ SetRegister(t)
  \/ \E b \in Bkpts : NewWaiter(t, b)
  \/ \E b \in Bkpts : SetHandler(t, b)
  \/ \E b \in Bkpts : Wait(t, b, "waiting")
  \/ \E b \in Bkpts : Wait(t, b, "polling")
  \/ WaitReturns(t)
  \/ \E b \in Bkpts : Unregister(t, b)
  \/ Clear(t)

EventStep == LoopStep \/ Take \/ Deliver \/ HandlerReturns \/ RoundEnds

Next ==
  \/ \E t \in Threads : UserStep(t)
  \/ \E e \in Events : Post(e)
  \/ EventStep
  \/ Stop

Spec == Init /\ [][Next]_vars

(* The event thread runs when it can.  Nobody else has to do anything. *)
FairSpec == Spec /\ WF_vars(EventStep)

-----------------------------------------------------------------------------
TypeOK ==
  /\ terminating \in BOOLEAN /\ skewed \in BOOLEAN
  /\ listeners \in Seq(Bkpts) /\ IsInjective(listeners)
  /\ posted \in Seq(Events) /\ taken \in 0..Len(posted)
  /\ stopAt \in 0..taken
  /\ loop \in {"check", "get", "deliver", "handler", "ended"}
  /\ pos \in Nat \ {0}
  /\ armed \subseteq Keys
  /\ key \in [Bkpts -> Keys \cup {"none", "any"}]
  /\ handler \in [Bkpts -> BOOLEAN]
  /\ queue \in [Bkpts -> Seq(1..taken)]
  /\ at \in [Threads -> {"idle", "checked", "armed", "waiting", "polling",
                         "deleting"}]
  /\ on \in [Threads -> Bkpts \cup {"none"}]
  /\ seen \in [Bkpts -> Seq(1..taken)]
  /\ born \in [Bkpts -> 0..Len(posted)]

(* However the list of listeners changes under the event thread, no         *)
(* listener is given an event twice or out of order.                        *)
DeliveredInOrder ==
  \A b \in Bkpts : \A i, j \in DOMAIN seen[b] : i < j => seen[b][i] < seen[b][j]

(* At the end of a round a listener has the event if it should, unless a    *)
(* listener before it was removed while the round was under way.            *)
MissedOnlyBySkew ==
  loop = "deliver" /\ pos > Len(listeners) /\ ~skewed =>
    \A b \in Range(listeners) : Matches(b) => Contains(seen[b], taken)

(* A breakpoint is given only hits that happened after it was set.          *)
NoStaleHit ==
  \A b \in Bkpts : \A i \in DOMAIN seen[b] :
    key[b] \in Keys /\ posted[seen[b][i]] # "abort" => seen[b][i] > born[b]

(* Once stop was called, at most one more event is handed out.              *)
StopQuiet == terminating => taken <= stopAt + 1

(* A hit that is posted while a breakpoint listens.                         *)
PostedFor(b, n) == /\ n \in (taken + 1)..Len(posted)
                   /\ Listening(b) /\ posted[n] = key[b]

(* It gets to the breakpoint: the Breakpoint.wait of whoever waits ends.    *)
HitDelivered ==
  \A b \in Bkpts, n \in 1..MaxEvents :
    PostedFor(b, n) ~> Contains(seen[b], n) \/ ~Listening(b)

(* So it does, if no listener is removed behind the event thread while it   *)
(* hands out this very event; what is removed at other times does no harm.  *)
HitDeliveredUnlessSkewed ==
  \A b \in Bkpts, n \in 1..MaxEvents :
    PostedFor(b, n) ~> \/ Contains(seen[b], n) \/ ~Listening(b)
                       \/ taken = n /\ skewed
=============================================================================
