------------------------------ MODULE VmInstance ------------------------------
(***************************************************************************)
(* The life of the emulators behind one entry of runningVMs: VMInstance    *)
(* (src/panel/vm_runner.js) creates and destroys them, V86                 *)
(* (src/browser/starter.js) boots them, and v86 (src/main.js) runs each in *)
(* slices that it schedules with setImmediate and setTimeout.              *)
(*                                                                         *)
(* A callback of the event loop is one action.  Every emulator has a       *)
(* counter of ticks; a callback that finds another number than its own has *)
(* been overtaken and does nothing.                                        *)
(***************************************************************************)
EXTENDS Integers

CONSTANTS
  Emulators,  \* the V86 objects the server is started with, one after another
  TickWindow, \* tick_counter is counted modulo this bound
  NoEmulator  \* the server does not run

ASSUME VmAssumption ==
  /\ NoEmulator \notin Emulators
  /\ TickWindow \in Nat \ {0, 1}

VARIABLES
  current,   \* the emulator of the VMInstance in runningVMs
  boot,      \* how far starter.js has come
  running,   \* v86.running, and cpu_is_running, which follows it
  stopping,  \* v86.stopping
  idle,      \* v86.idle: no slice is executing
  tick,      \* v86.tick_counter
  pending,   \* the callbacks that yield has scheduled
  hlt,       \* in_hlt: the processor waits for an interrupt
  iflag,     \* the interrupt flag of the processor
  destroyed, \* how far V86.destroy has come
  crashed    \* TRUE: an unhandled rejection has ended the process

loop == <<running, stopping, idle, tick, pending>>
cpu == <<hlt, iflag>>
vars == <<current, boot, loop, cpu, destroyed, crashed>>

-----------------------------------------------------------------------------

Ticks == 0 .. TickWindow - 1
Delays == {"now", "later"}   \* setImmediate, or setTimeout
Callback == [tick : Ticks, delay : Delays]

Live(e, c) == c.tick = tick[e]

\* Mutant: a callback that is pending already is taken to be enough.
NextTickCoalesced(e, delay, others) ==
  LET new == (tick[e] + 1) % TickWindow IN
  /\ tick' = [tick EXCEPT ![e] = new]
  /\ pending' = [pending EXCEPT ![e] =
       IF others # {} THEN others ELSE {[tick |-> new, delay |-> delay]}]
  /\ idle' = [idle EXCEPT ![e] = TRUE]

\* Mutant: the counter is read and not counted up.
NextTickSameNumber(e, delay, others) ==
  /\ pending' = [pending EXCEPT ![e] = others \cup {[tick |-> tick[e], delay |-> delay]}]
  /\ idle' = [idle EXCEPT ![e] = TRUE]
  /\ UNCHANGED tick

\* next_tick: the callback that counts, and whatever is pending is overtaken.
\* The bound lets a number be used again when its last callback is gone.
NextTick(e, delay, others) ==
  LET new == (tick[e] + 1) % TickWindow IN
  /\ \A c \in others : c.tick # new
  /\ tick' = [tick EXCEPT ![e] = new]
  /\ pending' = [pending EXCEPT ![e] = others \cup {[tick |-> new, delay |-> delay]}]
  /\ idle' = [idle EXCEPT ![e] = TRUE]

-----------------------------------------------------------------------------
(* VMInstance.start and the steps of the boot *)

Start(e) ==
  /\ current = NoEmulator
  /\ boot[e] = "none"
  /\ current' = e
  /\ boot' = [boot EXCEPT ![e] = "wasm"]
  /\ UNCHANGED <<loop, cpu, destroyed, crashed>>

\* The module is compiled, which creates v86; then the files are read.
WasmLoaded(e) ==
  /\ boot[e] = "wasm"
  /\ boot' = [boot EXCEPT ![e] = "files"]
  /\ UNCHANGED <<current, loop, cpu, destroyed, crashed>>

FilesLoaded(e) ==
  /\ boot[e] = "files"
  /\ boot' = [boot EXCEPT ![e] = "timer"]
  /\ UNCHANGED <<current, loop, cpu, destroyed, crashed>>

\* Mutant: nothing calls run.
DoneWithoutRun(e) ==
  /\ boot[e] = "timer"
  /\ boot' = [boot EXCEPT ![e] = "booted"]
  /\ UNCHANGED <<current, loop, cpu, destroyed, crashed>>

\* done: init, and run because of autostart, whatever happened meanwhile.
Done(e) ==
  /\ boot[e] = "timer"
  /\ boot' = [boot EXCEPT ![e] = "booted"]
  /\ stopping' = [stopping EXCEPT ![e] = FALSE]
  /\ running' = [running EXCEPT ![e] = TRUE]
  /\ NextTick(e, "now", pending[e])
  /\ UNCHANGED <<current, cpu, destroyed, crashed>>

-----------------------------------------------------------------------------
(* The run loop *)

\* main_loop: a processor halted with interrupts off stays so and polls; any
\* other slice ends halted, for the time to its next timer, or at the end of
\* its frame, to be continued at once.
MainLoop(e, others) ==
  \E h, i \in BOOLEAN, delay \in Delays :
    /\ hlt[e] /\ ~iflag[e] => h /\ ~i /\ delay = "later"
    /\ ~h => delay = "now"
    /\ hlt' = [hlt EXCEPT ![e] = h]
    /\ iflag' = [iflag EXCEPT ![e] = i]
    /\ NextTick(e, delay, others)

\* Mutant: emulator-stopped is not sent.
StopSilently(e, others) ==
  /\ running' = [running EXCEPT ![e] = FALSE]
  /\ stopping' = [stopping EXCEPT ![e] = FALSE]
  /\ pending' = [pending EXCEPT ![e] = others]
  /\ UNCHANGED <<idle, tick, cpu, destroyed>>

\* do_tick of a loop that is to stop; emulator-stopped ends a waiting destroy.
StopTick(e, others) ==
  /\ running' = [running EXCEPT ![e] = FALSE]
  /\ stopping' = [stopping EXCEPT ![e] = FALSE]
  /\ pending' = [pending EXCEPT ![e] = others]
  /\ destroyed' = [destroyed EXCEPT ![e] = IF @ = "waiting" THEN "done" ELSE @]
  /\ UNCHANGED <<idle, tick, cpu>>

\* yield_callback
YieldCallback(e, c) ==
  LET others == pending[e] \ {c} IN
  /\ c \in pending[e]
  /\ \/ /\ Live(e, c)
        /\ ~stopping[e] /\ running[e]
        /\ MainLoop(e, others)
        /\ UNCHANGED <<running, stopping, destroyed>>
     \/ /\ Live(e, c)
        /\ stopping[e] \/ ~running[e]
        /\ StopTick(e, others)
     \/ /\ ~Live(e, c)
        /\ pending' = [pending EXCEPT ![e] = others]
        /\ UNCHANGED <<running, stopping, idle, tick, cpu, destroyed>>
  /\ UNCHANGED <<current, boot, crashed>>

\* Mutant: an interrupt ends the halt but does not reschedule the loop.
RaiseWithoutWake(e) ==
  /\ boot[e] = "booted"
  /\ hlt[e] /\ iflag[e]
  /\ hlt' = [hlt EXCEPT ![e] = FALSE]
  /\ UNCHANGED <<current, boot, loop, iflag, destroyed, crashed>>

\* A device raises an interrupt between two slices: a byte for the serial
\* port, a frame for the network card, of a stopped emulator too.
RaiseIrq(e) ==
  /\ boot[e] = "booted"
  /\ hlt[e] /\ iflag[e]
  /\ hlt' = [hlt EXCEPT ![e] = FALSE]
  /\ \E i \in BOOLEAN : iflag' = [iflag EXCEPT ![e] = i]
  /\ IF idle[e] THEN NextTick(e, "now", pending[e])
                ELSE UNCHANGED <<idle, tick, pending>>
  /\ UNCHANGED <<current, boot, running, stopping, destroyed, crashed>>

-----------------------------------------------------------------------------
(* VMInstance.stop *)

\* Mutant: destroy waits, but never tells the loop to stop.
StopWaiting(e) ==
  /\ current = e
  /\ current' = NoEmulator
  /\ destroyed' = [destroyed EXCEPT ![e] = IF running[e] THEN "waiting" ELSE "done"]
  /\ crashed' = (boot[e] = "wasm")
  /\ UNCHANGED <<boot, loop, cpu>>

\* stop does not await destroy, and its try catches no rejection: without v86
\* there is nothing to call destroy on, and nobody handles the error.
Stop(e) ==
  /\ current = e
  /\ current' = NoEmulator
  /\ stopping' = [stopping EXCEPT ![e] = running[e]]
  /\ destroyed' = [destroyed EXCEPT ![e] = IF running[e] THEN "waiting" ELSE "done"]
  /\ crashed' = (boot[e] = "wasm")
  /\ UNCHANGED <<boot, running, idle, tick, pending, cpu>>

-----------------------------------------------------------------------------
(* The specification *)

Init ==
  /\ current = NoEmulator
  /\ boot = [e \in Emulators |-> "none"]
  /\ running = [e \in Emulators |-> FALSE]
  /\ stopping = [e \in Emulators |-> FALSE]
  /\ idle = [e \in Emulators |-> TRUE]
  /\ tick = [e \in Emulators |-> 0]
  /\ pending = [e \in Emulators |-> {}]
  /\ hlt = [e \in Emulators |-> FALSE]
  /\ iflag = [e \in Emulators |-> FALSE]
  /\ destroyed = [e \in Emulators |-> "no"]
  /\ crashed = FALSE

BootStep(e) == ~crashed /\ (WasmLoaded(e) \/ FilesLoaded(e) \/ Done(e))

LoopStep(e) == ~crashed /\ \E c \in Callback : YieldCallback(e, c)

Next ==
  \E e \in Emulators :
    \/ ~crashed /\ (Start(e) \/ Stop(e) \/ RaiseIrq(e))
    \/ BootStep(e)
    \/ LoopStep(e)

Spec == Init /\ [][Next]_vars

\* The event loop runs what is due: files that are read, immediates, and
\* every timer at last.
Fairness ==
  \A e \in Emulators :
    /\ WF_vars(BootStep(e))
    /\ \A c \in Callback : WF_vars(~crashed /\ YieldCallback(e, c))
FairSpec == Spec /\ Fairness

-----------------------------------------------------------------------------
(* Properties *)

\* The states the emulators and their loops can be in.
TypeOK ==
  /\ current \in Emulators \cup {NoEmulator}
  /\ boot \in [Emulators -> {"none", "wasm", "files", "timer", "booted"}]
  /\ running \in [Emulators -> BOOLEAN]
  /\ stopping \in [Emulators -> BOOLEAN]
  /\ idle \in [Emulators -> BOOLEAN]
  /\ tick \in [Emulators -> Ticks]
  /\ pending \in [Emulators -> SUBSET Callback]
  /\ hlt \in [Emulators -> BOOLEAN]
  /\ iflag \in [Emulators -> BOOLEAN]
  /\ destroyed \in [Emulators -> {"no", "waiting", "done"}]
  /\ crashed \in BOOLEAN

\* The loop of a running emulator never dies: some pending callback carries
\* the current number, however many wake-ups have overtaken each other.
LoopAlive ==
  \A e \in Emulators : running[e] => \E c \in pending[e] : Live(e, c)

\* Nor does it fork: of all the callbacks that immediates, timers and interrupts
\* leave pending, one at most continues it, and the processor never runs in two
\* loops that wake each other up.
OneLoop ==
  \A e \in Emulators : \A c, d \in pending[e] : Live(e, c) /\ Live(e, d) => c = d

\* No lost wake-up: a processor that is not halted, or was just woken by an
\* interrupt, is not left behind a timer.
AwakeRunsAtOnce ==
  \A e \in Emulators :
    (running[e] /\ ~hlt[e]) =>
      \E c \in pending[e] : Live(e, c) /\ c.delay = "now"

\* An emulator that goes on without its VMInstance was stopped before it had
\* booted: in every other case the loop has been told to stop.
OnlyUnbootedEscapes ==
  \A e \in Emulators :
    (running[e] /\ ~stopping[e] /\ current # e) => destroyed[e] = "done"

\* A destroy that waits for emulator-stopped gets it.
DestroyEnds ==
  \A e \in Emulators : destroyed[e] = "waiting" ~> destroyed[e] = "done" \/ crashed

\* A server that was started runs, unless it is stopped first.
BootEnds ==
  \A e \in Emulators :
    current = e ~> running[e] \/ current # e \/ crashed

\* "VMs are spawned as child processes": the panel outlives the stop of one of
\* its machines, which it would if they were.
PanelOutlivesStop == ~crashed
=============================================================================
