--------------------------- MODULE VmInstanceProofs ---------------------------
(***************************************************************************)
(* Proofs about VmInstance, for any number of emulators and any window of  *)
(* tick numbers: the loop of a running emulator neither dies nor forks nor *)
(* oversleeps, and the only emulators that escape their VMInstance are     *)
(* those that had not booted when it was stopped.                          *)
(***************************************************************************)
EXTENDS VmInstance, TLAPS

\* How far an emulator has booted bounds what its loop and destroy can do.
BootOrder(e) ==
  /\ idle[e]
  /\ running[e] => boot[e] = "booted"
  /\ boot[e] = "none" => destroyed[e] = "no" /\ current # e
  /\ boot[e] # "none" /\ destroyed[e] = "no" => current = e
  /\ destroyed[e] = "waiting" => running[e] /\ stopping[e]
  /\ current = e => destroyed[e] = "no"

\* The inductive invariant: the properties of the run, and the order of the
\* boot that OnlyUnbootedEscapes rests on.
IInv ==
  /\ TypeOK
  /\ \A e \in Emulators : BootOrder(e)
  /\ LoopAlive
  /\ AwakeRunsAtOnce
  /\ OnlyUnbootedEscapes

LEMMA InitIInv == Init => IInv
<1> SUFFICES ASSUME Init PROVE IInv
  OBVIOUS
<1>1. TypeOK
  <2>1. /\ running \in [Emulators -> BOOLEAN]
        /\ stopping \in [Emulators -> BOOLEAN]
        /\ idle \in [Emulators -> BOOLEAN]
        /\ hlt \in [Emulators -> BOOLEAN]
        /\ iflag \in [Emulators -> BOOLEAN]
        /\ crashed \in BOOLEAN
    BY Zenon DEF Init
  <2>2. 0 \in Ticks
    BY VmAssumption DEF Ticks
  <2>3. tick \in [Emulators -> Ticks]
    BY <2>2, Zenon DEF Init
  <2>4. QED
    BY <2>1, <2>3 DEF Init, TypeOK
<1>2. \A e \in Emulators :
        /\ ~running[e] /\ idle[e] /\ pending[e] = {} /\ boot[e] = "none"
        /\ destroyed[e] = "no" /\ current # e
  BY VmAssumption DEF Init
<1> QED
  BY <1>1, <1>2 DEF IInv, BootOrder, LoopAlive, AwakeRunsAtOnce,
     OnlyUnbootedEscapes

\* A callback scheduled with next_tick is the only one that counts.
LEMMA NextTickLive ==
  ASSUME TypeOK, NEW e \in Emulators, NEW delay \in Delays,
         NEW others \in SUBSET pending[e],
         NextTick(e, delay, others)
  PROVE  /\ tick' \in [Emulators -> Ticks]
         /\ pending' \in [Emulators -> SUBSET Callback]
         /\ idle' \in [Emulators -> BOOLEAN]
         /\ idle'[e]
         /\ \E c \in pending'[e] : c.tick = tick'[e] /\ c.delay = delay
         /\ \A f \in Emulators \ {e} :
              tick'[f] = tick[f] /\ pending'[f] = pending[f] /\ idle'[f] = idle[f]
<1> DEFINE new == (tick[e] + 1) % TickWindow
           c == [tick |-> new, delay |-> delay]
<1>1. new \in Ticks
  BY VmAssumption DEF TypeOK, Ticks
<1>2. c \in Callback /\ c.tick = new /\ c.delay = delay
  BY <1>1 DEF Callback
<1>3. /\ tick' = [tick EXCEPT ![e] = new]
      /\ pending' = [pending EXCEPT ![e] = others \cup {c}]
      /\ idle' = [idle EXCEPT ![e] = TRUE]
      /\ \A d \in others : d.tick # new
  BY DEF NextTick
<1> HIDE DEF new, c
<1>4. others \cup {c} \subseteq Callback
  BY <1>2 DEF TypeOK
<1>5. tick' \in [Emulators -> Ticks] /\ tick'[e] = new
  BY <1>1, <1>3 DEF TypeOK
<1>6. /\ pending' \in [Emulators -> SUBSET Callback]
      /\ pending'[e] = others \cup {c}
  BY <1>3, <1>4 DEF TypeOK
<1>7. idle' \in [Emulators -> BOOLEAN] /\ idle'[e]
  BY <1>3 DEF TypeOK
<1>8. \A f \in Emulators \ {e} :
        tick'[f] = tick[f] /\ pending'[f] = pending[f] /\ idle'[f] = idle[f]
  BY <1>3 DEF TypeOK
<1> QED
  BY <1>2, <1>5, <1>6, <1>7, <1>8

\* The steps of the boot and of the wrapper leave the loop alone.
LEMMA StartIInv == ASSUME IInv, NEW e \in Emulators, Start(e) PROVE IInv'
<1>1. TypeOK'
  BY DEF IInv, TypeOK, Start, loop, cpu
<1>2. \A f \in Emulators : BootOrder(f)'
  BY VmAssumption DEF IInv, TypeOK, BootOrder, Start, loop, cpu
<1>3. LoopAlive' /\ AwakeRunsAtOnce'
  BY DEF IInv, LoopAlive, AwakeRunsAtOnce, Live, Start, loop, cpu
<1>4. OnlyUnbootedEscapes'
  BY VmAssumption DEF IInv, OnlyUnbootedEscapes, BootOrder, Start, loop, cpu
<1> QED
  BY <1>1, <1>2, <1>3, <1>4 DEF IInv

LEMMA LoadedIInv ==
  ASSUME IInv, NEW e \in Emulators, WasmLoaded(e) \/ FilesLoaded(e)
  PROVE  IInv'
<1>1. TypeOK'
  BY DEF IInv, TypeOK, WasmLoaded, FilesLoaded, loop, cpu
<1>2. \A f \in Emulators : BootOrder(f)'
  BY DEF IInv, TypeOK, BootOrder, WasmLoaded, FilesLoaded, loop, cpu
<1>3. LoopAlive' /\ AwakeRunsAtOnce' /\ OnlyUnbootedEscapes'
  BY DEF IInv, LoopAlive, AwakeRunsAtOnce, OnlyUnbootedEscapes, Live,
     WasmLoaded, FilesLoaded, loop, cpu
<1> QED
  BY <1>1, <1>2, <1>3 DEF IInv

LEMMA DoneIInv == ASSUME IInv, NEW e \in Emulators, Done(e) PROVE IInv'
<1>1. "now" \in Delays /\ pending[e] \in SUBSET pending[e]
  BY DEF Delays
<1>2. NextTick(e, "now", pending[e])
  BY DEF Done
<1>3. TypeOK
  BY DEF IInv
<1>4. /\ tick' \in [Emulators -> Ticks]
      /\ pending' \in [Emulators -> SUBSET Callback]
      /\ idle' \in [Emulators -> BOOLEAN]
      /\ idle'[e]
      /\ \E c \in pending'[e] : c.tick = tick'[e] /\ c.delay = "now"
      /\ \A f \in Emulators \ {e} :
           tick'[f] = tick[f] /\ pending'[f] = pending[f] /\ idle'[f] = idle[f]
  BY <1>1, <1>2, <1>3, NextTickLive
<1>5. /\ running' \in [Emulators -> BOOLEAN]
      /\ stopping' \in [Emulators -> BOOLEAN]
  BY <1>3, Zenon DEF TypeOK, Done
<1>6. /\ running'[e] /\ ~stopping'[e] /\ boot'[e] = "booted"
      /\ boot[e] = "timer"
      /\ \A f \in Emulators \ {e} :
           /\ running'[f] = running[f] /\ stopping'[f] = stopping[f]
           /\ boot'[f] = boot[f]
      /\ UNCHANGED <<current, hlt, iflag, destroyed, crashed>>
  BY <1>3 DEF TypeOK, Done, cpu
<1>7. boot' \in [Emulators -> {"none", "wasm", "files", "timer", "booted"}]
  BY <1>3 DEF TypeOK, Done
<1>8. TypeOK'
  BY <1>3, <1>4, <1>5, <1>6, <1>7 DEF TypeOK
<1>9. \A f \in Emulators : BootOrder(f)'
  BY <1>4, <1>6 DEF IInv, TypeOK, BootOrder
<1>10. LoopAlive' /\ AwakeRunsAtOnce'
  BY <1>4, <1>6 DEF IInv, LoopAlive, AwakeRunsAtOnce, Live
<1>11. OnlyUnbootedEscapes'
  BY <1>3, <1>6 DEF IInv, OnlyUnbootedEscapes, BootOrder, TypeOK
<1> QED
  BY <1>4, <1>8, <1>9, <1>10, <1>11 DEF IInv

LEMMA StopIInv == ASSUME IInv, NEW e \in Emulators, Stop(e) PROVE IInv'
<1>1. TypeOK
  BY DEF IInv
<1>2. stopping' \in [Emulators -> BOOLEAN]
  BY <1>1, Zenon DEF TypeOK, Stop
<1>3. destroyed' \in [Emulators -> {"no", "waiting", "done"}]
  BY <1>1 DEF TypeOK, Stop
<1>4. TypeOK'
  BY <1>1, <1>2, <1>3 DEF TypeOK, Stop, cpu
<1>5. /\ stopping'[e] = running[e]
      /\ destroyed'[e] = IF running[e] THEN "waiting" ELSE "done"
      /\ \A f \in Emulators \ {e} :
           stopping'[f] = stopping[f] /\ destroyed'[f] = destroyed[f]
      /\ current = e /\ current' = NoEmulator
      /\ UNCHANGED <<boot, running, idle, tick, pending, hlt, iflag>>
  BY <1>1 DEF TypeOK, Stop, cpu
<1>6. \A f \in Emulators : BootOrder(f)'
  BY <1>5, VmAssumption DEF IInv, BootOrder
<1>7. LoopAlive' /\ AwakeRunsAtOnce'
  BY <1>5 DEF IInv, LoopAlive, AwakeRunsAtOnce, Live
<1>8. OnlyUnbootedEscapes'
  BY <1>5 DEF IInv, OnlyUnbootedEscapes, BootOrder
<1> QED
  BY <1>4, <1>6, <1>7, <1>8 DEF IInv

\* An interrupt that ends the halt brings the loop to the front of the queue.
LEMMA RaiseIrqIInv == ASSUME IInv, NEW e \in Emulators, RaiseIrq(e) PROVE IInv'
<1>1. "now" \in Delays /\ pending[e] \in SUBSET pending[e]
  BY DEF Delays
<1>2. TypeOK /\ idle[e]
  BY DEF IInv, BootOrder
<1>3. NextTick(e, "now", pending[e])
  BY <1>2 DEF RaiseIrq
<1>4. /\ tick' \in [Emulators -> Ticks]
      /\ pending' \in [Emulators -> SUBSET Callback]
      /\ idle' \in [Emulators -> BOOLEAN]
      /\ idle'[e]
      /\ \E c \in pending'[e] : c.tick = tick'[e] /\ c.delay = "now"
      /\ \A f \in Emulators \ {e} :
           tick'[f] = tick[f] /\ pending'[f] = pending[f] /\ idle'[f] = idle[f]
  BY <1>1, <1>2, <1>3, NextTickLive
<1>5. /\ hlt' \in [Emulators -> BOOLEAN]
      /\ iflag' \in [Emulators -> BOOLEAN]
  BY <1>2, Zenon DEF TypeOK, RaiseIrq
<1>6. /\ \A f \in Emulators \ {e} : hlt'[f] = hlt[f]
      /\ UNCHANGED <<current, boot, running, stopping, destroyed, crashed>>
  BY <1>2 DEF TypeOK, RaiseIrq
<1>7. TypeOK'
  BY <1>2, <1>4, <1>5, <1>6 DEF TypeOK
<1>8. \A f \in Emulators : BootOrder(f)'
  BY <1>4, <1>6 DEF IInv, BootOrder
<1>9. LoopAlive' /\ AwakeRunsAtOnce' /\ OnlyUnbootedEscapes'
  BY <1>4, <1>6 DEF IInv, LoopAlive, AwakeRunsAtOnce, OnlyUnbootedEscapes, Live
<1> QED
  BY <1>4, <1>7, <1>8, <1>9 DEF IInv

\* A slice schedules the next one, at once unless the processor is halted.
LEMMA SliceIInv ==
  ASSUME IInv, NEW e \in Emulators, NEW c \in pending[e],
         MainLoop(e, pending[e] \ {c}),
         UNCHANGED <<current, boot, running, stopping, destroyed, crashed>>
  PROVE  IInv'
<1>1. TypeOK
  BY DEF IInv
<1>2. PICK h \in BOOLEAN, i \in BOOLEAN, delay \in Delays :
        /\ ~h => delay = "now"
        /\ hlt' = [hlt EXCEPT ![e] = h]
        /\ iflag' = [iflag EXCEPT ![e] = i]
        /\ NextTick(e, delay, pending[e] \ {c})
  BY DEF MainLoop
<1>3. pending[e] \ {c} \in SUBSET pending[e]
  OBVIOUS
<1>4. /\ tick' \in [Emulators -> Ticks]
      /\ pending' \in [Emulators -> SUBSET Callback]
      /\ idle' \in [Emulators -> BOOLEAN]
      /\ idle'[e]
      /\ \E d \in pending'[e] : d.tick = tick'[e] /\ d.delay = delay
      /\ \A f \in Emulators \ {e} :
           tick'[f] = tick[f] /\ pending'[f] = pending[f] /\ idle'[f] = idle[f]
  BY <1>1, <1>2, <1>3, NextTickLive
<1>5. /\ hlt' \in [Emulators -> BOOLEAN]
      /\ iflag' \in [Emulators -> BOOLEAN]
  BY <1>1, <1>2, Zenon DEF TypeOK
<1>6. hlt'[e] = h /\ \A f \in Emulators \ {e} : hlt'[f] = hlt[f]
  BY <1>1, <1>2 DEF TypeOK
<1>7. TypeOK'
  BY <1>1, <1>4, <1>5 DEF TypeOK
<1>8. \A f \in Emulators : BootOrder(f)'
  BY <1>4 DEF IInv, BootOrder
<1>9. LoopAlive'
  BY <1>4 DEF IInv, LoopAlive, Live
<1>10. AwakeRunsAtOnce'
  BY <1>2, <1>4, <1>6 DEF IInv, AwakeRunsAtOnce, Live
<1>11. OnlyUnbootedEscapes'
  BY DEF IInv, OnlyUnbootedEscapes
<1> QED
  BY <1>4, <1>7, <1>8, <1>9, <1>10, <1>11 DEF IInv

\* The slice that finds the loop stopped ends it.
LEMMA StopTickIInv ==
  ASSUME IInv, NEW e \in Emulators, NEW c \in pending[e],
         StopTick(e, pending[e] \ {c}),
         UNCHANGED <<current, boot, crashed>>
  PROVE  IInv'
<1>1. TypeOK
  BY DEF IInv
<1>2. /\ running' \in [Emulators -> BOOLEAN]
      /\ stopping' \in [Emulators -> BOOLEAN]
  BY <1>1, Zenon DEF TypeOK, StopTick
<1>3. /\ pending' \in [Emulators -> SUBSET Callback]
      /\ destroyed' \in [Emulators -> {"no", "waiting", "done"}]
  BY <1>1 DEF TypeOK, StopTick
<1>4. /\ ~running'[e] /\ pending'[e] = pending[e] \ {c}
      /\ destroyed'[e] = IF destroyed[e] = "waiting" THEN "done" ELSE destroyed[e]
      /\ \A f \in Emulators \ {e} :
           /\ running'[f] = running[f] /\ stopping'[f] = stopping[f]
           /\ pending'[f] = pending[f] /\ destroyed'[f] = destroyed[f]
      /\ UNCHANGED <<idle, tick, hlt, iflag>>
  BY <1>1 DEF TypeOK, StopTick, cpu
<1>5. TypeOK'
  BY <1>1, <1>2, <1>3, <1>4 DEF TypeOK
<1>6. \A f \in Emulators : BootOrder(f)'
  BY <1>4 DEF IInv, BootOrder
<1>7. LoopAlive' /\ AwakeRunsAtOnce' /\ OnlyUnbootedEscapes'
  BY <1>4 DEF IInv, LoopAlive, AwakeRunsAtOnce, OnlyUnbootedEscapes, Live
<1> QED
  BY <1>5, <1>6, <1>7 DEF IInv

\* A callback that was overtaken is not the one that keeps the loop going.
LEMMA OvertakenIInv ==
  ASSUME IInv, NEW e \in Emulators, NEW c \in pending[e], ~Live(e, c),
         pending' = [pending EXCEPT ![e] = pending[e] \ {c}],
         UNCHANGED <<current, boot, running, stopping, idle, tick, cpu,
                     destroyed, crashed>>
  PROVE  IInv'
<1>1. TypeOK'
  BY DEF IInv, TypeOK, cpu
<1>2. /\ pending'[e] = pending[e] \ {c}
      /\ \A f \in Emulators \ {e} : pending'[f] = pending[f]
      /\ UNCHANGED <<hlt, iflag>>
  BY DEF IInv, TypeOK, cpu
<1>3. \A f \in Emulators : BootOrder(f)'
  BY DEF IInv, BootOrder
<1>4. LoopAlive' /\ AwakeRunsAtOnce' /\ OnlyUnbootedEscapes'
  BY <1>2 DEF IInv, LoopAlive, AwakeRunsAtOnce, OnlyUnbootedEscapes, Live
<1> QED
  BY <1>1, <1>3, <1>4 DEF IInv

LEMMA CallbackIInv ==
  ASSUME IInv, NEW e \in Emulators, NEW c \in Callback, YieldCallback(e, c)
  PROVE  IInv'
<1>1. c \in pending[e] /\ UNCHANGED <<current, boot, crashed>>
  BY DEF YieldCallback
<1>2. CASE MainLoop(e, pending[e] \ {c}) /\ UNCHANGED <<running, stopping, destroyed>>
  BY <1>1, <1>2, SliceIInv
<1>3. CASE StopTick(e, pending[e] \ {c})
  BY <1>1, <1>3, StopTickIInv
<1>4. CASE /\ ~Live(e, c)
           /\ pending' = [pending EXCEPT ![e] = pending[e] \ {c}]
           /\ UNCHANGED <<running, stopping, idle, tick, cpu, destroyed>>
  BY <1>1, <1>4, OvertakenIInv
<1> QED
  BY <1>2, <1>3, <1>4 DEF YieldCallback

LEMMA StepIInv == IInv /\ [Next]_vars => IInv'
<1> SUFFICES ASSUME IInv, [Next]_vars PROVE IInv'
  OBVIOUS
<1>1. CASE UNCHANGED vars
  BY <1>1 DEF vars, loop, cpu, IInv, TypeOK, BootOrder, LoopAlive,
     AwakeRunsAtOnce, OnlyUnbootedEscapes, Live
<1>2. ASSUME NEW e \in Emulators, Start(e) PROVE IInv'
  BY <1>2, StartIInv
<1>3. ASSUME NEW e \in Emulators, Stop(e) PROVE IInv'
  BY <1>3, StopIInv
<1>4. ASSUME NEW e \in Emulators, RaiseIrq(e) PROVE IInv'
  BY <1>4, RaiseIrqIInv
<1>5. ASSUME NEW e \in Emulators, BootStep(e) PROVE IInv'
  BY <1>5, LoadedIInv, DoneIInv DEF BootStep
<1>6. ASSUME NEW e \in Emulators, LoopStep(e) PROVE IInv'
  BY <1>6, CallbackIInv DEF LoopStep
<1> QED
  BY <1>1, <1>2, <1>3, <1>4, <1>5, <1>6 DEF Next

LEMMA SpecIInv == Spec => []IInv
  BY InitIInv, StepIInv, PTL DEF Spec

-----------------------------------------------------------------------------
(* One loop *)

\* The callback that next_tick schedules overtakes all others.
LEMMA NextTickOvertakes ==
  ASSUME TypeOK, OneLoop, NEW e \in Emulators, NEW delay \in Delays,
         NEW others \in SUBSET pending[e], NextTick(e, delay, others)
  PROVE  OneLoop'
<1> DEFINE new == (tick[e] + 1) % TickWindow
           next == [tick |-> new, delay |-> delay]
<1>1. /\ tick' = [tick EXCEPT ![e] = new]
      /\ pending' = [pending EXCEPT ![e] = others \cup {next}]
      /\ \A d \in others : d.tick # new
  BY DEF NextTick
<1> HIDE DEF new, next
<1>2. tick'[e] = new /\ pending'[e] = others \cup {next}
  BY <1>1 DEF TypeOK
<1>3. \A f \in Emulators \ {e} : tick'[f] = tick[f] /\ pending'[f] = pending[f]
  BY <1>1 DEF TypeOK
<1>4. ASSUME NEW c \in pending'[e], c.tick = tick'[e]
      PROVE  c = next
  BY <1>1, <1>2, <1>4
<1>5. \A f \in Emulators : \A c, d \in pending'[f] :
        c.tick = tick'[f] /\ d.tick = tick'[f] => c = d
  BY <1>3, <1>4 DEF OneLoop, Live
<1> QED
  BY <1>5 DEF OneLoop, Live

\* Callbacks that go without another leave one loop at most.
LEMMA FewerCallbacks ==
  ASSUME OneLoop, UNCHANGED tick, \A e \in Emulators : pending'[e] \subseteq pending[e]
  PROVE  OneLoop'
BY DEF OneLoop, Live

LEMMA CallbackOneLoop ==
  ASSUME TypeOK, OneLoop, NEW e \in Emulators, NEW c \in Callback, YieldCallback(e, c)
  PROVE  OneLoop'
<1> DEFINE others == pending[e] \ {c}
<1>1. CASE MainLoop(e, others)
  <2>1. PICK delay \in Delays : NextTick(e, delay, others)
    BY <1>1 DEF MainLoop
  <2> QED
    BY <2>1, NextTickOvertakes
<1>2. CASE UNCHANGED tick /\ pending' = [pending EXCEPT ![e] = others]
  <2>1. \A f \in Emulators : pending'[f] \subseteq pending[f]
    BY <1>2 DEF TypeOK
  <2> QED
    BY <1>2, <2>1, FewerCallbacks
<1> QED
  BY <1>1, <1>2 DEF YieldCallback, StopTick

LEMMA NextOneLoop == TypeOK /\ OneLoop /\ [Next]_vars => OneLoop'
<1> SUFFICES ASSUME TypeOK, OneLoop, [Next]_vars
             PROVE  OneLoop'
  OBVIOUS
<1>1. CASE UNCHANGED <<tick, pending>>
  BY <1>1, FewerCallbacks
<1>2. ASSUME NEW e \in Emulators, Done(e) \/ RaiseIrq(e)
      PROVE  OneLoop'
  <2>1. NextTick(e, "now", pending[e]) \/ UNCHANGED <<tick, pending>>
    BY <1>2 DEF Done, RaiseIrq
  <2>2. "now" \in Delays /\ pending[e] \in SUBSET pending[e]
    BY DEF Delays
  <2> QED
    BY <1>1, <2>1, <2>2, NextTickOvertakes
<1>3. ASSUME NEW e \in Emulators, Start(e) \/ Stop(e) \/ WasmLoaded(e) \/ FilesLoaded(e)
      PROVE  UNCHANGED <<tick, pending>>
  BY <1>3 DEF Start, Stop, WasmLoaded, FilesLoaded, loop
<1>4. CASE UNCHANGED vars
  BY <1>1, <1>4 DEF vars, loop
<1> QED
  BY <1>1, <1>2, <1>3, <1>4, CallbackOneLoop DEF Next, BootStep, LoopStep

LEMMA InitOneLoop == Init => OneLoop
BY DEF Init, OneLoop

-----------------------------------------------------------------------------
(* The theorems *)

\* Every variable of the emulators keeps its type.
THEOREM VmTypeCorrect == Spec => []TypeOK
  BY SpecIInv, PTL DEF IInv

\* The run loop of main.js does not die: a running emulator has a callback that
\* counts.
THEOREM LoopNeverLost == Spec => []LoopAlive
  BY SpecIInv, PTL DEF IInv

\* Nor does it fork: however many callbacks wake-ups leave pending, one at most
\* goes on with it.
THEOREM LoopNeverForks == Spec => []OneLoop
<1>1. IInv => TypeOK
  BY DEF IInv
<1> QED
  BY <1>1, SpecIInv, InitOneLoop, NextOneLoop, PTL DEF Spec

\* Nor does it oversleep: a running emulator whose processor is awake has a
\* callback that counts and is due at once.
THEOREM WakeUpsNeverLost == Spec => []AwakeRunsAtOnce
  BY SpecIInv, PTL DEF IInv

\* VMInstance.stop tells every emulator that runs to stop; what goes on
\* without its VMInstance had not booted when it was stopped.
THEOREM EscapesOnlyUnbooted == Spec => []OnlyUnbootedEscapes
  BY SpecIInv, PTL DEF IInv

=============================================================================
