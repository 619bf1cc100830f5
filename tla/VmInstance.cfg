\* Starts, stops and interrupts in any order.
CONSTANTS
  first = first
  second = second
  NoEmulator = NoEmulator
  Emulators <- MCEmulators
  TickWindow = 3
SPECIFICATION FairSpec
CHECK_DEADLOCK FALSE
INVARIANTS
  LoopAlive
  OneLoop
  AwakeRunsAtOnce
  OnlyUnbootedEscapes
PROPERTIES
  DestroyEnds
  BootEnds
