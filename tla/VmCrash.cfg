\* A stop before the emulator exists.
CONSTANTS
  first = first
  second = second
  NoEmulator = NoEmulator
  Emulators <- MCEmulators
  TickWindow = 3
SPECIFICATION Spec
CHECK_DEADLOCK FALSE
INVARIANTS
  PanelOutlivesStop
