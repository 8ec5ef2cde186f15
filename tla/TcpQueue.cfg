CONSTANTS
  Mod = 32
  Isn = 28
  N = 8
  Window = 4
  MaxLen = 3
  RmemLimit = 6
  Urgent = {3}
SPECIFICATION Spec
INVARIANTS Reassembled ListSound
PROPERTIES DeliversStream GapIsFinal
