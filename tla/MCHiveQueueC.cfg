SPECIFICATION Spec
CONSTANTS
  NoMsg = NoMsg
  Garbage = Garbage
  Block = 2
  UIntMod = 8
  Msg = {m1, m2}
INVARIANTS TailFollows NoGarbageLive
PROPERTY ImplementsFifo
