\* Two failure modes of an output fault and one of an input fault, and a bit
\* without a mode; counts up to 2; room for three records, one of which an
\* erasure of the block makes unusable.
SPECIFICATION FairSpec
CONSTANTS
  NumCodes = 3
  Inputs = {2}
  InputBits = {"SHORT_TO_UB"}
  OutputBits = {"SHORT_GND", "OPEN_LOAD", "SHORT_UB_OL"}
  Start = 3
  BlockSize = 10
  NvmSize = 30
  Chunk = 4
  ByteMod = 8
  MaxCount = 2
INVARIANTS RecordsApart CountsSurvive ToldAreCounted
PROPERTIES FaultsCounted
