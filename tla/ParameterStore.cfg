\* Four lists: one of them learned, the last one beyond the mask.
SPECIFICATION FairSpec
CONSTANTS
  NumLists = 4
  MaskBits = 3
  Learned = {1}
  Values = {0, 1}
  Default = 1
  Blank = 0
INVARIANTS PowerLossKeepsParameters ToolHasLastWord LearnedSavedWithNextWrite
PROPERTIES ResetIsComplete ResetServed
