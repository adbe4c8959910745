\* Three lists, the last one beyond the mask.
SPECIFICATION Spec
CONSTANTS
  NumLists = 3
  MaskBits = 2
  Learned = {0}
  Values = {0, 1, 2}
  Default = 1
  Blank = 0
INVARIANTS EveryListIsSaved
