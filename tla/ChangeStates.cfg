SPECIFICATION Spec
CONSTANTS
  m = m
  s1 = s1
  s2 = s2
  Main <- OneMain
  Side <- TwoSides
  NoProcess = NoProcess
  NoState = NoState
  MaxRevision = 4
  MaxWrites = 1
SYMMETRY SideSymmetry
CHECK_DEADLOCK FALSE
INVARIANT DurableStateIsRecorded
INVARIANT FreshUnlessUnmarked
PROPERTY StateNeverForks
