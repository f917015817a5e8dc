\* Two users, one book, two objects; others change one row.
CONSTANTS
  Users = {1, 2}
  Books = {3}
  Taken <- MCTaken
  Kept <- MCKept
  NoInfo = NoInfo
  Levels <- MCLevels
  Objects = {o1, o2}
  NoObject = NoObject
  MaxHeld = 1
  MaxOthers = 1
SYMMETRY ObjectSymmetry
SPECIFICATION Spec
INVARIANT BeliefIsRight
INVARIANT LivesWhileReferred
 
CHECK_DEADLOCK FALSE
