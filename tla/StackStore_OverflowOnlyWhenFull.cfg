\* get_stackid with REUSE = FALSE on a stack map of three elements
CONSTANTS
  NoStack = NoStack
  s1 = s1
  s2 = s2
  s3 = s3
  s4 = s4
  s5 = s5
  s6 = s6
  Stacks = {s1, s2, s3, s4, s5, s6}
  StackHash <- MCStackHash
  STORAGE = 3
  REUSE = FALSE
SPECIFICATION Spec
INVARIANT OverflowOnlyWhenFull
