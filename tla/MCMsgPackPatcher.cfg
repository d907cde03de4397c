CONSTANTS
  Targets <- MCTargets
  Leaves <- MCLeaves
  Deltas <- MCDeltas
  Limits <- MCLimits
  ULongMax = 9
  MaxLen = 2
  MaxNum <- MCMaxNum
SPECIFICATION Spec
INVARIANT TypeOK
PROPERTY PatchFollowsRFC
