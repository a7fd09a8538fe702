SPECIFICATION FairSpec
CONSTANTS
  v1 = v1
  v2 = v2
  v3 = v3
  Images = {v1, v2, v3}
  NPages = 2
  Size <- MCSize
  Version <- MCVersion
  MaxCuts = 2
  NoImage = NoImage
  Erased = Erased
  Junk = Junk
INVARIANTS
  TypeOK
  ArmedImageVerified
  NeverBricked
  NoDowngrade
PROPERTIES
  EraseBeforeProgram
  UpdateIsAtomic
  ArmedIsInstalled
