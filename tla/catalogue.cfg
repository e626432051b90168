SPECIFICATION Spec
CONSTANTS
  r1 = r1
  r2 = r2
  n1 = n1
  n2 = n2
  Requests = {r1, r2}
  Names = {n1, n2}
  Together <- Scenes
SYMMETRY Slots
INVARIANTS
  PicturesExist
  NothingStranded
  NamesUnique
  NeededStays
  OneKindOfChildren
  
 
CHECK_DEADLOCK FALSE
