SPECIFICATION Spec
CONSTANTS
  me = me
  other = other
  NumNodes = 3
  Caller = me
  Owner <- OwnerMC
  Sgi <- SgiMC
  PermRead <- PermReadMC
  Shr <- ShrMC
  Rank <- RankMC
  TrimSpace <- TrimSpaceMC
  LongVals <- LongValsMC
  Text <- TextMC
  Requests <- RequestsMC
INVARIANTS
  TypeOK
  LeavesKeepTheirValues
  CompiledFieldsChecked
  ShortPageMeansEnd
  PagesArriveWhole
