SPECIFICATION FairSpec
CONSTANTS
  c1 = c1
  c2 = c2
  NoCard = NoCard
  Cards = {c1, c2}
  MaxTrans = 2
  DbErrors = {"read", "write"}
INVARIANTS
  
  
  ReportsWereBooked
  UnjudgedStaysOpen
  CreditOnce
  KeptMeansCredited
PROPERTY CheckEnds
