SPECIFICATION Spec
SYMMETRY CardSymmetry
CONSTANTS
  c1 = c1
  c2 = c2
  Cards = {c1, c2}
  NoCard = NoCard
  Barred = {}
  Roaming = {}
  TypedIn = {0, 1, 2}
  MaxMoney = 1
  MaxBalance = 2
  MaxStamp = 2
  MaxVersion = 0
  DbErrors = {"write"}
INVARIANTS
  PurchaseInv
  TacProvesDebit
  NeverResent
  ReportedResultStands
  ReportsDescribeDebits
