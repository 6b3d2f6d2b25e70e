SPECIFICATION Spec
SYMMETRY CardSymmetry
CONSTANTS
  c1 = c1
  c2 = c2
  Cards = {c1, c2}
  NoCard = NoCard
  Barred = {}
  Roaming = {}
  TypedIn = {1}
  MaxMoney = 1
  MaxBalance = 1
  MaxStamp = 1
  MaxVersion = 0
  DbErrors = {}
INVARIANT WriteOkMeansDebited
