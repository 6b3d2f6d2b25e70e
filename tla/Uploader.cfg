SPECIFICATION Spec
CONSTANTS
  c1 = c1
  c2 = c2
  Cards = {c1, c2}
  NoCard = NoCard
  TypedIn = {1}
  MaxMoney = 1
  MaxVersion = 2
  DbErrors = {"write"}
INVARIANTS
  TableCoversVersion
PROPERTIES
  EveryRowMarked
  LossListArrives
