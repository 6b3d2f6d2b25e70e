SPECIFICATION Spec
SYMMETRY CardSymmetry
CONSTANTS
  c1 = c1
  c2 = c2
  Cards = {c1, c2}
  NoCard = NoCard
  Barred = {}
  Roaming = {c1, c2}
  TypedIn = {1, 2, 3}
  MaxMoney = 2
  MaxBalance = 2
  MaxStamp = 1
  MaxVersion = 0
  DbErrors = {"write"}
INVARIANT DebitsDescribed
PROPERTIES
  JournalBeforeDebit
  OneDebitPerRow
  ImplementsWriteAhead
