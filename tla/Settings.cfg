SPECIFICATION Spec
CONSTANTS
  MaxEntries = 2
  FeeTypes = {t1, t2}
  MaxRates = 2
INVARIANTS StartsAgain AcceptedStays NothingOlderThanReset RatesFitVersion
