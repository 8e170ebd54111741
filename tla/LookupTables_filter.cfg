CONSTANTS
  t1 = t1
  t2 = t2
  t3 = t3
  x1 = x1
  x2 = x2
  x3 = x3
  x4 = x4
  Table = {t1, t2, t3}
  CustomTable = t1
  Contents <- MC_Contents
  Txns <- MC_Txns
  MaxVersion = 2
  MIN_ADDRESSES_TO_INCLUDE_TABLE = 2
  MAX_TABLE_COUNT = 2
SPECIFICATION Spec
INVARIANT FilterSurvives
