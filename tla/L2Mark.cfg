SPECIFICATION UncoreSpec
CONSTANTS
  P = P T = T B = B C = C v = v h = h u = u NoLine = NoLine NoVA = NoVA
  Lines = {P, T, B, C} NSETS = 2 SetOf <- MCSetOfMark N = 2 MRQ = 2
  Bits = {"V", "X", "A", "D", "w"} Contents0 <- MCContents
  L1DReads = {C} L1DWrites = {C} StoreData = {{"w"}} L1IReads = {B}
  VA = {v, h, u} Path <- MCPath Asks <- MCAsks Flushes = {TRUE, FALSE} WINDOW = 1
INVARIANTS MarkHits
