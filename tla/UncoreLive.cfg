SPECIFICATION FairSpec
CONSTANTS
  P = P T = T B = B C = C v = v h = h u = u NoLine = NoLine NoVA = NoVA
  Lines = {P, T, C} NSETS = 1 SetOf <- MCSetOf1 N = 2 MRQ = 2
  Bits = {"V", "X", "A", "D", "w"} Contents0 <- MCContents
  L1DReads = {} L1DWrites = {C} StoreData = {{"w"}} L1IReads = {C}
  VA = {v, h, u} Path <- MCPath Asks <- MCAsksLive Flushes = {TRUE} WINDOW = 1
PROPERTIES Answered
