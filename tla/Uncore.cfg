SPECIFICATION UncoreSpec
CONSTANTS
  P = P T = T B = B C = C v = v h = h u = u NoLine = NoLine NoVA = NoVA
  Lines = {P, T, B, C} NSETS = 2 SetOf <- MCSetOf N = 2 MRQ = 2
  Bits = {"V", "X", "A", "D", "w"} Contents0 <- MCContents
  L1DReads = {B, C} L1DWrites = {C} StoreData = {{"w"}} L1IReads = {C}
  VA = {v, h, u} Path <- MCPath Asks <- MCAsks Flushes = {FALSE} WINDOW = 0
INVARIANTS TypeOK SetInterlock AnswersExpected OneCopy VictimKept VictimUnread DirtyKept
PROPERTIES Implements FlushCleans
