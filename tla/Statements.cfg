CONSTANTS
  None = None
  MaxRows = 4
  MaxRepeats = 1
  Charges <- MCCharges
  Tokens <- MCTokens
  FamilyOf <- MCFamilyOf
  Blank = Blank
  NoDay = NoDay
  NoValue = NoValue
  NaN = NaN
  NoMerchant = NoMerchant
  CsvFiles <- MCCsvFiles
  Today = 28
  DayOf <- MCDayOf
  ValueOf <- MCValueOf
  Folded <- MCFolded
  FirstWord <- MCFirstWord
  PdfDocuments <- MCPdfDocuments
  Threshold = 1
  Rest <- MCRest
  t1 = t1
  t2 = t2
  t3 = t3
  Threads = {t1, t2, t3}
  Limit = 2
  Window = 3
  MaxDelay = 1
  MaxTime = 5
SPECIFICATION StatementsSpec
SYMMETRY Symmetry
INVARIANTS
  StatementsTypeOK
  WindowsHold RowsAreRead FindingsAreStable SumsGoTogether
CHECK_DEADLOCK FALSE
