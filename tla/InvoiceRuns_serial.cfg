SPECIFICATION Spec
CONSTANTS
  r1 = r1
  r2 = r2
  w1 = w1
  w2 = w2
  NoRun = NoRun
  AnyYear = AnyYear
  Runs = {r1, r2}
  Year <- MCYearSame
  Parcels = {1, 2}
  Movable = {1, 2}
  Purgeable = {}
  MaxItems = 2
  Forms <- MCForms
  Edits <- MCEdits
  Overrides = {2}
  Starts = {1}
  Formats = {"year/number"}
  YearFormats = {"year/number"}
  DefaultFormat = "year/number"
  Workers = {w1}
INVARIANTS OneInvoicePerParcel GeneratedNumbersAreFree
PROPERTIES FinalizedRunsStay ImplementsLedger
