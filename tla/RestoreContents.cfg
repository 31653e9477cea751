SPECIFICATION ContentsSpec
CONSTANTS
  Metered = {}
  Fixed = {}
  MaxPeriod = 2
  MaxLine = 2
  Readings = {}
  Prices = {1, 2}
  Rents = {2}
  Rates = {2}
  Amounts <- MCAmounts
  Manual = {e1, e2}
  Spent = {1}
  Currencies = {"UAH", "USD"}
  LastDay = 2
  MonthOf <- MCCalendar
  FirstDay <- MCCalendar
  Missing = Missing
  Dated = {d1}
  Works <- MCWorks
  MaxArchives = 1
SYMMETRY Symmetry
INVARIANTS
  ContentsTypeOK
  ExpensesMatchLines
  ReportRestored
  RestoreSettles
