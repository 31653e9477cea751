SPECIFICATION HistorySpec
CONSTANTS
  gas = gas
  net = net
  visit = visit
  Metered = {gas}
  Fixed = {net, visit}
  MaxPeriod = 2
  MaxLine = 0
  Readings = {1, 2}
  Prices = {1, 2, 3}
  Rents = {2}
  Rates = {0, 2}
  Amounts <- MCAmounts
  Manual = {}
  Spent = {}
  Currencies = {"UAH"}
  LastDay = 2
  MonthOf <- MCCalendar
  FirstDay <- MCCalendar
  Missing = Missing
  Workbooks <- MCBooks
  Own = {visit}
  OwnPrices = {3}
INVARIANTS
  TotalsAddUp
  LegacyDraftReady
  ImportSettles
