SPECIFICATION Spec
CONSTANTS
    water = water  byHand = byHand  Missing = Missing
    Metered = {water}
    Fixed = {}
    MaxPeriod = 3
    MaxLine = 2
    LastDay = 4
    MonthOf <- MCMonthOf
    FirstDay <- MCFirstDay
    Readings <- MCReadings
    Prices = {2}
    Rents = {3}
    Rates = {1, 2}
    Amounts <- MCAmounts
    Manual = {byHand}
    Spent = {1}
    Currencies = {"UAH", "USD"}
INVARIANTS
    DraftIsLatest
    ReadingsChain
    TotalsCurrent
    ExpensesMatchLines
PROPERTIES
    PnlStable
CONSTRAINT
    Bounded
