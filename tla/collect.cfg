SPECIFICATION FairSpec
CONSTANTS
  Days <- MCDays
  Widths = {1, 2}
  Exchanges = {"gate", "kucoin", "weex", "mexc", "bitmart", "bitget"}
  PageSize = 2
  MaxRecords = 4
  Bookings <- MCBookings
  PageCounts = {TRUE, FALSE}
  NewestFirst = {"gate", "kucoin", "weex", "mexc", "bitmart"}
CHECK_DEADLOCK FALSE
INVARIANTS TypeOK CountedOnce RepetitionsExplained ResultIsComplete WithinCap Partition FittingIsWhole
PROPERTIES Advances Ends
