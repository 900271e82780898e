SPECIFICATION Spec
CONSTANTS
  Exchanges = {"gate", "kucoin", "bitget", "weex", "bitmart", "mexc", "okx", "bybit", "demo"}
  Numbers <- MCNumbers
  MaxRows = 2
CHECK_DEADLOCK FALSE
INVARIANTS TypeOK ShownAddsUp StopsWithCause CaveatsShown
