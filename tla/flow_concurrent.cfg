SPECIFICATION RSpec
CONSTANTS
  bybit = bybit
  gate = gate
  Codes = {bybit, gate}
  Configs <- MCConfigs
  Uids = {uid1}
  Periods = {may}
  Junk = {junk}
  TaskIds = {t1, t2, t3}
  None = None
SYMMETRY Symmetry
INVARIANTS TypeOK WaitingHasInputs OnlyConfiguredExchanges FetchingHasOwner InputsLostOnlyInRaces
