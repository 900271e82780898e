SPECIFICATION Spec
CONSTANTS
  bybit = bybit
  gate = gate
  Codes = {bybit, gate}
  Configs <- MCConfigs
  Uids = {uid1, uid2}
  Periods = {may}
  Junk = {junk}
  TaskIds = {t1}
  None = None
INVARIANT NoMissingKey
PROPERTY KeepsPromise
