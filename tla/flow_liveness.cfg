SPECIFICATION FairSpec
CONSTANTS
  bybit = bybit
  gate = gate
  Codes = {bybit, gate}
  Configs <- MCConfigs
  Uids = {uid1}
  Periods = {may}
  Junk = {junk}
  TaskIds = {t1, t2}
  None = None
PROPERTY FetchingEnds
