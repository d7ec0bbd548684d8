SPECIFICATION Spec
CONSTANTS
  Workers = {w1, w2}
  w1 = w1
  w2 = w2
  Settings <- RescanSetting
  Capacity = 2
  MaxDeaths = 0
INVARIANTS
  ListsApart
