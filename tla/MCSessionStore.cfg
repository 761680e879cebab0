SPECIFICATION StoreSpec
CONSTANTS
  Runs = {r1}
  Sessions = {s1, s2}
  Cleaner = Cleaner
  Nil = Nil
  Absent = Absent
  Torn = Torn
  Retention = 1
  MaxTime = 1
  MaxHarm = 1
PROPERTIES
  SparesTheRest
  ExpiredAndBrokenGo
