CONSTANTS
  Writers = {w1}
  Searches = {s1}
  MaxGen = 3
  Absent = Absent
SPECIFICATION Spec
INVARIANTS TypeOK Recoverable NotStale MixIsTransient
