\* Eight files in any order, every kind of capacity, and the cores of two
\* processes under every kind of core_pattern.
SPECIFICATION ReportSpec
CONSTANTS
  None = None
  Kibi = 112
  File <- Files
  Capacities <- NegativeToThree
  Situations <- AllSituations
  MaxDirs = 2
INVARIANTS
  TypeOK
  KeepsLargest
  TotalIsOfAll
  ReportIsSorted
  ReportSaysSizes
  CoreIsOwn
PROPERTIES
  PromiseKept
