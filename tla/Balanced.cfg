SPECIFICATION Spec
CONSTANTS
  Nd = 2
  MaxRefined = 5
INVARIANTS
  TwoToOne
  CoarsensWhatItMay
PROPERTIES
  RefinesWhatItMust
  CallReturns
