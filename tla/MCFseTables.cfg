SPECIFICATION Spec
CONSTANTS
  Precision = 24
  Histograms <- MCHistograms
  Junk <- MCJunk
  Probes <- MCProbes
CHECK_DEADLOCK FALSE
INVARIANTS
  FrequenciesSound
  TableSurvives
  CodingInverse
