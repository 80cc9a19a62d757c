SPECIFICATION Spec
CONSTANTS
  Frame <- MCFrame
  Files <- MCFiles
  Rates <- MCRates
  Targets <- MCTargets
  INT_MAX = 32767
  Delay = 1
INVARIANT WholeFileDelivered
