SPECIFICATION Spec
CONSTANTS
  MaxLinkBufferRunes = 6
  MaxIterations = 2
  Plots <- MCPlots
INVARIANTS WellFormed CallsDelivered  
CHECK_DEADLOCK FALSE
