SPECIFICATION AllFairSpec
CONSTANTS
  None = None
  Empty = Empty
  Limit <- Limits
  Bindings <- BindingLimits
  Lengths = {200, 1000}
  Offsets = {0, 100, 1200}
  Margins = {40, 160}
CHECK_DEADLOCK FALSE
INVARIANTS
  PopupIsPlaced
  TapsAreOnce
  TimersAreKept
  PanelsFit
  
PROPERTIES
  
  WhatWaitsComes
  OpenComes
