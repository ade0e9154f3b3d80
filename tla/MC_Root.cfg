SPECIFICATION RootFairSpec
CONSTANTS
  en = en
  de = de
  fr = fr
  pt = pt
  Locales <- MCLocales
  Default = en
  StoredAtLoad <- Dropped
  NoLanguage = NoLanguage
  MaxPicks = 2
  MaxOthers = 1
  Drawers <- MCDrawers
  Widths <- MCWidths
  minWidth = 400
  maxWidth = 500
  Calm = TRUE
  MaxEvents = 4
INVARIANTS
  EveryPickSent
  ShownIsStored
  StoredKeptWithoutPick
  SteadyDrawerIsShown
  OneDrawerOpen
PROPERTIES
  SyncSettles
  DrawersSettle
CHECK_DEADLOCK FALSE
