SPECIFICATION RootSpec
CONSTANTS
  en = en
  de = de
  fr = fr
  pt = pt
  Locales <- MCLocales
  Default = en
  StoredAtLoad <- Dropped
  NoLanguage = NoLanguage
  MaxPicks = 0
  MaxOthers = 0
  Drawers <- MCDrawers
  Widths <- MCWidths
  minWidth = 400
  maxWidth = 500
  Calm = TRUE
  MaxEvents = 2
INVARIANTS
  OpenDrawerIsShown
CHECK_DEADLOCK FALSE
