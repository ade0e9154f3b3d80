SPECIFICATION RootSpec
CONSTANTS
  en = en
  de = de
  fr = fr
  pt = pt
  Locales <- MCLocales
  Default = en
  StoredAtLoad <- Dropped
  NoLanguage = NoLanguage
  MaxPicks = 1
  MaxOthers = 0
  Drawers <- MCDrawers
  Widths <- MCWidths
  minWidth = 400
  maxWidth = 500
  Calm = TRUE
  MaxEvents = 0
INVARIANTS
  PickedLanguageSaved
CHECK_DEADLOCK FALSE
