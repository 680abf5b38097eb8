\* Three rows: a call's own, the one the panel was at, and another.  One text
\* that is not blank is enough to see it land on the wrong row; its 7 has no glyph
\* and its last character no room.
CONSTANTS
  NumRows = 3
  MaxChars = 2
  Texts <- FewTexts
  Garbled = garbled
  Unknown = unknown
SPECIFICATION PanelSpec
INVARIANTS
  PanelTypeOK
  DamageIsLocal
  InitBringsIntoStep
PROPERTY
  RowRecovers
