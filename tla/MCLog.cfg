SPECIFICATION LogSpec
CONSTANTS
  Width = 5
  WordLimit = 1024
  PageWords = 32
  Image <- Picture
  Characters <- TheCharacters
  Formats <- TheFormats
  Alarms <- TheAlarms
  Texts <- TheTexts
  Rectangles <- TheRectangles
  Tags <- TheTags
  MaxX = 20
  MaxY = 20
INVARIANTS
  LogTypeOK
  PrintedAsFormatted
  DrawsInside
  InReadingOrder
