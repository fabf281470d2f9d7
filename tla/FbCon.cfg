SPECIFICATION Spec
CONSTANTS
  Width = 9
  Height = 16
  FontWidth = 1
  FontHeight = 2
  Scale = 2
  MaxDepth = 3
  Texts <- mcTexts
INVARIANTS
  GlyphInside
  CriticalIsYellow
PROPERTIES
  TextKept
  WritesReturn
