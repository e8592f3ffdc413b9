SPECIFICATION Spec
CONSTANTS
  Key <- MCKey
  Kind <- MCKind
  Specs <- MCSpecs
  Tables <- MCTables
  Table = Table
  Nil = Nil
  NilMap = NilMap
  Text = Text
  Number = Number
  Rune = Rune
  MaxSettings = 1
INVARIANT SettingsOverwrite
CHECK_DEADLOCK FALSE
