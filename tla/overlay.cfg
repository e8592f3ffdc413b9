SPECIFICATION Spec
CONSTANTS
  Key <- MCKey
  Kind <- MCKind
  Specs <- MCSpecs
  Tables <- MCTables
  Table = Table
  Nil = Nil
  NilMap = NilMap
  Text = Text
  Number = Number
  Rune = Rune
  MaxSettings = 3
INVARIANTS TypeOK OthersStay AcceptedAreWritten OnceIsEnough OrderDoesNotMatter
CHECK_DEADLOCK FALSE
