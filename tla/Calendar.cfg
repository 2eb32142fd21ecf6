SPECIFICATION Spec
CONSTANTS
  Texts <- MCTexts
  Todays <- MCTodays
  NoDate = NoDate
INVARIANTS NearestOccurrence TyposFound
