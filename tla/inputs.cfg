CONSTANTS
  Half = 1
  Groups = 4
  Texts <- SomeTexts
  Entries <- SomeEntries
  Lists <- TwoAtMost
  Null = Null
  HostParts = {"a", "b"}
  Numbers = {0, 1, 7}
SPECIFICATION Inputs
INVARIANTS ParsesTheAddress AllowedExactly ReadsAsWritten
CHECK_DEADLOCK FALSE
