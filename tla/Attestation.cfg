SPECIFICATION Spec
CONSTANTS
  Alphabet <- SomeBytes
  MaxBytes = 5
  MaxDepth = 5
  Pcrs <- SomePcrs
  Pcr0 <- SomePcr0
  Times <- SomeTimes
  Fields <- SomeFields
  Now <- Clock
INVARIANTS
  Reencoded
  OneDocument
  IssuedReadBack
CHECK_DEADLOCK FALSE
