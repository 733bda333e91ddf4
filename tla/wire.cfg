CONSTANTS
  Components = {"arithmetic", "program", "description"}
  Digits = 5
  Payload = 3
  IntTypes <- MCIntTypes
  MaxBytes = 3
  CrcBytes = {0, 1, 90, 128, 255}
  CrcSeeds = {0, 65535}
  ByteDigits = 8
  ProgramTypes <- MCProgramTypes
  Arguments <- MCArguments
  PairLimit = 1
  IfLimit = 1
  ElseLimit = 2
  ContLimit = 2
  MaxTokens = 4
  AnyDigits = 2
  Headers = {0, 1, 2, 3, 4, 5, 6, 7, 8, 9, 10, 11, 12, 13, 14, 15, 16, 32}
  Asked <- MCAsked
SPECIFICATION MCSpec
INVARIANTS
  ScopedValuesReadBack
  NumericFieldsAreSums
  IntegersReadBack
  DintsAreExactOrRefused
  NumberTextsReadBack
  CrcSeesChanges
  SizesAgree
  ReadsWhatWasWritten
  CutIsNoticed
  ViewsShowTheirValue
  DispatchIsTotal
CHECK_DEADLOCK FALSE
