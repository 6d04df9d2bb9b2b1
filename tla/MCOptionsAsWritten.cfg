CONSTANTS
  CJSON_NESTING_LIMIT = 2
  Chars <- Spelling
  Argv <- OneFile
  DefaultPorts = 24
  DefaultThreads = 4
SPECIFICATION Spec
INVARIANT ConfiguredAsWritten
CHECK_DEADLOCK FALSE
