CONSTANTS
  CJSON_NESTING_LIMIT = 2
  Chars <- Spelling
  Argv <- CommandLines
  DefaultPorts = 24
  DefaultThreads = 4
SPECIFICATION Spec
INVARIANTS TypeOK ParsesTheText HeapIsSound NothingLeaks SettingsApplied
CHECK_DEADLOCK FALSE
