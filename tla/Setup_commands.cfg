SPECIFICATION Spec
CONSTANTS
  None = None
  MaxCommands = 2
  Procs = {p1, p2}
  Users = {"u1", "u2"}
  Contexts = {"ctx1", "ctx2"}
  UserOf <- MCUserOf
  Paths = {"/old", "/new", "/up"}
  BaseOf <- MCBaseOf
  Edits = {e1}
  CommaLists <- MCCommaLists
  CsvLists <- MCCsvLists
  Trimmed <- MCTrimmed
  Unquoted <- MCUnquoted
  KeyValues <- MCKeyValues
  FirstCommand <- MCFirstCommand
  UserArgs <- MCUserArgs
  Flags <- MCFlags
SYMMETRY Symmetry
INVARIANT TypeOK
INVARIANT EntriesRunnable
INVARIANT EditsRecoverable
INVARIANT KeysAgree
INVARIANT InstallRoundTrip
CHECK_DEADLOCK FALSE
