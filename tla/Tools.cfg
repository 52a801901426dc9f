SPECIFICATION Spec
CONSTANTS
  Agents = {a1}
  Latency = 1
  Timeouts <- MCTimeouts
  Intervals <- MCIntervals
  DEFAULT_WAIT_TIMEOUT = 3
  DEFAULT_WAIT_INTERVAL = 3
  MIN_WAIT_INTERVAL = 2
  Modes = {Unset, "full-access"}
  Unset = Unset
  MaxCommands = 2
  MaxEvents = 5
  OUTPUT_CHAR_LIMIT = 16
  READ_BYTE_LIMIT = 3
  Frame = 4
  Mark = 2
  Prompts <- MCPrompts
  Outputs <- MCOutputs
  TurnLimits = {0, 1, 3}
  DEFAULT_TURN_LIMIT = 2
  MaxTurns = 3
  Editors = {e1, e2}
  Widths = {1, 2}
  MaxLength = 4
  MaxWrites = 3
  Processes = {p1, p2}
  Accounts = {u1, u2}
  MaxCeremonies = 2
  MaxGrants = 3
  Nobody = Nobody
  Workers = {t1, t2}
  MaxKeys = 2
SYMMETRY Symmetry
INVARIANTS TypeOK WaitBounded TimeoutLookedLate SettledIsOver OneCallOneCommand FullAccessOnlyIfAsked UnreadIsMarked CutIsTight LastCeremonyCompletes StoredAccount RefusedOnlyByCreation
PROPERTIES TailKept
