SPECIFICATION MCSpec
CONSTANTS
  Sessions = {s1, s2}
  Msgs = {m1, m2}
  None = None
  MaxBox = 3
  MaxCommands <- MCMaxCommands
  MaxEmails <- MCMaxEmails
  Folder = "INBOX/a"
  Criteria <- MCCriteria
  Rows <- MCRows
  Apostrophes = {"Ann's"}
  Regimes = {"orderly", "free"}
SYMMETRY Symmetric
INVARIANTS TypeOK NoStray NothingLost RightMailbox SearchFinds
CHECK_DEADLOCK FALSE
