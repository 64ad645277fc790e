SPECIFICATION MCSpec
CONSTANTS
  Sessions = {s1, s2}
  Msgs = {m1, m2}
  None = None
  MaxBox = 3
  MaxCommands <- MCMaxCommands
  MaxEmails <- MCMaxEmails
  Folder = "INBOX/a"
  Criteria = {}
  Rows = {}
  Apostrophes = {}
  Regimes = {"folders"}
SYMMETRY Symmetric
INVARIANT FolderIsThere
CHECK_DEADLOCK FALSE
