SPECIFICATION MCSpec
CONSTANTS
  Addrs <- MCAddrs
  Domain <- MCDomain
  LocalDomains = {"home", "den"}
  DenDomains = {"den"}
  Users <- MCUsers
  UserOf <- MCUserOf
  FolderOf <- MCFolderOf
  Groups <- MCGroups
  Members <- MCMembers
  Senders <- MCSenders
  Client = "eve"
  Froms = {"eve", "ann"}
  Tos = {"bob+x", "all"}
  Results <- MCResults
  Rspamd = FALSE
  None = None
  MaxEmails = 2
  MaxRcpts <- MCMaxRcpts
  Statements <- MCStatements
  Scripts <- MCScripts
  Files <- MCFiles
  Mails <- MCMails
  Eval <- EvalExpression
  EvalNested <- MCEvalNested
  Pieces <- MCPieces
  Byte <- MCByte
  Texts <- MCTexts
  Programs <- MCPrograms
  Layouts <- MCLayouts
  Comparisons <- MCComparisons
INVARIANTS TypeOK OwnRecipients EveryoneServed SenderKept FolderKept
  TerminalStops FailureLeavesNothing LexLossless ParsesBack ConditionMet
PROPERTY AcceptedIsSent
CHECK_DEADLOCK FALSE
