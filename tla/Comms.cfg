SPECIFICATION FairSpec
CONSTANTS
  Byte <- MCByte
  NEWLINE = 0
  Spelling <- MCSpelling
  Words <- MCWords
  CMD_MAX_LEN = 16
  MQ_MAX_MESSAGES = 1
  SNAPSHOT_ROUNDS = 2
  MaxLines = 2
INVARIANT TypeOK
INVARIANT ObeyedInOrder
PROPERTY ShownAfterReported
PROPERTY ReportsAlternate
PROPERTY LoneCommandObeyed
PROPERTY GoodLinkShown
