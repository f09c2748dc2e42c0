SPECIFICATION Spec
CONSTANTS
  V4Len = 2
  V6Len = 3
  SaltSize = 2
  TagSize = 2
  MaxLabel = 2
  LittleEndian = TRUE
  PortMax = 7
  IntModulus = 32
  Files = {"file"}
  Salt <- MCSalt
  OtherSalt <- MCOtherSalt
  Datagrams <- MCDatagrams
  Replies <- MCReplies
  Questions <- MCQuestions
  Answers <- MCAnswers
  Documents <- MCDocuments
INVARIANT
  ConfigAsDocumented
CHECK_DEADLOCK FALSE
