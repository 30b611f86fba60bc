SPECIFICATION MailboxSpec
CONSTANTS
  a1 = a1
  a2 = a2
  r1 = r1
  m1 = m1
  m2 = m2
  m3 = m3
  None = None
  Inputs <- Tried
  NoRequest = NoRequest
  Members <- Two
  Requests <- OneReq
  Messages <- Three
  LastMessage <- Last
  MaxTeamEpoch = 3
CHECK_DEADLOCK FALSE
SYMMETRY Symmetric
INVARIANTS
  MailboxRestores
  ClosingOwesNoAction
  SentAsAsked
PROPERTIES
  AcceptedOnce
