SPECIFICATION FairSpec
CONSTANTS
  None = None
  reply = reply
  early = early
  bounce = bounce
  blank = blank
  visit = visit
  Mails = {reply, early, bounce, blank}
  Visits = {visit}
  EventOf <- MCEventOf
  FromOf <- MCFromOf
  SubjectOf <- MCSubjectOf
  Filed <- MCFiled
  Numbers = {42, 43}
  People = {"ann", "bob"}
  Departments = {"HR"}
  KeywordDept <- MCKeywordDept
  MaxIncoming = 1
  MaxFaults = 2
CHECK_DEADLOCK FALSE
INVARIANTS
  RepliesNotQueued
  AcknowledgedIsRecorded
PROPERTIES
  ReplyStaysReply
  MailSettles
