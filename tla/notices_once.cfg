SPECIFICATION FairSpec
CONSTANTS
  Student = {s1, s2}
  Active = {s1}
  Unreachable = {s2}
  Tabs = 2
  Horizon = 2
  FirstDeadline = 1
  Month = 2
  MaxEvents = 2
INVARIANTS
  TypeOK
  MailedOnce
  RemindersAimed
  UnreadBounded
PROPERTY DeadlineSummarized
