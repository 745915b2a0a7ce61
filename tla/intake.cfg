SPECIFICATION FairSpec
CONSTANTS
  t1 = t1
  t2 = t2
  g = g
  l = l
  d = d
  Tickets = {t1, t2}
  Others = {g, l, d}
  SourceOf <- Sources
  AskedPage = 2
  ServedPage = 1
  Messages = {1, 2}
  MaxChanges = 3
  MaxFailures = 1
INVARIANTS NothingForgotten
PROPERTIES TicketsTaken
CHECK_DEADLOCK FALSE
