SPECIFICATION Spec
CONSTANTS
  e1 = e1
  e2 = e2
  c1 = c1
  c2 = c2
  p1 = p1
  p2 = p2
  m1 = m1
  m2 = m2
  Events = {e1, e2}
  Workers = {w1, w2}
  Subs = 2
  Wants <- MCWants
  Capacity = 1
  MaxAttempts = 2
  Consumers = {p1, p2}
  Messages = {m1, m2}
  EventOf <- MCEventOf
  Keyed = {e1}
  Unreadable = {m2}
  MaxReceives = 3
  MaxLapses = 1
  MaxRestarts = 1
  Alerts = {e1, e2}
  SubjectOf <- MCSubject
  Critical = {e1}
  Channels <- MCChannels
  Admits <- MCAdmits
  Processes = {p1, p2}
  Backlog <- MCBacklog
  Senders = {s1, s2}
  BatchSize = 1
  MaxSends = 2
  MaxMishaps = 1
  Local = p1
INVARIANTS
  TypeOK
  CloseDrains
  
  
  SentOnce

  
CHECK_DEADLOCK FALSE
