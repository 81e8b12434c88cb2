\* One ticket, one scan at a time, people on the ticket at any time; a scan dies.
CONSTANTS
  TicketIds = {t1}
  Staff = {lead, a1}
  lead = lead
  NoOne = NoOne
  Leads <- MCLeads
  Scans = {s1}
  MaxDeaths = 1
SPECIFICATION FairSpec
INVARIANTS
  EscalatedIsUrgent
  EscalatedOnce
PROPERTIES
  EscalationKeepsStatus
  LateIsEscalated
CHECK_DEADLOCK FALSE
