CONSTANTS
  Clients = {here}
  Window = 1
  MaxAttempts = 1
  MaxLoginClients = 1
  MaxSessions = 2
  SessionSeconds = 1
  Threads = {t1, t2}
  Connections = {media}
  TicketSeconds = 1
  MaxTickets = 1
  Buffer = 1
  MaxFrames = 2
  MaxClock = 1
  MaxLogins = 2
  MaxIssued = 1
  MaxChanges = 1
  Written <- Few
SPECIFICATION FairSpec
INVARIANTS AttemptsLimited TicketsAdmitOnce FramesAreAccounted
PROPERTY ListeningEnds
