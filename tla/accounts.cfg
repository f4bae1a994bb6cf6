SPECIFICATION Spec
CONSTANTS
  c1 = c1
  c2 = c2
  ann = ann
  bob = bob
  cat = cat
  Clients <- MCClients
  Names <- MCNames
  Bootstrap = ann
  Forms <- MCForms
  Starts <- MCStart
  MaxUsers = 3
  MaxSessions = 3
  MaxRequests = 3
  MaxFaults = 1
INVARIANT TypeOK
INVARIANT RevokedSessionsAreGone
INVARIANT SessionsKeepTheirOwner
PROPERTY LockedOutOnlyByItself
PROPERTY ChangesAreAudited
\* A server without requests stops nowhere, but this instance has a last one.
CHECK_DEADLOCK FALSE
