SPECIFICATION FairSpec
CONSTANTS
  Task = {t1, t2}
  Server = {s1}
  Inline = {i}
  NoTask = NoTask
  NoKey = NoKey
  NoClient = NoClient
  MaxClients = 3
PROPERTY NoServerStopsAll
