SPECIFICATION Spec
CONSTANTS
  v1 = v1
  v2 = v2
  k1 = k1
  t1 = t1
  t2 = t2
  r1 = r1
  l1 = l1
  l2 = l2
  l3 = l3
  w1 = w1
  w2 = w2
  PropertyValues <- MCValues
  NoValue = NoValue
  MaxVersion = 3
  MaxQueue = 3
  Key <- MCKey
  MapValues <- MCValues
  Absent = Absent
  MaxMapVersion = 3
  MaxMapQueue = 3
  ListValues <- MCValues
  MaxLength = 2
  MaxListVersion = 3
  SetValues <- MCValues
  MaxSetQueue = 3
  Task <- MCTask
  NoTask = NoTask
  MaxBound = 3
  MaxData = 2
  RequestId <- MCRequestId
  MaxConnections = 2
  MaxEvents = 3
  InternValues <- MCValues
  MaxUses = 2
  MaximumHeartbeatDelay = 1
  MaxTimestamp = 3
  MaxRestarts <- MCRestarts
  MaxPings = 1
  Life <- MCLife
  Root = l1
  Worker <- MCWorker
  MaxActions = 2
INVARIANTS
  TypeOK
  PropertyAgrees
  MapAgrees
  ListAgrees
  SetAgrees
  OnlyFailuresBlock
  DataInOrder
  PlayStateShown
  InternedRead
  SilenceNoticed
  ActionsRunOnce
  ChildEndsFirst
PROPERTIES
  MasterPrevails
  ResultIsFinal
  ExtsMeet
  ModelFreedUnseen
  RequestsAnswered
CHECK_DEADLOCK FALSE
