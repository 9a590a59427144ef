CONSTANTS
  t1 = t1
  t2 = t2
  t3 = t3
  h1 = h1
  NoHost = NoHost
  Threads <- MCThreads
  Hosts <- MCHosts
  Scenarios <- MCScenarios
  FlagWords <- MCFlagWords
  Datagrams <- MCDatagrams
  Asked <- MCAsked
  Rooms <- MCRooms
  LateErrors <- MCLateErrors
  Limits <- MCLimits
  OpenWords <- MCOpenWords
  MaxFile = 2
  MaxInbox = 1
  MaxWord = 2
SPECIFICATION FairSpec
INVARIANTS TypeOK ErrnoMeansTheError OneCreator
PROPERTIES ImplementsBionicSockets FutexReturns AppendsSurvive
