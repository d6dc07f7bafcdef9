\* Sessions, tunes and pages; a link that comes and goes.
CONSTANTS
  Ports = {"tty"}
  Pids = {"0B", "0C"}
  PollLists <- NoLists
  RawCommands = {"ATDP"}
  FreezeLists <- NoLists
  Calls = {}
  LateAnswers = FALSE
  Chatty = {}
  MaxBanner = 0
  MaxQueue = 1
  MaxWire = 1
  MaxPending = 1
  LivePids = {"0B", "0C"}
  Essentials = {"0C"}
  TurboPids = {"0C"}
  TurboFallback = {"0C"}
  BasePids = {"0C"}
  TunePids = {"0B", "0C"}
  EcuPids = {"0B", "0C"}
  Users = {"session", "tune", "page"}
SPECIFICATION DriveSpec
INVARIANTS LinkAgrees PollingFits
