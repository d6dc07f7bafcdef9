\* A session over Bluetooth, whose link may be lost at any time.
CONSTANTS
  Ports = {"bt"}
  Pids = {"0C"}
  PollLists <- NoLists
  RawCommands = {}
  FreezeLists <- NoLists
  Calls = {}
  LateAnswers = FALSE
  Chatty = {}
  MaxBanner = 0
  MaxQueue = 1
  MaxWire = 1
  MaxPending = 1
  LivePids = {"0C"}
  Essentials = {"0C"}
  TurboPids = {"0C"}
  TurboFallback = {"0C"}
  BasePids = {"0C"}
  TunePids = {"0C"}
  EcuPids = {"0C"}
  Users = {"session", "tune"}
SPECIFICATION DriveSpec
INVARIANT LossExplained
