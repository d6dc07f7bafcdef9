\* A dongle that answers in time or never, on a serial port or a device; during a security access
\* the client keeps its link and sends no other raw command, but polls and queries.
CONSTANTS
  Ports = {"tty", "device"}
  Pids = {"0C"}
  PollLists <- OneList
  RawCommands = {"2701", "2702", "ATDP"}
  FreezeLists <- OneList
  Calls = {"queryPid", "readDtcs", "clearDtcs", "readVin", "readFreezeFrame", "probeSupportedPids", "polling", "sendRawCommand"}
  LateAnswers = FALSE
  Chatty = {}
  MaxBanner = 0
  MaxQueue = 1
  MaxWire = 2
  MaxPending = 1
  SeedRequest = "2701"
  KeyFrame = "2702"
  Patient = TRUE
  MaxListeners = 2
SPECIFICATION SecurityFairSpec
INVARIANTS SuccessIsEarned AnswersMatch
PROPERTIES SecurityConcluded LinkSpec
