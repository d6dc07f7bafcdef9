\* Serial, CDC-ACM and Bluetooth links, with late answers and, on serial ports, unasked
\* prompts; two connections, so that lambdas of the first can outlive it.
CONSTANTS
  Ports = {"bt", "tty", "acm"}
  Pids = {"0C"}
  PollLists <- OneList
  RawCommands = {}
  FreezeLists <- NoLists
  Calls = {"clearDtcs", "polling", "canMonitor"}
  LateAnswers = TRUE
  Chatty = {"serial"}
  MaxBanner = 1
  MaxQueue = 1
  MaxWire = 2
  MaxPending = 2
SPECIFICATION FairSpec
INVARIANTS TypeOK BusyIsTimed PhasesAgree NothingStranded
PROPERTIES OpeningEnds QueueDrains
