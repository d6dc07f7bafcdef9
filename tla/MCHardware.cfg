\* One part at a time.
CONSTANTS
  MaxDialogs = 2
  BoxCategories = {"boost", "air"}
  RouteCategories = {"boost"}
  Blocks = 2
  MaxOwed = 2
  MaxWrites = 2
  MaxAsked = 3
  MaxKnocks = 2
  MaxRunNo = 2
  MaxPosted = 3
  Threads = {1, 2}
  MaxResults = 2
  MaxCalls = 3
  MaxMishaps = 2
  Tunes <- MCTunes
  Snapshots <- MCSnapshots
  Full = 2
  MaxDelta = 4
  MaxDeltaAir = 1
  MaxDeltaLambda = 0
  Needs = {1, 2, 3}
  OkNeed = 3
  Adjustable = FALSE
  MaxStreak = 8
SPECIFICATION HardwareSpec
INVARIANTS HardwareTypeOK PanelAgrees AcquisitionsSound
INVARIANTS WorkerAlone TornIsTold AnswersAreOfThisRun PhoneLetsGo RedAfterFailures Heard
PROPERTIES Reconnects MeasuresEnd GreenAfterOks
