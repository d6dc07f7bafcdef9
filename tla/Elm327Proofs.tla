---------------------------- MODULE Elm327Proofs ----------------------------
(* Theorems about the ELM327 driver, for every value of its constants. *)
EXTENDS Elm327, TLAPS

\* How the handlers build their sequences.
LEMMA SeqFacts ==
  \A S : /\ <<>> \in Seq(S)
         /\ \A x \in S : <<x>> \in Seq(S)
         /\ \A x, y \in S : <<x, y>> \in Seq(S)
         /\ \A s \in Seq(S), x \in S : Append(s, x) \in Seq(S)
         /\ \A s, t \in Seq(S) : s \o t \in Seq(S)
OBVIOUS

\* What a queued command, an emitted signal and an awaited answer are.
LEMMA CmdType ==
  ASSUME NEW kind \in Kinds, NEW arg \in Texts
  PROVE  Cmd(kind, arg) \in Cmds
BY DEF Cmd, Cmds

LEMMA SigType ==
  ASSUME NEW name \in SignalNames, NEW arg \in Texts \cup StatusTexts
  PROVE  Sig(name, arg) \in Signals
BY DEF Sig, Signals, NoAnswer, Answers, Cmd, Cmds, Kinds, Texts

LEMMA StatusType == \A text \in StatusTexts : Status(text) \in Signals
BY SigType DEF Status, SignalNames

LEMMA InitQueueType == InitQueue \in Seq(Cmds)
<1>1. \A i \in 1..6 : InitTexts[i] \in Texts
  BY DEF Texts
<1>2. \A i \in 1..6 : Cmd("Init", InitTexts[i]) \in Cmds
  BY <1>1, CmdType DEF Kinds
<1> QED
  BY <1>2 DEF InitQueue

LEMMA ProbeCmdsType == ProbeCmds \in Seq(Cmds)
<1>1. \A i \in 1..4 : Blocks[i] \in Texts
  BY DEF Texts
<1>2. \A i \in 1..4 : Cmd("PidSupport", Blocks[i]) \in Cmds
  BY <1>1, CmdType DEF Kinds
<1> QED
  BY <1>2 DEF ProbeCmds

LEMMA WrittenType ==
  ASSUME NEW w \in Seq(Cmds), NEW c \in Cmds
  PROVE  Written(w, c) \in Seq(Cmds)
BY ElmAssumption DEF Written

\* sendNext keeps the pipeline and the signals well typed.
LEMMA SendNextType ==
  ASSUME current \in Cmds,
         NEW q \in Seq(Cmds), NEW b \in BOOLEAN, NEW can \in BOOLEAN, NEW t \in BOOLEAN,
         NEW w \in Seq(Cmds), NEW out \in Seq(Signals),
         SendNext(q, b, can, t, w, out)
  PROVE  PipeOK' /\ signals' \in Seq(Signals)
<1>1. CASE can \/ b \/ q = <<>>
  BY <1>1 DEF SendNext, PipeOK
<1>2. CASE ~can /\ ~b /\ q # <<>>
  <2>1. Head(q) \in Cmds /\ Tail(q) \in Seq(Cmds)
    BY <1>2
  <2>2. Written(w, Head(q)) \in Seq(Cmds)
    BY <2>1, WrittenType
  <2>3. Append(out, Status("info")) \in Seq(Signals)
    BY StatusType DEF StatusTexts
  <2> QED
    BY <1>2, <2>1, <2>2, <2>3 DEF SendNext, PipeOK
<1> QED
  BY <1>1, <1>2

\* The bookkeeping of the single-shot lambdas.
LEMMA LaterType ==
  ASSUME NEW l \in LambdaCounts
  PROVE  /\ NextEpoch(l) \in LambdaCounts
         /\ \A kind \in LambdaKinds : Arm(l, kind) \in LambdaCounts
<1>1. \A k \in LambdaKinds : l[k].fresh \in Nat /\ l[k].stale \in Nat
  BY DEF LambdaCounts
<1>2. NextEpoch(l) \in LambdaCounts
  BY <1>1 DEF NextEpoch, LambdaCounts
<1>3. ASSUME NEW kind \in LambdaKinds PROVE Arm(l, kind) \in LambdaCounts
  BY <1>1 DEF Arm, LambdaCounts
<1> QED
  BY <1>2, <1>3

LEMMA FiredType ==
  ASSUME later \in LambdaCounts, NEW kind \in LambdaKinds, NEW age \in {"fresh", "stale"},
         later[kind][age] > 0
  PROVE  Fired(kind, age) \in LambdaCounts
<1>1. \A k \in LambdaKinds : later[k] \in [fresh : Nat, stale : Nat]
  BY DEF LambdaCounts
<1>2. [later[kind] EXCEPT ![age] = @ - 1] \in [fresh : Nat, stale : Nat]
  <2>1. CASE age = "fresh"
    BY <1>1, <2>1
  <2>2. CASE age = "stale"
    BY <1>1, <2>2
  <2> QED
    BY <2>1, <2>2
<1>3. Fired(kind, age) = [later EXCEPT ![kind] = [later[kind] EXCEPT ![age] = @ - 1]]
  BY DEF Fired, LambdaCounts
<1> QED
  BY <1>1, <1>2, <1>3 DEF LambdaCounts

LEMMA LinkSignalsType ==
  /\ Lost \in Seq(Signals) /\ ErrorOccurred \in Signals
  /\ Sig("connected", "") \in Signals
<1>1. "" \in Texts
  BY DEF Texts
<1>2. /\ Sig("connected", "") \in Signals /\ Sig("disconnected", "") \in Signals
      /\ Sig("errorOccurred", "") \in Signals
  BY <1>1, SigType DEF SignalNames
<1> QED
  BY <1>2, SeqFacts DEF Lost, ErrorOccurred

-----------------------------------------------------------------------------
(* What the handlers are made of. *)

\* disconnectPort, with whatever signals.
LEMMA DownType ==
  ASSUME TypeOK, NEW l \in LambdaCounts, Down(l), signals' \in Seq(Signals),
         port' \in {"tty", "acm", "device", "bt"}, autoBaud' \in BOOLEAN,
         triedHighBaud' \in BOOLEAN, atzRetried' \in BOOLEAN
  PROVE  TypeOK'
<1>1. DeviceOK'
  BY DEF TypeOK, Down, LinkDown, DeviceOK
<1>2. FlagsOK'
  BY DEF TypeOK, Down, LinkDown, FlagsOK
<1>3. SessionOK'
  BY DEF TypeOK, Down, LinkDown, SessionOK
<1>4. PollOK'
  BY SeqFacts DEF TypeOK, Down, LinkDown, PollOK
<1>5. PipeOK'
  BY SeqFacts DEF TypeOK, Down, LinkDown, PipeOK
<1>6. ProbeOK'
  BY DEF TypeOK, Down, LinkDown, ProbeOK, probeVars
<1>7. later' \in LambdaCounts
  BY LaterType DEF Down
<1> QED
  BY <1>1, <1>2, <1>3, <1>4, <1>5, <1>6, <1>7 DEF TypeOK

LEMMA FailConnectType ==
  ASSUME TypeOK, NEW l \in LambdaCounts, NEW out \in Seq(Signals), FailConnect(l, out),
         triedHighBaud' \in BOOLEAN
  PROVE  TypeOK'
<1>1. signals' \in Seq(Signals)
  BY LinkSignalsType, SeqFacts DEF FailConnect
<1>2. /\ port' \in {"tty", "acm", "device", "bt"} /\ autoBaud' \in BOOLEAN
      /\ atzRetried' \in BOOLEAN
  BY DEF FailConnect, TypeOK, DeviceOK, FlagsOK
<1> QED
  BY <1>1, <1>2, DownType DEF FailConnect

LEMMA SubmitType ==
  ASSUME TypeOK, NEW cmds \in Seq(Cmds), NEW out \in Seq(Signals), Submit(cmds, out),
         PollOK', ProbeOK'
  PROVE  TypeOK'
<1>1. queue \o cmds \in Seq(Cmds)
  BY DEF TypeOK, PipeOK
<1>2. PipeOK' /\ signals' \in Seq(Signals)
  BY <1>1, SendNextType, ZenonT(60) DEF Submit, TypeOK, PipeOK
<1>3. DeviceOK'
  BY DEF Submit, TypeOK, DeviceOK, linkVars, deviceVars
<1>4. FlagsOK'
  BY DEF Submit, TypeOK, FlagsOK, linkVars, deviceVars
<1> QED
  BY <1>2, <1>3, <1>4 DEF Submit, TypeOK, SessionOK, sessionVars

LEMMA BeginInitType ==
  ASSUME TypeOK, NEW l \in LambdaCounts, BeginInit(l), opening' \in BOOLEAN,
         current' = current, wire' \in Seq(Cmds), timeoutOn' \in BOOLEAN
  PROVE  /\ SessionOK' /\ PipeOK' /\ later' \in LambdaCounts /\ atzRetried' \in BOOLEAN
<1>1. SessionOK'
  <2>1. ready' \in BOOLEAN
    BY DEF BeginInit
  <2>2. initStep' \in 0..6
    BY DEF BeginInit
  <2> QED
    BY <2>1, <2>2 DEF SessionOK
<1>2. PipeOK'
  BY InitQueueType DEF BeginInit, TypeOK, PipeOK
<1>3. later' \in LambdaCounts
  BY LaterType DEF BeginInit, LambdaKinds
<1>4. atzRetried' \in BOOLEAN
  BY DEF BeginInit
<1> QED
  BY <1>1, <1>2, <1>3, <1>4

-----------------------------------------------------------------------------
(* The handlers, one lemma each. *)

LEMMA ConnectPortType ==
  ASSUME TypeOK, NEW p \in {"tty", "acm"}, NEW auto \in BOOLEAN, ConnectPort(p, auto)
  PROVE  TypeOK'
<1>1. later \in LambdaCounts
  BY DEF TypeOK
<1>2. CASE /\ LinkDown /\ SerialOpens
           /\ btTransport' = FALSE /\ btTimer' = FALSE
           /\ opening' = TRUE
           /\ signals' = Append(Lost, Status("info"))
  <2>1. /\ BeginInit(later) /\ opening' = TRUE /\ timeoutOn' = FALSE
        /\ current' = current /\ wire' = <<>>
    BY <1>2 DEF SerialOpens, LinkDown
  <2>2. /\ opening' \in BOOLEAN /\ timeoutOn' \in BOOLEAN /\ wire' \in Seq(Cmds)
    BY <2>1, SeqFacts
  <2>3. SessionOK' /\ PipeOK' /\ later' \in LambdaCounts /\ atzRetried' \in BOOLEAN
    BY <1>1, <2>1, <2>2, BeginInitType
  <2>4. DeviceOK'
    BY <1>2, ElmAssumption DEF Banner, ConnectPort, TypeOK, DeviceOK, LinkDown, SerialOpens
  <2>5. FlagsOK'
    BY <1>2, <2>3, ElmAssumption DEF ConnectPort, TypeOK, FlagsOK, LinkDown, SerialOpens
  <2>6. PollOK' /\ ProbeOK'
    BY <1>2, SeqFacts DEF LinkDown, TypeOK, PollOK, ProbeOK, probeVars
  <2>7. signals' \in Seq(Signals)
    BY <1>2, LinkSignalsType, StatusType, SeqFacts DEF StatusTexts
  <2> QED
    BY <2>3, <2>4, <2>5, <2>6, <2>7 DEF TypeOK
<1>3. CASE /\ Down(later)
           /\ signals' = Append(Lost, ErrorOccurred)
           /\ UNCHANGED atzRetried
  <2>1. signals' \in Seq(Signals)
    BY <1>3, LinkSignalsType, SeqFacts
  <2>2. /\ port' \in {"tty", "acm", "device", "bt"} /\ autoBaud' \in BOOLEAN
        /\ triedHighBaud' \in BOOLEAN /\ atzRetried' \in BOOLEAN
    BY <1>3 DEF ConnectPort, TypeOK, FlagsOK
  <2> QED
    BY <1>1, <1>3, <2>1, <2>2, DownType
<1> QED
  BY <1>2, <1>3 DEF ConnectPort

LEMMA AttachDeviceType == ASSUME TypeOK, AttachDevice PROVE TypeOK'
<1>1. later \in LambdaCounts
  BY DEF TypeOK
<1>2. CASE /\ LinkDown
           /\ serial' = FALSE /\ bt' = "none" /\ io' = "device" /\ port' = "device"
           /\ banner' = Banner("device")
           /\ btTransport' = FALSE /\ btTimer' = FALSE
           /\ opening' = TRUE
           /\ BeginInit(later)
           /\ signals' = Lost
  <2>1. /\ timeoutOn' = FALSE /\ current' = current /\ wire' = <<>>
    BY <1>2 DEF LinkDown
  <2>2. /\ opening' \in BOOLEAN /\ timeoutOn' \in BOOLEAN /\ wire' \in Seq(Cmds)
    BY <1>2, <2>1, SeqFacts
  <2>3. SessionOK' /\ PipeOK' /\ later' \in LambdaCounts /\ atzRetried' \in BOOLEAN
    BY <1>1, <1>2, <2>1, <2>2, BeginInitType
  <2>4. DeviceOK'
    BY <1>2, ElmAssumption DEF Banner, TypeOK, DeviceOK, LinkDown
  <2>5. FlagsOK'
    BY <1>2, <2>3 DEF AttachDevice, TypeOK, FlagsOK
  <2>6. PollOK' /\ ProbeOK'
    BY <1>2, SeqFacts DEF LinkDown, TypeOK, PollOK, ProbeOK, probeVars
  <2>7. signals' \in Seq(Signals)
    BY <1>2, LinkSignalsType
  <2> QED
    BY <2>3, <2>4, <2>5, <2>6, <2>7 DEF TypeOK
<1>3. CASE /\ port' \in {port, "device"}
           /\ Down(later)
           /\ signals' = Append(Lost, ErrorOccurred)
           /\ UNCHANGED atzRetried
  <2>1. signals' \in Seq(Signals)
    BY <1>3, LinkSignalsType, SeqFacts
  <2>2. /\ port' \in {"tty", "acm", "device", "bt"} /\ autoBaud' \in BOOLEAN
        /\ triedHighBaud' \in BOOLEAN /\ atzRetried' \in BOOLEAN
    BY <1>3 DEF AttachDevice, TypeOK, DeviceOK, FlagsOK
  <2> QED
    BY <1>1, <1>3, <2>1, <2>2, DownType
<1> QED
  BY <1>2, <1>3 DEF AttachDevice

LEMMA TryNextBtAttemptType ==
  ASSUME TypeOK, NEW n \in 0..3, NEW l \in LambdaCounts, NEW out \in Seq(Signals),
         TryNextBtAttempt(n, l, out)
  PROVE  TypeOK'
<1>1. CASE n > 2 /\ FailConnect(l, <<>>) /\ UNCHANGED triedHighBaud
  <2>1. triedHighBaud' \in BOOLEAN
    BY <1>1 DEF TypeOK, FlagsOK
  <2> QED
    BY <1>1, <2>1, FailConnectType, SeqFacts
<1>2. CASE n <= 2 /\ ~(n > 2)
  <2>1. /\ StartBtSocket
        /\ btAttempt' = n /\ later' = l
        /\ signals' = Append(out, Status("info"))
        /\ UNCHANGED <<port, serial, btTransport, autoBaud, triedHighBaud, atzRetried, banner,
                       sessionVars, queue, current, busy, canMode, timeoutOn,
                       pollVars, probeVars>>
    BY <1>2 DEF TryNextBtAttempt
  <2>2. DeviceOK'
    BY <1>2, <2>1 DEF StartBtSocket, TypeOK, DeviceOK
  <2>3. FlagsOK'
    BY <2>1 DEF StartBtSocket, TypeOK, FlagsOK
  <2>4. SessionOK'
    BY <2>1 DEF TypeOK, SessionOK, sessionVars
  <2>5. PipeOK'
    BY <2>1, SeqFacts DEF StartBtSocket, TypeOK, PipeOK
  <2>6. PollOK' /\ ProbeOK'
    BY <2>1 DEF TypeOK, PollOK, ProbeOK, pollVars, probeVars
  <2>7. signals' \in Seq(Signals)
    BY <2>1, StatusType, SeqFacts DEF StatusTexts
  <2> QED
    BY <2>1, <2>2, <2>3, <2>4, <2>5, <2>6, <2>7 DEF TypeOK
<1> QED
  BY <1>1, <1>2 DEF TryNextBtAttempt
LEMMA ConnectBluetoothType == ASSUME TypeOK, ConnectBluetooth PROVE TypeOK'
<1>1. later \in LambdaCounts
  BY DEF TypeOK
<1>2. CASE /\ LinkDown
           /\ queue' = <<>> /\ later' = NextEpoch(later)
           /\ UNCHANGED <<initStep, banner>>
           /\ serial' = FALSE /\ io' = "none" /\ bt' = "connecting"
           /\ btTimer' = TRUE /\ btTransport' = TRUE
           /\ opening' = TRUE /\ port' = "bt" /\ atzRetried' = FALSE
           /\ signals' = Append(Lost, Status("info"))
  <2>1. DeviceOK'
    BY <1>2 DEF LinkDown, TypeOK, DeviceOK
  <2>2. FlagsOK'
    BY <1>2 DEF ConnectBluetooth, TypeOK, FlagsOK
  <2>3. SessionOK'
    BY <1>2 DEF LinkDown, TypeOK, SessionOK
  <2>4. PipeOK'
    BY <1>2, SeqFacts DEF LinkDown, TypeOK, PipeOK
  <2>5. PollOK' /\ ProbeOK'
    BY <1>2, SeqFacts DEF LinkDown, TypeOK, PollOK, ProbeOK, probeVars
  <2>6. signals' \in Seq(Signals)
    BY <1>2, LinkSignalsType, StatusType, SeqFacts DEF StatusTexts
  <2>7. later' \in LambdaCounts
    BY <1>1, <1>2, LaterType
  <2> QED
    BY <2>1, <2>2, <2>3, <2>4, <2>5, <2>6, <2>7 DEF TypeOK
<1>3. CASE /\ Down(later)
           /\ signals' = Append(Lost, ErrorOccurred)
           /\ UNCHANGED <<port, atzRetried>>
  <2>1. signals' \in Seq(Signals)
    BY <1>3, LinkSignalsType, SeqFacts
  <2>2. /\ port' \in {"tty", "acm", "device", "bt"} /\ autoBaud' \in BOOLEAN
        /\ triedHighBaud' \in BOOLEAN /\ atzRetried' \in BOOLEAN
    BY <1>3 DEF ConnectBluetooth, TypeOK, DeviceOK, FlagsOK
  <2> QED
    BY <1>1, <1>3, <2>1, <2>2, DownType
<1> QED
  BY <1>2, <1>3 DEF ConnectBluetooth

LEMMA DisconnectPortType ==
  ASSUME TypeOK, NEW out \in Seq(Signals), DisconnectPort(out)
  PROVE  TypeOK'
<1>1. signals' \in Seq(Signals)
  BY LinkSignalsType, SeqFacts DEF DisconnectPort
<1>2. /\ port' \in {"tty", "acm", "device", "bt"} /\ autoBaud' \in BOOLEAN
      /\ triedHighBaud' \in BOOLEAN /\ atzRetried' \in BOOLEAN
  BY DEF DisconnectPort, TypeOK, DeviceOK, FlagsOK
<1> QED
  BY <1>1, <1>2, DownType DEF DisconnectPort, TypeOK

\* What changes no variable but those named keeps the type of the others.
LEMMA KeptType ==
  ASSUME TypeOK
  PROVE  /\ UNCHANGED linkVars => DeviceOK' /\ FlagsOK'
         /\ UNCHANGED sessionVars => SessionOK'
         /\ UNCHANGED pipeVars => PipeOK'
         /\ UNCHANGED pollVars => PollOK'
         /\ UNCHANGED probeVars => ProbeOK'
<1>1. UNCHANGED linkVars => DeviceOK'
  BY DEF TypeOK, DeviceOK, linkVars, deviceVars
<1>2. UNCHANGED linkVars => FlagsOK'
  BY DEF TypeOK, FlagsOK, linkVars, deviceVars
<1>3. UNCHANGED sessionVars => SessionOK'
  BY DEF TypeOK, SessionOK, sessionVars
<1>4. UNCHANGED pipeVars => PipeOK'
  BY DEF TypeOK, PipeOK, pipeVars
<1>5. UNCHANGED pollVars => PollOK'
  BY DEF TypeOK, PollOK, pollVars
<1>6. UNCHANGED probeVars => ProbeOK'
  BY DEF TypeOK, ProbeOK, probeVars
<1> QED
  BY <1>1, <1>2, <1>3, <1>4, <1>5, <1>6

LEMMA StopPollingType == ASSUME TypeOK, StopPollingThen PROVE PollOK'
BY SeqFacts DEF StopPollingThen, TypeOK, PollOK

\* What the client may call, apart from connecting and the CAN monitor.
LEMMA CallingType == ASSUME TypeOK, Calling PROVE TypeOK'
<1>0. <<>> \in Seq(Signals) /\ \A x \in Cmds : <<x>> \in Seq(Cmds)
  BY SeqFacts
<1>1. ASSUME NEW pid \in Pids, QueryPid(pid, <<>>) PROVE TypeOK'
  <2>1. <<Cmd("Pid", pid)>> \in Seq(Cmds)
    BY <1>0, CmdType DEF Kinds, Texts
  <2> QED
    BY <1>0, <1>1, <2>1, SubmitType, KeptType DEF QueryPid
<1>2. ASSUME NEW mode \in {"03", "07"}, ReadDtcs(mode, <<>>) PROVE TypeOK'
  <2>1. <<Cmd("Dtc", mode)>> \in Seq(Cmds)
    BY <1>0, CmdType DEF Kinds, Texts
  <2> QED
    BY <1>0, <1>2, <2>1, SubmitType, KeptType DEF ReadDtcs
<1>3. CASE ClearDtcs(<<>>)
  <2>1. <<Cmd("ClearDtc", "")>> \in Seq(Cmds)
    BY <1>0, CmdType DEF Kinds, Texts
  <2> QED
    BY <1>0, <1>3, <2>1, SubmitType, KeptType DEF ClearDtcs
<1>4. CASE ReadVin(<<>>)
  <2>1. <<Cmd("Vin", "")>> \in Seq(Cmds)
    BY <1>0, CmdType DEF Kinds, Texts
  <2> QED
    BY <1>0, <1>4, <2>1, SubmitType, KeptType DEF ReadVin
<1>5. ASSUME NEW text \in RawCommands, SendRawCommand(text, <<>>) PROVE TypeOK'
  <2>1. <<Cmd("Raw", text)>> \in Seq(Cmds)
    BY <1>0, CmdType DEF Kinds, Texts
  <2> QED
    BY <1>0, <1>5, <2>1, SubmitType, KeptType DEF SendRawCommand
<1>6. ASSUME NEW list \in FreezeLists, ReadFreezeFrame(list, <<>>) PROVE TypeOK'
  <2>1. list \in Seq(Pids)
    BY ElmAssumption
  <2>2. \A i \in 1..Len(list) : Cmd("FreezeFrame", list[i]) \in Cmds
    <3>1. \A i \in 1..Len(list) : list[i] \in Pids
      BY <2>1
    <3>2. \A pid \in Pids : pid \in Texts
      BY DEF Texts
    <3> QED
      BY <3>1, <3>2, CmdType DEF Kinds
  <2>3. [i \in 1..Len(list) |-> Cmd("FreezeFrame", list[i])] \in Seq(Cmds)
    BY <2>1, <2>2
  <2> QED
    BY <1>0, <1>6, <2>3, SubmitType, KeptType DEF ReadFreezeFrame
<1>7. CASE ProbeSupportedPids(<<>>)
  <2>1. <<Status("info")>> \o <<>> \in Seq(Signals)
    BY <1>0, SeqFacts, StatusType DEF StatusTexts
  <2>2. ProbeOK'
    BY <1>7 DEF ProbeSupportedPids, ProbeOK
  <2> QED
    BY <1>7, <2>1, <2>2, ProbeCmdsType, StopPollingType, SubmitType DEF ProbeSupportedPids
<1>8. ASSUME NEW pids \in PollLists, StartPolling(pids, <<>>) PROVE TypeOK'
  <2>1. PollOK'
    BY <1>8, ElmAssumption DEF StartPolling, TypeOK, PollOK, SessionOK
  <2> QED
    BY <1>0, <1>8, <2>1, KeptType DEF StartPolling, TypeOK
<1>9. CASE StopPolling(<<>>)
  BY <1>0, <1>9, StopPollingType, KeptType DEF StopPolling, TypeOK
<1> QED
  BY <1>1, <1>2, <1>3, <1>4, <1>5, <1>6, <1>7, <1>8, <1>9 DEF Calling, Querying
LEMMA MonitoringType == ASSUME TypeOK, Monitoring PROVE TypeOK'
<1>0. "ATH1" \in Texts /\ "ATMA" \in Texts /\ "ATH0" \in Texts
  BY DEF Texts, InitTexts
<1>1. CASE StartCanMonitor(<<>>)
  <2>1. Cmd("Raw", "ATH1") \in Cmds /\ Cmd("CanStart", "ATMA") \in Cmds
    BY <1>0, CmdType DEF Kinds
  <2>2. <<Cmd("Raw", "ATH1"), Cmd("CanStart", "ATMA")>> \in Seq(Cmds)
    BY <2>1
  <2> QED
    BY <1>1, <2>2, SeqFacts, StopPollingType, SubmitType, KeptType DEF StartCanMonitor
<1>2. CASE StopCanMonitor(<<>>)
  <2>1. Append(queue, Cmd("Raw", "ATH0")) \in Seq(Cmds)
    BY <1>0, CmdType, SeqFacts DEF Kinds, TypeOK, PipeOK
  <2>2. <<>> \in Seq(Signals)
    BY SeqFacts
  <2>3. PipeOK' /\ signals' \in Seq(Signals)
    BY <1>2, <2>1, <2>2, SendNextType DEF StopCanMonitor, TypeOK, PipeOK
  <2> QED
    BY <1>2, <2>3, KeptType DEF StopCanMonitor, TypeOK
<1> QED
  BY <1>1, <1>2 DEF Monitoring

LEMMA OnPollTickType == ASSUME TypeOK, OnPollTick PROVE TypeOK'
<1> DEFINE pid == pollPids[(pollIdx % Len(pollPids)) + 1]
<1>1. pollPids \in Seq(Pids) /\ pollPids # <<>> /\ pollIdx \in Nat
  BY DEF OnPollTick, TypeOK, PollOK
<1>2. Len(pollPids) \in Nat \ {0}
  BY <1>1
<1>3. (pollIdx % Len(pollPids)) + 1 \in 1..Len(pollPids) /\ (pollIdx + 1) % Len(pollPids) \in Nat
  BY <1>1, <1>2
<1>4. pid \in Texts
  <2>1. pid \in Pids
    BY <1>1, <1>3
  <2> QED
    BY <2>1 DEF Texts
<1>5. <<Cmd("Pid", pid)>> \in Seq(Cmds)
  BY <1>4, CmdType, SeqFacts DEF Kinds
<1>6. PollOK'
  BY <1>3 DEF OnPollTick, TypeOK, PollOK
<1> QED
  BY <1>5, <1>6, SeqFacts, SubmitType, KeptType DEF OnPollTick

LEMMA AnswerSigType ==
  ASSUME NEW name \in SignalNames, NEW arg \in Texts, NEW r \in Answers
  PROVE  [Sig(name, arg) EXCEPT !.answer = r] \in Signals
<1>1. [Sig(name, arg) EXCEPT !.answer = r] = [name |-> name, arg |-> arg, answer |-> r]
  BY DEF Sig
<1> QED
  BY <1>1 DEF Signals

LEMMA EmittedType ==
  ASSUME current \in Cmds, NEW r \in Answers,
         current.kind \notin {"Init", "PidSupport", "CanStart"}
  PROVE  Emitted(r) \in Signals
<1> DEFINE empty == ""
<1>10. empty \in Texts
  BY DEF Texts
<1> HIDE DEF empty
<1>1. current.kind \in Kinds /\ current.arg \in Texts
  BY DEF Cmds
<1>2. \A name \in SignalNames : Sig(name, current.arg) \in Signals
  BY <1>1, SigType
<1>3. CASE current.kind = "Pid"
  BY <1>2, <1>3 DEF Emitted, SignalNames
<1>4. CASE current.kind = "FreezeFrame"
  BY <1>2, <1>4 DEF Emitted, SignalNames
<1>5. CASE current.kind = "ClearDtc"
  BY <1>5, StatusType DEF Emitted, StatusTexts
<1>6. \A name \in {"dtcsReady", "vinReady", "rawResponse"} :
        /\ [Sig(name, current.arg) EXCEPT !.answer = r] \in Signals
        /\ [Sig(name, empty) EXCEPT !.answer = r] \in Signals
  <2>1. {"dtcsReady", "vinReady", "rawResponse"} \subseteq SignalNames
    BY DEF SignalNames
  <2> QED
    BY <1>1, <1>10, <2>1, AnswerSigType
<1>7. CASE current.kind = "Dtc"
  BY <1>6, <1>7 DEF Emitted
<1>8. CASE current.kind = "Vin"
  <2>1. Emitted(r) = [Sig("vinReady", empty) EXCEPT !.answer = r]
    BY <1>8, Zenon DEF Emitted, empty
  <2> QED
    BY <1>6, <2>1
<1>9. CASE current.kind = "Raw"
  BY <1>6, <1>9 DEF Emitted
<1> QED
  BY <1>1, <1>3, <1>4, <1>5, <1>7, <1>8, <1>9 DEF Kinds

\* A prompt, whatever came with it.
LEMMA HandlePromptType ==
  ASSUME TypeOK, NEW r \in Answers, NEW w \in Seq(Cmds), HandlePrompt(r, w), banner' \in Nat
  PROVE  TypeOK'
<1>1. DeviceOK'
  BY DEF HandlePrompt, TypeOK, DeviceOK, deviceVars
<1>2. FlagsOK'
  BY DEF HandlePrompt, TypeOK, FlagsOK, deviceVars
<1>3. later' \in LambdaCounts
  BY DEF HandlePrompt, TypeOK
<1>4. queue \in Seq(Cmds) /\ current \in Cmds
  BY DEF TypeOK, PipeOK
<1>5. \A out \in Seq(Signals) :
        SendNext(queue, FALSE, FALSE, FALSE, w, out) => PipeOK' /\ signals' \in Seq(Signals)
  BY <1>4, SendNextType
<1>6. Status("info") \in Signals
  BY StatusType DEF StatusTexts
<1>7. CASE ProcessInitStep(w)
  <2>1. PollOK' /\ SessionOK'
    <3>1. initStep' \in 0..6
      <4>1. initStep \in 0..6 /\ initStep' = IF initStep < 6 THEN initStep + 1 ELSE 6
        BY <1>7 DEF ProcessInitStep, TypeOK, SessionOK
      <4> QED
        BY <4>1
    <3>2. UNCHANGED <<pollPids, pollIdx>>
      BY <1>7 DEF ProcessInitStep
    <3>3. CASE UNCHANGED <<ready, opening, pollOn>>
      BY <3>1, <3>2, <3>3 DEF TypeOK, SessionOK, PollOK
    <3>4. CASE ready' = TRUE /\ opening' = FALSE /\ pollOn' = (pollOn \/ pollPids # <<>>)
      <4>1. SessionOK'
        BY <3>1, <3>4 DEF SessionOK
      <4>2. PollOK'
        BY <3>2, <3>4 DEF TypeOK, PollOK
      <4> QED
        BY <4>1, <4>2
    <3> QED
      BY <1>7, <3>3, <3>4 DEF ProcessInitStep
  <2>2. ProbeOK'
    BY <1>7, KeptType DEF ProcessInitStep
  <2>3. <<Sig("connected", ""), Status("info")>> \in Seq(Signals)
    BY <1>6, LinkSignalsType, SeqFacts
  <2>4. PipeOK' /\ signals' \in Seq(Signals)
    BY <1>5, <1>7, <2>3, SeqFacts DEF ProcessInitStep
  <2> QED
    BY <1>1, <1>2, <1>3, <2>1, <2>2, <2>4 DEF TypeOK
<1>8. CASE CountBlock(r, w)
  <2>1. current.arg \in Texts /\ supportRemaining \in 0..4 /\ accum \subseteq Texts
    BY <1>4 DEF Cmds, TypeOK, ProbeOK
  <2>2. ProbeOK'
    <3>1. supportRemaining' = IF supportRemaining > 0 THEN supportRemaining - 1 ELSE 0
      BY <1>8 DEF CountBlock
    <3>2. accum' \subseteq Texts
      BY <1>8, <2>1 DEF CountBlock
    <3> QED
      BY <2>1, <3>1, <3>2 DEF ProbeOK
  <2>3. "" \in Texts
    BY DEF Texts
  <2>4. Sig("supportedPidsReady", "") \in Signals
    BY <2>3, SigType DEF SignalNames
  <2>5. <<Sig("supportedPidsReady", ""), Status("info")>> \in Seq(Signals)
    BY <1>6, <2>4, SeqFacts
  <2>6. PipeOK' /\ signals' \in Seq(Signals)
    BY <1>5, <1>8, <2>5, SeqFacts DEF CountBlock
  <2> QED
    BY <1>1, <1>2, <1>3, <1>8, <2>2, <2>6, KeptType DEF CountBlock, TypeOK
<1>9. CASE HandleOther(r, w)
  <2>1. PipeOK' /\ signals' \in Seq(Signals)
    <3>1. CASE current.kind = "CanStart"
      BY <1>5, <1>9, <3>1, SeqFacts DEF HandleOther
    <3>2. CASE current.kind # "CanStart"
      <4>1. <<Emitted(r)>> \in Seq(Signals)
        BY <1>4, <1>9, <3>2, EmittedType, SeqFacts DEF HandleOther
      <4> QED
        BY <1>5, <1>9, <3>2, <4>1 DEF HandleOther
    <3> QED
      BY <3>1, <3>2
  <2> QED
    BY <1>1, <1>2, <1>3, <1>9, <2>1, KeptType DEF HandleOther, TypeOK
<1> QED
  BY <1>7, <1>8, <1>9 DEF HandlePrompt

LEMMA OnAnswerType == ASSUME TypeOK, OnAnswer PROVE TypeOK'
<1>1. wire \in Seq(Cmds) /\ wire # <<>> /\ banner' \in Nat
  BY DEF OnAnswer, TypeOK, PipeOK, DeviceOK
<1>2. Head(wire) \in Cmds /\ Tail(wire) \in Seq(Cmds)
  BY <1>1
<1>3. PICK ok \in BOOLEAN :
        HandlePrompt([to |-> Head(wire), ok |-> ok /\ Head(wire).kind # "CanStart"], Tail(wire))
  BY DEF OnAnswer
<1>4. [to |-> Head(wire), ok |-> ok /\ Head(wire).kind # "CanStart"] \in Answers
  BY <1>2 DEF Answers
<1> QED
  BY <1>1, <1>2, <1>3, <1>4, HandlePromptType

LEMMA OnBannerType == ASSUME TypeOK, OnBanner PROVE TypeOK'
<1>1. NoAnswer \in Answers
  BY DEF NoAnswer, Answers, Cmd, Cmds, Kinds, Texts
<1>2. wire \in Seq(Cmds) /\ banner' \in Nat
  BY DEF OnBanner, TypeOK, PipeOK, DeviceOK
<1> QED
  BY <1>1, <1>2, HandlePromptType DEF OnBanner
LEMMA OnCanDataType == ASSUME TypeOK, OnCanData PROVE TypeOK'
<1>1. wire' \in Seq(Cmds)
  <2>1. wire \in Seq(Cmds)
    BY DEF TypeOK, PipeOK
  <2>2. CASE UNCHANGED wire
    BY <2>1, <2>2
  <2>3. CASE Len(wire) > 1 /\ wire' = Tail(wire)
    BY <2>1, <2>3
  <2> QED
    BY <2>2, <2>3 DEF OnCanData
<1>2. signals' \in Seq(Signals)
  <2>1. Sig("canFrame", "") \in Signals
    BY SigType DEF SignalNames, Texts
  <2> QED
    BY <2>1, SeqFacts DEF OnCanData, TypeOK
<1>3. PipeOK'
  BY <1>1 DEF OnCanData, TypeOK, PipeOK
<1> QED
  BY <1>2, <1>3, KeptType DEF OnCanData, TypeOK

LEMMA UnansweredType == ASSUME TypeOK PROVE Unanswered \in Seq(Cmds)
BY SeqFacts DEF Unanswered, TypeOK, PipeOK

LEMMA OnTimeoutType == ASSUME TypeOK, OnTimeout PROVE TypeOK'
<1>0. later \in LambdaCounts /\ Status("info") \in Signals
  BY StatusType DEF TypeOK, StatusTexts
<1>1. CASE TimeoutHighBaud
  <2>1. CASE /\ SerialOpens
             /\ timeoutOn' = FALSE
             /\ signals' = <<Status("info"), Status("info")>>
             /\ UNCHANGED <<port, btTransport, btAttempt, btTimer, autoBaud, opening, current,
                            pollVars, probeVars>>
    <3>1. /\ opening' \in BOOLEAN /\ timeoutOn' \in BOOLEAN /\ wire' \in Seq(Cmds)
      <4>1. opening' \in BOOLEAN
        BY <2>1 DEF TypeOK, SessionOK
      <4>2. timeoutOn' \in BOOLEAN
        BY <2>1
      <4>3. wire' \in Seq(Cmds)
        BY <2>1, SeqFacts DEF SerialOpens
      <4> QED
        BY <4>1, <4>2, <4>3
    <3>2. BeginInit(later) /\ current' = current
      BY <2>1 DEF SerialOpens
    <3>3. SessionOK' /\ PipeOK' /\ later' \in LambdaCounts /\ atzRetried' \in BOOLEAN
      BY <1>0, <3>1, <3>2, BeginInitType
    <3>4. DeviceOK'
      BY <2>1, ElmAssumption DEF Banner, SerialOpens, TypeOK, DeviceOK
    <3>5. FlagsOK'
      BY <1>1, <2>1, <3>3 DEF TimeoutHighBaud, SerialOpens, TypeOK, FlagsOK
    <3>6. signals' \in Seq(Signals)
      BY <1>0, <2>1, SeqFacts
    <3> QED
      BY <2>1, <3>3, <3>4, <3>5, <3>6, KeptType DEF TypeOK
  <2>2. CASE FailConnect(later, <<Status("info")>>)
    <3>1. triedHighBaud' \in BOOLEAN
      BY <1>1 DEF TimeoutHighBaud
    <3> QED
      BY <1>0, <2>2, <3>1, FailConnectType, SeqFacts
  <2> QED
    BY <1>1, <2>1, <2>2 DEF TimeoutHighBaud
<1>2. CASE TimeoutAtz
  <2>1. DeviceOK'
    BY <1>2 DEF TimeoutAtz, TypeOK, DeviceOK
  <2>2. FlagsOK'
    BY <1>2 DEF TimeoutAtz, TypeOK, FlagsOK
  <2>3. PipeOK'
    <3>1. Cmd("Init", "ATZ") \in Cmds
      <4>1. InitTexts[1] = "ATZ" /\ InitTexts[1] \in Texts
        BY DEF Texts, InitTexts
      <4> QED
        BY <4>1, CmdType DEF Kinds
    <3>2. queue' \in Seq(Cmds)
      BY <1>2, <3>1, SeqFacts DEF TimeoutAtz, TypeOK, PipeOK
    <3>3. wire' \in Seq(Cmds)
      BY <1>2, UnansweredType DEF TimeoutAtz
    <3> QED
      BY <1>2, <3>2, <3>3 DEF TimeoutAtz, TypeOK, PipeOK
  <2>4. later' \in LambdaCounts
    BY <1>0, <1>2, LaterType DEF TimeoutAtz, LambdaKinds
  <2>5. signals' \in Seq(Signals)
    BY <1>0, <1>2, SeqFacts DEF TimeoutAtz
  <2> QED
    BY <1>2, <2>1, <2>2, <2>3, <2>4, <2>5, KeptType DEF TimeoutAtz, TypeOK
<1>3. CASE TimeoutFails
  <2>1. triedHighBaud' \in BOOLEAN
    BY <1>3 DEF TimeoutFails, TypeOK, FlagsOK
  <2> QED
    BY <1>0, <1>3, <2>1, FailConnectType, SeqFacts DEF TimeoutFails
<1>4. CASE TimeoutSkips
  <2> DEFINE told ==
        CASE current.kind = "Pid" -> <<Sig("pidUnsupported", current.arg)>>
          [] current.kind = "Raw" -> <<Sig("rawResponse", current.arg)>>
          [] OTHER -> <<>>
  <2>1. current.arg \in Texts
    BY DEF TypeOK, PipeOK, Cmds
  <2>2. told \in Seq(Signals)
    <3>1. /\ Sig("pidUnsupported", current.arg) \in Signals
          /\ Sig("rawResponse", current.arg) \in Signals
      BY <2>1, SigType DEF SignalNames
    <3> QED
      BY <3>1, SeqFacts
  <2>3. SendNext(queue, FALSE, canMode, FALSE, Unanswered, told)
    BY <1>4 DEF TimeoutSkips
  <2>4. PipeOK' /\ signals' \in Seq(Signals)
    <3> HIDE DEF told
    <3> QED
      BY <2>2, <2>3, SendNextType, UnansweredType DEF TypeOK, PipeOK
  <2> QED
    BY <1>4, <2>4, KeptType DEF TimeoutSkips, TypeOK
<1> QED
  BY <1>1, <1>2, <1>3, <1>4 DEF OnTimeout

LEMMA OnBtConnectedType == ASSUME TypeOK, OnBtConnected PROVE TypeOK'
<1>1. DeviceOK'
  BY ElmAssumption DEF Banner, OnBtConnected, TypeOK, DeviceOK
<1>2. FlagsOK'
  BY DEF OnBtConnected, TypeOK, FlagsOK
<1>3. later' \in LambdaCounts
  BY LaterType DEF OnBtConnected, TypeOK, LambdaKinds
<1> QED
  BY <1>1, <1>2, <1>3, KeptType DEF OnBtConnected, TypeOK

LEMMA OnBtErrorType == ASSUME TypeOK, OnBtError PROVE TypeOK'
<1>1. ASSUME FailConnect(later, <<>>), UNCHANGED triedHighBaud PROVE TypeOK'
  <2>1. triedHighBaud' \in BOOLEAN
    BY <1>1 DEF TypeOK, FlagsOK
  <2> QED
    BY <1>1, <2>1, FailConnectType, SeqFacts DEF TypeOK
<1>2. CASE /\ btAttempt < 2
           /\ btAttempt' = btAttempt + 1
           /\ bt' = "down" /\ btTimer' = FALSE
           /\ later' = Arm(later, "retry")
           /\ signals' = <<Status("info")>>
           /\ UNCHANGED <<port, serial, io, btTransport, autoBaud, triedHighBaud, atzRetried,
                          banner, sessionVars, pipeVars, pollVars, probeVars>>
  <2>1. DeviceOK'
    BY <1>2 DEF TypeOK, DeviceOK
  <2>2. FlagsOK'
    BY <1>2 DEF TypeOK, FlagsOK
  <2>3. later' \in LambdaCounts
    BY <1>2, LaterType DEF TypeOK, LambdaKinds
  <2>4. signals' \in Seq(Signals)
    BY <1>2, SeqFacts, StatusType DEF StatusTexts
  <2> QED
    BY <1>2, <2>1, <2>2, <2>3, <2>4, KeptType DEF TypeOK
<1> QED
  BY <1>1, <1>2 DEF OnBtError, RetryLater

LEMMA OnBtConnectTimeoutType == ASSUME TypeOK, OnBtConnectTimeout PROVE TypeOK'
<1>1. CASE btAttempt < 2 /\ TryNextBtAttempt(btAttempt + 1, later, <<Status("info")>>)
  <2>1. btAttempt + 1 \in 0..3 /\ later \in LambdaCounts
    BY DEF TypeOK, DeviceOK
  <2>2. <<Status("info")>> \in Seq(Signals)
    BY SeqFacts, StatusType DEF StatusTexts
  <2> QED
    BY <1>1, <2>1, <2>2, TryNextBtAttemptType
<1>2. CASE FailConnect(later, <<>>) /\ UNCHANGED triedHighBaud
  <2>1. triedHighBaud' \in BOOLEAN
    BY <1>2 DEF TypeOK, FlagsOK
  <2> QED
    BY <1>2, <2>1, FailConnectType, SeqFacts DEF TypeOK
<1>3. CASE /\ btTimer' = FALSE
           /\ UNCHANGED <<port, serial, io, bt, btTransport, btAttempt, autoBaud,
                          triedHighBaud, atzRetried, banner, sessionVars, pipeVars, pollVars,
                          probeVars, later, signals>>
  <2>1. DeviceOK'
    BY <1>3 DEF TypeOK, DeviceOK
  <2>2. FlagsOK'
    BY <1>3 DEF TypeOK, FlagsOK
  <2> QED
    BY <1>3, <2>1, <2>2, KeptType DEF TypeOK
<1> QED
  BY <1>1, <1>2, <1>3 DEF OnBtConnectTimeout

LEMMA FireLambdaType == ASSUME TypeOK, FireLambda PROVE TypeOK'
<1>0. PICK age \in {"fresh", "stale"} :
        FireStart(age) \/ FireSettle(age) \/ FireAtz(age) \/ FireRetry(age)
  BY DEF FireLambda
<1>1. \A kind \in LambdaKinds : Due(kind, age) => Fired(kind, age) \in LambdaCounts
  BY FiredType DEF Due, TypeOK
<1>2. ASSUME NEW l \in LambdaCounts, Dropped(l) PROVE TypeOK'
  BY <1>2, KeptType DEF Dropped, TypeOK
<1>3. SendNext(queue, busy, canMode, timeoutOn, wire, <<>>) => PipeOK' /\ signals' \in Seq(Signals)
  BY SendNextType, SeqFacts DEF TypeOK, PipeOK
<1>4. CASE FireStart(age)
  BY <1>1, <1>2, <1>3, <1>4, KeptType DEF FireStart, LambdaKinds, TypeOK
<1>5. CASE FireAtz(age)
  BY <1>1, <1>3, <1>5, KeptType DEF FireAtz, LambdaKinds, TypeOK
<1>6. CASE FireRetry(age)
  <2>1. Fired("retry", age) \in LambdaCounts
    BY <1>1, <1>6 DEF FireRetry, LambdaKinds
  <2>2. btAttempt \in 0..3 /\ <<>> \in Seq(Signals)
    BY SeqFacts DEF TypeOK, DeviceOK
  <2> QED
    BY <1>2, <1>6, <2>1, <2>2, TryNextBtAttemptType DEF FireRetry
<1>7. CASE FireSettle(age)
  <2>1. Fired("settle", age) \in LambdaCounts
    BY <1>1, <1>7 DEF FireSettle, LambdaKinds
  <2>2. CASE Dropped(Fired("settle", age))
    BY <1>2, <2>1, <2>2
  <2>3. CASE /\ BeginInit(Fired("settle", age))
             /\ UNCHANGED <<port, serial, io, bt, btTransport, btAttempt, btTimer, autoBaud,
                            triedHighBaud, banner, opening, current, timeoutOn, wire, pollVars,
                            probeVars, signals>>
    <3>1. opening' \in BOOLEAN /\ timeoutOn' \in BOOLEAN /\ wire' \in Seq(Cmds)
      BY <2>3 DEF TypeOK, SessionOK, PipeOK
    <3>2. SessionOK' /\ PipeOK' /\ later' \in LambdaCounts /\ atzRetried' \in BOOLEAN
      BY <2>1, <2>3, <3>1, BeginInitType
    <3>3. DeviceOK'
      BY <2>3 DEF TypeOK, DeviceOK
    <3>4. FlagsOK'
      BY <2>3, <3>2 DEF TypeOK, FlagsOK
    <3> QED
      BY <2>3, <3>2, <3>3, <3>4, KeptType DEF TypeOK
  <2> QED
    BY <1>7, <2>2, <2>3 DEF FireSettle
<1> QED
  BY <1>0, <1>4, <1>5, <1>6, <1>7

LEMMA ConnectingType == ASSUME TypeOK, Connecting PROVE TypeOK'
BY ConnectPortType, AttachDeviceType, ConnectBluetoothType DEF Connecting

LEMMA DeliverType == ASSUME TypeOK, Deliver PROVE TypeOK'
<1>1. signals' \in Seq(Signals)
  BY DEF Deliver, TypeOK
<1> QED
  BY <1>1, KeptType DEF Deliver, TypeOK

LEMMA InitType == Init => TypeOK
<1> SUFFICES ASSUME Init PROVE TypeOK
  OBVIOUS
<1>1. DeviceOK
  <2>1. port = "tty" /\ banner = 0 /\ io = "none" /\ bt = "none" /\ btAttempt = 0
    BY DEF Init
  <2> QED
    BY <2>1 DEF DeviceOK
<1>2. FlagsOK
  BY DEF Init, FlagsOK
<1>3. SessionOK
  <2>1. ready \in BOOLEAN /\ opening \in BOOLEAN
    BY DEF Init
  <2>2. initStep = 0
    BY DEF Init
  <2> QED
    BY <2>1, <2>2 DEF SessionOK
<1>4. PipeOK
  <2>1. current \in Cmds
    BY CmdType DEF Init, Texts
  <2> QED
    BY <2>1, SeqFacts DEF Init, PipeOK
<1>5. PollOK
  BY SeqFacts DEF Init, PollOK
<1>6. ProbeOK
  <2>1. supportRemaining = 0 /\ accum = {}
    BY DEF Init
  <2> QED
    BY <2>1 DEF ProbeOK
<1>7. later \in LambdaCounts
  BY DEF Init, LambdaCounts
<1>8. signals \in Seq(Signals)
  BY SeqFacts DEF Init
<1> QED
  BY <1>1, <1>2, <1>3, <1>4, <1>5, <1>6, <1>7, <1>8 DEF TypeOK

LEMMA NextType == TypeOK /\ [Next]_vars => TypeOK'
<1> SUFFICES ASSUME TypeOK, [Next]_vars PROVE TypeOK'
  OBVIOUS
<1>1. CASE Quiet /\ DisconnectPort(<<>>)
  BY <1>1, DisconnectPortType, SeqFacts
<1>2. CASE UNCHANGED vars
  BY <1>2, KeptType DEF vars, TypeOK
<1> QED
  BY <1>1, <1>2, DeliverType, ConnectingType, CallingType, MonitoringType, OnPollTickType,
     OnAnswerType, OnBannerType, OnCanDataType, OnTimeoutType, OnBtConnectedType,
     OnBtErrorType, OnBtConnectTimeoutType, FireLambdaType DEF Next, Client, React

\* The type invariant, whatever the ports, the calls, the answers and the bounds.
THEOREM TypeCorrect == Spec => []TypeOK
BY InitType, NextType, PTL DEF Spec
-----------------------------------------------------------------------------
(* The pipeline never stalls: a command in flight is timed, and an idle    *)
(* driver has nothing left to send.                                        *)

Served == BusyIsTimed /\ NothingStranded

\* sendNext is where both parts come from: it starts the timer with the command,
\* and leaves something queued only behind a command in flight or the monitor.
LEMMA SendNextServes ==
  ASSUME NEW q, NEW b \in BOOLEAN, NEW can \in BOOLEAN, NEW t \in BOOLEAN, NEW w, NEW out,
         b => t, SendNext(q, b, can, t, w, out)
  PROVE  Served'
<1>1. CASE can \/ b \/ q = <<>>
  BY <1>1 DEF SendNext, Served, BusyIsTimed, NothingStranded
<1>2. CASE ~can /\ ~b /\ q # <<>>
  BY <1>2 DEF SendNext, Served, BusyIsTimed, NothingStranded
<1> QED
  BY <1>1, <1>2

\* A step that leaves nothing in flight and is not ready.
LEMMA NotReadyServes == ASSUME busy' = FALSE, ready' = FALSE PROVE Served'
BY DEF Served, BusyIsTimed, NothingStranded

\* A step that touches neither the pipeline nor m_ready.
LEMMA KeptServes ==
  ASSUME Served, UNCHANGED <<ready, queue, busy, canMode, timeoutOn>>
  PROVE  Served'
BY DEF Served, BusyIsTimed, NothingStranded

LEMMA DownServes == ASSUME LinkDown PROVE Served'
BY NotReadyServes DEF LinkDown

LEMMA SubmitServes ==
  ASSUME TypeOK, Served, NEW cmds, NEW out, Submit(cmds, out)
  PROVE  Served'
BY SendNextServes DEF Submit, TypeOK, PipeOK, Served, BusyIsTimed

LEMMA TryNextBtAttemptServes ==
  ASSUME Served, NEW n, NEW l, NEW out, TryNextBtAttempt(n, l, out)
  PROVE  Served'
<1>1. CASE FailConnect(l, <<>>)
  BY <1>1, DownServes DEF FailConnect, Down
<1>2. CASE UNCHANGED <<sessionVars, queue, current, busy, canMode, timeoutOn>>
  BY <1>2, KeptServes DEF sessionVars
<1> QED
  BY <1>1, <1>2 DEF TryNextBtAttempt

LEMMA HandlePromptServes ==
  ASSUME NEW r, NEW w, HandlePrompt(r, w)
  PROVE  Served'
<1>1. CASE ProcessInitStep(w)
  BY <1>1, SendNextServes DEF ProcessInitStep
<1>2. CASE CountBlock(r, w)
  BY <1>2, SendNextServes DEF CountBlock
<1>3. CASE HandleOther(r, w)
  BY <1>3, SendNextServes DEF HandleOther
<1> QED
  BY <1>1, <1>2, <1>3 DEF HandlePrompt

LEMMA OnTimeoutServes == ASSUME TypeOK, OnTimeout PROVE Served'
<1>1. CASE TimeoutHighBaud
  BY <1>1, NotReadyServes, DownServes
     DEF TimeoutHighBaud, SerialOpens, BeginInit, FailConnect, Down
<1>2. CASE TimeoutAtz
  BY <1>2 DEF TimeoutAtz, AtzLeft, SilentAtz, sessionVars, Served, BusyIsTimed, NothingStranded
<1>3. CASE TimeoutFails
  BY <1>3, DownServes DEF TimeoutFails, FailConnect, Down
<1>4. CASE TimeoutSkips
  BY <1>4, SendNextServes DEF TimeoutSkips, TypeOK, PipeOK
<1> QED
  BY <1>1, <1>2, <1>3, <1>4 DEF OnTimeout

LEMMA FireLambdaServes == ASSUME TypeOK, Served, FireLambda PROVE Served'
<1>0. PICK age \in {"fresh", "stale"} :
        FireStart(age) \/ FireSettle(age) \/ FireAtz(age) \/ FireRetry(age)
  BY DEF FireLambda
<1>1. ASSUME NEW l, Dropped(l) PROVE Served'
  BY <1>1, KeptServes DEF Dropped, sessionVars, pipeVars
<1>2. SendNext(queue, busy, canMode, timeoutOn, wire, <<>>) => Served'
  BY SendNextServes DEF TypeOK, PipeOK, Served, BusyIsTimed
<1>3. CASE FireStart(age)
  BY <1>1, <1>2, <1>3 DEF FireStart
<1>4. CASE FireSettle(age)
  BY <1>1, <1>4, NotReadyServes DEF FireSettle, BeginInit
<1>5. CASE FireAtz(age)
  BY <1>2, <1>5 DEF FireAtz
<1>6. CASE FireRetry(age)
  BY <1>1, <1>6, TryNextBtAttemptServes DEF FireRetry
<1> QED
  BY <1>0, <1>3, <1>4, <1>5, <1>6

LEMMA CallingServes == ASSUME TypeOK, Served, Calling PROVE Served'
<1>1. CASE \E cmds, out : Submit(cmds, out)
  BY <1>1, SubmitServes
<1>2. CASE UNCHANGED <<sessionVars, pipeVars>>
  BY <1>2, KeptServes DEF sessionVars, pipeVars
<1> QED
  BY <1>1, <1>2 DEF Calling, Querying, QueryPid, ReadDtcs, ClearDtcs, ReadVin, SendRawCommand,
                    ReadFreezeFrame, ProbeSupportedPids, StartPolling, StopPolling

LEMMA MonitoringServes == ASSUME TypeOK, Served, Monitoring PROVE Served'
<1>1. CASE StartCanMonitor(<<>>)
  BY <1>1, SubmitServes DEF StartCanMonitor
<1>2. CASE StopCanMonitor(<<>>)
  BY <1>2, SendNextServes DEF StopCanMonitor, TypeOK, PipeOK
<1> QED
  BY <1>1, <1>2 DEF Monitoring

LEMMA ConnectingServes == ASSUME Connecting PROVE Served'
BY DownServes DEF Connecting, ConnectPort, AttachDevice, ConnectBluetooth, Down

LEMMA BluetoothServes ==
  ASSUME Served, OnBtConnected \/ OnBtError \/ OnBtConnectTimeout
  PROVE  Served'
<1>1. ASSUME NEW l, NEW out, FailConnect(l, out) PROVE Served'
  BY <1>1, DownServes DEF FailConnect, Down
<1>2. CASE UNCHANGED <<sessionVars, pipeVars>>
  BY <1>2, KeptServes DEF sessionVars, pipeVars
<1> QED
  BY <1>1, <1>2, TryNextBtAttemptServes
     DEF OnBtConnected, OnBtError, RetryLater, OnBtConnectTimeout

LEMMA NextServes == TypeOK /\ Served /\ [Next]_vars => Served'
<1> SUFFICES ASSUME TypeOK, Served, [Next]_vars PROVE Served'
  OBVIOUS
<1>1. CASE Quiet /\ DisconnectPort(<<>>)
  BY <1>1, DownServes DEF DisconnectPort, Down
<1>2. CASE Deliver \/ UNCHANGED vars
  BY <1>2, KeptServes DEF Deliver, vars, sessionVars, pipeVars
<1>3. CASE OnPollTick
  BY <1>3, SubmitServes DEF OnPollTick
<1>4. CASE OnAnswer \/ OnBanner
  BY <1>4, HandlePromptServes DEF OnAnswer, OnBanner
<1>5. CASE OnCanData
  BY <1>5, KeptServes DEF OnCanData, sessionVars
<1> QED
  BY <1>1, <1>2, <1>3, <1>4, <1>5, ConnectingServes, CallingServes, MonitoringServes,
     OnTimeoutServes, BluetoothServes, FireLambdaServes DEF Next, Client, React

\* Whatever connects, disconnects, retries, times out or answers: no command is
\* in flight without its timer, and a ready driver outside the CAN monitor that
\* has nothing in flight has nothing queued.
THEOREM PipelineServed == Spec => [](BusyIsTimed /\ NothingStranded)
<1>1. Init => Served
  BY DEF Init, Served, BusyIsTimed, NothingStranded
<1> QED
  BY <1>1, TypeCorrect, NextServes, PTL DEF Spec, Served

\* Once ready, an idle driver outside the CAN monitor has nothing queued.
THEOREM NeverStranded == Spec => []NothingStranded
BY PipelineServed, PTL

-----------------------------------------------------------------------------
(* The phases of the link.                                                 *)

Atz == Cmd("Init", "ATZ")

\* What is queued while the link opens: the initialisation, from ATZ until it is sent.
Initialising ==
  /\ opening => \A i \in 1..Len(queue) : queue[i].kind = "Init"
  /\ opening /\ ~busy => queue = <<>> \/ Head(queue) = Atz
  /\ ~opening /\ ~ready => queue = <<>>

\* A socket that connects has been sent nothing.
SocketsFresh == bt = "connecting" => wire = <<>> /\ io = "none"

\* Between the connection of a socket and its initialisation nothing ends the opening: what
\* an earlier attempt has left to send begins with ATZ, which restarts the dongle.
Settling ==
  later["settle"].fresh > 0 =>
    /\ opening /\ banner = 0
    /\ \A i \in 1..Len(wire) : wire[i].arg = "ATZ"

Phased == PhasesAgree /\ Initialising /\ SocketsFresh /\ Settling

LEMMA InitQueueFacts ==
  /\ InitQueue # <<>> /\ Head(InitQueue) = Atz
  /\ \A i \in 1..Len(InitQueue) : InitQueue[i].kind = "Init"
BY DEF InitQueue, Atz, Cmd, InitTexts

LEMMA LaterFacts ==
  ASSUME NEW l \in LambdaCounts
  PROVE  /\ NextEpoch(l)["settle"].fresh = 0
         /\ Arm(NextEpoch(l), "start")["settle"].fresh = 0
         /\ \A kind \in LambdaKinds \ {"settle"} : Arm(l, kind)["settle"] = l["settle"]
BY DEF NextEpoch, Arm, LambdaCounts, LambdaKinds

LEMMA FiredFacts ==
  ASSUME later \in LambdaCounts, NEW kind \in LambdaKinds, NEW age \in {"fresh", "stale"},
         Fired(kind, age)["settle"].fresh > 0
  PROVE  later["settle"].fresh > 0
BY DEF Fired, LambdaCounts, LambdaKinds

LEMMA DownPhased ==
  ASSUME NEW l \in LambdaCounts, Down(l)
  PROVE  Phased'
<1>1. later'["settle"].fresh = 0
  BY LaterFacts DEF Down
<1>2. PhasesAgree'
  BY DEF Down, LinkDown, PhasesAgree
<1>3. Initialising'
  BY DEF Down, LinkDown, Initialising
<1> QED
  BY <1>1, <1>2, <1>3 DEF Phased, Down, SocketsFresh, Settling

\* tryOpenSerial and attachDevice, after disconnectPort or the first baud rate.
LEMMA BeginPhased ==
  ASSUME NEW l \in LambdaCounts, BeginInit(l), opening' = TRUE, pollOn' = FALSE,
         io' # "none", bt' # "connecting"
  PROVE  Phased'
<1>1. later'["settle"].fresh = 0
  BY LaterFacts DEF BeginInit
<1>2. PhasesAgree'
  BY DEF BeginInit, PhasesAgree
<1>3. Initialising'
  BY InitQueueFacts DEF BeginInit, Initialising
<1> QED
  BY <1>1, <1>2, <1>3 DEF Phased, SocketsFresh, Settling

\* sendNext: what is left queued was queued, and waits for a command in flight or the monitor.
LEMMA SendNextOutcome ==
  ASSUME NEW q \in Seq(Cmds), NEW b \in BOOLEAN, NEW can \in BOOLEAN, NEW t, NEW w, NEW out,
         ~(b /\ can), SendNext(q, b, can, t, w, out)
  PROVE  /\ ~(busy' /\ canMode')
         /\ canMode' => can \/ \E i \in 1..Len(q) : q[i].kind = "CanStart"
         /\ \A i \in 1..Len(queue') : \E j \in 1..Len(q) : queue'[i] = q[j]
         /\ busy' \/ canMode' \/ queue' = <<>>
         /\ wire' = w \/ (~b /\ q # <<>> /\ wire' = Written(w, Head(q)))
         /\ q = <<>> => queue' = <<>> /\ timeoutOn' = t
<1>1. CASE can \/ b \/ q = <<>>
  BY <1>1 DEF SendNext
<1>2. CASE ~can /\ ~b /\ q # <<>>
  <2>1. queue' = Tail(q) /\ wire' = Written(w, Head(q))
    BY <1>2 DEF SendNext
  <2>2. \A i \in 1..Len(Tail(q)) : Tail(q)[i] = q[i + 1] /\ i + 1 \in 1..Len(q)
    BY <1>2
  <2>3. Head(q) = q[1] /\ 1 \in 1..Len(q)
    BY <1>2
  <2>4. CASE Head(q).kind = "CanStart"
    <3>1. canMode' = TRUE /\ busy' = FALSE
      BY <1>2, <2>4 DEF SendNext
    <3> QED
      BY <1>2, <2>1, <2>2, <2>3, <2>4, <3>1
  <2>5. CASE Head(q).kind # "CanStart"
    <3>1. canMode' = FALSE /\ busy' = TRUE
      BY <1>2, <2>5 DEF SendNext
    <3> QED
      BY <1>2, <2>1, <2>2, <3>1
  <2> QED
    BY <2>4, <2>5
<1> QED
  BY <1>1, <1>2

LEMMA WrittenAtz ==
  ASSUME NEW w \in Seq(Cmds), \A i \in 1..Len(w) : w[i].arg = "ATZ"
  PROVE  \A i \in 1..Len(Written(w, Atz)) : Written(w, Atz)[i].arg = "ATZ"
<1>0. Atz \in Cmds /\ Atz.arg = "ATZ"
  <2>1. "Init" \in Kinds /\ InitTexts[1] = "ATZ" /\ InitTexts[1] \in Texts
    BY DEF Kinds, Texts, InitTexts
  <2> QED
    BY <2>1, CmdType DEF Atz, Cmd
<1>1. CASE ~IoOpen
  BY <1>1 DEF Written
<1>2. CASE IoOpen /\ Len(w) < MaxWire
  BY <1>0, <1>2 DEF Written
<1>3. CASE IoOpen /\ ~(Len(w) < MaxWire)
  <2>1. w # <<>>
    BY <1>3, ElmAssumption
  <2>2. Tail(w) \in Seq(Cmds) /\ \A i \in 1..Len(Tail(w)) : Tail(w)[i].arg = "ATZ"
    BY <2>1
  <2> QED
    BY <1>0, <1>3, <2>2 DEF Written
<1> QED
  BY <1>1, <1>2, <1>3

\* sendNext once ready: for the client, the poll, an answer or a timeout.
LEMMA ReadySends ==
  ASSUME TypeOK, Phased, NEW q \in Seq(Cmds), NEW b \in BOOLEAN, NEW can \in BOOLEAN,
         NEW t, NEW w, NEW out, ~(b /\ can), SendNext(q, b, can, t, w, out),
         ready' = TRUE, opening' = FALSE, UNCHANGED <<io, bt>>, io # "none",
         later'["settle"].fresh = 0, bt # "connecting"
  PROVE  Phased'
BY SendNextOutcome DEF Phased, PhasesAgree, Initialising, SocketsFresh, Settling

\* sendNext during the opening: a lambda that fires, or an answer.
LEMMA OpeningSends ==
  ASSUME TypeOK, Phased, NEW b \in BOOLEAN, NEW t, NEW w \in Seq(Cmds), NEW out,
         SendNext(queue, b, FALSE, t, w, out), opening, UNCHANGED <<ready, opening, pollOn>>,
         UNCHANGED <<io, bt>>,
         later'["settle"].fresh > 0 =>
           later["settle"].fresh > 0 /\ w = wire /\ b = busy /\ UNCHANGED banner,
         bt = "connecting" => w = <<>>
  PROVE  Phased'
<1>1. queue \in Seq(Cmds) /\ ready = FALSE /\ \A i \in 1..Len(queue) : queue[i].kind = "Init"
  BY DEF Phased, PhasesAgree, Initialising, TypeOK, PipeOK, SessionOK
<1>2. /\ canMode' = FALSE /\ (busy' \/ queue' = <<>>)
      /\ \A i \in 1..Len(queue') : queue'[i].kind = "Init"
      /\ wire' = w \/ (~b /\ queue # <<>> /\ wire' = Written(w, Head(queue)))
  <2>1. \A i \in 1..Len(queue) : queue[i].kind # "CanStart"
    BY <1>1
  <2>2. canMode' \in BOOLEAN
    BY DEF SendNext
  <2>3. /\ canMode' => \E i \in 1..Len(queue) : queue[i].kind = "CanStart"
        /\ \A i \in 1..Len(queue') : \E j \in 1..Len(queue) : queue'[i] = queue[j]
        /\ busy' \/ canMode' \/ queue' = <<>>
        /\ wire' = w \/ (~b /\ queue # <<>> /\ wire' = Written(w, Head(queue)))
    BY <1>1, SendNextOutcome
  <2> QED
    BY <1>1, <2>1, <2>2, <2>3
<1>3. PhasesAgree'
  BY <1>1, <1>2 DEF Phased, PhasesAgree
<1>4. Initialising'
  BY <1>1, <1>2 DEF Initialising
<1>5. SocketsFresh'
  BY <1>2 DEF Phased, SocketsFresh, Written, IoOpen
<1>6. Settling'
  <2>1. SUFFICES ASSUME later'["settle"].fresh > 0
                 PROVE  opening' /\ banner' = 0 /\ \A i \in 1..Len(wire') : wire'[i].arg = "ATZ"
    BY DEF Settling
  <2>2. /\ opening /\ opening' /\ banner' = 0 /\ w = wire /\ b = busy
        /\ \A i \in 1..Len(w) : w[i].arg = "ATZ"
    BY <2>1 DEF Phased, Settling
  <2>3. CASE wire' = w
    BY <2>2, <2>3
  <2>4. CASE ~b /\ queue # <<>> /\ wire' = Written(w, Head(queue))
    <3>1. Head(queue) = Atz
      BY <2>2, <2>4 DEF Phased, Initialising
    <3> QED
      BY <2>2, <2>4, <3>1, WrittenAtz
  <2> QED
    BY <1>2, <2>2, <2>3, <2>4
<1> QED
  BY <1>3, <1>4, <1>5, <1>6 DEF Phased

\* A ready driver is connected: nothing settles, no socket is connecting.
LEMMA ReadyFacts ==
  ASSUME TypeOK, Phased, ready
  PROVE  opening = FALSE /\ io # "none" /\ later["settle"].fresh = 0 /\ bt # "connecting"
<1>1. later["settle"].fresh \in Nat
  BY DEF TypeOK, LambdaCounts, LambdaKinds
<1> QED
  BY <1>1 DEF Phased, PhasesAgree, SocketsFresh, Settling, TypeOK, SessionOK

LEMMA KeptPhased ==
  ASSUME Phased, UNCHANGED <<ready, opening, io, bt, serial, timeoutOn, busy, canMode,
                             pollOn, queue, wire, banner, later>>
  PROVE  Phased'
BY DEF Phased, PhasesAgree, Initialising, SocketsFresh, Settling

LEMMA SubmitPhased ==
  ASSUME TypeOK, Phased, NEW cmds \in Seq(Cmds), NEW out, Submit(cmds, out)
  PROVE  Phased'
<1>1. /\ SendNext(queue \o cmds, busy, canMode, timeoutOn, wire, out)
      /\ ready /\ UNCHANGED <<linkVars, sessionVars, later>>
  BY DEF Submit
<1>2. /\ queue \o cmds \in Seq(Cmds) /\ busy \in BOOLEAN /\ canMode \in BOOLEAN
      /\ ready \in BOOLEAN
  BY DEF TypeOK, PipeOK, SessionOK
<1>3. /\ ready' = TRUE /\ opening' = FALSE /\ UNCHANGED <<io, bt>> /\ io # "none"
      /\ later'["settle"].fresh = 0 /\ bt # "connecting"
  BY <1>1, <1>2, ReadyFacts DEF linkVars, deviceVars, sessionVars
<1>4. ~(busy /\ canMode)
  BY DEF Phased, PhasesAgree
<1> QED
  BY <1>1, <1>2, <1>3, <1>4, ReadySends

LEMMA ConnectingPhased == ASSUME TypeOK, Phased, Connecting PROVE Phased'
<1>0. later \in LambdaCounts
  BY DEF TypeOK
<1>1. ASSUME NEW p, NEW auto, ConnectPort(p, auto) PROVE Phased'
  <2>1. CASE Down(later)
    BY <1>0, <2>1, DownPhased
  <2>2. CASE LinkDown /\ SerialOpens /\ opening' = TRUE
    <3>1. /\ BeginInit(later) /\ pollOn' = FALSE /\ io' = "serial" /\ bt' = "none"
      BY <2>2 DEF LinkDown, SerialOpens
    <3> QED
      BY <1>0, <2>2, <3>1, BeginPhased
  <2> QED
    BY <1>1, <2>1, <2>2 DEF ConnectPort
<1>2. CASE AttachDevice
  <2>1. CASE Down(later)
    BY <1>0, <2>1, DownPhased
  <2>2. CASE LinkDown /\ bt' = "none" /\ io' = "device" /\ opening' = TRUE /\ BeginInit(later)
    <3>1. pollOn' = FALSE
      BY <2>2 DEF LinkDown
    <3> QED
      BY <1>0, <2>2, <3>1, BeginPhased
  <2> QED
    BY <1>2, <2>1, <2>2 DEF AttachDevice
<1>3. CASE ConnectBluetooth
  <2>1. CASE Down(later)
    BY <1>0, <2>1, DownPhased
  <2>2. CASE LinkDown /\ queue' = <<>> /\ later' = NextEpoch(later) /\ io' = "none"
               /\ opening' = TRUE
    <3>1. later'["settle"].fresh = 0
      BY <1>0, <2>2, LaterFacts
    <3> QED
      BY <2>2, <3>1
         DEF Phased, PhasesAgree, Initialising, SocketsFresh, Settling, LinkDown
  <2> QED
    BY <1>3, <2>1, <2>2 DEF ConnectBluetooth
<1> QED
  BY <1>1, <1>2, <1>3 DEF Connecting

\* tryNextBtAttempt, which only an opening calls.
LEMMA TryNextPhased ==
  ASSUME TypeOK, Phased, opening, NEW n, NEW l \in LambdaCounts, NEW out,
         l["settle"].fresh > 0 => later["settle"].fresh > 0, TryNextBtAttempt(n, l, out)
  PROVE  Phased'
<1>1. CASE FailConnect(l, <<>>)
  BY <1>1, DownPhased DEF FailConnect
<1>2. CASE /\ StartBtSocket /\ later' = l
           /\ UNCHANGED <<banner, sessionVars, queue, busy, canMode, timeoutOn, pollVars>>
  BY <1>2 DEF StartBtSocket, sessionVars, pollVars,
              Phased, PhasesAgree, Initialising, SocketsFresh, Settling
<1> QED
  BY <1>1, <1>2 DEF TryNextBtAttempt

\* What the client asks for: neither an initialisation command nor the CAN monitor.
Asked == {c \in Cmds : c.kind \notin {"Init", "CanStart"}}

LEMMA AskedType ==
  ASSUME NEW kind \in Kinds \ {"Init", "CanStart"}, NEW arg \in Texts
  PROVE  Cmd(kind, arg) \in Asked
BY CmdType DEF Asked, Cmd

LEMMA AskedFacts ==
  /\ \A pid \in Pids : <<Cmd("Pid", pid)>> \in Seq(Asked)
  /\ \A mode \in {"03", "07"} : <<Cmd("Dtc", mode)>> \in Seq(Asked)
  /\ <<Cmd("ClearDtc", "")>> \in Seq(Asked) /\ <<Cmd("Vin", "")>> \in Seq(Asked)
  /\ \A text \in RawCommands : <<Cmd("Raw", text)>> \in Seq(Asked)
<1>1. /\ \A text \in Pids \cup RawCommands : text \in Texts
      /\ \A text \in {"", "03", "07"} : text \in Texts
  BY DEF Texts
<1>2. \A kind \in {"Pid", "Dtc", "ClearDtc", "Vin", "Raw"} : kind \in Kinds \ {"Init", "CanStart"}
  BY DEF Kinds
<1>3. /\ \A pid \in Pids : Cmd("Pid", pid) \in Asked
      /\ \A mode \in {"03", "07"} : Cmd("Dtc", mode) \in Asked
      /\ Cmd("ClearDtc", "") \in Asked /\ Cmd("Vin", "") \in Asked
      /\ \A text \in RawCommands : Cmd("Raw", text) \in Asked
  BY <1>1, <1>2, AskedType
<1> QED
  BY <1>3, SeqFacts

LEMMA AskedLists ==
  /\ ProbeCmds \in Seq(Asked)
  /\ \A list \in FreezeLists :
       [i \in 1..Len(list) |-> Cmd("FreezeFrame", list[i])] \in Seq(Asked)
<1>1. ProbeCmds \in Seq(Asked)
  <2>1. \A i \in 1..4 : Blocks[i] \in Texts
    BY DEF Texts
  <2>2. \A i \in 1..4 : Cmd("PidSupport", Blocks[i]) \in Asked
    BY <2>1, AskedType DEF Kinds
  <2> QED
    BY <2>2 DEF ProbeCmds
<1>2. ASSUME NEW list \in FreezeLists
      PROVE  [i \in 1..Len(list) |-> Cmd("FreezeFrame", list[i])] \in Seq(Asked)
  <2>1. list \in Seq(Pids)
    BY ElmAssumption
  <2>2. \A i \in 1..Len(list) : list[i] \in Pids
    BY <2>1
  <2>3. \A i \in 1..Len(list) : Cmd("FreezeFrame", list[i]) \in Asked
    <3>1. \A i \in 1..Len(list) : list[i] \in Texts
      BY <2>2 DEF Texts
    <3> QED
      BY <3>1, AskedType DEF Kinds
  <2> QED
    BY <2>1, <2>3
<1> QED
  BY <1>1, <1>2

\* What the client calls either submits commands or touches the polling alone.
LEMMA CallingSubmits ==
  ASSUME Calling
  PROVE  \/ \E cmds \in Seq(Asked), out \in {<<>>, <<Status("info")>> \o <<>>} : Submit(cmds, out)
         \/ /\ UNCHANGED <<linkVars, sessionVars, pipeVars, later>>
            /\ (pollOn' => pollOn \/ ready) /\ signals' = <<>>
BY AskedFacts, AskedLists
   DEF Calling, Querying, QueryPid, ReadDtcs, ClearDtcs, ReadVin, SendRawCommand, ReadFreezeFrame,
       ProbeSupportedPids, StartPolling, StopPolling, StopPollingThen

LEMMA PollSubmits ==
  ASSUME TypeOK, OnPollTick PROVE \E pid \in Pids : Submit(<<Cmd("Pid", pid)>>, <<>>)
<1>1. pollPids \in Seq(Pids) /\ pollPids # <<>> /\ pollIdx \in Nat
  BY DEF OnPollTick, TypeOK, PollOK
<1>2. Len(pollPids) \in Nat \ {0}
  BY <1>1
<1>3. (pollIdx % Len(pollPids)) + 1 \in 1..Len(pollPids)
  BY <1>1, <1>2
<1>4. pollPids[(pollIdx % Len(pollPids)) + 1] \in Pids
  BY <1>1, <1>3
<1> QED
  BY <1>4 DEF OnPollTick

\* Stopping the monitor puts ATH0 in the queue.
LEMMA MonitorFacts ==
  /\ Cmd("Raw", "ATH0") \in Cmds
  /\ <<Cmd("Raw", "ATH1"), Cmd("CanStart", "ATMA")>> \in Seq(Cmds)
<1>1. InitTexts[5] = "ATH0" /\ InitTexts[5] \in Texts /\ "ATH1" \in Texts /\ "ATMA" \in Texts
  BY DEF Texts, InitTexts
<1>2. /\ Cmd("Raw", "ATH0") \in Cmds /\ Cmd("Raw", "ATH1") \in Cmds
      /\ Cmd("CanStart", "ATMA") \in Cmds
  BY <1>1, CmdType DEF Kinds
<1> QED
  BY <1>2, SeqFacts

LEMMA AskedAreCmds == \A q \in Seq(Asked) : q \in Seq(Cmds)
BY DEF Asked

LEMMA CallingPhased == ASSUME TypeOK, Phased, Calling PROVE Phased'
<1>1. CASE \E cmds \in Seq(Asked) : \E out : Submit(cmds, out)
  BY <1>1, AskedAreCmds, SubmitPhased
<1>2. CASE UNCHANGED <<linkVars, sessionVars, pipeVars, later>> /\ (pollOn' => pollOn \/ ready)
  BY <1>2 DEF linkVars, deviceVars, sessionVars, pipeVars,
              Phased, PhasesAgree, Initialising, SocketsFresh, Settling
<1> QED
  BY <1>1, <1>2, CallingSubmits

LEMMA MonitoringPhased == ASSUME TypeOK, Phased, Monitoring PROVE Phased'
<1>1. CASE StartCanMonitor(<<>>)
  BY <1>1, MonitorFacts, SubmitPhased DEF StartCanMonitor
<1>2. CASE StopCanMonitor(<<>>)
  <2>1. Append(queue, Cmd("Raw", "ATH0")) \in Seq(Cmds) /\ ready \in BOOLEAN
    BY MonitorFacts, SeqFacts DEF TypeOK, PipeOK, SessionOK
  <2>2. ready
    BY <1>2 DEF StopCanMonitor, Phased, PhasesAgree
  <2>3. /\ ready' = TRUE /\ opening' = FALSE /\ UNCHANGED <<io, bt>> /\ io # "none"
        /\ later'["settle"].fresh = 0 /\ bt # "connecting"
    BY <1>2, <2>1, <2>2, ReadyFacts DEF StopCanMonitor, linkVars, deviceVars, sessionVars
  <2>4. SendNext(Append(queue, Cmd("Raw", "ATH0")), FALSE, FALSE, timeoutOn, wire, <<>>)
    BY <1>2 DEF StopCanMonitor
  <2> QED
    BY <2>1, <2>3, <2>4, ReadySends
<1> QED
  BY <1>1, <1>2 DEF Monitoring

\* A prompt, whatever came with it; while a socket settles there is none.
LEMMA HandlePromptPhased ==
  ASSUME TypeOK, Phased, NEW r, NEW w \in Seq(Cmds), HandlePrompt(r, w), IoOpen,
         later["settle"].fresh = 0
  PROVE  Phased'
<1>0. /\ queue \in Seq(Cmds) /\ ready \in BOOLEAN /\ opening \in BOOLEAN
      /\ io # "none" /\ (ready \/ opening) /\ ~(ready /\ opening)
  BY DEF TypeOK, PipeOK, SessionOK, IoOpen, Phased, PhasesAgree
<1>1. /\ later'["settle"].fresh = 0 /\ bt # "connecting" /\ UNCHANGED <<io, bt>>
  BY <1>0 DEF HandlePrompt, deviceVars, Phased, SocketsFresh
<1>2. /\ \E out : SendNext(queue, FALSE, FALSE, FALSE, w, out)
      /\ \/ ready' = TRUE /\ opening' = FALSE
         \/ UNCHANGED <<ready, opening, pollOn>>
  BY DEF HandlePrompt, ProcessInitStep, CountBlock, HandleOther, sessionVars, pollVars
<1>3. PICK out : SendNext(queue, FALSE, FALSE, FALSE, w, out)
  BY <1>2
<1>4. CASE ready' = TRUE /\ opening' = FALSE
  BY <1>0, <1>1, <1>3, <1>4, ReadySends
<1>5. CASE UNCHANGED <<ready, opening, pollOn>>
  <2>1. CASE ready
    BY <1>0, <1>1, <1>3, <1>5, <2>1, ReadySends
  <2>2. CASE opening
    <3>1. ~(later'["settle"].fresh > 0)
      BY <1>1
    <3> QED
      BY <1>0, <1>1, <1>3, <1>5, <2>2, <3>1, OpeningSends
  <2> QED
    BY <1>0, <2>1, <2>2
<1> QED
  BY <1>2, <1>4, <1>5

LEMMA PromptPhased == ASSUME TypeOK, Phased, OnAnswer \/ OnBanner PROVE Phased'
<1>0. later["settle"].fresh \in Nat
  BY DEF TypeOK, LambdaCounts, LambdaKinds
<1>1. CASE OnAnswer
  <2>1. wire \in Seq(Cmds) /\ wire # <<>> /\ Tail(wire) \in Seq(Cmds) /\ Head(wire) = wire[1]
        /\ 1 \in 1..Len(wire) /\ IoOpen /\ RestartIsSlow
    BY <1>1 DEF OnAnswer, TypeOK, PipeOK
  <2>2. later["settle"].fresh = 0
    BY <1>0, <2>1 DEF RestartIsSlow, Phased, Settling
  <2> QED
    BY <1>1, <2>1, <2>2, HandlePromptPhased DEF OnAnswer
<1>2. CASE OnBanner
  <2>1. wire \in Seq(Cmds) /\ IoOpen /\ later["settle"].fresh = 0
    BY <1>0, <1>2 DEF OnBanner, TypeOK, PipeOK, Phased, Settling
  <2> QED
    BY <1>2, <2>1, HandlePromptPhased DEF OnBanner
<1> QED
  BY <1>1, <1>2

LEMMA OnCanDataPhased == ASSUME TypeOK, Phased, OnCanData PROVE Phased'
<1>1. ready /\ later["settle"].fresh = 0 /\ bt # "connecting"
  <2>1. ready
    BY DEF OnCanData, Phased, PhasesAgree
  <2> QED
    BY <2>1, ReadyFacts
<1> QED
  BY <1>1 DEF OnCanData, linkVars, deviceVars, sessionVars, pollVars,
              Phased, PhasesAgree, Initialising, SocketsFresh, Settling

LEMMA OnTimeoutPhased == ASSUME TypeOK, Phased, OnTimeout PROVE Phased'
<1>0. /\ later \in LambdaCounts /\ ready \in BOOLEAN /\ opening \in BOOLEAN
      /\ queue \in Seq(Cmds) /\ wire \in Seq(Cmds) /\ timeoutOn
  BY DEF TypeOK, SessionOK, PipeOK, OnTimeout
<1>1. ~ready => opening = TRUE /\ pollOn = FALSE /\ canMode = FALSE
  BY <1>0 DEF Phased, PhasesAgree, TypeOK, PollOK, PipeOK
<1>2. CASE TimeoutHighBaud
  <2>1. CASE FailConnect(later, <<Status("info")>>)
    BY <1>0, <2>1, DownPhased DEF FailConnect
  <2>2. CASE SerialOpens /\ UNCHANGED <<opening, pollVars>>
    <3>1. /\ BeginInit(later) /\ opening' = TRUE /\ pollOn' = FALSE
          /\ io' = "serial" /\ bt' = "none"
      BY <1>1, <1>2, <2>2
         DEF TimeoutHighBaud, HighBaudLeft, SilentAtz, SerialOpens, pollVars
    <3> QED
      BY <1>0, <3>1, BeginPhased
  <2> QED
    BY <1>2, <2>1, <2>2 DEF TimeoutHighBaud
<1>3. CASE TimeoutAtz
  <2>0. /\ ~ready /\ opening = TRUE /\ UNCHANGED <<ready, opening, io, bt, banner, canMode, pollOn>>
        /\ queue' = <<Atz>> \o queue /\ (wire' = wire \/ wire' = <<>>)
        /\ later' = Arm(later, "atz")
    BY <1>1, <1>3 DEF TimeoutAtz, AtzLeft, SilentAtz, Atz, Unanswered, sessionVars, pollVars
  <2>1. later'["settle"] = later["settle"]
    BY <1>0, <2>0, LaterFacts DEF LambdaKinds
  <2>2. PhasesAgree'
    BY <1>1, <2>0 DEF Phased, PhasesAgree
  <2>3. Initialising'
    <3>1. \A i \in 1..Len(queue) : queue[i].kind = "Init"
      BY <2>0 DEF Phased, Initialising
    <3>2. Atz \in Cmds /\ Atz.kind = "Init"
      BY InitQueueFacts, InitQueueType
    <3>3. Head(<<Atz>> \o queue) = Atz
      BY <1>0, <3>2
    <3>4. \A i \in 1..Len(<<Atz>> \o queue) : (<<Atz>> \o queue)[i].kind = "Init"
      BY <1>0, <3>1, <3>2
    <3> QED
      BY <2>0, <3>3, <3>4 DEF Initialising
  <2> QED
    BY <2>0, <2>1, <2>2, <2>3 DEF Phased, SocketsFresh, Settling
<1>4. CASE TimeoutFails
  BY <1>0, <1>4, DownPhased DEF TimeoutFails, FailConnect
<1>5. CASE TimeoutSkips
  <2>1. /\ ready /\ UNCHANGED <<linkVars, sessionVars, later>>
        /\ \E out : SendNext(queue, FALSE, canMode, FALSE, Unanswered, out)
    BY <1>5 DEF TimeoutSkips
  <2>2. /\ ready' = TRUE /\ opening' = FALSE /\ UNCHANGED <<io, bt>> /\ io # "none"
        /\ later'["settle"].fresh = 0 /\ bt # "connecting"
    BY <1>0, <2>1, ReadyFacts DEF linkVars, deviceVars, sessionVars
  <2> QED
    BY <1>0, <2>1, <2>2, ReadySends DEF TypeOK, PipeOK
<1> QED
  BY <1>2, <1>3, <1>4, <1>5 DEF OnTimeout

LEMMA BluetoothPhased ==
  ASSUME "bt" \notin Chatty, TypeOK, Phased,
         OnBtConnected \/ OnBtError \/ OnBtConnectTimeout
  PROVE  Phased'
<1>0. later \in LambdaCounts /\ ready \in BOOLEAN /\ opening \in BOOLEAN
  BY DEF TypeOK, SessionOK
<1>1. ASSUME NEW out, FailConnect(later, out) PROVE Phased'
  BY <1>0, <1>1, DownPhased DEF FailConnect
<1>2. CASE OnBtConnected
  <2>1. wire = <<>> /\ ~ready /\ opening
    BY <1>2 DEF OnBtConnected, Phased, SocketsFresh, PhasesAgree
  <2>2. /\ io' = "bt" /\ bt' = "up" /\ banner' = 0
        /\ UNCHANGED <<ready, opening, queue, busy, canMode, wire, pollOn>>
    BY <1>2 DEF OnBtConnected, Banner, sessionVars, pipeVars, pollVars
  <2> QED
    BY <2>1, <2>2 DEF Phased, PhasesAgree, Initialising, SocketsFresh, Settling
<1>3. CASE OnBtError
  <2>1. CASE /\ opening /\ bt' = "down" /\ later' = Arm(later, "retry")
             /\ UNCHANGED <<io, banner, sessionVars, pipeVars, pollVars>>
    <3>1. later'["settle"] = later["settle"]
      BY <1>0, <2>1, LaterFacts DEF LambdaKinds
    <3> QED
      BY <2>1, <3>1 DEF sessionVars, pipeVars, pollVars,
                        Phased, PhasesAgree, Initialising, SocketsFresh, Settling
  <2> QED
    BY <1>1, <1>3, <2>1 DEF OnBtError, RetryLater
<1>4. CASE OnBtConnectTimeout
  <2>1. CASE opening /\ TryNextBtAttempt(btAttempt + 1, later, <<Status("info")>>)
    BY <1>0, <2>1, TryNextPhased
  <2>2. CASE /\ btTimer' = FALSE
             /\ UNCHANGED <<serial, io, bt, banner, sessionVars, pipeVars, pollVars, later>>
    BY <2>2, KeptPhased DEF sessionVars, pipeVars, pollVars
  <2> QED
    BY <1>1, <1>4, <2>1, <2>2 DEF OnBtConnectTimeout
<1> QED
  BY <1>2, <1>3, <1>4

LEMMA FireLambdaPhased == ASSUME TypeOK, Phased, FireLambda PROVE Phased'
<1>0. PICK age \in {"fresh", "stale"} :
        FireStart(age) \/ FireSettle(age) \/ FireAtz(age) \/ FireRetry(age)
  BY DEF FireLambda
<1>1. \A kind \in LambdaKinds : Due(kind, age) =>
        /\ Fired(kind, age) \in LambdaCounts
        /\ Fired(kind, age)["settle"].fresh > 0 => later["settle"].fresh > 0
  BY FiredType, FiredFacts DEF Due, TypeOK
<1>2. /\ queue \in Seq(Cmds) /\ wire \in Seq(Cmds) /\ busy \in BOOLEAN
      /\ canMode \in BOOLEAN /\ ready \in BOOLEAN /\ opening \in BOOLEAN
      /\ ~(busy /\ canMode) /\ ~(ready /\ opening)
  BY DEF TypeOK, PipeOK, SessionOK, Phased, PhasesAgree
<1>3. ASSUME NEW l \in LambdaCounts, Dropped(l),
             l["settle"].fresh > 0 => later["settle"].fresh > 0
      PROVE  Phased'
  BY <1>3 DEF Dropped, linkVars, deviceVars, sessionVars, pipeVars, pollVars,
              Phased, PhasesAgree, Initialising, SocketsFresh, Settling
<1>4. ASSUME NEW l \in LambdaCounts, l["settle"].fresh > 0 => later["settle"].fresh > 0,
             later' = l, UNCHANGED <<linkVars, sessionVars, pollVars>>,
             SendNext(queue, busy, canMode, timeoutOn, wire, <<>>)
      PROVE  Phased'
  <2>0. UNCHANGED <<io, bt, banner, serial, ready, opening, pollOn>>
    BY <1>4 DEF linkVars, deviceVars, sessionVars, pollVars
  <2>1. CASE ready
    <3>1. l["settle"].fresh \in Nat /\ later["settle"].fresh \in Nat
      BY DEF TypeOK, LambdaCounts, LambdaKinds
    <3>2. /\ ready' = TRUE /\ opening' = FALSE /\ io # "none"
          /\ later'["settle"].fresh = 0 /\ bt # "connecting"
      BY <1>2, <1>4, <2>0, <2>1, <3>1, ReadyFacts
    <3> QED
      BY <1>2, <1>4, <2>0, <3>2, ReadySends
  <2>2. CASE opening
    <3>1. canMode = FALSE /\ (bt = "connecting" => wire = <<>>)
      BY <1>2, <2>2 DEF Phased, PhasesAgree, SocketsFresh
    <3>2. SendNext(queue, busy, FALSE, timeoutOn, wire, <<>>)
      BY <1>4, <3>1
    <3> QED
      BY <1>2, <1>4, <2>0, <2>2, <3>1, <3>2, OpeningSends
  <2>3. CASE ~ready /\ ~opening
    <3>1. queue = <<>>
      BY <2>3 DEF Phased, Initialising
    <3>2. UNCHANGED <<queue, busy, canMode, timeoutOn, wire>>
      BY <1>4, <3>1 DEF SendNext
    <3> QED
      BY <1>4, <2>0, <2>3, <3>2
         DEF Phased, PhasesAgree, Initialising, SocketsFresh, Settling
  <2> QED
    BY <2>1, <2>2, <2>3
<1>5. CASE FireStart(age)
  BY <1>1, <1>3, <1>4, <1>5 DEF FireStart, LambdaKinds
<1>6. CASE FireAtz(age)
  BY <1>1, <1>4, <1>6 DEF FireAtz, LambdaKinds
<1>7. CASE FireRetry(age)
  BY <1>1, <1>3, <1>7, TryNextPhased DEF FireRetry, LambdaKinds
<1>8. CASE FireSettle(age)
  <2> DEFINE l == Fired("settle", age)
  <2>1. l \in LambdaCounts /\ (l["settle"].fresh > 0 => later["settle"].fresh > 0)
    BY <1>1, <1>8 DEF FireSettle, LambdaKinds
  <2>2. CASE Dropped(l)
    BY <1>3, <2>1, <2>2
  <2>3. CASE /\ age = "fresh" /\ IoOpen /\ BeginInit(l)
             /\ UNCHANGED <<io, bt, opening, pollVars>>
    <3>1. opening /\ later["settle"].fresh > 0
      BY <1>8, <2>3 DEF FireSettle, Due, Phased, Settling
    <3>2. opening' = TRUE /\ pollOn' = FALSE /\ io' # "none" /\ bt' # "connecting"
      BY <1>2, <2>3, <3>1
         DEF IoOpen, pollVars, Phased, PhasesAgree, SocketsFresh, TypeOK, PollOK
    <3> QED
      BY <2>1, <2>3, <3>2, BeginPhased
  <2> QED
    BY <1>8, <2>2, <2>3 DEF FireSettle
<1> QED
  BY <1>0, <1>5, <1>6, <1>7, <1>8

LEMMA NextPhased ==
  ASSUME "bt" \notin Chatty
  PROVE  TypeOK /\ Phased /\ [Next]_vars => Phased'
<1> SUFFICES ASSUME TypeOK, Phased, [Next]_vars PROVE Phased'
  OBVIOUS
<1>1. CASE Quiet /\ DisconnectPort(<<>>)
  BY <1>1, DownPhased DEF DisconnectPort, TypeOK
<1>2. CASE Deliver \/ UNCHANGED vars
  BY <1>2, KeptPhased DEF Deliver, vars, linkVars, deviceVars, sessionVars, pipeVars, pollVars
<1>3. CASE OnPollTick
  BY <1>3, PollSubmits, AskedFacts, AskedAreCmds, SubmitPhased
<1> QED
  BY <1>1, <1>2, <1>3, ConnectingPhased, CallingPhased, MonitoringPhased, PromptPhased,
     OnCanDataPhased, OnTimeoutPhased, BluetoothPhased, FireLambdaPhased
     DEF Next, Client, React

LEMMA InitPhased == Init => Phased
<1> SUFFICES ASSUME Init PROVE Phased
  OBVIOUS
<1>1. ~(later["settle"].fresh > 0)
  <2>1. later = [l \in LambdaKinds |-> [fresh |-> 0, stale |-> 0]] /\ "settle" \in LambdaKinds
    BY DEF Init, LambdaKinds
  <2>2. later["settle"].fresh = 0
    BY <2>1
  <2> QED
    BY <2>2
<1>2. /\ io = "none" /\ bt = "none" /\ ~serial /\ ~timeoutOn /\ ~ready /\ ~opening
      /\ ~canMode /\ ~pollOn /\ queue = <<>>
  BY DEF Init
<1> QED
  BY <1>1, <1>2 DEF Phased, PhasesAgree, Initialising, SocketsFresh, Settling

\* Ready, opening and idle never mix, and each agrees with the transport, the timers and the
\* polling, whatever connects, answers late, retries or fails.  A prompt a Bluetooth dongle
\* sends unasked may come before onBtConnected's lambda, end the opening with the count of an
\* earlier link and have that lambda clear m_ready again: such dongles are left out.
THEOREM PhasesCorrect == ASSUME "bt" \notin Chatty PROVE Spec => []PhasesAgree
<1>1. Init => Phased
  BY InitPhased
<1>2. TypeOK /\ Phased /\ [Next]_vars => Phased'
  BY NextPhased
<1>3. Phased => PhasesAgree
  BY DEF Phased
<1> QED
  BY <1>1, <1>2, <1>3, TypeCorrect, PTL DEF Spec

-----------------------------------------------------------------------------
(* Answers and the commands they answer.                                   *)

\* A dongle that answers in time or never and sends nothing unasked, and a client that
\* leaves the CAN monitor alone.
InTime == LateAnswers = FALSE /\ Chatty = {} /\ "canMonitor" \notin Calls

\* Commands but ATMA, which is not awaited.
Plain == {c \in Cmds : c.kind # "CanStart"}

\* AnswersMatch is not inductive: m_canMode must stay off, no unasked prompt may be left,
\* and only a Bluetooth opening may begin its initialisation with commands on the wire.
Matched ==
  /\ AnswersMatch /\ banner = 0 /\ canMode = FALSE /\ queue \in Seq(Plain)
  /\ later["settle"].fresh > 0 => btTransport

LEMMA PlainFacts ==
  /\ InitQueue \in Seq(Plain) /\ Atz \in Plain
  /\ \A q \in Seq(Asked) : q \in Seq(Plain)
  /\ \A q \in Seq(Plain) : q \in Seq(Cmds)
<1>1. \A i \in 1..6 : InitTexts[i] \in Texts
  BY DEF Texts
<1>2. \A i \in 1..6 : Cmd("Init", InitTexts[i]) \in Plain
  BY <1>1, CmdType DEF Kinds, Plain, Cmd
<1>3. InitTexts[1] = "ATZ" /\ Cmd("Init", InitTexts[1]) \in Plain
  BY <1>2 DEF InitTexts
<1>4. InitQueue \in Seq(Plain) /\ Atz \in Plain
  BY <1>2, <1>3 DEF InitQueue, Atz
<1>5. Asked \subseteq Plain /\ Plain \subseteq Cmds
  BY DEF Plain, Asked
<1>6. \A q \in Seq(Asked) : q \in Seq(Plain)
  BY <1>5
<1>7. \A q \in Seq(Plain) : q \in Seq(Cmds)
  BY <1>5
<1> QED
  BY <1>4, <1>6, <1>7

\* sendNext sends only when nothing is in flight, and then nothing is unanswered.
LEMMA SendNextMatches ==
  ASSUME NEW q \in Seq(Plain), NEW b \in BOOLEAN, NEW t, NEW w, NEW out,
         btTransport \/ w = <<>> \/ (b /\ w = <<current>>), UNCHANGED btTransport,
         SendNext(q, b, FALSE, t, w, out)
  PROVE  AnswersMatch' /\ canMode' = FALSE /\ queue' \in Seq(Plain) /\ signals' = out
<1>1. CASE b \/ q = <<>>
  BY <1>1 DEF SendNext, AnswersMatch
<1>2. CASE ~b /\ q # <<>>
  <2>1. Head(q) \in Plain /\ Tail(q) \in Seq(Plain)
    BY <1>2
  <2>2. /\ current' = Head(q) /\ queue' = Tail(q) /\ wire' = Written(w, Head(q))
        /\ canMode' = FALSE /\ busy' = TRUE /\ signals' = out
    BY <1>2, <2>1 DEF SendNext, Plain
  <2>3. w = <<>> => Written(w, Head(q)) \in {<<>>, <<Head(q)>>}
    BY ElmAssumption DEF Written
  <2> QED
    BY <1>2, <2>1, <2>2, <2>3 DEF AnswersMatch
<1> QED
  BY <1>1, <1>2

\* What disconnectPort and a change of transport leave unanswered: nothing.
LEMMA FreshMatched ==
  ASSUME wire' = <<>>, canMode' = FALSE, queue' \in Seq(Plain), banner' = 0,
         later'["settle"].fresh = 0
  PROVE  Matched'
BY DEF Matched, AnswersMatch

LEMMA DownMatched ==
  ASSUME NEW l \in LambdaCounts, Down(l), banner = 0
  PROVE  Matched'
BY LaterFacts, FreshMatched, SeqFacts DEF Down, LinkDown

LEMMA BeginMatched ==
  ASSUME NEW l \in LambdaCounts, BeginInit(l), wire' = <<>>, banner' = 0
  PROVE  Matched'
<1>1. InitQueue \in Seq(Plain)
  BY PlainFacts
<1> QED
  BY <1>1, LaterFacts, FreshMatched DEF BeginInit

LEMMA KeptMatched ==
  ASSUME Matched, UNCHANGED <<wire, busy, current, canMode, queue, banner, btTransport>>,
         later'["settle"].fresh > 0 => later["settle"].fresh > 0
  PROVE  Matched'
BY DEF Matched, AnswersMatch

LEMMA SentMatched ==
  ASSUME Matched, NEW q \in Seq(Plain), NEW b \in BOOLEAN, NEW t, NEW w, NEW out,
         btTransport \/ w = <<>> \/ (b /\ w = <<current>>), UNCHANGED <<btTransport, banner>>,
         SendNext(q, b, FALSE, t, w, out),
         later'["settle"].fresh > 0 => later["settle"].fresh > 0
  PROVE  Matched'
BY SendNextMatches DEF Matched

LEMMA SubmitMatched ==
  ASSUME TypeOK, Matched, NEW cmds \in Seq(Asked), NEW out, Submit(cmds, out)
  PROVE  Matched'
<1>1. /\ SendNext(queue \o cmds, busy, FALSE, timeoutOn, wire, out)
      /\ UNCHANGED <<btTransport, banner, later>>
  BY DEF Submit, Matched, linkVars, deviceVars
<1>2. queue \o cmds \in Seq(Plain) /\ busy \in BOOLEAN
  BY PlainFacts DEF Matched, TypeOK, PipeOK
<1>3. btTransport \/ wire = <<>> \/ (busy /\ wire = <<current>>)
  BY DEF Matched, AnswersMatch
<1> QED
  BY <1>1, <1>2, <1>3, SentMatched

LEMMA ConnectingMatched == ASSUME InTime, TypeOK, Matched, Connecting PROVE Matched'
<1>0. later \in LambdaCounts /\ banner = 0 /\ \A d : Banner(d) = 0
  BY DEF TypeOK, Matched, Banner, InTime
<1>1. ASSUME NEW p, NEW auto, ConnectPort(p, auto) PROVE Matched'
  <2>1. CASE Down(later)
    BY <1>0, <2>1, DownMatched
  <2>2. CASE SerialOpens
    BY <1>0, <2>2, BeginMatched DEF SerialOpens
  <2> QED
    BY <1>1, <2>1, <2>2 DEF ConnectPort
<1>2. CASE AttachDevice
  <2>1. CASE Down(later)
    BY <1>0, <2>1, DownMatched
  <2>2. CASE LinkDown /\ BeginInit(later) /\ banner' = Banner("device")
    <3>1. wire' = <<>> /\ banner' = 0
      BY <1>0, <2>2 DEF LinkDown
    <3> QED
      BY <1>0, <2>2, <3>1, BeginMatched
  <2> QED
    BY <1>2, <2>1, <2>2 DEF AttachDevice
<1>3. CASE ConnectBluetooth
  <2>1. CASE Down(later)
    BY <1>0, <2>1, DownMatched
  <2>2. CASE LinkDown /\ queue' = <<>> /\ later' = NextEpoch(later) /\ banner' = banner
    BY <1>0, <2>2, LaterFacts, FreshMatched, SeqFacts DEF LinkDown
  <2> QED
    BY <1>3, <2>1, <2>2 DEF ConnectBluetooth
<1> QED
  BY <1>1, <1>2, <1>3 DEF Connecting

LEMMA TryNextMatched ==
  ASSUME TypeOK, Matched, NEW n, NEW l \in LambdaCounts, NEW out,
         l["settle"].fresh > 0 => later["settle"].fresh > 0, TryNextBtAttempt(n, l, out)
  PROVE  Matched'
<1>1. CASE FailConnect(l, <<>>)
  BY <1>1, DownMatched DEF FailConnect, Matched
<1>2. CASE /\ StartBtSocket /\ later' = l
           /\ UNCHANGED <<btTransport, banner, queue, canMode>>
  BY <1>2 DEF StartBtSocket, Matched, AnswersMatch
<1> QED
  BY <1>1, <1>2 DEF TryNextBtAttempt

LEMMA HandlePromptMatched ==
  ASSUME TypeOK, Matched, OnAnswer PROVE Matched'
<1>1. PICK r : HandlePrompt(r, Tail(wire))
  BY DEF OnAnswer
<1>2. \E out : SendNext(queue, FALSE, FALSE, FALSE, Tail(wire), out)
  BY <1>1 DEF HandlePrompt, ProcessInitStep, CountBlock, HandleOther
<1>3. btTransport \/ Tail(wire) = <<>>
  <2>1. btTransport \/ wire = <<current>>
    BY DEF OnAnswer, Matched, AnswersMatch
  <2>2. Tail(<<current>>) = <<>>
    BY SeqFacts DEF TypeOK, PipeOK
  <2> QED
    BY <2>1, <2>2
<1>4. UNCHANGED <<btTransport, banner, later>> /\ queue \in Seq(Plain)
  BY <1>1 DEF OnAnswer, HandlePrompt, deviceVars, Matched
<1> QED
  BY <1>2, <1>3, <1>4, SentMatched

LEMMA OnTimeoutMatched == ASSUME InTime, TypeOK, Matched, OnTimeout PROVE Matched'
<1>0. later \in LambdaCounts /\ banner = 0 /\ Unanswered = <<>> /\ \A d : Banner(d) = 0
  BY DEF TypeOK, Matched, InTime, Banner, Unanswered
<1>1. ASSUME NEW out, FailConnect(later, out) PROVE Matched'
  BY <1>0, <1>1, DownMatched DEF FailConnect
<1>2. CASE TimeoutHighBaud
  <2>1. CASE SerialOpens
    BY <1>0, <2>1, BeginMatched DEF SerialOpens
  <2> QED
    BY <1>1, <1>2, <2>1 DEF TimeoutHighBaud
<1>3. CASE TimeoutAtz
  <2>1. /\ wire' = <<>> /\ UNCHANGED <<canMode, banner, btTransport>>
        /\ queue' = <<Atz>> \o queue /\ later'["settle"] = later["settle"]
    BY <1>0, <1>3, LaterFacts DEF TimeoutAtz, Atz, LambdaKinds
  <2>2. queue' \in Seq(Plain)
    BY <2>1, PlainFacts, SeqFacts DEF Matched
  <2> QED
    BY <2>1, <2>2 DEF Matched, AnswersMatch
<1>4. CASE TimeoutSkips
  <2>1. /\ UNCHANGED <<btTransport, banner, later>>
        /\ \E out : SendNext(queue, FALSE, FALSE, FALSE, <<>>, out)
    BY <1>0, <1>4 DEF TimeoutSkips, Matched, linkVars, deviceVars
  <2> QED
    BY <2>1, SentMatched DEF Matched
<1> QED
  BY <1>1, <1>2, <1>3, <1>4 DEF OnTimeout, TimeoutFails

LEMMA BluetoothMatched ==
  ASSUME InTime, TypeOK, Matched, OnBtConnected \/ OnBtError \/ OnBtConnectTimeout
  PROVE  Matched'
<1>0. later \in LambdaCounts /\ banner = 0 /\ Banner("bt") = 0
  BY DEF TypeOK, Matched, InTime, Banner
<1>1. ASSUME NEW out, FailConnect(later, out) PROVE Matched'
  BY <1>0, <1>1, DownMatched DEF FailConnect
<1>2. CASE OnBtConnected
  BY <1>0, <1>2 DEF OnBtConnected, pipeVars, Matched, AnswersMatch
<1>3. CASE OnBtError
  <2>1. CASE /\ later' = Arm(later, "retry") /\ UNCHANGED <<btTransport, banner, pipeVars>>
    BY <1>0, <2>1, LaterFacts, KeptMatched DEF LambdaKinds, pipeVars
  <2> QED
    BY <1>1, <1>3, <2>1 DEF OnBtError, RetryLater
<1>4. CASE OnBtConnectTimeout
  BY <1>0, <1>1, <1>4, TryNextMatched, KeptMatched DEF OnBtConnectTimeout, pipeVars
<1> QED
  BY <1>2, <1>3, <1>4

LEMMA FireLambdaMatched == ASSUME TypeOK, Matched, FireLambda PROVE Matched'
<1>0. PICK age \in {"fresh", "stale"} :
        FireStart(age) \/ FireSettle(age) \/ FireAtz(age) \/ FireRetry(age)
  BY DEF FireLambda
<1>1. \A kind \in LambdaKinds : Due(kind, age) =>
        /\ Fired(kind, age) \in LambdaCounts
        /\ Fired(kind, age)["settle"].fresh > 0 => later["settle"].fresh > 0
  BY FiredType, FiredFacts DEF Due, TypeOK
<1>2. /\ queue \in Seq(Plain) /\ busy \in BOOLEAN /\ canMode = FALSE /\ banner = 0
      /\ btTransport \/ wire = <<>> \/ (busy /\ wire = <<current>>)
  BY DEF TypeOK, PipeOK, Matched, AnswersMatch
<1>3. ASSUME NEW l, Dropped(l), l["settle"].fresh > 0 => later["settle"].fresh > 0
      PROVE  Matched'
  BY <1>3, KeptMatched DEF Dropped, linkVars, deviceVars, pipeVars
<1>4. ASSUME NEW l, l["settle"].fresh > 0 => later["settle"].fresh > 0,
             later' = l, UNCHANGED linkVars,
             SendNext(queue, busy, canMode, timeoutOn, wire, <<>>)
      PROVE  Matched'
  <2>1. UNCHANGED <<btTransport, banner>> /\ SendNext(queue, busy, FALSE, timeoutOn, wire, <<>>)
    BY <1>2, <1>4 DEF linkVars, deviceVars
  <2> QED
    BY <1>2, <1>4, <2>1, SentMatched
<1>5. CASE FireStart(age)
  BY <1>1, <1>3, <1>4, <1>5 DEF FireStart, LambdaKinds
<1>6. CASE FireAtz(age)
  BY <1>1, <1>4, <1>6 DEF FireAtz, LambdaKinds
<1>7. CASE FireRetry(age)
  BY <1>1, <1>3, <1>7, TryNextMatched DEF FireRetry, LambdaKinds
<1>8. CASE FireSettle(age)
  <2> DEFINE l == Fired("settle", age)
  <2>1. l \in LambdaCounts /\ (l["settle"].fresh > 0 => later["settle"].fresh > 0)
    BY <1>1, <1>8 DEF FireSettle, LambdaKinds
  <2>2. CASE Dropped(l)
    BY <1>3, <2>1, <2>2
  <2>3. CASE age = "fresh" /\ BeginInit(l) /\ UNCHANGED <<btTransport, banner, wire>>
    <3>1. btTransport
      BY <1>8, <2>3 DEF FireSettle, Due, Matched
    <3>2. queue' \in Seq(Plain) /\ canMode' = FALSE
      BY <2>3, PlainFacts DEF BeginInit
    <3> QED
      BY <1>2, <2>3, <3>1, <3>2 DEF Matched, AnswersMatch
  <2> QED
    BY <1>8, <2>2, <2>3 DEF FireSettle
<1> QED
  BY <1>0, <1>5, <1>6, <1>7, <1>8

LEMMA NextMatched == ASSUME InTime PROVE TypeOK /\ Matched /\ [Next]_vars => Matched'
<1> SUFFICES ASSUME TypeOK, Matched, [Next]_vars PROVE Matched'
  OBVIOUS
<1>1. CASE Quiet /\ DisconnectPort(<<>>)
  BY <1>1, DownMatched DEF DisconnectPort, TypeOK, Matched
<1>2. CASE Deliver \/ UNCHANGED vars
  BY <1>2, KeptMatched DEF Deliver, vars, linkVars, deviceVars, pipeVars
<1>3. CASE Calling
  <2>1. CASE \E cmds \in Seq(Asked) : \E out : Submit(cmds, out)
    BY <2>1, SubmitMatched
  <2>2. CASE UNCHANGED <<linkVars, sessionVars, pipeVars, later>>
    BY <2>2, KeptMatched DEF linkVars, deviceVars, pipeVars
  <2> QED
    BY <1>3, <2>1, <2>2, CallingSubmits
<1>4. CASE OnPollTick
  BY <1>4, PollSubmits, AskedFacts, SubmitMatched
<1>5. ~Monitoring /\ ~OnCanData
  BY DEF Monitoring, OnCanData, Matched, InTime
<1>6. ~OnBanner
  BY DEF OnBanner, Matched
<1> QED
  BY <1>1, <1>2, <1>3, <1>4, <1>5, <1>6, ConnectingMatched, HandlePromptMatched,
     OnTimeoutMatched, BluetoothMatched, FireLambdaMatched DEF Next, Client, React

LEMMA InitMatched == Init => Matched
<1> SUFFICES ASSUME Init PROVE Matched
  OBVIOUS
<1>1. later = [l \in LambdaKinds |-> [fresh |-> 0, stale |-> 0]] /\ "settle" \in LambdaKinds
  BY DEF Init, LambdaKinds
<1>2. later["settle"].fresh = 0
  BY <1>1
<1>3. wire = <<>> /\ banner = 0 /\ canMode = FALSE /\ queue = <<>>
  BY DEF Init
<1>4. ~(later["settle"].fresh > 0)
  BY <1>2
<1> QED
  BY <1>3, <1>4, SeqFacts DEF Matched, AnswersMatch

\* The answer awaited is the answer to m_current, whatever times out, retries, reconnects or
\* is called meanwhile: at most one command is unanswered, and it is the one in flight.
THEOREM AnswersCorrect == ASSUME InTime PROVE Spec => []AnswersMatch
<1>1. Init => Matched
  BY InitMatched
<1>2. TypeOK /\ Matched /\ [Next]_vars => Matched'
  BY NextMatched
<1>3. Matched => AnswersMatch
  BY DEF Matched
<1> QED
  BY <1>1, <1>2, <1>3, TypeCorrect, PTL DEF Spec
-----------------------------------------------------------------------------
(* What signals say.                                                       *)

\* A signal of that name is among s.
Says(s, name) == \E i \in 1..Len(s) : s[i].name = name

LEMMA SaysFacts ==
  ASSUME NEW name
  PROVE  /\ ~Says(<<>>, name)
         /\ \A x \in Signals : Says(<<x>>, name) <=> x.name = name
         /\ \A s, t \in Seq(Signals) : Says(s \o t, name) <=> Says(s, name) \/ Says(t, name)
         /\ \A s \in Seq(Signals), x \in Signals :
              Says(Append(s, x), name) <=> Says(s, name) \/ x.name = name
         /\ \A s \in Seq(Signals) :
              s # <<>> => (Says(s, name) <=> Head(s).name = name \/ Says(Tail(s), name))
<1>1. ~Says(<<>>, name)
  BY DEF Says
<1>2. ASSUME NEW x \in Signals PROVE Says(<<x>>, name) <=> x.name = name
  BY DEF Says
<1>3. ASSUME NEW s \in Seq(Signals), NEW t \in Seq(Signals)
      PROVE  Says(s \o t, name) <=> Says(s, name) \/ Says(t, name)
  <2>1. /\ Len(s \o t) = Len(s) + Len(t) /\ Len(s) \in Nat /\ Len(t) \in Nat
        /\ \A i \in 1..Len(s) : (s \o t)[i] = s[i]
        /\ \A i \in 1..Len(t) : (s \o t)[Len(s) + i] = t[i]
    OBVIOUS
  <2>2. ASSUME NEW i \in 1..Len(s \o t), (s \o t)[i].name = name
        PROVE  Says(s, name) \/ Says(t, name)
    <3>1. CASE i <= Len(s)
      BY <2>1, <2>2, <3>1 DEF Says
    <3>2. CASE i > Len(s)
      <4>1. i - Len(s) \in 1..Len(t) /\ i = Len(s) + (i - Len(s))
        BY <2>1, <3>2
      <4>2. t[i - Len(s)].name = name
        BY <2>1, <2>2, <4>1
      <4> QED
        BY <4>1, <4>2 DEF Says
    <3> QED
      BY <2>1, <3>1, <3>2
  <2>3. Says(s, name) => Says(s \o t, name)
    <3>1. \A i \in 1..Len(s) : i \in 1..Len(s \o t)
      BY <2>1
    <3> QED
      BY <2>1, <3>1 DEF Says
  <2>4. Says(t, name) => Says(s \o t, name)
    <3>1. \A i \in 1..Len(t) : Len(s) + i \in 1..Len(s \o t)
      BY <2>1
    <3> QED
      BY <2>1, <3>1 DEF Says
  <2> QED
    BY <2>2, <2>3, <2>4 DEF Says
<1>4. ASSUME NEW s \in Seq(Signals), NEW x \in Signals
      PROVE  Says(Append(s, x), name) <=> Says(s, name) \/ x.name = name
  <2> DEFINE one == <<x>>
  <2>1. Append(s, x) = s \o one /\ one \in Seq(Signals) /\ (Says(one, name) <=> x.name = name)
    BY <1>2
  <2> HIDE DEF one
  <2> QED
    BY <1>3, <2>1
<1>5. ASSUME NEW s \in Seq(Signals), s # <<>>
      PROVE  Says(s, name) <=> Head(s).name = name \/ Says(Tail(s), name)
  <2>1. s = <<Head(s)>> \o Tail(s) /\ Head(s) \in Signals /\ Tail(s) \in Seq(Signals)
    BY <1>5
  <2> QED
    BY <1>2, <1>3, <2>1, SeqFacts
<1> QED
  BY <1>1, <1>2, <1>3, <1>4, <1>5
=============================================================================
