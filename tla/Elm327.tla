------------------------------- MODULE Elm327 -------------------------------
(***************************************************************************)
(* The ELM327 driver shared by ECU Drive and ECU Studio (libs/elm327):     *)
(* opening a serial, CDC-ACM, QIODevice or Bluetooth transport, the six    *)
(* initialisation commands, the queue that keeps one command in flight,    *)
(* the answer timeout with its retries, polling, the PID probe, the CAN    *)
(* monitor, and every way the link goes down.                              *)
(*                                                                         *)
(* The object lives on one Qt thread: an action is one slot or one call    *)
(* run to its end.  A signal's slots run inside the emit; here the step    *)
(* leaves what it emitted in `signals`, in order, and nothing but the      *)
(* delivery of those signals happens until they are consumed.              *)
(*                                                                         *)
(* Abstractions.  A command is its kind and its argument (the text follows *)
(* from them).  An answer is the command it really answers and whether it  *)
(* is a positive one; its bytes are not modelled.  A single-shot lambda is *)
(* counted as "fresh" or "stale": fresh when the m_connectEpoch it         *)
(* captured is still the current one, which is all the code ever compares. *)
(* The Android native socket is not in this module.                        *)
(***************************************************************************)
EXTENDS Integers, Sequences

CONSTANTS
  Ports,        \* transports the user may open, within {"tty", "acm", "device", "bt"}
  Pids,         \* mode 01 PIDs a client asks for
  PollLists,    \* sequences of PIDs given to startPolling
  RawCommands,  \* texts given to sendRawCommand
  FreezeLists,  \* non-empty sequences of PIDs given to readFreezeFrame
  Calls,        \* what the client calls, within CallNames
  LateAnswers,  \* can an answer still arrive after its timeout?
  Chatty,       \* devices, within {"serial", "device", "bt"}, whose dongle sends prompts
                \* unasked (reset, power dip)
  MaxBanner,    \* bound on those prompts, per opening
  MaxQueue,     \* bound on the client's calls: none while so many commands wait
  MaxWire,      \* commands the dongle remembers having received
  MaxPending    \* bound on connect calls: single-shot lambdas not yet fired

InitTexts == <<"ATZ", "ATE0", "ATL0", "ATS1", "ATH0", "ATSP0">>
Blocks == <<"00", "20", "40", "60">>

Kinds == {"Init", "Pid", "PidSupport", "Dtc", "ClearDtc", "Vin", "FreezeFrame",
          "CanStart", "Raw"}
Cmd(kind, arg) == [kind |-> kind, arg |-> arg]

Texts == {InitTexts[i] : i \in 1..6} \cup {Blocks[i] : i \in 1..4} \cup Pids
           \cup RawCommands \cup {"", "03", "07", "ATH1", "ATMA"}
Cmds == [kind : Kinds, arg : Texts]

InitQueue == [i \in 1..6 |-> Cmd("Init", InitTexts[i])]
ProbeCmds == [i \in 1..4 |-> Cmd("PidSupport", Blocks[i])]

\* What an answer is: the command it answers, and whether it is a positive
\* answer to it.  NoAnswer is a prompt that answers nothing.
Answers == [to : Cmds, ok : BOOLEAN]
NoAnswer == [to |-> Cmd("Raw", ""), ok |-> FALSE]
Positive(c, r) == r.ok /\ r.to = c

SignalNames == {"connected", "disconnected", "errorOccurred", "status", "pidResult",
                "pidUnsupported", "supportedPidsReady", "freezeFrameResult",
                "dtcsReady", "vinReady", "canFrame", "rawResponse"}
StatusTexts == {"info", "cleared", "clearUnexpected"}
Signals == [name : SignalNames, arg : Texts \cup StatusTexts, answer : Answers]
Sig(name, arg) == [name |-> name, arg |-> arg, answer |-> NoAnswer]
Status(text) == Sig("status", text)

LambdaKinds == {"start", "settle", "atz", "retry"}

CallNames == {"queryPid", "readDtcs", "clearDtcs", "readVin", "sendRawCommand",
              "readFreezeFrame", "probeSupportedPids", "polling", "canMonitor"}

ASSUME ElmAssumption ==
  /\ Ports \subseteq {"tty", "acm", "device", "bt"}
  /\ \A l \in PollLists \cup FreezeLists : l \in Seq(Pids)
  /\ Calls \subseteq CallNames /\ LateAnswers \in BOOLEAN /\ MaxBanner \in Nat
  /\ MaxQueue \in Nat /\ MaxWire \in Nat \ {0} /\ MaxPending \in Nat

VARIABLES
  port,         \* m_port: what the last connect call asked for
  serial,       \* m_serial # nullptr
  io,           \* m_io: which device answers are read from
  bt,           \* m_bt: "none", "connecting", "up" or "down"
  btTransport, btAttempt,
  btTimer,      \* m_btConnectTimeout runs
  autoBaud, triedHighBaud, atzRetried,
  ready, opening, initStep,
  queue, current, busy, canMode,
  timeoutOn,    \* m_timeout runs
  pollOn,       \* m_poll runs
  pollPids, pollIdx,
  supportRemaining,
  accum,        \* m_supportedAccum, as the blocks whose bitmap was received
  later,        \* QTimer::singleShot lambdas not yet fired
  wire,         \* external: commands the dongle has still to answer, in order
  banner,       \* external: prompts the dongle may still send unasked
  signals       \* what the last step emitted and no slot has handled yet

deviceVars == <<port, serial, io, bt, btTransport, btAttempt, btTimer, autoBaud,
                triedHighBaud, atzRetried>>
linkVars == <<deviceVars, banner>>
sessionVars == <<ready, opening, initStep>>
pipeVars == <<queue, current, busy, canMode, timeoutOn, wire>>
pollVars == <<pollOn, pollPids, pollIdx>>
probeVars == <<supportRemaining, accum>>
vars == <<linkVars, sessionVars, pipeVars, pollVars, probeVars, later, signals>>

Quiet == signals = <<>>
IoOpen == io \in {"serial", "device"} \/ (io = "bt" /\ bt = "up")

\* External: the prompts a dongle may send unasked once the device is open.
Banner(device) == IF device \in Chatty THEN MaxBanner ELSE 0

Init ==
  /\ port = "tty" /\ io = "none" /\ bt = "none" /\ btAttempt = 0
  /\ serial = FALSE /\ btTransport = FALSE /\ btTimer = FALSE
  /\ autoBaud = FALSE /\ triedHighBaud = FALSE /\ atzRetried = FALSE
  /\ ready = FALSE /\ opening = FALSE /\ initStep = 0
  /\ queue = <<>> /\ busy = FALSE /\ canMode = FALSE /\ timeoutOn = FALSE
  /\ wire = <<>>
  \* m_current.kind has no initialiser: any value.
  /\ current \in {Cmd(kind, "") : kind \in Kinds}
  /\ pollOn = FALSE /\ pollPids = <<>> /\ pollIdx = 0
  /\ supportRemaining = 0 /\ accum = {}
  /\ later = [l \in LambdaKinds |-> [fresh |-> 0, stale |-> 0]]
  /\ banner = 0 /\ signals = <<>>

-----------------------------------------------------------------------------
(* Single-shot lambdas. *)

\* ++m_connectEpoch
NextEpoch(l) == [k \in LambdaKinds |-> [fresh |-> 0, stale |-> l[k].fresh + l[k].stale]]
Arm(l, kind) == [l EXCEPT ![kind].fresh = @ + 1]
Fired(kind, age) == [later EXCEPT ![kind][age] = @ - 1]
Pending(l) == l["start"].fresh + l["start"].stale + l["settle"].fresh + l["settle"].stale
                + l["atz"].fresh + l["atz"].stale + l["retry"].fresh + l["retry"].stale

-----------------------------------------------------------------------------
(* The command pipeline. *)

\* writeRaw: a command reaches the dongle only through an open device, and a
\* dongle that is given one command too many forgets the oldest.
Written(w, c) ==
  IF ~IoOpen THEN w
  ELSE IF Len(w) < MaxWire THEN Append(w, c) ELSE Append(Tail(w), c)

\* A slip: without the guard on m_busy, a command is sent over the one in flight.
SendNextUnguarded(q, b, can, t, w, out) ==
  \/ /\ can \/ q = <<>>
     /\ queue' = q /\ busy' = b /\ canMode' = can /\ timeoutOn' = t
     /\ wire' = w /\ signals' = out
     /\ UNCHANGED current
  \/ /\ ~can /\ q # <<>>
     /\ current' = Head(q) /\ queue' = Tail(q) /\ wire' = Written(w, Head(q))
     /\ canMode' = (Head(q).kind = "CanStart") /\ busy' = (Head(q).kind # "CanStart")
     /\ timeoutOn' = TRUE /\ signals' = out

\* sendNext, called with the queue q, the flag m_busy = b, m_canMode = can, the
\* timer t, the dongle's memory w; out: the signals not handled yet.
SendNext(q, b, can, t, w, out) ==
  \/ /\ can \/ b \/ q = <<>>
     /\ queue' = q /\ busy' = b /\ canMode' = can /\ timeoutOn' = t
     /\ wire' = w /\ signals' = out
     /\ UNCHANGED current
  \/ /\ ~can /\ ~b /\ q # <<>>
     /\ current' = Head(q) /\ queue' = Tail(q)
     /\ wire' = Written(w, Head(q))
     /\ IF Head(q).kind = "CanStart"
          THEN /\ canMode' = TRUE /\ busy' = FALSE /\ timeoutOn' = t
               /\ signals' = Append(out, Status("info"))
          ELSE /\ canMode' = FALSE /\ busy' = TRUE /\ timeoutOn' = TRUE
               /\ signals' = out

\* The public calls that queue commands: ignored unless m_ready.
Submit(cmds, out) ==
  /\ ready
  /\ SendNext(queue \o cmds, busy, canMode, timeoutOn, wire, out)
  /\ UNCHANGED <<linkVars, sessionVars, later>>

QueryPid(pid, out) == Submit(<<Cmd("Pid", pid)>>, out) /\ UNCHANGED <<pollVars, probeVars>>
ReadDtcs(mode, out) == Submit(<<Cmd("Dtc", mode)>>, out) /\ UNCHANGED <<pollVars, probeVars>>
ClearDtcs(out) == Submit(<<Cmd("ClearDtc", "")>>, out) /\ UNCHANGED <<pollVars, probeVars>>
ReadVin(out) == Submit(<<Cmd("Vin", "")>>, out) /\ UNCHANGED <<pollVars, probeVars>>
SendRawCommand(text, out) ==
  Submit(<<Cmd("Raw", text)>>, out) /\ UNCHANGED <<pollVars, probeVars>>
ReadFreezeFrame(list, out) ==
  /\ Submit([i \in 1..Len(list) |-> Cmd("FreezeFrame", list[i])], out)
  /\ UNCHANGED <<pollVars, probeVars>>

StopPollingThen == pollOn' = FALSE /\ pollPids' = <<>> /\ UNCHANGED pollIdx

ProbeSupportedPids(out) ==
  /\ Submit(ProbeCmds, <<Status("info")>> \o out)
  /\ StopPollingThen
  /\ accum' = {} /\ supportRemaining' = 4

StartCanMonitor(out) ==
  /\ Submit(<<Cmd("Raw", "ATH1"), Cmd("CanStart", "ATMA")>>, out)
  /\ StopPollingThen
  /\ UNCHANGED probeVars

\* A slip: ATH0 is queued and sendNext is not called.
StopCanMonitorUnsent(out) ==
  /\ canMode
  /\ queue' = Append(queue, Cmd("Raw", "ATH0"))
  /\ busy' = FALSE /\ canMode' = FALSE /\ signals' = out
  /\ UNCHANGED <<linkVars, sessionVars, current, timeoutOn, wire, pollVars, probeVars, later>>

\* The carriage return makes the dongle leave ATMA and print its prompt; ATH0
\* is queued, and sent when nothing is queued before it, without waiting for it.
StopCanMonitor(out) ==
  /\ canMode
  /\ SendNext(Append(queue, Cmd("Raw", "ATH0")), FALSE, FALSE, timeoutOn, wire, out)
  /\ UNCHANGED <<linkVars, sessionVars, pollVars, probeVars, later>>

StartPolling(pids, out) ==
  /\ pollPids' = pids /\ pollIdx' = 0
  /\ pollOn' = (pollOn \/ ready)
  /\ signals' = out
  /\ UNCHANGED <<linkVars, sessionVars, pipeVars, probeVars, later>>

StopPolling(out) ==
  /\ StopPollingThen
  /\ signals' = out
  /\ UNCHANGED <<linkVars, sessionVars, pipeVars, probeVars, later>>

OnPollTick ==
  /\ Quiet /\ pollOn
  /\ ready /\ ~canMode /\ pollPids # <<>> /\ ~busy /\ queue = <<>>
  /\ pollIdx' = (pollIdx + 1) % Len(pollPids)
  /\ Submit(<<Cmd("Pid", pollPids[(pollIdx % Len(pollPids)) + 1])>>, <<>>)
  /\ UNCHANGED <<pollOn, pollPids, probeVars>>

-----------------------------------------------------------------------------
(* Going down. *)

\* A slip: m_ready is cleared before it is looked at.
LostUntold == <<>>

Lost == IF ready THEN <<Sig("disconnected", "")>> ELSE <<>>
ErrorOccurred == Sig("errorOccurred", "")

\* Slips in disconnectPort: m_busy or the polling timer forgotten.
LinkDownBusy ==
  /\ pollOn' = FALSE /\ pollPids' = <<>> /\ UNCHANGED pollIdx
  /\ timeoutOn' = FALSE /\ btAttempt' = 0
  /\ canMode' = FALSE /\ ready' = FALSE /\ wire' = <<>>
  /\ UNCHANGED <<current, busy, probeVars>>
LinkDownPolling ==
  /\ timeoutOn' = FALSE /\ btAttempt' = 0
  /\ busy' = FALSE /\ canMode' = FALSE /\ ready' = FALSE /\ wire' = <<>>
  /\ UNCHANGED <<current, pollVars, probeVars>>

\* disconnectPort up to the transport: what every connect call starts with.
LinkDown ==
  /\ pollOn' = FALSE /\ pollPids' = <<>> /\ UNCHANGED pollIdx
  /\ timeoutOn' = FALSE /\ btAttempt' = 0
  /\ busy' = FALSE /\ canMode' = FALSE /\ ready' = FALSE
  /\ wire' = <<>>
  /\ UNCHANGED <<current, probeVars>>

\* The whole disconnectPort, signal apart, when the lambdas l are waiting.
Down(l) ==
  /\ LinkDown
  /\ serial' = FALSE /\ bt' = "none" /\ io' = "none"       \* closeTransport
  /\ btTransport' = FALSE /\ btTimer' = FALSE
  /\ opening' = FALSE /\ queue' = <<>>
  /\ later' = NextEpoch(l)
  /\ UNCHANGED <<initStep, banner>>

DisconnectPort(out) ==
  /\ Down(later) /\ signals' = Lost \o out
  /\ UNCHANGED <<port, autoBaud, triedHighBaud, atzRetried>>

\* failConnect, after the signals in out.
FailConnect(l, out) ==
  /\ Down(l) /\ signals' = out \o <<ErrorOccurred>> \o Lost
  /\ UNCHANGED <<port, autoBaud, atzRetried>>

-----------------------------------------------------------------------------
(* Opening a serial port or a QIODevice. *)

\* A slip: the lambda captures m_connectEpoch before it is incremented.
BeginInitLate(l) ==
  /\ ready' = FALSE /\ canMode' = FALSE /\ busy' = FALSE
  /\ initStep' = 0 /\ queue' = InitQueue /\ atzRetried' = FALSE
  /\ later' = NextEpoch(Arm(l, "start"))

\* beginInit, when the lambdas l are waiting.
BeginInit(l) ==
  /\ ready' = FALSE /\ canMode' = FALSE /\ busy' = FALSE
  /\ initStep' = 0 /\ queue' = InitQueue /\ atzRetried' = FALSE
  /\ later' = Arm(NextEpoch(l), "start")

\* tryOpenSerial when the port opens.
SerialOpens ==
  /\ serial' = TRUE /\ io' = "serial" /\ bt' = "none"
  /\ wire' = <<>> /\ banner' = Banner("serial")
  /\ BeginInit(later)

ConnectPort(p, auto) ==
  /\ port' = p /\ autoBaud' = auto /\ triedHighBaud' = FALSE
  /\ \/ /\ LinkDown /\ SerialOpens
        /\ btTransport' = FALSE /\ btTimer' = FALSE
        /\ opening' = TRUE
        /\ signals' = Append(Lost, Status("info"))
     \/ /\ Down(later)
        /\ signals' = Append(Lost, ErrorOccurred)
        /\ UNCHANGED atzRetried

\* A device that is open or can be opened; or none, or one that does not open.
AttachDevice ==
  /\ UNCHANGED <<autoBaud, triedHighBaud>>
  /\ \/ /\ LinkDown
        /\ serial' = FALSE /\ bt' = "none" /\ io' = "device" /\ port' = "device"
        /\ banner' = Banner("device")
        /\ btTransport' = FALSE /\ btTimer' = FALSE
        /\ opening' = TRUE
        /\ BeginInit(later)
        /\ signals' = Lost
     \/ /\ port' \in {port, "device"}
        /\ Down(later)
        /\ signals' = Append(Lost, ErrorOccurred)
        /\ UNCHANGED atzRetried

-----------------------------------------------------------------------------
(* Bluetooth: SPP, then RFCOMM channels 1 and 2 (btAttempt 0, 1, 2). *)

\* startBtSocket leaves the queue, m_busy and m_timeout as they are.
StartBtSocket ==
  /\ bt' = "connecting" /\ io' = "none" /\ btTimer' = TRUE
  /\ wire' = <<>>

\* tryNextBtAttempt for attempt n.
TryNextBtAttempt(n, l, out) ==
  \/ /\ n > 2
     /\ FailConnect(l, <<>>) /\ UNCHANGED triedHighBaud
  \/ /\ n <= 2
     /\ StartBtSocket
     /\ btAttempt' = n /\ later' = l
     /\ signals' = Append(out, Status("info"))
     /\ UNCHANGED <<port, serial, btTransport, autoBaud, triedHighBaud, atzRetried, banner,
                    sessionVars, queue, current, busy, canMode, timeoutOn,
                    pollVars, probeVars>>

ConnectBluetooth ==
  /\ UNCHANGED <<autoBaud, triedHighBaud>>
  /\ \/ /\ LinkDown
        /\ queue' = <<>> /\ later' = NextEpoch(later)
        /\ UNCHANGED <<initStep, banner>>
        /\ serial' = FALSE /\ io' = "none" /\ bt' = "connecting"
        /\ btTimer' = TRUE /\ btTransport' = TRUE
        /\ opening' = TRUE /\ port' = "bt" /\ atzRetried' = FALSE
        /\ signals' = Append(Lost, Status("info"))
     \/ \* not an address
        /\ Down(later)
        /\ signals' = Append(Lost, ErrorOccurred)
        /\ UNCHANGED <<port, atzRetried>>

\* The address is known only while m_btTransport is set: disconnectPort clears both.
OnBtConnected ==
  /\ Quiet /\ bt = "connecting" /\ btTransport
  /\ btTimer' = FALSE
  /\ bt' = "up" /\ io' = "bt" /\ banner' = Banner("bt")
  /\ later' = Arm(later, "settle")
  /\ UNCHANGED <<port, serial, btTransport, btAttempt, autoBaud, triedHighBaud, atzRetried,
                 sessionVars, pipeVars, pollVars, probeVars, signals>>

\* A slip: one attempt too many.
RetryOnceMore ==
  \/ /\ btAttempt <= 2
     /\ btAttempt' = btAttempt + 1
     /\ bt' = "down" /\ btTimer' = FALSE
     /\ later' = Arm(later, "retry")
     /\ signals' = <<Status("info")>>
     /\ UNCHANGED <<port, serial, io, btTransport, autoBaud, triedHighBaud, atzRetried,
                    banner, sessionVars, pipeVars, pollVars, probeVars>>
  \/ /\ btAttempt > 2
     /\ FailConnect(later, <<>>) /\ UNCHANGED triedHighBaud

\* The socket cannot connect, or the link of a connected one drops: the next
\* attempt in 250 ms, or the end.
RetryLater ==
  \/ /\ btAttempt < 2
     /\ btAttempt' = btAttempt + 1
     /\ bt' = "down" /\ btTimer' = FALSE
     /\ later' = Arm(later, "retry")
     /\ signals' = <<Status("info")>>
     /\ UNCHANGED <<port, serial, io, btTransport, autoBaud, triedHighBaud, atzRetried,
                    banner, sessionVars, pipeVars, pollVars, probeVars>>
  \/ /\ btAttempt >= 2
     /\ FailConnect(later, <<>>) /\ UNCHANGED triedHighBaud

OnBtError ==
  /\ Quiet /\ bt \in {"connecting", "up"}
  /\ \/ opening /\ RetryLater
     \/ \* onBtLinkLost
        /\ ~opening /\ ready /\ btTransport
        /\ FailConnect(later, <<>>) /\ UNCHANGED triedHighBaud

OnBtConnectTimeout ==
  /\ Quiet /\ btTimer
  /\ \/ /\ opening /\ btTransport /\ ~IoOpen
        /\ \/ btAttempt < 2 /\ TryNextBtAttempt(btAttempt + 1, later, <<Status("info")>>)
           \/ btAttempt >= 2 /\ FailConnect(later, <<>>) /\ UNCHANGED triedHighBaud
     \/ /\ ~(opening /\ btTransport /\ ~IoOpen)
        /\ btTimer' = FALSE
        /\ UNCHANGED <<port, serial, io, bt, btTransport, btAttempt, autoBaud,
                       triedHighBaud, atzRetried, banner, sessionVars, pipeVars, pollVars,
                       probeVars, later, signals>>

-----------------------------------------------------------------------------
(* The lambdas fire. *)

Delay(kind) ==
  CASE kind = "start" -> IF port = "acm" THEN 250 ELSE 0
    [] kind = "retry" -> 250
    [] kind = "atz" -> 300
    [] kind = "settle" -> 400

\* Timers keep their order: beginInit's lambda was armed when the epoch began, so
\* it fires before the fresh ones, and a fresh one cannot overtake a stale one
\* (armed in an earlier epoch) whose delay is not longer.
Due(kind, age) ==
  /\ Quiet /\ later[kind][age] > 0
  /\ age = "fresh" =>
       /\ kind # "start" => later["start"].fresh = 0
       /\ \A k \in LambdaKinds \ {"start"} :
            later[k].stale > 0 => Delay(k) > Delay(kind)

Dropped(l) ==
  later' = l /\ UNCHANGED <<linkVars, sessionVars, pipeVars, pollVars, probeVars, signals>>

\* beginInit's lambda: the first command, unless the connection has changed.
FireStart(age) ==
  /\ Due("start", age)
  /\ LET l == Fired("start", age) IN
     \/ /\ age = "fresh" /\ IoOpen
        /\ SendNext(queue, busy, canMode, timeoutOn, wire, <<>>)
        /\ later' = l
        /\ UNCHANGED <<linkVars, sessionVars, pollVars, probeVars>>
     \/ ~(age = "fresh" /\ IoOpen) /\ Dropped(l)

\* onBtConnected's lambda: m_timeout is left as it is.
FireSettle(age) ==
  /\ Due("settle", age)
  /\ LET l == Fired("settle", age) IN
     \/ /\ age = "fresh" /\ IoOpen
        /\ BeginInit(l)
        /\ UNCHANGED <<port, serial, io, bt, btTransport, btAttempt, btTimer, autoBaud,
                       triedHighBaud, banner, opening, current, timeoutOn, wire, pollVars,
                       probeVars, signals>>
     \/ ~(age = "fresh" /\ IoOpen) /\ Dropped(l)

\* onTimeout's lambda after a silent ATZ: no epoch is compared.
FireAtz(age) ==
  /\ Due("atz", age)
  /\ SendNext(queue, busy, canMode, timeoutOn, wire, <<>>)
  /\ later' = Fired("atz", age)
  /\ UNCHANGED <<linkVars, sessionVars, pollVars, probeVars>>

\* onBtError's lambda: only m_opening is looked at, not the epoch.
FireRetry(age) ==
  /\ Due("retry", age)
  /\ LET l == Fired("retry", age) IN
     \/ opening /\ TryNextBtAttempt(btAttempt, l, <<>>)
     \/ ~opening /\ Dropped(l)

-----------------------------------------------------------------------------
(* Answers and timeouts. *)

\* processInitStep.  Steps beyond the last one are not told apart.
ProcessInitStep(w) ==
  /\ initStep' = IF initStep < 6 THEN initStep + 1 ELSE 6
  /\ UNCHANGED <<pollPids, pollIdx, probeVars>>
  /\ \/ /\ initStep < 5
        /\ UNCHANGED <<ready, opening, pollOn>>
        /\ SendNext(queue, FALSE, FALSE, FALSE, w, <<>>)
     \/ /\ initStep >= 5
        /\ ready' = TRUE /\ opening' = FALSE
        /\ pollOn' = (pollOn \/ pollPids # <<>>)
        /\ SendNext(queue, FALSE, FALSE, FALSE, w, <<Sig("connected", ""), Status("info")>>)

\* A bitmap counts whether it was understood or not.
CountBlock(r, w) ==
  LET left == IF supportRemaining > 0 THEN supportRemaining - 1 ELSE 0
  IN /\ supportRemaining' = left
     /\ accum' = IF Positive(current, r) THEN accum \cup {current.arg} ELSE accum
     /\ SendNext(queue, FALSE, FALSE, FALSE, w,
                 IF left = 0 THEN <<Sig("supportedPidsReady", ""), Status("info")>> ELSE <<>>)
     /\ UNCHANGED <<sessionVars, pollVars>>

\* What the other kinds emit for the answer r: parseResponse looks for the mode
\* and the PID that were asked, ClearDtc for "44" or "OK", the others take any text.
Emitted(r) ==
  LET good == Positive(current, r) IN
  CASE current.kind = "Pid" ->
         Sig(IF good THEN "pidResult" ELSE "pidUnsupported", current.arg)
    [] current.kind = "FreezeFrame" ->
         Sig(IF good THEN "freezeFrameResult" ELSE "pidUnsupported", current.arg)
    [] current.kind = "ClearDtc" -> Status(IF r.ok THEN "cleared" ELSE "clearUnexpected")
    [] current.kind = "Dtc" -> [Sig("dtcsReady", current.arg) EXCEPT !.answer = r]
    [] current.kind = "Vin" -> [Sig("vinReady", "") EXCEPT !.answer = r]
    [] current.kind = "Raw" -> [Sig("rawResponse", current.arg) EXCEPT !.answer = r]

HandleOther(r, w) ==
  /\ current.kind \notin {"Init", "PidSupport"}
  /\ SendNext(queue, FALSE, FALSE, FALSE, w,
              IF current.kind = "CanStart" THEN <<>> ELSE <<Emitted(r)>>)
  /\ UNCHANGED <<sessionVars, pollVars, probeVars>>

\* onReadyRead outside the CAN monitor, when a prompt has come with the answer
\* r: the answer goes to m_current, whatever was asked and even if nothing was.
HandlePrompt(r, w) ==
  /\ ~canMode
  /\ \/ current.kind = "Init" /\ ProcessInitStep(w)
     \/ current.kind = "PidSupport" /\ CountBlock(r, w)
     \/ HandleOther(r, w)
  /\ UNCHANGED <<deviceVars, later>>

\* External: ATZ restarts the dongle, which takes longer than onBtConnected waits.
RestartIsSlow == Head(wire).arg = "ATZ" => later["settle"].fresh = 0

\* An answer arrives.  ATMA is answered once the monitor has been stopped.
OnAnswer ==
  /\ Quiet /\ IoOpen /\ wire # <<>> /\ RestartIsSlow
  /\ \E ok \in BOOLEAN :
       HandlePrompt([to |-> Head(wire), ok |-> ok /\ Head(wire).kind # "CanStart"], Tail(wire))
  /\ UNCHANGED banner

\* A prompt nobody asked for: the banner of a dongle that resets when opened.
OnBanner ==
  /\ Quiet /\ IoOpen /\ banner > 0
  /\ banner' = banner - 1
  /\ HandlePrompt(NoAnswer, wire)

\* In the CAN monitor whatever comes is split into frames; a late prompt is lost.
OnCanData ==
  /\ Quiet /\ canMode /\ IoOpen
  /\ \/ signals' = <<Sig("canFrame", "")>> /\ UNCHANGED wire
     \/ Len(wire) > 1 /\ wire' = Tail(wire) /\ UNCHANGED signals
  /\ UNCHANGED <<linkVars, sessionVars, queue, current, busy, canMode, timeoutOn,
                 pollVars, probeVars, later>>

SilentAtz == ~ready /\ current.kind = "Init" /\ initStep = 0
HighBaudLeft == SilentAtz /\ autoBaud /\ ~triedHighBaud /\ port # "acm" /\ serial
AtzLeft == SilentAtz /\ btTransport /\ ~atzRetried /\ current.arg = "ATZ"

\* The answers still to come when the timer fires: kept if they can be late.
Unanswered == IF LateAnswers THEN wire ELSE <<>>

TimeoutHighBaud ==
  /\ HighBaudLeft
  /\ triedHighBaud' = TRUE
  /\ \/ /\ SerialOpens
        /\ timeoutOn' = FALSE
        /\ signals' = <<Status("info"), Status("info")>>
        /\ UNCHANGED <<port, btTransport, btAttempt, btTimer, autoBaud, opening, current,
                       pollVars, probeVars>>
     \/ FailConnect(later, <<Status("info")>>)

TimeoutAtz ==
  /\ ~HighBaudLeft /\ AtzLeft
  /\ atzRetried' = TRUE
  /\ queue' = <<Cmd("Init", "ATZ")>> \o queue
  /\ busy' = FALSE /\ timeoutOn' = FALSE /\ wire' = Unanswered
  /\ later' = Arm(later, "atz")
  /\ signals' = <<Status("info")>>
  /\ UNCHANGED <<port, serial, io, bt, btTransport, btAttempt, btTimer, autoBaud,
                 triedHighBaud, banner, sessionVars, current, canMode, pollVars, probeVars>>

TimeoutFails ==
  /\ ~HighBaudLeft /\ ~AtzLeft /\ ~ready
  /\ FailConnect(later, <<>>) /\ UNCHANGED triedHighBaud

\* A slip: the next command is not sent.
TimeoutSkipsUnsent ==
  /\ ready
  /\ busy' = FALSE /\ timeoutOn' = FALSE /\ wire' = Unanswered
  /\ UNCHANGED <<linkVars, sessionVars, queue, current, canMode, pollVars, probeVars, later,
                 signals>>

\* Only a PID query and a raw command are reported; the other kinds are dropped.
TimeoutSkips ==
  /\ ready
  /\ SendNext(queue, FALSE, canMode, FALSE, Unanswered,
       CASE current.kind = "Pid" -> <<Sig("pidUnsupported", current.arg)>>
         [] current.kind = "Raw" -> <<Sig("rawResponse", current.arg)>>
         [] OTHER -> <<>>)
  /\ UNCHANGED <<linkVars, sessionVars, pollVars, probeVars, later>>

OnTimeout ==
  /\ Quiet /\ timeoutOn
  /\ TimeoutHighBaud \/ TimeoutAtz \/ TimeoutFails \/ TimeoutSkips

-----------------------------------------------------------------------------
(* The client, and the specification. *)

May(call) == call \in Calls /\ Len(queue) < MaxQueue

\* A slot handles the first signal; components that do more refine this step.
Deliver ==
  /\ signals # <<>> /\ signals' = Tail(signals)
  /\ UNCHANGED <<linkVars, sessionVars, pipeVars, pollVars, probeVars, later>>

Connecting ==
  /\ Quiet /\ Pending(later) < MaxPending
  /\ \/ \E p \in Ports \cap {"tty", "acm"}, auto \in BOOLEAN : ConnectPort(p, auto)
     \/ "device" \in Ports /\ AttachDevice
     \/ "bt" \in Ports /\ ConnectBluetooth

\* The calls that queue no raw command.
Querying ==
  /\ Quiet
  /\ \/ May("queryPid") /\ \E pid \in Pids : QueryPid(pid, <<>>)
     \/ May("readDtcs") /\ \E mode \in {"03", "07"} : ReadDtcs(mode, <<>>)
     \/ May("clearDtcs") /\ ClearDtcs(<<>>)
     \/ May("readVin") /\ ReadVin(<<>>)
     \/ May("readFreezeFrame") /\ \E list \in FreezeLists : ReadFreezeFrame(list, <<>>)
     \/ May("probeSupportedPids") /\ ProbeSupportedPids(<<>>)
     \/ "polling" \in Calls /\ \E pids \in PollLists : StartPolling(pids, <<>>)
     \/ "polling" \in Calls /\ StopPolling(<<>>)

Calling ==
  /\ Quiet
  /\ \/ Querying
     \/ May("sendRawCommand") /\ \E text \in RawCommands : SendRawCommand(text, <<>>)

Monitoring ==
  /\ Quiet /\ "canMonitor" \in Calls
  /\ \/ May("canMonitor") /\ StartCanMonitor(<<>>)
     \/ StopCanMonitor(<<>>)

FireLambda ==
  \E age \in {"fresh", "stale"} :
    FireStart(age) \/ FireSettle(age) \/ FireAtz(age) \/ FireRetry(age)

Client == Connecting \/ (Quiet /\ DisconnectPort(<<>>)) \/ Calling \/ Monitoring

\* What timers, answers and the transport make the driver do.
React ==
  \/ OnPollTick
  \/ OnAnswer \/ OnBanner \/ OnCanData \/ OnTimeout
  \/ OnBtConnected \/ OnBtError \/ OnBtConnectTimeout
  \/ FireLambda

Next == Deliver \/ Client \/ React

Spec == Init /\ [][Next]_vars

\* The Qt event loop delivers signals, fires every timer that stays armed and
\* reports the failure of a connection without an address.  Neither the user nor
\* the dongle owes anything.
Fairness ==
  /\ WF_vars(Deliver) /\ WF_vars(OnTimeout) /\ WF_vars(OnBtConnectTimeout)
  /\ WF_vars(OnBtError /\ ~btTransport)
  /\ \A age \in {"fresh", "stale"} :
       /\ WF_vars(FireStart(age)) /\ WF_vars(FireSettle(age))
       /\ WF_vars(FireAtz(age)) /\ WF_vars(FireRetry(age))

FairSpec == Spec /\ Fairness

-----------------------------------------------------------------------------
(* Properties. *)

LambdaCounts == [LambdaKinds -> [fresh : Nat, stale : Nat]]

DeviceOK ==
  /\ port \in {"tty", "acm", "device", "bt"} /\ banner \in Nat
  /\ io \in {"none", "serial", "device", "bt"}
  /\ bt \in {"none", "connecting", "up", "down"} /\ btAttempt \in 0..2
FlagsOK ==
  /\ serial \in BOOLEAN /\ btTransport \in BOOLEAN /\ btTimer \in BOOLEAN
  /\ autoBaud \in BOOLEAN /\ triedHighBaud \in BOOLEAN /\ atzRetried \in BOOLEAN
SessionOK == ready \in BOOLEAN /\ opening \in BOOLEAN /\ initStep \in 0..6
PipeOK ==
  /\ queue \in Seq(Cmds) /\ current \in Cmds /\ wire \in Seq(Cmds)
  /\ busy \in BOOLEAN /\ canMode \in BOOLEAN /\ timeoutOn \in BOOLEAN
PollOK == pollOn \in BOOLEAN /\ pollPids \in Seq(Pids) /\ pollIdx \in Nat
ProbeOK == supportRemaining \in 0..4 /\ accum \subseteq Texts

\* The type invariant.
TypeOK ==
  /\ DeviceOK /\ FlagsOK /\ SessionOK /\ PipeOK /\ PollOK /\ ProbeOK
  /\ later \in LambdaCounts /\ signals \in Seq(Signals)

\* A command in flight always has its answer timer running, whatever the
\* connect, retry and disconnect paths did in between: the pipeline never
\* waits for a prompt that a silent dongle will not send (sendNext, onTimeout).
BusyIsTimed == busy => timeoutOn

\* Once ready, an idle driver outside the CAN monitor has nothing queued: no
\* path that frees the pipeline forgets to send the next command.
NothingStranded == ready /\ ~busy /\ ~canMode => queue = <<>>

\* Ready, opening and idle exclude each other, and each agrees with the
\* transport and the timers (disconnectPort, processInitStep, onPollTick).
PhasesAgree ==
  /\ ready => io # "none" /\ ~opening
  /\ opening \/ ready \/ (io = "none" /\ bt = "none" /\ ~serial /\ ~timeoutOn)
  /\ canMode => ready /\ ~busy
  /\ pollOn => ready

\* With a dongle that answers in time or never, sends nothing unasked and is not
\* put in the CAN monitor, the answer awaited is the answer to m_current: at most
\* one command is unanswered and it is the one handleResponse will be given.  Not
\* over Bluetooth, where an ATZ sent again may cross the start of an attempt.
AnswersMatch == ~btTransport /\ wire # <<>> => busy /\ wire = <<current>>

\* A connection attempt ends, ready or not, if the user lets it: no timer, retry
\* or baud rate change leaves the application "connecting" for ever.
OpeningEnds == <>[][~Connecting]_vars => (opening ~> ~opening)

\* Once the client stops calling, its commands all leave the queue, answered or
\* timed out, unless the CAN monitor holds them back.
QueueDrains ==
  <>[][~(Connecting \/ Calling \/ Monitoring)]_vars =>
    (queue # <<>> ~> queue = <<>> \/ canMode)

\* To its listeners the driver is an ElmLink.
LinkNames == {"connected", "disconnected", "errorOccurred"}

\* The link signals among those emitted; a step emits at most three.
LinkTold ==
  LET Told(i) == IF i \in 1..Len(signals) /\ signals[i].name \in LinkNames
                   THEN <<signals[i].name>> ELSE <<>>
  IN Told(1) \o Told(2) \o Told(3)
Phase == IF ready THEN "ready" ELSE IF opening THEN "opening" ELSE "idle"

Link == INSTANCE ElmLink WITH phase <- Phase, told <- LinkTold

\* The driver implements ElmLink: every listener can count on connected and
\* disconnected alternating and on an error for each attempt that fails.
LinkSpec == Link!Spec
=============================================================================
