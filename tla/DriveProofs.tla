---------------------------- MODULE DriveProofs -----------------------------
(***************************************************************************)
(* What ECU Drive's controller guarantees, proved for every instance of    *)
(* DriveController: nothing polls while trouble codes are read; the        *)
(* controller and the driver agree on the link; every loss is explained;   *)
(* polling is taken up again, and fits what is looked at.                  *)
(*                                                                         *)
(* Between a step of the driver and the slots that hear of it the two      *)
(* disagree; the invariants say by how much, in terms of the signals that  *)
(* wait (Says).  They rest on the phases of the link (Phased, of           *)
(* Elm327Proofs), which the controller's own steps keep too (Driven).      *)
(***************************************************************************)
EXTENDS DriveController, Elm327Proofs, SequenceTheorems, FiniteSetTheorems

\* DtcsAlone is not inductive: an initialisation that ends starts polling again if
\* a list was left.  While the codes are read or cleared none is.
Unpolled == pollOn = FALSE /\ pollPids = <<>>
NoPollList == DtcBusy => Unpolled

\* The counter of answers awaited stays within one reading.
Awaited == dtcAwaiting \in 0..2

-----------------------------------------------------------------------------
(* Nothing the driver does by itself starts polling without a list.        *)

LEMMA DownUnpolled == ASSUME LinkDown PROVE Unpolled'
BY DEF LinkDown, Unpolled

LEMMA FailConnectUnpolled == ASSUME NEW l, NEW out, FailConnect(l, out) PROVE Unpolled'
BY DownUnpolled DEF FailConnect, Down

LEMMA TryNextBtAttemptUnpolled ==
  ASSUME Unpolled, NEW n, NEW l, NEW out, TryNextBtAttempt(n, l, out)
  PROVE  Unpolled'
BY FailConnectUnpolled DEF TryNextBtAttempt, Unpolled, pollVars

LEMMA HandlePromptUnpolled ==
  ASSUME Unpolled, NEW r, NEW w, HandlePrompt(r, w)
  PROVE  Unpolled'
<1>1. CASE ProcessInitStep(w)
  BY <1>1 DEF ProcessInitStep, Unpolled
<1>2. CASE CountBlock(r, w)
  BY <1>2 DEF CountBlock, Unpolled, pollVars
<1>3. CASE HandleOther(r, w)
  BY <1>3 DEF HandleOther, Unpolled, pollVars
<1> QED
  BY <1>1, <1>2, <1>3 DEF HandlePrompt

LEMMA OnTimeoutUnpolled == ASSUME Unpolled, OnTimeout PROVE Unpolled'
<1>1. CASE TimeoutHighBaud
  BY <1>1, FailConnectUnpolled DEF TimeoutHighBaud, Unpolled, pollVars
<1>2. CASE TimeoutAtz
  BY <1>2 DEF TimeoutAtz, Unpolled, pollVars
<1>3. CASE TimeoutFails
  BY <1>3, FailConnectUnpolled DEF TimeoutFails
<1>4. CASE TimeoutSkips
  BY <1>4 DEF TimeoutSkips, Unpolled, pollVars
<1> QED
  BY <1>1, <1>2, <1>3, <1>4 DEF OnTimeout

LEMMA BluetoothUnpolled ==
  ASSUME Unpolled, OnBtConnected \/ OnBtError \/ OnBtConnectTimeout
  PROVE  Unpolled'
<1>1. CASE UNCHANGED pollVars
  BY <1>1 DEF Unpolled, pollVars
<1> QED
  BY <1>1, FailConnectUnpolled, TryNextBtAttemptUnpolled
     DEF OnBtConnected, OnBtError, RetryLater, OnBtConnectTimeout

LEMMA FireLambdaUnpolled == ASSUME Unpolled, FireLambda PROVE Unpolled'
<1>1. CASE UNCHANGED pollVars
  BY <1>1 DEF Unpolled, pollVars
<1> QED
  BY <1>1, TryNextBtAttemptUnpolled
     DEF FireLambda, FireStart, FireSettle, FireAtz, FireRetry, Dropped

LEMMA ReactUnpolled == ASSUME Unpolled, React PROVE Unpolled'
<1>1. CASE OnPollTick
  BY <1>1 DEF OnPollTick, Unpolled
<1>2. CASE OnAnswer \/ OnBanner
  BY <1>2, HandlePromptUnpolled DEF OnAnswer, OnBanner
<1>3. CASE OnCanData
  BY <1>3 DEF OnCanData, Unpolled, pollVars
<1> QED
  BY <1>1, <1>2, <1>3, OnTimeoutUnpolled, BluetoothUnpolled, FireLambdaUnpolled DEF React

-----------------------------------------------------------------------------
(* What the controller calls.                                              *)

LEMMA NothingKeeps ==
  ASSUME NoPollList, NEW out, Nothing(out), DtcBusy' => DtcBusy
  PROVE  NoPollList'
BY DEF Nothing, NoPollList, Unpolled, pollVars

\* The guard of applyPollingForCurrentPage is what keeps the codes alone.
LEMMA ApplyPollingKeeps ==
  ASSUME NoPollList, NEW out, ApplyPolling(out), DtcBusy' => DtcBusy
  PROVE  NoPollList'
<1>1. CASE Nothing(out)
  BY <1>1, NothingKeeps
<1>2. CASE ~DtcBusy'
  BY <1>2 DEF NoPollList
<1> QED
  BY <1>1, <1>2 DEF ApplyPolling

LEMMA StopThenApplyKeeps ==
  ASSUME NEW out, StopThenApply(out)
  PROVE  NoPollList'
<1>1. CASE StopPolling(out)
  BY <1>1 DEF StopPolling, StopPollingThen, NoPollList, Unpolled
<1>2. CASE ~DtcBusy'
  BY <1>2 DEF NoPollList
<1> QED
  BY <1>1, <1>2 DEF StopThenApply

LEMMA SlotKeeps == ASSUME Awaited, NoPollList, Slot PROVE NoPollList'
<1>1. CASE OnConnected
  BY <1>1 DEF OnConnected, ProbeSupportedPids, StopPollingThen, NoPollList, Unpolled
<1>2. CASE OnDisconnected \/ OnErrorOccurred
  <2>1. DtcBusy' => DtcBusy
    BY <1>2 DEF OnDisconnected, OnErrorOccurred, DtcBusy, dtcVars
  <2> QED
    BY <1>2, <2>1, NothingKeeps, StopThenApplyKeeps DEF OnDisconnected, OnErrorOccurred
<1>3. CASE OnStatus
  <2>1. DtcBusy' => DtcBusy
    BY <1>3 DEF OnStatus, DtcBusy
  <2> QED
    BY <1>3, <2>1, NothingKeeps, ApplyPollingKeeps DEF OnStatus
<1>4. CASE OnSupportedPidsReady \/ OnPidUnsupported \/ OnPid \/ OnRawResponse
  <2>1. DtcBusy' => DtcBusy
    BY <1>4 DEF OnSupportedPidsReady, OnPidUnsupported, OnPid, OnRawResponse, DtcBusy,
                dtcVars, driveVars
  <2> QED
    BY <1>4, <2>1, NothingKeeps, ApplyPollingKeeps
       DEF OnSupportedPidsReady, OnPidUnsupported, OnPid, OnRawResponse
<1>5. CASE OnDtcsReady
  <2>1. DtcBusy' => DtcBusy
    BY <1>5 DEF OnDtcsReady, DtcBusy, Awaited
  <2> QED
    BY <1>5, <2>1, NothingKeeps, ApplyPollingKeeps DEF OnDtcsReady
<1> QED
  BY <1>1, <1>2, <1>3, <1>4, <1>5 DEF Slot

LEMMA UserKeeps == ASSUME NoPollList, User PROVE NoPollList'
<1>1. CASE ToggleConnect
  <2>1. DtcBusy' => DtcBusy
    BY <1>1 DEF ToggleConnect, DtcBusy, dtcVars
  <2>2. Unpolled'
    BY <1>1, DownUnpolled
       DEF ToggleConnect, DisconnectPort, ConnectPort, ConnectBluetooth, Down
  <2> QED
    BY <2>2 DEF NoPollList
<1>2. CASE StartSession \/ LoadTuneFile \/ \E page \in 0..2 : SetUiPage(page)
  <2>1. DtcBusy' => DtcBusy
    BY <1>2 DEF StartSession, LoadTuneFile, SetUiPage, DtcBusy, dtcVars
  <2> QED
    BY <1>2, <2>1, NothingKeeps, ApplyPollingKeeps DEF StartSession, LoadTuneFile, SetUiPage
<1>3. CASE StopSession
  BY <1>3, StopThenApplyKeeps DEF StopSession
<1>4. CASE UserReadDtcs \/ UserClearDtcs
  BY <1>4 DEF UserReadDtcs, UserClearDtcs, StopPollingThen, NoPollList, Unpolled
<1>5. CASE UserSendRawCommand
  BY <1>5 DEF UserSendRawCommand, SendRawCommand, NoPollList, Unpolled, DtcBusy, dtcVars,
              pollVars
<1> QED
  BY <1>1, <1>2, <1>3, <1>4, <1>5 DEF User

-----------------------------------------------------------------------------
(* The theorem.                                                            *)

LEMMA AwaitedKept == Awaited /\ [DriveNext]_allVars => Awaited'
<1> SUFFICES ASSUME Awaited, [DriveNext]_allVars PROVE Awaited'
  OBVIOUS
<1>1. CASE UNCHANGED dtcAwaiting
  BY <1>1 DEF Awaited
<1>2. CASE OnDtcsReady
  <2>1. dtcAwaiting' = IF dtcAwaiting > 0 THEN dtcAwaiting - 1 ELSE 0
    BY <1>2 DEF OnDtcsReady
  <2> QED
    BY <2>1 DEF Awaited
<1>3. CASE UserReadDtcs
  <2>1. dtcAwaiting' = 2
    BY <1>3 DEF UserReadDtcs
  <2> QED
    BY <2>1 DEF Awaited
<1>4. CASE Slot
  BY <1>1, <1>2, <1>4
     DEF Slot, OnConnected, OnDisconnected, OnErrorOccurred, OnStatus, OnSupportedPidsReady,
         OnPidUnsupported, OnPid, OnRawResponse, dtcVars, driveVars
<1>5. CASE User
  BY <1>1, <1>3, <1>5
     DEF User, ToggleConnect, StartSession, StopSession, LoadTuneFile, SetUiPage,
         UserClearDtcs, UserSendRawCommand, dtcVars
<1>6. CASE FireRebuild \/ Driver \/ UNCHANGED allVars
  BY <1>1, <1>6 DEF FireRebuild, Driver, dtcVars, driveVars, allVars
<1> QED
  BY <1>4, <1>5, <1>6 DEF DriveNext

LEMMA NoPollListKept == Awaited /\ NoPollList /\ [DriveNext]_allVars => NoPollList'
<1> SUFFICES ASSUME Awaited, NoPollList, [DriveNext]_allVars PROVE NoPollList'
  OBVIOUS
<1>1. CASE FireRebuild
  <2>1. DtcBusy' => DtcBusy
    BY <1>1 DEF FireRebuild, DtcBusy, dtcVars
  <2> QED
    BY <1>1, <2>1, ApplyPollingKeeps DEF FireRebuild
<1>2. CASE Driver
  BY <1>2, ReactUnpolled DEF Driver, NoPollList, DtcBusy, dtcVars
<1>3. CASE UNCHANGED allVars
  BY <1>3 DEF allVars, vars, driveVars, dtcVars, pollVars, NoPollList, Unpolled, DtcBusy
<1> QED
  BY <1>1, <1>2, <1>3, SlotKeeps, UserKeeps DEF DriveNext

\* Whatever the pages, the tunes, the PIDs and the timing of answers: nothing polls
\* while trouble codes are read or cleared.
THEOREM DtcsAreAlone == DriveSpec => []DtcsAlone
<1>1. DriveInit => Awaited /\ NoPollList
  <2>1. DriveInit => dtcAwaiting = 0 /\ dtcClearPending = FALSE
    BY DEF DriveInit
  <2> QED
    BY <2>1 DEF Awaited, NoPollList, DtcBusy
<1>2. NoPollList => DtcsAlone
  BY DEF NoPollList, Unpolled, DtcsAlone
<1> QED
  BY <1>1, <1>2, AwaitedKept, NoPollListKept, PTL DEF DriveSpec
-----------------------------------------------------------------------------
(* The list that is polled.                                                *)

\* The values of a sequence.
Listed(s) == {s[i] : i \in 1..Len(s)}

\* A list of PIDs holds each member of the set once, and nothing else.
LEMMA SetToSeqLists ==
  ASSUME NEW S, NEW T, IsFiniteSet(T), S \subseteq T
  PROVE  SetToSeq(S) \in Seq(S) /\ Listed(SetToSeq(S)) = S
<1> DEFINE f == SetToSeq(S)
           n == Cardinality(S)
<1>1. IsFiniteSet(S)
  BY FS_Subset
<1>2. n \in Nat /\ ExistsBijection(1..n, S)
  BY <1>1, FS_CardinalityType
<1>3. \E g \in [1..n -> S] : IsInjective(g)
  BY <1>2 DEF ExistsBijection, Bijection, Injection
<1>4. f \in [1..n -> S] /\ IsInjective(f)
  BY <1>3 DEF SetToSeq
<1>5. f \in Injection(1..n, S)
  BY <1>4 DEF Injection
<1>6. IsFiniteSet(1..n) /\ Cardinality(1..n) = n
  BY <1>2, FS_Interval
<1>7. f \in Surjection(1..n, S)
  BY <1>1, <1>5, <1>6, FS_Injection
<1>8. \A x \in S : \E i \in 1..n : f[i] = x
  BY <1>7 DEF Surjection
<1>9. f \in Seq(S) /\ Len(f) = n
  BY <1>2, <1>4
<1> QED
  BY <1>4, <1>8, <1>9 DEF Listed

\* What may be polled on the page `page`, in a session or not.
Fits(pids, session, page) ==
  IF session THEN BasePids \subseteq pids
  ELSE pids \subseteq IF page = 1 THEN LivePids ELSE TurboPids

LEMMA WantedFit ==
  /\ Fits(WantedPids', sessionOn', uiPage')
  /\ WantedPids' \subseteq LivePids \cup TurboPids \cup TunePids
<1>1. BasePids \subseteq RequiredPids' /\ RequiredPids' \subseteq TunePids
  BY DriveAssumption DEF RequiredPids
<1>2. SensorsPollPids' \subseteq LivePids
  BY DriveAssumption DEF SensorsPollPids
<1>3. CASE sessionOn'
  BY <1>1, <1>2, <1>3 DEF WantedPids, Fits
<1>4. CASE ~sessionOn' /\ uiPage' = 1
  BY <1>2, <1>4 DEF WantedPids, Fits, Either
<1>5. CASE ~sessionOn' /\ uiPage' # 1
  BY <1>5, DriveAssumption DEF WantedPids, Fits, Either
<1> QED
  BY <1>3, <1>4, <1>5

\* The list given to startPolling.
LEMMA PolledFits ==
  ASSUME pollPids' = SetToSeq(WantedPids')
  PROVE  pollPids' \in Seq(Pids) /\ Fits(Listed(pollPids'), sessionOn', uiPage')
<1>1. /\ Fits(WantedPids', sessionOn', uiPage')
      /\ WantedPids' \subseteq LivePids \cup TurboPids \cup TunePids
  BY WantedFit
<1>2. /\ SetToSeq(WantedPids') \in Seq(WantedPids')
      /\ Listed(SetToSeq(WantedPids')) = WantedPids'
  BY <1>1, SetToSeqLists, DriveAssumption
<1>3. WantedPids' \subseteq Pids
  BY <1>1, DriveAssumption
<1>4. pollPids' \in Seq(Pids)
  BY <1>2, <1>3
<1> QED
  BY <1>1, <1>2, <1>4
-----------------------------------------------------------------------------
(* What the driver tells the controller.                                   *)

\* The signals s say nothing of the link.
Silent(s) == ~Says(s, "connected") /\ ~Says(s, "disconnected") /\ ~Says(s, "errorOccurred")

\* The three outcomes of what the driver does by itself: the link stays as it is; it is
\* ready, perhaps again; it is lost, or was not established.
Stays ==
  /\ ready' = ready /\ (opening' => opening) /\ Silent(signals')
  /\ UNCHANGED <<pollOn, pollPids>>
  /\ supportRemaining' = 0 => supportRemaining = 0 \/ Says(signals', "supportedPidsReady")
Ready ==
  /\ (ready \/ opening) /\ ready' = TRUE /\ opening' = FALSE
  /\ Says(signals', "connected")
  /\ ~Says(signals', "disconnected") /\ ~Says(signals', "errorOccurred")
  /\ pollPids' = pollPids /\ pollOn' = (pollOn \/ pollPids # <<>>)
Gone ==
  /\ ready' = FALSE /\ opening' = FALSE
  /\ Says(signals', "errorOccurred") /\ ~Says(signals', "connected")
  /\ ready => Says(signals', "disconnected")
  /\ Unpolled'

\* The signals of which the handlers are made.
Connected == Sig("connected", "")
Disconnected == Sig("disconnected", "")
Counted == Sig("supportedPidsReady", "")
Info == Status("info")

LEMMA SignalFacts ==
  /\ Connected \in Signals /\ Connected.name = "connected"
  /\ Disconnected \in Signals /\ Disconnected.name = "disconnected"
  /\ Counted \in Signals /\ Counted.name = "supportedPidsReady"
  /\ ErrorOccurred \in Signals /\ ErrorOccurred.name = "errorOccurred"
  /\ Info \in Signals /\ Info.name = "status"
<1>1. "" \in Texts /\ "info" \in StatusTexts
  BY DEF Texts, StatusTexts
<1>2. \A name \in SignalNames : Sig(name, "") \in Signals
  BY <1>1, SigType
<1>3. \A name : \A arg : Sig(name, arg).name = name
  BY DEF Sig
<1>4. /\ "connected" \in SignalNames /\ "disconnected" \in SignalNames
      /\ "errorOccurred" \in SignalNames /\ "supportedPidsReady" \in SignalNames
  BY DEF SignalNames
<1>5. Info \in Signals /\ Info.name = "status"
  BY <1>1, <1>3, StatusType DEF Info, Status
<1>6. Connected \in Signals /\ Disconnected \in Signals /\ Counted \in Signals
  BY <1>2, <1>4 DEF Connected, Disconnected, Counted
<1>7. ErrorOccurred \in Signals
  BY <1>2, <1>4 DEF ErrorOccurred
<1> QED
  BY <1>3, <1>5, <1>6, <1>7 DEF Connected, Disconnected, Counted, ErrorOccurred

\* Two signals, and a status after some.
LEMMA TwoSay ==
  ASSUME NEW x \in Signals, NEW y \in Signals, NEW name
  PROVE  /\ <<x, y>> \in Seq(Signals)
         /\ Says(<<x, y>>, name) <=> x.name = name \/ y.name = name
<1> DEFINE one == <<x>>
           two == <<x, y>>
<1>1. two = Append(one, y) /\ one \in Seq(Signals) /\ two \in Seq(Signals)
  OBVIOUS
<1>2. Says(one, name) <=> x.name = name
  BY SaysFacts
<1> HIDE DEF one, two
<1>3. Says(two, name) <=> x.name = name \/ y.name = name
  BY <1>1, <1>2, SaysFacts
<1> QED
  BY <1>1, <1>3 DEF two

LEMMA InfoSilent ==
  ASSUME NEW s \in Seq(Signals), Silent(s)
  PROVE  Append(s, Info) \in Seq(Signals) /\ Silent(Append(s, Info))
<1>1. Info \in Signals /\ Info.name # "connected" /\ Info.name # "disconnected"
      /\ Info.name # "errorOccurred"
  BY SignalFacts
<1>2. \A name : Says(Append(s, Info), name) <=> Says(s, name) \/ Info.name = name
  BY <1>1, SaysFacts
<1> QED
  BY <1>1, <1>2 DEF Silent

\* The only signal sendNext may add is a status.
LEMMA SendNextSays ==
  ASSUME NEW q, NEW b, NEW can, NEW t, NEW w, NEW out \in Seq(Signals),
         SendNext(q, b, can, t, w, out), NEW name, name # "status"
  PROVE  Says(signals', name) <=> Says(out, name)
<1>1. signals' = out \/ signals' = Append(out, Info)
  BY DEF SendNext, Info
<1>2. Info \in Signals /\ Info.name # name
  BY SignalFacts
<1>3. Says(Append(out, Info), name) <=> Says(out, name)
  BY <1>2, SaysFacts
<1> QED
  BY <1>1, <1>3

LEMMA LostSays ==
  /\ Lost \in Seq(Signals)
  /\ Says(Lost, "disconnected") <=> ready
  /\ \A name : name # "disconnected" => ~Says(Lost, name)
<1>1. Lost = IF ready THEN <<Disconnected>> ELSE <<>>
  BY DEF Lost, Disconnected
<1>2. \A name : ~Says(<<>>, name) /\ (Says(<<Disconnected>>, name) <=> name = "disconnected")
  BY SaysFacts, SignalFacts
<1> QED
  BY <1>1, <1>2, LinkSignalsType

\* failConnect tells the error, then the disconnection if the link was ready.
LEMMA FailConnectGone ==
  ASSUME NEW l, NEW out \in Seq(Signals), Silent(out), FailConnect(l, out)
  PROVE  Gone
<1>1. /\ ready' = FALSE /\ opening' = FALSE
      /\ signals' = (out \o <<ErrorOccurred>>) \o Lost
  BY DEF FailConnect, Down, LinkDown
<1> DEFINE error == <<ErrorOccurred>>
<1>2. error \in Seq(Signals) /\ \A name : Says(error, name) <=> name = "errorOccurred"
  BY SignalFacts, SeqFacts, SaysFacts
<1>3. signals' = (out \o error) \o Lost
  BY <1>1
<1> HIDE DEF error
<1>4. out \o error \in Seq(Signals)
  BY <1>2
<1>5. \A name : Says(signals', name) <=>
        Says(out, name) \/ name = "errorOccurred" \/ Says(Lost, name)
  BY <1>2, <1>3, <1>4, SaysFacts, LostSays, ZenonT(60)
<1>6. Unpolled'
  BY FailConnectUnpolled
<1> QED
  BY <1>1, <1>5, <1>6, LostSays DEF Gone, Silent
LEMMA TryNextGone ==
  ASSUME NEW n, NEW l, NEW out \in Seq(Signals), Silent(out), TryNextBtAttempt(n, l, out)
  PROVE  Stays \/ Gone
<1>1. CASE FailConnect(l, <<>>)
  <2>1. <<>> \in Seq(Signals) /\ Silent(<<>>)
    BY SaysFacts, SeqFacts DEF Silent
  <2> QED
    BY <1>1, <2>1, FailConnectGone
<1>2. CASE /\ signals' = Append(out, Status("info"))
           /\ UNCHANGED <<sessionVars, pollVars, probeVars>>
  <2>1. Silent(signals')
    BY <1>2, InfoSilent DEF Info
  <2> QED
    BY <1>2, <2>1 DEF Stays, sessionVars, pollVars, probeVars
<1> QED
  BY <1>1, <1>2 DEF TryNextBtAttempt

\* No signal, a status and a signal of another kind say nothing of the link.
LEMMA SilentFacts ==
  /\ <<>> \in Seq(Signals) /\ Silent(<<>>)
  /\ <<Info>> \in Seq(Signals) /\ Silent(<<Info>>)
  /\ Silent(<<Info, Info>>)
  /\ \A x \in Signals : x.name \notin LinkNames => Silent(<<x>>)
<1>1. <<>> \in Seq(Signals) /\ Silent(<<>>)
  BY SaysFacts, SeqFacts DEF Silent
<1>2. \A x \in Signals : <<x>> \in Seq(Signals) /\ (x.name \notin LinkNames => Silent(<<x>>))
  BY SaysFacts, SeqFacts DEF Silent, LinkNames
<1>3. <<Info>> \in Seq(Signals) /\ Silent(<<Info>>)
  BY <1>2, SignalFacts DEF LinkNames
<1>4. Silent(<<Info, Info>>)
  BY TwoSay, SignalFacts DEF Silent
<1> QED
  BY <1>1, <1>2, <1>3, <1>4

\* A prompt: the last initialisation command ends the opening.
LEMMA PromptOutcome ==
  ASSUME TypeOK, Phased, NEW r \in Answers, NEW w, ready \/ opening, HandlePrompt(r, w)
  PROVE  Stays \/ Ready
<1>1. CASE ProcessInitStep(w) /\ ~(initStep >= 5)
  <2>1. SendNext(queue, FALSE, FALSE, FALSE, w, <<>>)
    BY <1>1 DEF ProcessInitStep
  <2>2. Silent(signals')
    BY <2>1, SendNextSays, SilentFacts DEF Silent
  <2> QED
    BY <1>1, <2>2 DEF ProcessInitStep, Stays, probeVars
<1>2. CASE ProcessInitStep(w) /\ initStep >= 5
  <2> DEFINE out == <<Connected, Info>>
  <2>1. SendNext(queue, FALSE, FALSE, FALSE, w, out) /\ ~(initStep < 5)
    <3>1. initStep \in 0..6
      BY DEF TypeOK, SessionOK
    <3>2. ~(initStep < 5)
      BY <1>2, <3>1
    <3> QED
      BY <1>2, <3>2 DEF ProcessInitStep, Connected, Info
  <2>2. /\ out \in Seq(Signals) /\ Says(out, "connected")
        /\ ~Says(out, "disconnected") /\ ~Says(out, "errorOccurred")
    BY TwoSay, SignalFacts
  <2> HIDE DEF out
  <2>3. /\ Says(signals', "connected") /\ ~Says(signals', "disconnected")
        /\ ~Says(signals', "errorOccurred")
    BY <2>1, <2>2, SendNextSays
  <2> QED
    BY <1>2, <2>1, <2>3 DEF ProcessInitStep, Ready
<1>3. CASE CountBlock(r, w)
  <2> DEFINE left == IF supportRemaining > 0 THEN supportRemaining - 1 ELSE 0
             out == IF left = 0 THEN <<Counted, Info>> ELSE <<>>
  <2>1. supportRemaining' = left /\ SendNext(queue, FALSE, FALSE, FALSE, w, out)
    BY <1>3 DEF CountBlock, Counted, Info
  <2>2. out \in Seq(Signals) /\ Silent(out) /\ (left = 0 => Says(out, "supportedPidsReady"))
    <3>1. /\ Says(<<Counted, Info>>, "supportedPidsReady") /\ Silent(<<Counted, Info>>)
          /\ <<Counted, Info>> \in Seq(Signals)
      BY TwoSay, SignalFacts DEF Silent
    <3> QED
      BY <3>1, SilentFacts
  <2> HIDE DEF out
  <2>3. Silent(signals') /\ (left = 0 => Says(signals', "supportedPidsReady"))
    BY <2>1, <2>2, SendNextSays DEF Silent
  <2> QED
    BY <1>3, <2>1, <2>3 DEF CountBlock, Stays, sessionVars, pollVars
<1>4. CASE HandleOther(r, w)
  <2> DEFINE out == IF current.kind = "CanStart" THEN <<>> ELSE <<Emitted(r)>>
  <2>1. SendNext(queue, FALSE, FALSE, FALSE, w, out)
    BY <1>4 DEF HandleOther
  <2>2. out \in Seq(Signals) /\ Silent(out)
    <3>1. CASE current.kind = "CanStart"
      BY <3>1, SilentFacts
    <3>2. CASE current.kind # "CanStart"
      <4>1. current.kind \notin {"Init", "PidSupport", "CanStart"} /\ current \in Cmds
        BY <1>4, <3>2 DEF HandleOther, TypeOK, PipeOK
      <4>2. Emitted(r) \in Signals
        BY <4>1, EmittedType
      <4>3. Emitted(r).name \notin LinkNames
        BY <4>1 DEF Emitted, Sig, Status, LinkNames, Cmds, Kinds
      <4> QED
        BY <3>2, <4>2, <4>3, SilentFacts, SeqFacts
    <3> QED
      BY <3>1, <3>2
  <2> HIDE DEF out
  <2>3. Silent(signals')
    BY <2>1, <2>2, SendNextSays DEF Silent
  <2> QED
    BY <1>4, <2>3 DEF HandleOther, Stays, sessionVars, pollVars, probeVars
<1>5. ProcessInitStep(w) => (initStep >= 5 \/ ~(initStep >= 5))
  OBVIOUS
<1> QED
  BY <1>1, <1>2, <1>3, <1>4, <1>5 DEF HandlePrompt
LEMMA OnTimeoutOutcome == ASSUME TypeOK, OnTimeout PROVE Stays \/ Gone
<1>1. CASE TimeoutHighBaud
  <2>1. CASE FailConnect(later, <<Status("info")>>)
    BY <2>1, FailConnectGone, SilentFacts DEF Info
  <2>2. CASE /\ SerialOpens /\ signals' = <<Status("info"), Status("info")>>
             /\ UNCHANGED <<opening, pollVars, probeVars>>
    <3>1. Silent(signals')
      BY <2>2, SilentFacts DEF Info
    <3>2. ready = FALSE
      BY <1>1 DEF TimeoutHighBaud, HighBaudLeft, SilentAtz, TypeOK, SessionOK
    <3> QED
      BY <2>2, <3>1, <3>2 DEF SerialOpens, BeginInit, Stays, pollVars, probeVars
  <2> QED
    BY <1>1, <2>1, <2>2 DEF TimeoutHighBaud
<1>2. CASE TimeoutAtz
  <2>1. Silent(signals')
    BY <1>2, SilentFacts DEF TimeoutAtz, Info
  <2> QED
    BY <1>2, <2>1 DEF TimeoutAtz, Stays, sessionVars, pollVars, probeVars
<1>3. CASE TimeoutFails
  BY <1>3, FailConnectGone, SilentFacts DEF TimeoutFails
<1>4. CASE TimeoutSkips
  <2> DEFINE out == CASE current.kind = "Pid" -> <<Sig("pidUnsupported", current.arg)>>
                      [] current.kind = "Raw" -> <<Sig("rawResponse", current.arg)>>
                      [] OTHER -> <<>>
  <2>1. SendNext(queue, FALSE, canMode, FALSE, Unanswered, out)
    BY <1>4 DEF TimeoutSkips
  <2>2. out \in Seq(Signals) /\ Silent(out)
    <3>1. /\ Sig("pidUnsupported", current.arg) \in Signals
          /\ Sig("rawResponse", current.arg) \in Signals
      BY SigType DEF SignalNames, TypeOK, PipeOK, Cmds
    <3>2. /\ Sig("pidUnsupported", current.arg).name \notin LinkNames
          /\ Sig("rawResponse", current.arg).name \notin LinkNames
      BY DEF Sig, LinkNames
    <3>3. /\ <<Sig("pidUnsupported", current.arg)>> \in Seq(Signals)
          /\ <<Sig("rawResponse", current.arg)>> \in Seq(Signals)
      BY <3>1, SeqFacts
    <3>4. /\ Silent(<<Sig("pidUnsupported", current.arg)>>)
          /\ Silent(<<Sig("rawResponse", current.arg)>>)
      BY <3>1, <3>2, SilentFacts
    <3>5. CASE current.kind = "Pid"
      BY <3>3, <3>4, <3>5
    <3>6. CASE current.kind = "Raw"
      BY <3>3, <3>4, <3>6
    <3>7. CASE current.kind # "Pid" /\ current.kind # "Raw"
      BY <3>7, SilentFacts
    <3> QED
      BY <3>5, <3>6, <3>7
  <2> HIDE DEF out
  <2>3. Silent(signals')
    BY <2>1, <2>2, SendNextSays DEF Silent
  <2> QED
    BY <1>4, <2>3 DEF TimeoutSkips, Stays, sessionVars, pollVars, probeVars
<1> QED
  BY <1>1, <1>2, <1>3, <1>4 DEF OnTimeout

LEMMA BluetoothOutcome ==
  ASSUME OnBtConnected \/ OnBtError \/ OnBtConnectTimeout PROVE Stays \/ Gone
<1>0. signals = <<>> /\ Silent(<<>>) /\ <<>> \in Seq(Signals)
  BY SilentFacts DEF OnBtConnected, OnBtError, OnBtConnectTimeout, Quiet
<1>1. ASSUME UNCHANGED <<sessionVars, pollVars, probeVars>>,
             UNCHANGED signals \/ signals' = <<Status("info")>>
      PROVE  Stays
  <2>1. Silent(signals')
    BY <1>0, <1>1, SilentFacts DEF Info
  <2> QED
    BY <1>1, <2>1 DEF Stays, sessionVars, pollVars, probeVars
<1>2. FailConnect(later, <<>>) => Gone
  BY <1>0, FailConnectGone
<1>3. \A n : TryNextBtAttempt(n, later, <<Status("info")>>) => Stays \/ Gone
  BY SilentFacts, TryNextGone DEF Info
<1>4. CASE OnBtConnected
  BY <1>1, <1>4 DEF OnBtConnected
<1>5. CASE OnBtError
  BY <1>1, <1>2, <1>5 DEF OnBtError, RetryLater
<1>6. CASE OnBtConnectTimeout
  BY <1>1, <1>2, <1>3, <1>6 DEF OnBtConnectTimeout
<1> QED
  BY <1>4, <1>5, <1>6

\* The initialisation that begins after a socket has settled finds the driver opening.
LEMMA FireLambdaOutcome == ASSUME TypeOK, Phased, FireLambda PROVE Stays \/ Gone
<1>0. PICK age \in {"fresh", "stale"} :
        FireStart(age) \/ FireSettle(age) \/ FireAtz(age) \/ FireRetry(age)
  BY DEF FireLambda
<1>1. Silent(<<>>) /\ <<>> \in Seq(Signals)
  BY SilentFacts
<1>2. ASSUME UNCHANGED <<sessionVars, pollVars, probeVars>>, Silent(signals')
      PROVE  Stays
  BY <1>2 DEF Stays, sessionVars, pollVars, probeVars
<1>3. ASSUME NEW l, Dropped(l), signals = <<>> PROVE Stays
  BY <1>1, <1>2, <1>3 DEF Dropped
<1>4. ASSUME NEW q, NEW b, NEW can, NEW t, NEW w, SendNext(q, b, can, t, w, <<>>)
      PROVE  Silent(signals')
  BY <1>1, <1>4, SendNextSays DEF Silent
<1>5. CASE FireStart(age)
  BY <1>2, <1>3, <1>4, <1>5 DEF FireStart, Due, Quiet
<1>6. CASE FireAtz(age)
  BY <1>2, <1>4, <1>6 DEF FireAtz
<1>7. CASE FireRetry(age)
  BY <1>1, <1>3, <1>7, TryNextGone DEF FireRetry, Due, Quiet
<1>8. CASE FireSettle(age)
  <2>1. signals = <<>>
    BY <1>8 DEF FireSettle, Due, Quiet
  <2>2. CASE /\ age = "fresh" /\ ready' = FALSE
             /\ UNCHANGED <<opening, pollVars, probeVars, signals>>
    <3>1. opening
      BY <1>8, <2>2 DEF FireSettle, Due, Phased, Settling
    <3>2. ready = FALSE
      BY <3>1 DEF Phased, PhasesAgree, TypeOK, SessionOK
    <3> QED
      BY <1>1, <2>1, <2>2, <3>2 DEF Stays, pollVars, probeVars
  <2> QED
    BY <1>3, <1>8, <2>1, <2>2 DEF FireSettle, BeginInit
<1> QED
  BY <1>0, <1>5, <1>6, <1>7, <1>8

LEMMA ReactOutcome == ASSUME TypeOK, Phased, React PROVE Stays \/ Ready \/ Gone
<1>1. CASE OnPollTick
  <2>1. PICK cmds : Submit(cmds, <<>>)
    BY <1>1 DEF OnPollTick
  <2>2. Silent(signals')
    BY <2>1, SendNextSays, SilentFacts DEF Submit, Silent
  <2> QED
    BY <1>1, <2>1, <2>2 DEF OnPollTick, Submit, Stays, sessionVars, probeVars
<1>2. CASE OnAnswer \/ OnBanner
  <2>1. ready \/ opening
    BY <1>2 DEF OnAnswer, OnBanner, IoOpen, Phased, PhasesAgree
  <2>2. CASE OnAnswer
    <3>1. PICK ok \in BOOLEAN :
            HandlePrompt([to |-> Head(wire), ok |-> ok /\ Head(wire).kind # "CanStart"], Tail(wire))
      BY <2>2 DEF OnAnswer
    <3>2. Head(wire) \in Cmds
      BY <2>2 DEF OnAnswer, TypeOK, PipeOK
    <3>3. [to |-> Head(wire), ok |-> ok /\ Head(wire).kind # "CanStart"] \in Answers
      BY <3>2 DEF Answers
    <3> QED
      BY <2>1, <3>1, <3>3, PromptOutcome
  <2>3. CASE OnBanner
    <3>1. NoAnswer \in Answers
      BY CmdType DEF NoAnswer, Answers, Kinds, Texts
    <3> QED
      BY <2>1, <2>3, <3>1, PromptOutcome DEF OnBanner
  <2> QED
    BY <1>2, <2>2, <2>3
<1>3. CASE OnCanData
  <2>1. Silent(<<Sig("canFrame", "")>>)
    <3>1. "" \in Texts /\ "canFrame" \in SignalNames
      BY DEF Texts, SignalNames
    <3>2. Sig("canFrame", "") \in Signals
      BY <3>1, SigType
    <3>3. Sig("canFrame", "").name \notin LinkNames
      BY DEF Sig, LinkNames
    <3> QED
      BY <3>2, <3>3, SilentFacts
  <2>2. Silent(signals')
    BY <1>3, <2>1, SilentFacts DEF OnCanData, Quiet
  <2> QED
    BY <1>3, <2>2 DEF OnCanData, Stays, sessionVars, pollVars, probeVars
<1> QED
  BY <1>1, <1>2, <1>3, OnTimeoutOutcome, BluetoothOutcome, FireLambdaOutcome DEF React
-----------------------------------------------------------------------------
(* The driver under the controller: well typed and in a phase.             *)

Driven == TypeOK /\ Phased

LEMMA RestFacts ==
  ASSUME TypeOK, signals # <<>>
  PROVE  /\ Rest \in Seq(Signals)
         /\ \A name : Says(signals, name) <=> Head(signals).name = name \/ Says(Rest, name)
<1>1. signals \in Seq(Signals) /\ Tail(signals) \in Seq(Signals)
  BY DEF TypeOK
<1> QED
  BY <1>1, SaysFacts DEF Rest

\* A call that only starts or stops the polling.
LEMMA PollingDriven ==
  ASSUME Driven, signals' \in Seq(Signals), pollOn' \in BOOLEAN, pollOn' => pollOn \/ ready,
         pollPids' \in Seq(Pids), pollIdx' \in Nat,
         UNCHANGED <<linkVars, sessionVars, pipeVars, probeVars, later>>
  PROVE  Driven'
<1>1. DeviceOK' /\ FlagsOK' /\ SessionOK' /\ PipeOK' /\ ProbeOK'
  BY KeptType DEF Driven
<1>2. TypeOK'
  BY <1>1 DEF Driven, TypeOK, PollOK
<1>3. UNCHANGED <<ready, opening, io, bt, serial, timeoutOn, busy, canMode, queue, wire, banner>>
  BY DEF linkVars, deviceVars, sessionVars, pipeVars
<1>4. Phased'
  BY <1>3 DEF Driven, Phased, PhasesAgree, Initialising, SocketsFresh, Settling
<1> QED
  BY <1>2, <1>4 DEF Driven

\* What the slots and the buttons ask of the polling.
LEMMA CallDriven ==
  ASSUME Driven, NEW out \in Seq(Signals), Nothing(out) \/ ApplyPolling(out) \/ StopThenApply(out)
  PROVE  Driven'
<1>0. pollOn \in BOOLEAN /\ pollPids \in Seq(Pids) /\ pollIdx \in Nat /\ ready \in BOOLEAN
  BY DEF Driven, TypeOK, PollOK, SessionOK
<1>1. CASE Nothing(out)
  BY <1>0, <1>1, PollingDriven DEF Nothing, pollVars
<1>2. CASE StopPolling(out)
  <2>1. pollPids' \in Seq(Pids)
    BY <1>2, SeqFacts DEF StopPolling, StopPollingThen
  <2> QED
    BY <1>0, <1>2, <2>1, PollingDriven DEF StopPolling, StopPollingThen
<1>3. CASE StartPolling(SetToSeq(WantedPids'), out)
  <2>1. pollPids' \in Seq(Pids)
    BY <1>3, PolledFits DEF StartPolling
  <2> QED
    BY <1>0, <1>3, <2>1, PollingDriven DEF StartPolling
<1> QED
  BY <1>1, <1>2, <1>3 DEF ApplyPolling, StopThenApply

LEMMA SubmitDriven ==
  ASSUME Driven, NEW cmds \in Seq(Cmds), NEW out \in Seq(Signals), Submit(cmds, out),
         PollOK', ProbeOK'
  PROVE  Driven'
BY SubmitType, SubmitPhased DEF Driven

LEMMA ProbeDriven ==
  ASSUME Driven, NEW out \in Seq(Signals), ProbeSupportedPids(out) PROVE Driven'
<1> DEFINE info == <<Status("info")>>
<1>1. info \in Seq(Signals)
  BY StatusType, SeqFacts DEF StatusTexts
<1>2. Submit(ProbeCmds, info \o out) /\ StopPollingThen /\ accum' = {} /\ supportRemaining' = 4
  BY DEF ProbeSupportedPids
<1> HIDE DEF info
<1>3. info \o out \in Seq(Signals)
  BY <1>1
<1>4. PollOK' /\ ProbeOK'
  BY <1>2, StopPollingType DEF ProbeOK, Driven
<1> QED
  BY <1>2, <1>3, <1>4, ProbeCmdsType, SubmitDriven

LEMMA SlotDriven == ASSUME Driven, Slot PROVE Driven'
<1>1. Rest \in Seq(Signals)
  BY RestFacts DEF Slot, Driven
<1> QED
  BY <1>1, CallDriven, ProbeDriven
     DEF Slot, OnConnected, OnDisconnected, OnErrorOccurred, OnStatus, OnSupportedPidsReady,
         OnPidUnsupported, OnPid, OnDtcsReady, OnRawResponse

LEMMA UserDriven ==
  ASSUME "bt" \notin Chatty, Driven, User PROVE Driven'
<1>0. <<>> \in Seq(Signals) /\ \A x \in Cmds : <<x>> \in Seq(Cmds)
  BY SeqFacts
<1>1. CASE ToggleConnect
  <2>1. Next
    BY <1>1 DEF ToggleConnect, Next, Client, Connecting
  <2> QED
    BY <2>1, NextType, NextPhased DEF Driven
<1>2. CASE StartSession \/ StopSession \/ LoadTuneFile \/ \E page \in 0..2 : SetUiPage(page)
  BY <1>0, <1>2, CallDriven DEF StartSession, StopSession, LoadTuneFile, SetUiPage
<1>3. CASE UserReadDtcs
  <2> DEFINE cmds == <<Cmd("Dtc", "03"), Cmd("Dtc", "07")>>
  <2>1. cmds \in Seq(Cmds)
    BY CmdType, SeqFacts DEF Kinds, Texts
  <2>2. Submit(cmds, <<>>) /\ StopPollingThen /\ UNCHANGED probeVars
    BY <1>3 DEF UserReadDtcs
  <2> HIDE DEF cmds
  <2> QED
    BY <1>0, <2>1, <2>2, SubmitDriven, StopPollingType, KeptType DEF Driven
<1>4. CASE UserClearDtcs
  <2>1. <<Cmd("ClearDtc", "")>> \in Seq(Cmds)
    BY <1>0, CmdType DEF Kinds, Texts
  <2>2. Submit(<<Cmd("ClearDtc", "")>>, <<>>) /\ StopPollingThen /\ UNCHANGED probeVars
    BY <1>4 DEF UserClearDtcs
  <2> QED
    BY <1>0, <2>1, <2>2, SubmitDriven, StopPollingType, KeptType DEF Driven
<1>5. CASE UserSendRawCommand
  <2>1. PICK text \in RawCommands : SendRawCommand(text, <<>>)
    BY <1>5 DEF UserSendRawCommand
  <2>2. <<Cmd("Raw", text)>> \in Seq(Cmds)
    BY <1>0, CmdType DEF Kinds, Texts
  <2> QED
    BY <1>0, <2>1, <2>2, SubmitDriven, KeptType DEF SendRawCommand, Driven
<1> QED
  BY <1>1, <1>2, <1>3, <1>4, <1>5 DEF User

LEMMA DrivenKept ==
  ASSUME "bt" \notin Chatty PROVE Driven /\ [DriveNext]_allVars => Driven'
<1> SUFFICES ASSUME Driven, [DriveNext]_allVars PROVE Driven'
  OBVIOUS
<1>1. CASE FireRebuild
  BY <1>1, SeqFacts, CallDriven DEF FireRebuild
<1>2. CASE Driver \/ UNCHANGED allVars
  BY <1>2, NextType, NextPhased DEF Driver, Driven, Next, allVars
<1> QED
  BY <1>1, <1>2, SlotDriven, UserDriven DEF DriveNext
-----------------------------------------------------------------------------
(* The controller and the driver agree on the link.                        *)

\* While signals wait the two differ only by what those signals say.
Linked ==
  /\ connected \in BOOLEAN
  /\ connected /\ ~ready => Says(signals, "disconnected") \/ Says(signals, "errorOccurred")
  /\ ready /\ ~connected => Says(signals, "connected")
  /\ Says(signals, "connected") => ready
  /\ Says(signals, "disconnected") \/ Says(signals, "errorOccurred") => ~ready
  /\ sessionOn => connected
  /\ userDisconnect => Says(signals, "disconnected")

LEMMA QuietFacts ==
  ASSUME TypeOK, Linked, Quiet
  PROVE  connected = ready /\ ~userDisconnect /\ (sessionOn => connected)
<1>1. \A name : ~Says(signals, name)
  BY SaysFacts DEF Quiet
<1> QED
  BY <1>1 DEF Linked, TypeOK, SessionOK

LEMMA CallSays ==
  ASSUME NEW out, Nothing(out) \/ ApplyPolling(out) \/ StopThenApply(out)
  PROVE  signals' = out /\ UNCHANGED <<ready, opening, supportRemaining>>
BY DEF Nothing, ApplyPolling, StopThenApply, StartPolling, StopPolling, sessionVars, probeVars

LEMMA ProbeSays ==
  ASSUME NEW out \in Seq(Signals), ProbeSupportedPids(out)
  PROVE  /\ ready /\ UNCHANGED <<ready, opening>> /\ Unpolled' /\ supportRemaining' = 4
         /\ \A name : name # "status" => (Says(signals', name) <=> Says(out, name))
<1> DEFINE info == <<Info>>
<1>1. info \in Seq(Signals) /\ \A name : Says(info, name) <=> name = "status"
  BY SaysFacts, SignalFacts, SeqFacts
<1>2. /\ ready /\ UNCHANGED <<ready, opening>> /\ Unpolled' /\ supportRemaining' = 4
      /\ \E q, b, can, t, w : SendNext(q, b, can, t, w, info \o out)
  BY DEF ProbeSupportedPids, Submit, StopPollingThen, Unpolled, sessionVars, Info
<1> HIDE DEF info
<1>3. info \o out \in Seq(Signals)
  BY <1>1
<1>4. \A name : Says(info \o out, name) <=> name = "status" \/ Says(out, name)
  BY <1>1, SaysFacts
<1> QED
  BY <1>2, <1>3, <1>4, SendNextSays

\* A slot takes the first signal and leaves the link as it is.
LEMMA SlotSays ==
  ASSUME TypeOK, Slot
  PROVE  /\ UNCHANGED <<ready, opening>>
         /\ \A name : name # "status" => (Says(signals', name) <=> Says(Rest, name))
<1>1. Rest \in Seq(Signals)
  BY RestFacts DEF Slot
<1>2. CASE OnConnected
  BY <1>1, <1>2, ProbeSays DEF OnConnected
<1>3. CASE Nothing(Rest) \/ ApplyPolling(Rest) \/ StopThenApply(Rest)
  BY <1>3, CallSays
<1> QED
  BY <1>2, <1>3
     DEF Slot, OnDisconnected, OnErrorOccurred, OnStatus, OnSupportedPidsReady,
         OnPidUnsupported, OnPid, OnDtcsReady, OnRawResponse

\* Of what the user does only the connection button changes the link.
LEMMA UserSays ==
  ASSUME User \/ FireRebuild, ~ToggleConnect
  PROVE  /\ UNCHANGED <<ready, opening, connected, userDisconnect, supportRemaining>>
         /\ \A name : name # "status" => ~Says(signals', name)
<1>1. \A name : ~Says(<<>>, name)
  BY SaysFacts
<1>2. ASSUME Nothing(<<>>) \/ ApplyPolling(<<>>) \/ StopThenApply(<<>>)
      PROVE  /\ UNCHANGED <<ready, opening, supportRemaining>>
             /\ \A name : name # "status" => ~Says(signals', name)
  BY <1>1, <1>2, CallSays
<1>3. ASSUME NEW cmds, Submit(cmds, <<>>), UNCHANGED probeVars
      PROVE  /\ UNCHANGED <<ready, opening, supportRemaining>>
             /\ \A name : name # "status" => ~Says(signals', name)
  <2>1. \A name : name # "status" => (Says(signals', name) <=> Says(<<>>, name))
    BY <1>3, SendNextSays, SeqFacts DEF Submit
  <2> QED
    BY <1>1, <1>3, <2>1 DEF Submit, sessionVars, probeVars
<1>4. CASE UserReadDtcs \/ UserClearDtcs \/ UserSendRawCommand
  <2>1. (\E cmds : Submit(cmds, <<>>)) /\ UNCHANGED probeVars
    BY <1>4 DEF UserReadDtcs, UserClearDtcs, UserSendRawCommand, SendRawCommand
  <2>2. UNCHANGED <<connected, userDisconnect>>
    BY <1>4 DEF UserReadDtcs, UserClearDtcs, UserSendRawCommand, linkedVars
  <2> QED
    BY <1>3, <2>1, <2>2
<1>5. CASE StartSession \/ StopSession \/ LoadTuneFile \/ FireRebuild
             \/ \E page \in 0..2 : SetUiPage(page)
  BY <1>2, <1>5
     DEF StartSession, StopSession, LoadTuneFile, FireRebuild, SetUiPage, linkedVars
<1> QED
  BY <1>4, <1>5 DEF User

LEMMA ToggleSays ==
  ASSUME ToggleConnect
  PROVE  /\ ready' = FALSE /\ ~Says(signals', "connected") /\ Unpolled'
         /\ Says(signals', "disconnected") <=> ready
         /\ \/ connected /\ opening' = FALSE /\ ~Says(signals', "errorOccurred")
            \/ ~connected /\ UNCHANGED userDisconnect
<1>0. /\ Lost \in Seq(Signals) /\ (Says(Lost, "disconnected") <=> ready)
      /\ \A name : name # "disconnected" => ~Says(Lost, name)
  BY LostSays
<1>1. CASE connected /\ DisconnectPort(<<>>)
  <2>1. signals' = Lost /\ ready' = FALSE /\ opening' = FALSE /\ Unpolled'
    <3>1. Lost \o <<>> = Lost
      BY <1>0
    <3> QED
      BY <1>1, <3>1, DownUnpolled DEF DisconnectPort, Down, LinkDown
  <2> QED
    BY <1>0, <1>1, <2>1
<1>2. CASE /\ ~connected /\ UNCHANGED userDisconnect
           /\ \/ \E p \in Ports \cap {"tty", "acm"} : ConnectPort(p, TRUE)
              \/ ConnectBluetooth
  <2>1. /\ ready' = FALSE /\ Unpolled'
        /\ signals' = Append(Lost, Info) \/ signals' = Append(Lost, ErrorOccurred)
    BY <1>2, DownUnpolled DEF ConnectPort, ConnectBluetooth, Down, LinkDown, Info
  <2>2. \A name : /\ Says(Append(Lost, Info), name) <=> Says(Lost, name) \/ name = "status"
                  /\ Says(Append(Lost, ErrorOccurred), name) <=>
                       Says(Lost, name) \/ name = "errorOccurred"
    BY <1>0, SaysFacts, SignalFacts
  <2> QED
    BY <1>0, <1>2, <2>1, <2>2
<1> QED
  BY <1>1, <1>2 DEF ToggleConnect

\* The user and the driver act once the slots have run.
LEMMA ActorsQuiet == ASSUME User \/ FireRebuild \/ Driver PROVE Quiet
BY DEF User, ToggleConnect, StartSession, StopSession, LoadTuneFile, SetUiPage,
  UserReadDtcs, UserClearDtcs, UserSendRawCommand, FireRebuild, Driver, React, OnPollTick,
  OnAnswer, OnBanner, OnCanData, OnTimeout, OnBtConnected, OnBtError, OnBtConnectTimeout,
  FireLambda, FireStart, FireSettle, FireAtz, FireRetry, Due

LEMMA LinkedKept == Driven /\ Linked /\ [DriveNext]_allVars => Linked'
<1> SUFFICES ASSUME Driven, Linked, [DriveNext]_allVars PROVE Linked'
  OBVIOUS
<1>0. ready \in BOOLEAN /\ connected \in BOOLEAN
  BY DEF Driven, TypeOK, SessionOK, Linked
<1>1. CASE Slot
  <2>1. /\ UNCHANGED ready
        /\ \A name : name # "status" => (Says(signals', name) <=> Says(Rest, name))
        /\ \A name : Says(signals, name) <=> Head(signals).name = name \/ Says(Rest, name)
    BY <1>1, SlotSays, RestFacts DEF Driven, Slot
  <2>2. CASE Head(signals).name = "connected" /\ OnConnected
    BY <2>1, <2>2 DEF OnConnected, Linked, sessionState
  <2>3. CASE Head(signals).name = "disconnected" /\ OnDisconnected
    BY <2>1, <2>3 DEF OnDisconnected, Linked
  <2>4. CASE Head(signals).name = "errorOccurred" /\ OnErrorOccurred
    BY <2>1, <2>4 DEF OnErrorOccurred, Linked
  <2>5. CASE /\ Head(signals).name \notin {"connected", "disconnected", "errorOccurred"}
             /\ UNCHANGED <<connected, userDisconnect, sessionOn>>
    BY <2>1, <2>5 DEF Linked
  <2> QED
    BY <1>1, <2>2, <2>3, <2>4, <2>5
       DEF Slot, OnStatus, OnSupportedPidsReady, OnPidUnsupported, OnPid, OnDtcsReady,
           OnRawResponse, linkedVars, sessionState, driveVars
<1>2. CASE (User \/ FireRebuild \/ Driver)
  <2>1. connected = ready /\ ~userDisconnect /\ (sessionOn => connected)
    BY <1>2, ActorsQuiet, QuietFacts DEF Driven
  <2>2. CASE ToggleConnect
    <3>1. UNCHANGED <<connected, sessionOn>>
      BY <2>2 DEF ToggleConnect, sessionState
    <3>2. ready' = FALSE /\ ~Says(signals', "connected")
      BY <2>2, ToggleSays
    <3>3. connected => Says(signals', "disconnected")
      BY <2>1, <2>2, ToggleSays
    <3>4. ~connected => ~userDisconnect'
      BY <2>1, <2>2, ToggleSays
    <3> QED
      BY <1>0, <2>1, <3>1, <3>2, <3>3, <3>4 DEF Linked
  <2>3. CASE (User \/ FireRebuild) /\ ~ToggleConnect
    <3>1. sessionOn' => sessionOn \/ connected
      BY <2>3 DEF User, StartSession, StopSession, LoadTuneFile, SetUiPage,
        UserReadDtcs, UserClearDtcs, UserSendRawCommand, FireRebuild, sessionState
    <3> QED
      BY <2>1, <2>3, <3>1, UserSays DEF Linked
  <2>4. CASE Driver
    <3>1. UNCHANGED <<connected, userDisconnect, sessionOn>>
      BY <2>4 DEF Driver, linkedVars, sessionState
    <3>2. Stays \/ Ready \/ Gone
      BY <2>4, ReactOutcome DEF Driver, Driven
    <3> QED
      BY <1>0, <2>1, <3>1, <3>2 DEF Linked, Stays, Silent, Ready, Gone
  <2> QED
    BY <1>2, <2>2, <2>3, <2>4
<1>3. CASE UNCHANGED allVars
  BY <1>3 DEF allVars, vars, driveVars, linkedVars, sessionVars, sessionState, Linked
<1> QED
  BY <1>1, <1>2, <1>3 DEF DriveNext
LEMMA LinkInit == DriveInit => Driven /\ Linked
<1> SUFFICES ASSUME DriveInit PROVE Driven /\ Linked
  OBVIOUS
<1>1. Driven
  BY InitType, InitPhased DEF DriveInit, Driven
<1>2. \A name : ~Says(signals, name)
  BY SaysFacts DEF DriveInit, Init
<1>3. connected = FALSE /\ ready = FALSE /\ userDisconnect = FALSE /\ sessionOn = FALSE
  BY DEF DriveInit, Init
<1> QED
  BY <1>1, <1>2, <1>3 DEF Linked

\* Once the slots have run the page, the link and the session agree: what errors,
\* disconnections and connections say one after the other leaves no session without a
\* link, and no disconnection that explains a later one.  As for PhasesCorrect, a Bluetooth
\* dongle does not send prompts unasked.
THEOREM LinkAgreed == ASSUME "bt" \notin Chatty PROVE DriveSpec => []LinkAgrees
<1>1. DriveInit => Driven /\ Linked
  BY LinkInit
<1>2. Driven /\ Linked => LinkAgrees
  BY QuietFacts DEF LinkAgrees, Driven
<1>3. Driven /\ [DriveNext]_allVars => Driven'
  BY DrivenKept
<1> QED
  BY <1>1, <1>2, <1>3, LinkedKept, PTL DEF DriveSpec

-----------------------------------------------------------------------------
(* Losses are explained.                                                   *)

\* A link that was shown as up and went with an error will also be told to be
\* disconnected; until then the reason an unexplained error left waits.
Explained ==
  /\ Says(signals, "errorOccurred") /\ connected => Says(signals, "disconnected")
  /\ lost /\ ~told => Says(signals, "disconnected") /\ reason /\ ~sessionOn

LEMMA ExplainedKept == Driven /\ Linked /\ Explained /\ [DriveNext]_allVars => Explained'
<1> SUFFICES ASSUME Driven, Linked, Explained, [DriveNext]_allVars PROVE Explained'
  OBVIOUS
<1>1. CASE Slot
  <2>1. /\ UNCHANGED ready
        /\ \A name : name # "status" => (Says(signals', name) <=> Says(Rest, name))
        /\ \A name : Says(signals, name) <=> Head(signals).name = name \/ Says(Rest, name)
    BY <1>1, SlotSays, RestFacts DEF Driven, Slot
  <2>2. CASE Head(signals).name = "connected" /\ OnConnected
    <3>1. ~Says(signals', "disconnected") /\ ~Says(signals', "errorOccurred")
      BY <2>1, <2>2 DEF Linked
    <3>2. ~Says(signals, "disconnected") /\ UNCHANGED toldVars
      BY <2>1, <2>2 DEF Linked, OnConnected
    <3> QED
      BY <3>1, <3>2 DEF Explained, toldVars
  <2>3. CASE Head(signals).name = "disconnected" /\ OnDisconnected
    <3> DEFINE summary == sessionOn /\ ticks
               why == ~summary /\ (reason \/ (~userDisconnect /\ sessionOn))
    <3>1. /\ connected' = FALSE /\ lost' = lost
          /\ told' = (told \/ summary \/ (~sessionOn /\ (linkLossNotified => why)))
      BY <2>3 DEF OnDisconnected
    <3>2. lost => told'
      BY <3>1 DEF Explained
    <3> QED
      BY <3>1, <3>2 DEF Explained
  <2>4. CASE Head(signals).name = "errorOccurred" /\ OnErrorOccurred
    <3> DEFINE summary == sessionOn /\ ticks
    <3>1. /\ reason' = ~summary /\ connected' = FALSE /\ sessionOn' = FALSE
          /\ told' = (told \/ summary \/ ~sessionOn)
      BY <2>4 DEF OnErrorOccurred
    <3>2. sessionOn => Says(signals', "disconnected")
      BY <2>1, <2>4 DEF Linked, Explained
    <3> QED
      BY <3>1, <3>2 DEF Explained
  <2>5. CASE /\ Head(signals).name \notin {"connected", "disconnected", "errorOccurred"}
             /\ UNCHANGED <<connected, reason, sessionOn, lost, told>>
    BY <2>1, <2>5 DEF Explained
  <2> QED
    BY <1>1, <2>2, <2>3, <2>4, <2>5
       DEF Slot, OnStatus, OnSupportedPidsReady, OnPidUnsupported, OnPid, OnDtcsReady,
           OnRawResponse, linkedVars, sessionState, toldVars, driveVars
<1>2. CASE (User \/ FireRebuild \/ Driver) /\ Untold
  <2>1. ~lost'
    BY <1>2 DEF Untold
  <2>2. connected = ready
    BY <1>2, ActorsQuiet, QuietFacts DEF Driven
  <2>3. CASE ToggleConnect
    <3>1. UNCHANGED connected
      BY <2>3 DEF ToggleConnect
    <3>2. connected => ~Says(signals', "errorOccurred")
      BY <2>3, ToggleSays
    <3> QED
      BY <2>1, <3>1, <3>2 DEF Explained
  <2>4. CASE (User \/ FireRebuild) /\ ~ToggleConnect
    BY <2>1, <2>4, UserSays DEF Explained
  <2>5. CASE Driver
    <3>1. UNCHANGED connected
      BY <2>5 DEF Driver, linkedVars
    <3>2. Stays \/ Ready \/ Gone
      BY <2>5, ReactOutcome DEF Driver, Driven
    <3> QED
      BY <2>1, <2>2, <3>1, <3>2 DEF Explained, Stays, Silent, Ready, Gone
  <2> QED
    BY <1>2, <2>3, <2>4, <2>5
<1>3. CASE UNCHANGED allVars
  BY <1>3 DEF allVars, vars, driveVars, linkedVars, sessionState, toldVars, Explained
<1> QED
  BY <1>1, <1>2, <1>3 DEF DriveNext

\* Every connection that fails and every link that is lost is explained by one dialog at
\* least, whichever of errorOccurred and disconnected comes first and whether a session
\* runs or not.
THEOREM LossesExplained == ASSUME "bt" \notin Chatty PROVE DriveSpec => []LossExplained
<1>1. DriveInit => Driven /\ Linked /\ Explained
  <2> SUFFICES ASSUME DriveInit PROVE Explained
    BY LinkInit
  <2>1. connected = FALSE /\ lost = FALSE
    BY DEF DriveInit
  <2> QED
    BY <2>1 DEF Explained
<1>2. Explained => LossExplained
  <2>1. Quiet => ~Says(signals, "disconnected")
    BY SaysFacts DEF Quiet
  <2> QED
    BY <2>1 DEF Explained, LossExplained
<1>3. Driven /\ [DriveNext]_allVars => Driven'
  BY DrivenKept
<1> QED
  BY <1>1, <1>2, <1>3, LinkedKept, ExplainedKept, PTL DEF DriveSpec
-----------------------------------------------------------------------------
(* Polling is taken up again, and fits what is looked at.                  *)

\* Without a probe or trouble codes in hand a ready link polls, or a signal that makes the
\* controller poll waits.
Resumed ==
  connected /\ ready /\ ~DtcBusy /\ supportRemaining = 0 =>
    pollOn \/ Says(signals, "supportedPidsReady") \/ Says(signals, "connected")

\* No list waits for a link that opens; the one a ready link polls, or will, fits.
Fitting ==
  /\ opening => ~connected /\ pollPids = <<>>
  /\ ready /\ (pollOn \/ pollPids # <<>>) => Fits(Listed(pollPids), sessionOn, uiPage)

\* What a call leaves polled.
Held == connected' = FALSE \/ DtcBusy'
Applied == pollOn' = (pollOn \/ ready) /\ Fits(Listed(pollPids'), sessionOn', uiPage')

LEMMA CallPolls ==
  ASSUME NEW out
  PROVE  /\ Nothing(out) => UNCHANGED <<pollOn, pollPids>>
         /\ ApplyPolling(out) /\ connected' \in BOOLEAN =>
              \/ Held /\ UNCHANGED <<pollOn, pollPids>>
              \/ ~Held /\ Applied
         /\ StopThenApply(out) /\ connected' \in BOOLEAN =>
              \/ Held /\ Unpolled'
              \/ ~Held /\ Applied
<1>1. StartPolling(SetToSeq(WantedPids'), out) => Applied
  BY PolledFits DEF StartPolling, Applied
<1> QED
  BY <1>1 DEF Nothing, ApplyPolling, StopThenApply, StopPolling, StopPollingThen, Unpolled,
              Held, pollVars

LEMMA ResumedKept ==
  Driven /\ Linked /\ Awaited /\ Resumed /\ [DriveNext]_allVars => Resumed'
<1> SUFFICES ASSUME Driven, Linked, Awaited, Resumed, [DriveNext]_allVars PROVE Resumed'
  OBVIOUS
<1>0. Linked' /\ connected' \in BOOLEAN /\ ready \in BOOLEAN /\ pollOn \in BOOLEAN
  BY LinkedKept DEF Linked, Driven, TypeOK, SessionOK, PollOK
<1>1. ASSUME UNCHANGED ready, Held \/ Applied PROVE Resumed'
  BY <1>1 DEF Resumed, Held, Applied
<1>2. CASE Slot
  <2>1. /\ UNCHANGED ready
        /\ \A name : name # "status" => (Says(signals', name) <=> Says(Rest, name))
        /\ \A name : Says(signals, name) <=> Head(signals).name = name \/ Says(Rest, name)
    BY <1>2, SlotSays, RestFacts DEF Driven, Slot
  <2>2. CASE Head(signals).name = "connected" /\ OnConnected
    <3>1. supportRemaining' = 4
      BY <2>2, ProbeSays, RestFacts, <1>2 DEF OnConnected, Driven, Slot
    <3> QED
      BY <3>1 DEF Resumed
  <2>3. CASE OnDisconnected \/ OnErrorOccurred
    BY <2>3 DEF OnDisconnected, OnErrorOccurred, Resumed
  <2>4. ASSUME ApplyPolling(Rest) PROVE Resumed'
    BY <1>0, <1>1, <2>1, <2>4, CallPolls
  <2>5. ASSUME Head(signals).name \notin {"connected", "supportedPidsReady"}, Nothing(Rest),
               UNCHANGED connected, DtcBusy' \/ UNCHANGED <<dtcAwaiting, dtcClearPending>>
        PROVE  Resumed'
    <3>1. UNCHANGED <<pollOn, supportRemaining>>
      BY <2>5 DEF Nothing, pollVars, probeVars
    <3> QED
      BY <2>1, <2>5, <3>1 DEF Resumed, DtcBusy
  <2>6. CASE Head(signals).name = "status" /\ OnStatus
    <3>1. CASE dtcClearPending
      BY <2>4, <2>6, <3>1 DEF OnStatus
    <3>2. CASE ~dtcClearPending
      <4>1. Nothing(Rest) /\ UNCHANGED <<connected, dtcAwaiting>> /\ ~dtcClearPending'
        BY <2>6, <3>2 DEF OnStatus, linkedVars
      <4>2. UNCHANGED <<pollOn, supportRemaining>>
        BY <4>1 DEF Nothing, pollVars, probeVars
      <4> QED
        BY <2>1, <2>6, <3>2, <4>1, <4>2 DEF Resumed, DtcBusy
    <3> QED
      BY <3>1, <3>2
  <2>7. CASE OnSupportedPidsReady
    BY <2>4, <2>7 DEF OnSupportedPidsReady
  <2>8. CASE Head(signals).name = "dtcsReady" /\ OnDtcsReady
    <3>1. CASE dtcAwaiting' = 0
      BY <2>4, <2>8, <3>1 DEF OnDtcsReady
    <3>2. CASE dtcAwaiting' # 0
      <4>1. dtcAwaiting' > 0
        BY <2>8, <3>2, AwaitedKept DEF Awaited
      <4>2. Nothing(Rest) /\ UNCHANGED connected
        BY <2>8, <3>2 DEF OnDtcsReady, linkedVars
      <4> QED
        BY <2>5, <2>8, <4>1, <4>2 DEF DtcBusy
    <3> QED
      BY <3>1, <3>2
  <2>9. CASE /\ Head(signals).name \in {"pidUnsupported", "pidResult", "rawResponse"}
             /\ OnPidUnsupported \/ OnPid \/ OnRawResponse
    <3>1. Nothing(Rest) /\ UNCHANGED <<connected, dtcAwaiting, dtcClearPending>>
      BY <2>9 DEF OnPidUnsupported, OnPid, OnRawResponse, linkedVars, dtcVars, driveVars
    <3> QED
      BY <2>5, <2>9, <3>1
  <2> QED
    BY <1>2, <2>2, <2>3, <2>6, <2>7, <2>8, <2>9 DEF Slot
<1>3. CASE User \/ FireRebuild \/ Driver
  <2>1. /\ Quiet /\ connected = ready
        /\ connected /\ ~DtcBusy /\ supportRemaining = 0 => pollOn
    <3>1. Quiet /\ connected = ready
      BY <1>3, ActorsQuiet, QuietFacts DEF Driven
    <3>2. ~Says(signals, "supportedPidsReady") /\ ~Says(signals, "connected")
      BY <3>1, SaysFacts DEF Quiet
    <3> QED
      BY <3>1, <3>2 DEF Resumed
  <2>2. CASE ToggleConnect
    BY <2>2, ToggleSays DEF Resumed
  <2>3. CASE StartSession \/ StopSession \/ FireRebuild \/ \E page \in 0..2 : SetUiPage(page)
    <3>1. ApplyPolling(<<>>) \/ StopThenApply(<<>>)
      BY <2>3 DEF StartSession, StopSession, FireRebuild, SetUiPage
    <3>2. UNCHANGED <<ready, connected, dtcAwaiting, dtcClearPending, supportRemaining>>
      BY <2>3, <3>1, CallSays
         DEF StartSession, StopSession, FireRebuild, SetUiPage, linkedVars, dtcVars
    <3> QED
      BY <1>0, <1>1, <3>1, <3>2, CallPolls
  <2>4. CASE LoadTuneFile \/ UserSendRawCommand
    <3>1. /\ UNCHANGED <<connected, dtcAwaiting, dtcClearPending, pollOn>>
          /\ UNCHANGED <<ready, supportRemaining>>
      BY <2>4 DEF LoadTuneFile, UserSendRawCommand, Nothing, SendRawCommand, Submit,
                  linkedVars, dtcVars, sessionVars, pollVars, probeVars
    <3> QED
      BY <2>1, <3>1 DEF Resumed, DtcBusy
  <2>5. CASE UserReadDtcs \/ UserClearDtcs
    <3>1. dtcAwaiting' = 2 \/ dtcClearPending' = TRUE
      BY <2>5 DEF UserReadDtcs, UserClearDtcs
    <3> QED
      BY <3>1 DEF Resumed, DtcBusy
  <2>6. CASE Driver
    <3>1. UNCHANGED <<connected, dtcAwaiting, dtcClearPending>>
      BY <2>6 DEF Driver, linkedVars, dtcVars
    <3>2. Stays \/ Ready \/ Gone
      BY <2>6, ReactOutcome DEF Driver, Driven
    <3> QED
      BY <2>1, <3>1, <3>2 DEF Resumed, DtcBusy, Stays, Ready, Gone
  <2> QED
    BY <1>3, <2>2, <2>3, <2>4, <2>5, <2>6 DEF User
<1>4. CASE UNCHANGED allVars
  BY <1>4 DEF allVars, vars, driveVars, linkedVars, dtcVars, sessionVars, pollVars, probeVars,
              Resumed, DtcBusy
<1> QED
  BY <1>2, <1>3, <1>4 DEF DriveNext

\* However probes, readings of the trouble codes, sessions, pages and losses follow each
\* other, a connected ECU Drive with nothing else to do polls.
THEOREM PollingIsResumed == ASSUME "bt" \notin Chatty PROVE DriveSpec => []PollingResumes
<1>1. DriveInit => Driven /\ Linked /\ Awaited /\ Resumed
  <2> SUFFICES ASSUME DriveInit PROVE Awaited /\ Resumed
    BY LinkInit
  <2>1. connected = FALSE /\ dtcAwaiting = 0
    BY DEF DriveInit
  <2> QED
    BY <2>1 DEF Awaited, Resumed
<1>2. Driven /\ Linked /\ Resumed => PollingResumes
  <2>1. Quiet => ~Says(signals, "supportedPidsReady") /\ ~Says(signals, "connected")
    BY SaysFacts DEF Quiet
  <2> QED
    BY <2>1, QuietFacts DEF Resumed, PollingResumes, Driven
<1>3. Driven /\ [DriveNext]_allVars => Driven'
  BY DrivenKept
<1> QED
  BY <1>1, <1>2, <1>3, LinkedKept, AwaitedKept, ResumedKept, PTL DEF DriveSpec
LEMMA FittingKept ==
  Driven /\ Linked /\ Awaited /\ NoPollList /\ Fitting /\ [DriveNext]_allVars => Fitting'
<1> SUFFICES ASSUME Driven, Linked, Awaited, NoPollList, Fitting, [DriveNext]_allVars
             PROVE  Fitting'
  OBVIOUS
<1>0. /\ Linked' /\ NoPollList' /\ connected' \in BOOLEAN /\ ready \in BOOLEAN
      /\ pollOn \in BOOLEAN /\ (ready => ~opening) /\ (pollOn => ready)
  BY LinkedKept, NoPollListKept
     DEF Linked, Driven, TypeOK, SessionOK, PollOK, Phased, PhasesAgree
<1>1. ASSUME Unpolled', opening' => ~connected' PROVE Fitting'
  BY <1>1 DEF Unpolled, Fitting
\* A call on a link that stays as it is.
<1>2. ASSUME UNCHANGED <<ready, opening>>, opening => ~connected',
             (Held /\ UNCHANGED <<pollOn, pollPids>>) \/ Unpolled' \/ (~Held /\ Applied),
             UNCHANGED <<sessionOn, uiPage>> \/ Unpolled' \/ ~Held \/ ~ready
      PROVE  Fitting'
  <2>1. CASE Unpolled'
    BY <1>1, <1>2, <2>1
  <2>2. CASE ~Held /\ Applied
    BY <1>2, <2>2 DEF Held, Applied, Fitting
  <2>3. CASE Held /\ UNCHANGED <<pollOn, pollPids>>
    <3>1. Listed(pollPids') = Listed(pollPids)
      BY <2>3
    <3> QED
      BY <1>0, <1>2, <2>1, <2>2, <2>3, <3>1 DEF Fitting
  <2> QED
    BY <1>2, <2>1, <2>2, <2>3
<1>3. CASE Slot
  <2>1. UNCHANGED <<ready, opening>>
    BY <1>3, SlotSays DEF Driven
  <2>2. CASE OnConnected
    <3>1. ready /\ Unpolled'
      BY <1>3, <2>2, ProbeSays, RestFacts DEF OnConnected, Driven, Slot
    <3> QED
      BY <1>0, <1>1, <2>1, <3>1
  <2>3. CASE \/ Head(signals).name = "disconnected" /\ OnDisconnected
             \/ Head(signals).name = "errorOccurred" /\ OnErrorOccurred
    <3>1. connected' = FALSE
      BY <2>3 DEF OnDisconnected, OnErrorOccurred
    <3>2. ~ready
      BY <1>3, <2>3, RestFacts DEF Linked, Slot, Driven
    <3>3. Nothing(Rest) \/ StopThenApply(Rest)
      BY <2>3 DEF OnDisconnected, OnErrorOccurred
    <3>4. Held
      BY <3>1 DEF Held
    <3>5. UNCHANGED <<pollOn, pollPids>> \/ Unpolled'
      BY <1>0, <3>3, <3>4, CallPolls
    <3> QED
      BY <1>2, <2>1, <3>1, <3>2, <3>4, <3>5
  <2>4. CASE OnStatus \/ OnSupportedPidsReady \/ OnPidUnsupported \/ OnPid \/ OnDtcsReady
               \/ OnRawResponse
    <3>1. UNCHANGED <<connected, sessionOn, uiPage>>
      BY <2>4 DEF OnStatus, OnSupportedPidsReady, OnPidUnsupported, OnPid, OnDtcsReady,
                  OnRawResponse, linkedVars, sessionState, driveVars
    <3>2. opening => ~connected'
      BY <3>1 DEF Fitting
    <3>3. CASE ApplyPolling(Rest)
      <4>1. (Held /\ UNCHANGED <<pollOn, pollPids>>) \/ (~Held /\ Applied)
        BY <1>0, <3>3, CallPolls
      <4> QED
        BY <1>2, <2>1, <3>1, <3>2, <4>1
    <3>4. CASE Nothing(Rest)
      <4>1. UNCHANGED <<pollOn, pollPids>>
        BY <3>4, CallPolls
      <4>2. Listed(pollPids') = Listed(pollPids)
        BY <4>1
      <4> QED
        BY <2>1, <3>1, <4>1, <4>2 DEF Fitting
    <3> QED
      BY <2>4, <3>3, <3>4 DEF OnStatus, OnSupportedPidsReady, OnPidUnsupported, OnPid,
                              OnDtcsReady, OnRawResponse
  <2> QED
    BY <1>3, <2>2, <2>3, <2>4 DEF Slot
<1>4. CASE User \/ FireRebuild \/ Driver
  <2>1. Quiet /\ connected = ready /\ (sessionOn => connected)
    BY <1>4, ActorsQuiet, QuietFacts DEF Driven
  <2>2. CASE ToggleConnect
    <3>1. UNCHANGED connected
      BY <2>2 DEF ToggleConnect
    <3> QED
      BY <1>1, <2>2, <3>1, ToggleSays
  <2>3. CASE StartSession \/ StopSession \/ FireRebuild \/ \E page \in 0..2 : SetUiPage(page)
    <3>1. UNCHANGED <<connected, dtcAwaiting, dtcClearPending>>
      BY <2>3 DEF StartSession, StopSession, FireRebuild, SetUiPage, linkedVars, dtcVars
    <3>2. ApplyPolling(<<>>) \/ StopThenApply(<<>>)
      BY <2>3 DEF StartSession, StopSession, FireRebuild, SetUiPage
    <3>3. UNCHANGED <<ready, opening>>
      BY <3>2, CallSays
    <3>4. Held => Unpolled' \/ ~ready
      BY <1>0, <2>1, <3>1 DEF Held, NoPollList
    <3>5. opening => ~connected'
      BY <3>1 DEF Fitting
    <3>6. (Held /\ UNCHANGED <<pollOn, pollPids>>) \/ Unpolled' \/ (~Held /\ Applied)
      BY <1>0, <3>2, CallPolls
    <3> QED
      BY <1>2, <3>3, <3>4, <3>5, <3>6
  <2>4. CASE LoadTuneFile \/ UserSendRawCommand
    <3>1. UNCHANGED <<connected, sessionOn, uiPage, pollOn, pollPids, ready, opening>>
      BY <2>4 DEF LoadTuneFile, UserSendRawCommand, Nothing, SendRawCommand, Submit,
                  linkedVars, sessionState, sessionVars, pollVars
    <3> QED
      BY <3>1 DEF Fitting
  <2>5. CASE UserReadDtcs \/ UserClearDtcs
    <3>1. UNCHANGED <<connected, ready, opening>> /\ Unpolled'
      BY <2>5 DEF UserReadDtcs, UserClearDtcs, StopPollingThen, Unpolled, Submit, linkedVars,
                  sessionVars
    <3> QED
      BY <1>1, <3>1 DEF Fitting
  <2>6. CASE Driver
    <3>1. UNCHANGED <<connected, sessionOn, uiPage>>
      BY <2>6 DEF Driver, linkedVars, sessionState
    <3>2. CASE Stays
      BY <3>1, <3>2 DEF Stays, Fitting
    <3>3. CASE Ready
      <4>1. opening => pollPids = <<>> /\ ~pollOn
        BY <1>0 DEF Fitting
      <4> QED
        BY <3>1, <3>3, <4>1 DEF Ready, Fitting
    <3>4. CASE Gone
      BY <1>1, <3>4 DEF Gone
    <3> QED
      BY <2>6, <3>2, <3>3, <3>4, ReactOutcome DEF Driver, Driven
  <2> QED
    BY <1>4, <2>2, <2>3, <2>4, <2>5, <2>6 DEF User
<1>5. CASE UNCHANGED allVars
  BY <1>5 DEF allVars, vars, driveVars, linkedVars, sessionState, sessionVars, pollVars, Fitting
<1> QED
  BY <1>3, <1>4, <1>5 DEF DriveNext

\* What is polled always fits the page and the session: a list chosen for an earlier page,
\* session or link never survives into one it does not suit.
THEOREM PollingFitting == ASSUME "bt" \notin Chatty PROVE DriveSpec => []PollingFits
<1>1. DriveInit => Driven /\ Linked /\ Awaited /\ NoPollList /\ Fitting
  <2> SUFFICES ASSUME DriveInit PROVE Awaited /\ NoPollList /\ Fitting
    BY LinkInit
  <2>1. dtcAwaiting = 0 /\ dtcClearPending = FALSE /\ opening = FALSE /\ ready = FALSE
    BY DEF DriveInit, Init
  <2> QED
    BY <2>1 DEF Awaited, NoPollList, DtcBusy, Fitting
<1>2. Driven /\ Fitting => PollingFits
  <2>1. Driven /\ pollOn => ready
    BY DEF Driven, Phased, PhasesAgree
  <2> QED
    BY <2>1 DEF Fitting, PollingFits, Fits, Listed
<1>3. Driven /\ [DriveNext]_allVars => Driven'
  BY DrivenKept
<1> QED
  BY <1>1, <1>2, <1>3, LinkedKept, AwaitedKept, NoPollListKept, FittingKept, PTL DEF DriveSpec
=============================================================================
