--------------------------- MODULE SecurityProofs ---------------------------
(***************************************************************************)
(* Security access over the driver: a success that is reported was earned. *)
(*                                                                         *)
(* The listeners hear every answer to a raw command, so the proof follows  *)
(* the raw commands: which are queued, which is in flight, which answers   *)
(* were emitted and not heard yet.  While the first listener waits there   *)
(* is one of them in all, the request for a seed; while the second waits   *)
(* all of them are the key.                                                *)
(***************************************************************************)
EXTENDS Elm327Security, ElmLinkProofs

-----------------------------------------------------------------------------
(* Raw commands and their answers.                                         *)

RawAt(q) == {i \in 1..Len(q) : q[i].kind = "Raw"}
Reports(s) == {i \in 1..Len(s) : s[i].name = "rawResponse"}

\* Of the raw commands in the queue q and, if b, in flight as c: all have that text; there
\* is one at most; there is none.
Only(q, b, c, text) ==
  /\ \A i \in RawAt(q) : q[i].arg = text
  /\ b /\ c.kind = "Raw" => c.arg = text
Lone(q, b, c) ==
  /\ \A i, j \in RawAt(q) : i = j
  /\ b /\ c.kind = "Raw" => RawAt(q) = {}
Free(q, b, c) == RawAt(q) = {} /\ ~(b /\ c.kind = "Raw")

\* The same with the answers nobody has heard yet.
OneFrame(text) ==
  /\ Only(queue, busy, current, text)
  /\ \A i \in Reports(signals) : signals[i].arg = text
Alone ==
  /\ Lone(queue, busy, current)
  /\ \A i, j \in Reports(signals) : i = j
  /\ Reports(signals) # {} => Free(queue, busy, current)

\* A positive answer is to the command that was reported as answered.
Truthful(s) == \A i \in Reports(s) : s[i].answer.ok => s[i].answer.to = Cmd("Raw", s[i].arg)

\* m_timeout runs for a command in flight only.
Timed == timeoutOn => busy

\* A driver on a serial port or a device whose dongle answers in time or never.
Sure == InTime /\ Prompted

Base == TypeOK /\ Phased /\ Matched /\ Straight /\ Len(signals) <= 3 /\ Timed

\* What a step of a ready driver does to a client that waits.
Calm ==
  /\ ready' = TRUE /\ ~Says(signals', "disconnected")
  /\ \A text : OneFrame(text) => OneFrame(text)'
  /\ Alone => Alone'

-----------------------------------------------------------------------------
(* The pipeline.                                                           *)

LEMMA SendNextFrames ==
  ASSUME NEW q \in Seq(Plain), NEW b \in BOOLEAN, NEW t, t => b, NEW w, NEW out,
         SendNext(q, b, FALSE, t, w, out)
  PROVE  /\ Timed' /\ signals' = out
         /\ \A text : Only(q, b, current, text) => Only(queue', busy', current', text)
         /\ Lone(q, b, current) => Lone(queue', busy', current')
         /\ Free(q, b, current) => Free(queue', busy', current')
<1>1. CASE UNCHANGED current /\ queue' = q /\ busy' = b /\ timeoutOn' = t /\ signals' = out
  BY <1>1 DEF Timed
<1>2. CASE ~b /\ q # <<>>
  <2>1. /\ Head(q) = q[1] /\ 1 \in 1..Len(q) /\ Head(q).kind # "CanStart" /\ Len(q) \in Nat
        /\ Tail(q) \in Seq(Plain) /\ Len(Tail(q)) = Len(q) - 1
        /\ \A i \in 1..Len(Tail(q)) : Tail(q)[i] = q[i + 1] /\ i + 1 \in 1..Len(q)
    BY <1>2 DEF Plain
  <2>2. /\ current' = Head(q) /\ queue' = Tail(q) /\ busy' = TRUE /\ timeoutOn' = TRUE
        /\ signals' = out
    BY <1>2, <2>1 DEF SendNext
  <2>3. \A i \in RawAt(queue') : i \in Nat /\ i + 1 \in RawAt(q) /\ queue'[i] = q[i + 1]
    BY <2>1, <2>2 DEF RawAt
  <2>4. current'.kind = "Raw" => 1 \in RawAt(q)
    BY <2>1, <2>2 DEF RawAt
  <2>5. ASSUME NEW text, Only(q, b, current, text) PROVE Only(queue', busy', current', text)
    <3>1. \A i \in RawAt(queue') : queue'[i].arg = text
      BY <2>3, <2>5 DEF Only
    <3>2. current'.kind = "Raw" => current'.arg = text
      BY <2>1, <2>2, <2>4, <2>5 DEF Only
    <3> QED
      BY <3>1, <3>2 DEF Only
  <2>6. ASSUME Lone(q, b, current) PROVE Lone(queue', busy', current')
    <3>1. \A i, j \in RawAt(queue') : i = j
      <4> SUFFICES ASSUME NEW i \in RawAt(queue'), NEW j \in RawAt(queue') PROVE i = j
        OBVIOUS
      <4>1. i + 1 = j + 1 /\ i \in Nat /\ j \in Nat
        BY <2>3, <2>6 DEF Lone
      <4> QED
        BY <4>1
    <3>2. ASSUME current'.kind = "Raw", NEW i \in RawAt(queue') PROVE FALSE
      <4>1. i + 1 = 1 /\ i \in Nat /\ i \in 1..Len(queue')
        BY <2>3, <2>4, <2>6, <3>2 DEF Lone, RawAt
      <4> QED
        BY <4>1
    <3> QED
      BY <3>1, <3>2 DEF Lone
  <2>7. ASSUME Free(q, b, current) PROVE Free(queue', busy', current')
    BY <2>3, <2>4, <2>7 DEF Free
  <2> QED
    BY <2>2, <2>5, <2>6, <2>7 DEF Timed
<1> QED
  BY <1>1, <1>2 DEF SendNext

\* A command that is not raw is queued.
LEMMA OthersQueued ==
  ASSUME NEW q \in Seq(Cmds), NEW b, NEW c, NEW x \in Cmds, x.kind # "Raw"
  PROVE  /\ \A text : Only(q, b, c, text) => Only(q \o <<x>>, b, c, text)
         /\ Lone(q, b, c) => Lone(q \o <<x>>, b, c)
         /\ Free(q, b, c) => Free(q \o <<x>>, b, c)
<1>1. /\ \A i \in 1..Len(q) : (q \o <<x>>)[i] = q[i]
      /\ (q \o <<x>>)[Len(q) + 1] = x /\ Len(q \o <<x>>) = Len(q) + 1 /\ Len(q) \in Nat
  OBVIOUS
<1>2. RawAt(q \o <<x>>) = RawAt(q) /\ \A i \in RawAt(q) : (q \o <<x>>)[i] = q[i]
  BY <1>1 DEF RawAt
<1> DEFINE longer == q \o <<x>>
<1> HIDE DEF longer
<1>3. RawAt(longer) = RawAt(q) /\ \A i \in RawAt(q) : longer[i] = q[i]
  BY <1>2 DEF longer
<1>4. /\ \A text : Only(q, b, c, text) => Only(longer, b, c, text)
      /\ Lone(q, b, c) => Lone(longer, b, c)
      /\ Free(q, b, c) => Free(longer, b, c)
  BY <1>3 DEF Only, Lone, Free
<1> QED
  BY <1>4 DEF longer

\* Commands that are not raw are queued.
LEMMA QueriesQueued ==
  ASSUME NEW q \in Seq(Cmds), NEW b, NEW c, NEW cmds \in Seq(Cmds),
         \A i \in 1..Len(cmds) : cmds[i].kind # "Raw"
  PROVE  /\ \A text : Only(q, b, c, text) => Only(q \o cmds, b, c, text)
         /\ Lone(q, b, c) => Lone(q \o cmds, b, c)
<1> DEFINE longer == q \o cmds
<1>1. /\ \A i \in 1..Len(q) : longer[i] = q[i]
      /\ \A i \in 1..Len(cmds) : longer[Len(q) + i] = cmds[i]
      /\ Len(longer) = Len(q) + Len(cmds) /\ Len(q) \in Nat /\ Len(cmds) \in Nat
  OBVIOUS
<1> HIDE DEF longer
<1>2. ASSUME NEW i \in 1..Len(longer), i \notin 1..Len(q) PROVE longer[i].kind # "Raw"
  <2>1. i - Len(q) \in 1..Len(cmds) /\ i = Len(q) + (i - Len(q))
    BY <1>1, <1>2
  <2>2. longer[i] = cmds[i - Len(q)]
    BY <1>1, <2>1
  <2> QED
    BY <2>1, <2>2
<1>3. RawAt(longer) = RawAt(q) /\ \A i \in RawAt(q) : longer[i] = q[i]
  BY <1>1, <1>2 DEF RawAt
<1>4. /\ \A text : Only(q, b, c, text) => Only(longer, b, c, text)
      /\ Lone(q, b, c) => Lone(longer, b, c)
  BY <1>3 DEF Only, Lone
<1> QED
  BY <1>4 DEF longer

\* Frames of one text are queued where no raw command was.
LEMMA FramesQueued ==
  ASSUME NEW q \in Seq(Cmds), NEW b, NEW c, Free(q, b, c), NEW text,
         NEW cmds \in Seq(Cmds), \A i \in 1..Len(cmds) : cmds[i].arg = text
  PROVE  /\ Only(q \o cmds, b, c, text)
         /\ Len(cmds) = 1 => Lone(q \o cmds, b, c)
<1> DEFINE longer == q \o cmds
<1>1. /\ \A i \in 1..Len(q) : longer[i] = q[i]
      /\ \A i \in 1..Len(cmds) : longer[Len(q) + i] = cmds[i]
      /\ Len(longer) = Len(q) + Len(cmds) /\ Len(q) \in Nat /\ Len(cmds) \in Nat
  OBVIOUS
<1> HIDE DEF longer
<1>2. ASSUME NEW i \in RawAt(longer) PROVE i > Len(q) /\ i - Len(q) \in 1..Len(cmds)
  <2>1. i \in 1..Len(longer) /\ longer[i].kind = "Raw"
    BY <1>2 DEF RawAt
  <2>2. CASE i <= Len(q)
    <3>1. i \in RawAt(q)
      BY <1>1, <2>1, <2>2 DEF RawAt
    <3> QED
      BY <3>1 DEF Free
  <2> QED
    BY <1>1, <2>1, <2>2
<1>3. ASSUME NEW i \in RawAt(longer) PROVE longer[i].arg = text
  <2>1. i - Len(q) \in 1..Len(cmds) /\ i = Len(q) + (i - Len(q))
    BY <1>1, <1>2 DEF RawAt
  <2>2. longer[i] = cmds[i - Len(q)]
    BY <1>1, <2>1
  <2> QED
    BY <2>1, <2>2
<1>4. Only(longer, b, c, text)
  BY <1>3 DEF Only, Free
<1>5. ASSUME Len(cmds) = 1 PROVE Lone(longer, b, c)
  <2>1. ASSUME NEW i \in RawAt(longer) PROVE i = Len(q) + 1
    BY <1>1, <1>2, <1>5 DEF RawAt
  <2> QED
    BY <2>1 DEF Lone, Free
<1> QED
  BY <1>4, <1>5 DEF longer

-----------------------------------------------------------------------------
(* What is emitted.                                                        *)

Mute(s) == ~Says(s, "rawResponse")

LEMMA MuteFacts ==
  /\ \A s : Mute(s) => Truthful(s) /\ Reports(s) = {}
  /\ Mute(<<>>) /\ Truthful(<<>>) /\ Reports(<<>>) = {}
<1>1. \A s : Mute(s) <=> Reports(s) = {}
  BY DEF Mute, Says, Reports
<1>2. Mute(<<>>)
  BY SaysFacts DEF Mute
<1> QED
  BY <1>1, <1>2 DEF Truthful

\* The signals handlers are made of, none of which is an answer.
LEMMA PlainSignals ==
  /\ \A name \in {"connected", "disconnected", "errorOccurred", "supportedPidsReady"} :
       Sig(name, "") \in Signals /\ Sig(name, "").name = name
  /\ \A text \in StatusTexts : Status(text) \in Signals /\ Status(text).name = "status"
<1>1. "" \in Texts
  BY DEF Texts
<1>2. {"connected", "disconnected", "errorOccurred", "supportedPidsReady"} \subseteq SignalNames
  BY DEF SignalNames
<1> QED
  BY <1>1, <1>2, SigType, StatusType DEF Sig, Status

LEMMA LostMute == Lost \in Seq(Signals) /\ Mute(Lost)
<1>1. Mute(<<Sig("disconnected", "")>>)
  BY PlainSignals, SaysFacts DEF Mute
<1>2. Mute(<<>>)
  BY MuteFacts
<1> QED
  BY <1>1, <1>2, LinkSignalsType DEF Lost

LEMMA MuteJoined ==
  /\ \A s, t \in Seq(Signals) : Mute(s) /\ Mute(t) => Mute(s \o t)
  /\ \A s \in Seq(Signals), x \in Signals :
       Mute(s) /\ x.name # "rawResponse" => Mute(Append(s, x)) /\ Mute(<<x>>)
BY SaysFacts DEF Mute

LEMMA FailMute ==
  ASSUME NEW l, NEW out \in {<<>>, <<Status("info")>>}, FailConnect(l, out)
  PROVE  Mute(signals') /\ Timed'
<1>1. ErrorOccurred \in Signals /\ ErrorOccurred.name = "errorOccurred"
  BY PlainSignals DEF ErrorOccurred
<1>2. out \in Seq(Signals) /\ Mute(out)
  BY PlainSignals, MuteFacts, MuteJoined, SeqFacts DEF StatusTexts
<1> DEFINE error == <<ErrorOccurred>>
<1>3. error \in Seq(Signals) /\ Mute(error)
  BY <1>1, SaysFacts, SeqFacts DEF Mute
<1>4. signals' = (out \o error) \o Lost /\ timeoutOn' = FALSE
  BY DEF FailConnect, Down, LinkDown
<1> HIDE DEF error
<1>5. out \o error \in Seq(Signals) /\ Mute(out \o error)
  BY <1>2, <1>3, MuteJoined, SeqFacts
<1> QED
  BY <1>4, <1>5, LostMute, MuteJoined DEF Timed

\* The calls that open or close a link.
LEMMA ConnectingMute ==
  ASSUME Prompted, Connecting \/ (Quiet /\ DisconnectPort(<<>>))
  PROVE  Mute(signals') /\ Timed'
<1>1. timeoutOn' = FALSE
  BY DEF Prompted, Connecting, ConnectPort, AttachDevice, DisconnectPort, Down, LinkDown
<1>2. \/ signals' = Append(Lost, Status("info")) \/ signals' = Append(Lost, ErrorOccurred)
      \/ signals' = Lost \/ signals' = Lost \o <<>>
  BY DEF Prompted, Connecting, ConnectPort, AttachDevice, DisconnectPort
<1>3. /\ Status("info") \in Signals /\ Status("info").name # "rawResponse"
      /\ ErrorOccurred \in Signals /\ ErrorOccurred.name # "rawResponse"
  BY PlainSignals DEF ErrorOccurred, StatusTexts
<1>4. Mute(Append(Lost, Status("info"))) /\ Mute(Append(Lost, ErrorOccurred))
  BY <1>3, LostMute, MuteJoined
<1>5. Lost \o <<>> = Lost
  BY LostMute, Concat
<1> QED
  BY <1>1, <1>2, <1>4, <1>5, LostMute DEF Timed

-----------------------------------------------------------------------------
(* What the driver does by itself.                                         *)

LEMMA BaseFacts ==
  ASSUME Base
  PROVE  /\ queue \in Seq(Plain) /\ queue \in Seq(Cmds) /\ current \in Cmds
         /\ busy \in BOOLEAN /\ ready \in BOOLEAN /\ canMode = FALSE /\ banner = 0
         /\ signals \in Seq(Signals) /\ bt = "none" /\ ~btTransport
         /\ later["settle"].fresh = 0 /\ later["retry"].fresh = 0 /\ later["retry"].stale = 0
         /\ timeoutOn => busy
BY DEF Base, TypeOK, PipeOK, SessionOK, Matched, Straight, Timed

\* A step that leaves the pipeline and the phase alone.
LEMMA KeptCalm ==
  ASSUME Timed, UNCHANGED <<ready, queue, busy, current, timeoutOn>>, signals' = <<>>,
         Quiet
  PROVE  Timed' /\ Mute(signals') /\ (ready = TRUE => Calm)
<1>1. Timed' /\ Mute(signals') /\ ~Says(signals', "disconnected")
  BY MuteFacts, SaysFacts DEF Timed
<1>2. \A text : OneFrame(text) => OneFrame(text)'
  BY DEF OneFrame, Quiet
<1>3. Alone => Alone'
  BY DEF Alone, Quiet
<1> QED
  BY <1>1, <1>2, <1>3 DEF Calm

\* A step that sends the next command, with or without one more that is not raw.
LEMMA SentCalm ==
  ASSUME Base, Quiet, NEW q \in Seq(Plain),
         q = queue \/ \E x \in Cmds : x.kind # "Raw" /\ q = queue \o <<x>>,
         SendNext(q, busy, canMode, timeoutOn, wire, <<>>), UNCHANGED ready
  PROVE  Timed' /\ Mute(signals') /\ (ready = TRUE => Calm)
<1>1. /\ \A text : Only(queue, busy, current, text) => Only(q, busy, current, text)
      /\ Lone(queue, busy, current) => Lone(q, busy, current)
  BY BaseFacts, OthersQueued
<1>2. /\ Timed' /\ signals' = <<>>
      /\ \A text : Only(q, busy, current, text) => Only(queue', busy', current', text)
      /\ Lone(q, busy, current) => Lone(queue', busy', current')
  BY BaseFacts, SendNextFrames
<1>3. Mute(signals') /\ ~Says(signals', "disconnected") /\ Reports(signals') = {}
  BY <1>2, MuteFacts, SaysFacts
<1>4. \A text : OneFrame(text) => OneFrame(text)'
  BY <1>1, <1>2, <1>3 DEF OneFrame
<1>5. Alone => Alone'
  BY <1>1, <1>2, <1>3 DEF Alone
<1> QED
  BY <1>2, <1>3, <1>4, <1>5 DEF Calm

\* A call that queues no raw command queues other commands or touches the polling alone.
LEMMA QueryingSubmits ==
  ASSUME Querying
  PROVE  \/ \E cmds \in Seq(Asked), out \in {<<>>, <<Status("info")>> \o <<>>} :
              /\ Submit(cmds, out)
              /\ \A i \in 1..Len(cmds) : cmds[i].kind # "Raw"
         \/ UNCHANGED <<linkVars, sessionVars, pipeVars, later>> /\ signals' = <<>>
<1>1. \A kind \in {"Pid", "Dtc", "ClearDtc", "Vin"} : \A arg :
        \A i \in 1..Len(<<Cmd(kind, arg)>>) : <<Cmd(kind, arg)>>[i].kind # "Raw"
  BY DEF Cmd
<1>2. /\ \A i \in 1..Len(ProbeCmds) : ProbeCmds[i].kind # "Raw"
      /\ \A list \in FreezeLists :
           \A i \in 1..Len([j \in 1..Len(list) |-> Cmd("FreezeFrame", list[j])]) :
             [j \in 1..Len(list) |-> Cmd("FreezeFrame", list[j])][i].kind # "Raw"
  <2>1. \A i \in 1..Len(ProbeCmds) : ProbeCmds[i].kind # "Raw"
    BY DEF ProbeCmds, Cmd
  <2>2. ASSUME NEW list \in FreezeLists
        PROVE  \A i \in 1..Len([j \in 1..Len(list) |-> Cmd("FreezeFrame", list[j])]) :
                 [j \in 1..Len(list) |-> Cmd("FreezeFrame", list[j])][i].kind # "Raw"
    <3>1. Len(list) \in Nat
      BY ElmAssumption
    <3> QED
      BY <3>1 DEF Cmd
  <2> QED
    BY <2>1, <2>2
<1>3. CASE \E pid \in Pids : QueryPid(pid, <<>>)
  BY <1>1, <1>3, AskedFacts DEF QueryPid
<1>4. CASE \E mode \in {"03", "07"} : ReadDtcs(mode, <<>>)
  BY <1>1, <1>4, AskedFacts DEF ReadDtcs
<1>5. CASE ClearDtcs(<<>>) \/ ReadVin(<<>>)
  BY <1>1, <1>5, AskedFacts DEF ClearDtcs, ReadVin
<1>6. CASE \E list \in FreezeLists : ReadFreezeFrame(list, <<>>)
  BY <1>2, <1>6, AskedLists DEF ReadFreezeFrame
<1>7. CASE ProbeSupportedPids(<<>>)
  BY <1>2, <1>7, AskedLists DEF ProbeSupportedPids
<1>8. CASE (\E pids \in PollLists : StartPolling(pids, <<>>)) \/ StopPolling(<<>>)
  BY <1>8 DEF StartPolling, StopPolling
<1> QED
  BY <1>3, <1>4, <1>5, <1>6, <1>7, <1>8 DEF Querying

\* Such a call adds nothing to what the listeners may hear.
LEMMA QueryingCalm ==
  ASSUME Base, Querying, ready = TRUE
  PROVE  Calm
<1>0. Quiet
  BY DEF Querying
<1>1. ASSUME NEW cmds \in Seq(Asked), NEW out \in {<<>>, <<Status("info")>> \o <<>>},
             Submit(cmds, out), \A i \in 1..Len(cmds) : cmds[i].kind # "Raw"
      PROVE  Calm
  <2>1. cmds \in Seq(Plain) /\ cmds \in Seq(Cmds) /\ queue \o cmds \in Seq(Plain)
    BY PlainFacts, BaseFacts, SeqFacts DEF Asked
  <2>2. /\ \A text : Only(queue, busy, current, text) => Only(queue \o cmds, busy, current, text)
        /\ Lone(queue, busy, current) => Lone(queue \o cmds, busy, current)
    BY <1>1, <2>1, BaseFacts, QueriesQueued
  <2>3. SendNext(queue \o cmds, busy, FALSE, timeoutOn, wire, out) /\ ready' = TRUE
    BY <1>1, BaseFacts DEF Submit, sessionVars
  <2>4. /\ signals' = out
        /\ \A text : Only(queue \o cmds, busy, current, text) => Only(queue', busy', current', text)
        /\ Lone(queue \o cmds, busy, current) => Lone(queue', busy', current')
    BY <2>1, <2>3, BaseFacts, SendNextFrames
  <2>5. Reports(signals') = {} /\ ~Says(signals', "disconnected")
    <3>1. Status("info") \in Signals /\ Status("info").name = "status"
      BY PlainSignals DEF StatusTexts
    <3>2. <<Status("info")>> \o <<>> = <<Status("info")>>
      BY <3>1, Concat
    <3>3. /\ Mute(<<Status("info")>>) /\ ~Says(<<Status("info")>>, "disconnected")
          /\ Mute(<<>>) /\ ~Says(<<>>, "disconnected")
      BY <3>1, MuteFacts, SaysFacts DEF Mute
    <3>4. Mute(out) /\ ~Says(out, "disconnected")
      BY <3>2, <3>3
    <3> QED
      BY <2>4, <3>4 DEF Mute, Says, Reports
  <2>6. ASSUME NEW text, OneFrame(text) PROVE OneFrame(text)'
    BY <2>2, <2>4, <2>5, <2>6 DEF OneFrame
  <2>7. Alone => Alone'
    BY <2>2, <2>4, <2>5 DEF Alone
  <2> QED
    BY <2>3, <2>5, <2>6, <2>7 DEF Calm
<1>2. CASE UNCHANGED <<linkVars, sessionVars, pipeVars, later>> /\ signals' = <<>>
  <2>1. UNCHANGED <<ready, queue, busy, current, timeoutOn>>
    BY <1>2 DEF sessionVars, pipeVars
  <2> QED
    BY <1>0, <1>2, <2>1, KeptCalm DEF Base
<1> QED
  BY <1>1, <1>2, QueryingSubmits

LEMMA PollCalm ==
  ASSUME Base, OnPollTick
  PROVE  Timed' /\ Mute(signals') /\ (ready = TRUE => Calm)
<1>1. PICK pid \in Pids : Submit(<<Cmd("Pid", pid)>>, <<>>)
  BY PollSubmits DEF Base
<1>2. Cmd("Pid", pid) \in Plain /\ Cmd("Pid", pid) \in Cmds /\ Cmd("Pid", pid).kind # "Raw"
  BY CmdType DEF Cmd, Plain, Kinds, Texts
<1>3. queue \o <<Cmd("Pid", pid)>> \in Seq(Plain)
  BY <1>2, BaseFacts, SeqFacts
<1>4. /\ SendNext(queue \o <<Cmd("Pid", pid)>>, busy, canMode, timeoutOn, wire, <<>>)
      /\ UNCHANGED ready /\ Quiet
  BY <1>1 DEF Submit, sessionVars, OnPollTick
<1> QED
  BY <1>2, <1>3, <1>4, SentCalm

LEMMA LambdaCalm ==
  ASSUME Base, FireLambda
  PROVE  Timed' /\ Mute(signals') /\ (ready = TRUE => Calm)
<1>1. PICK age \in {"fresh", "stale"} :
        FireStart(age) \/ FireSettle(age) \/ FireAtz(age) \/ FireRetry(age)
  BY DEF FireLambda
<1>2. ~FireRetry(age) /\ Quiet
  BY <1>1 DEF FireRetry, FireStart, FireSettle, FireAtz, Due, Base, Straight
<1>3. CASE \E l : Dropped(l)
  BY <1>2, <1>3, KeptCalm DEF Dropped, Base, sessionVars, pipeVars, Quiet
<1>4. CASE SendNext(queue, busy, canMode, timeoutOn, wire, <<>>) /\ UNCHANGED sessionVars
  BY <1>2, <1>4, BaseFacts, SentCalm DEF sessionVars
<1>5. FireSettle(age) => \E l : Dropped(l)
  BY BaseFacts DEF FireSettle, Due
<1> QED
  BY <1>1, <1>2, <1>3, <1>4, <1>5 DEF FireStart, FireAtz

LEMMA BluetoothCalm ==
  ASSUME Base, OnBtConnected \/ OnBtError \/ OnBtConnectTimeout
  PROVE  Timed' /\ Mute(signals') /\ (ready = TRUE => Calm)
<1>1. OnBtConnectTimeout /\ ~btTransport
  BY BaseFacts DEF OnBtConnected, OnBtError
<1>2. UNCHANGED <<ready, queue, busy, current, timeoutOn, signals>> /\ Quiet
  BY <1>1 DEF OnBtConnectTimeout, sessionVars, pipeVars
<1> QED
  BY <1>2, KeptCalm DEF Base, Quiet

\* What answers to other commands are called.
LEMMA EmittedNames ==
  ASSUME NEW r, current \in Cmds, current.kind \notin {"Init", "PidSupport", "CanStart", "Raw"}
  PROVE  Emitted(r).name \notin {"rawResponse", "disconnected"}
<1>1. CASE current.kind = "Pid"
  BY <1>1 DEF Emitted, Sig
<1>2. CASE current.kind = "FreezeFrame"
  BY <1>2 DEF Emitted, Sig
<1>3. CASE current.kind = "ClearDtc"
  BY <1>3 DEF Emitted, Status, Sig
<1>4. CASE current.kind = "Dtc"
  BY <1>4 DEF Emitted, Sig
<1>5. CASE current.kind = "Vin"
  BY <1>5 DEF Emitted, Sig
<1>6. current.kind \in Kinds
  BY DEF Cmds
<1> QED
  BY <1>1, <1>2, <1>3, <1>4, <1>5, <1>6 DEF Kinds

\* The answer to the command in flight.
LEMMA EmittedTrue ==
  ASSUME NEW r \in Answers, current \in Cmds, r.ok => r.to = current,
         current.kind \notin {"Init", "PidSupport", "CanStart"}
  PROVE  LET e == Emitted(r) IN
           /\ e.name # "disconnected"
           /\ e.name = "rawResponse" =>
                /\ current.kind = "Raw" /\ e.arg = current.arg
                /\ e.answer.ok => e.answer.to = Cmd("Raw", e.arg)
<1>1. CASE current.kind = "Raw"
  <2>1. Emitted(r) = [Sig("rawResponse", current.arg) EXCEPT !.answer = r]
    BY <1>1 DEF Emitted
  <2>2. /\ Emitted(r).name = "rawResponse" /\ Emitted(r).arg = current.arg
        /\ Emitted(r).answer = r
    BY <2>1 DEF Sig
  <2>3. current = Cmd("Raw", current.arg)
    BY <1>1 DEF Cmds, Cmd
  <2> QED
    BY <1>1, <2>2, <2>3
<1>2. CASE current.kind # "Raw"
  <2>1. Emitted(r).name \notin {"rawResponse", "disconnected"}
    BY <1>2, EmittedNames
  <2> QED
    BY <2>1
<1> QED
  BY <1>1, <1>2

\* One answer is reported, or something else is said, and the next command is sent.
LEMMA ReportedCalm ==
  ASSUME Base, Quiet, UNCHANGED ready, NEW e \in Signals, NEW w, NEW out \in {<<>>, <<e>>},
         e.name = "rawResponse" =>
           /\ busy /\ current.kind = "Raw" /\ e.arg = current.arg
           /\ e.answer.ok => e.answer.to = Cmd("Raw", e.arg),
         e.name # "disconnected",
         SendNext(queue, FALSE, FALSE, FALSE, w, out)
  PROVE  Timed' /\ Truthful(signals') /\ (ready = TRUE => Calm)
<1>1. /\ Timed' /\ signals' = out
      /\ \A text : Only(queue, FALSE, current, text) => Only(queue', busy', current', text)
      /\ Lone(queue, FALSE, current) => Lone(queue', busy', current')
      /\ Free(queue, FALSE, current) => Free(queue', busy', current')
  BY BaseFacts, SendNextFrames
<1>2. /\ ~Says(signals', "disconnected")
      /\ \A i \in Reports(signals') : i = 1 /\ signals'[i] = e /\ e.name = "rawResponse"
  <2>1. CASE out = <<>>
    BY <1>1, <2>1, MuteFacts, SaysFacts
  <2>2. CASE out = <<e>>
    <3>1. ~Says(<<e>>, "disconnected")
      BY SaysFacts
    <3>2. \A i \in Reports(<<e>>) : i = 1 /\ <<e>>[i] = e /\ e.name = "rawResponse"
      BY DEF Reports
    <3> QED
      BY <1>1, <2>2, <3>1, <3>2
  <2> QED
    BY <2>1, <2>2
<1>3. Truthful(signals')
  BY <1>2 DEF Truthful
<1>4. ASSUME NEW text, OneFrame(text) PROVE OneFrame(text)'
  <2>1. Only(queue', busy', current', text)
    BY <1>1, <1>4 DEF OneFrame, Only
  <2>2. \A i \in Reports(signals') : signals'[i].arg = text
    BY <1>2, <1>4 DEF OneFrame, Only
  <2> QED
    BY <2>1, <2>2 DEF OneFrame
<1>5. ASSUME Alone PROVE Alone'
  <2>1. Lone(queue', busy', current')
    BY <1>1, <1>5 DEF Alone, Lone
  <2>2. \A i, j \in Reports(signals') : i = j
    BY <1>2
  <2>3. Reports(signals') # {} => Free(queue', busy', current')
    <3>1. e.name = "rawResponse" => Free(queue, FALSE, current)
      BY <1>5 DEF Alone, Lone, Free
    <3> QED
      BY <1>1, <1>2, <3>1
  <2> QED
    BY <2>1, <2>2, <2>3 DEF Alone
<1> QED
  BY <1>1, <1>2, <1>3, <1>4, <1>5 DEF Calm

\* Signals that report no answer are emitted, and the next command is sent.
LEMMA MuteCalm ==
  ASSUME Base, Quiet, UNCHANGED ready, NEW w, NEW out, Mute(out), ~Says(out, "disconnected"),
         SendNext(queue, FALSE, FALSE, FALSE, w, out)
  PROVE  Timed' /\ Truthful(signals') /\ (ready = TRUE => Calm)
<1>1. /\ Timed' /\ signals' = out
      /\ \A text : Only(queue, FALSE, current, text) => Only(queue', busy', current', text)
      /\ Lone(queue, FALSE, current) => Lone(queue', busy', current')
  BY BaseFacts, SendNextFrames
<1>2. Truthful(signals') /\ Reports(signals') = {} /\ ~Says(signals', "disconnected")
  BY <1>1, MuteFacts
<1>3. ASSUME NEW text, OneFrame(text) PROVE OneFrame(text)'
  <2>1. Only(queue', busy', current', text)
    BY <1>1, <1>3 DEF OneFrame, Only
  <2> QED
    BY <1>2, <2>1 DEF OneFrame
<1>4. ASSUME Alone PROVE Alone'
  <2>1. Lone(queue', busy', current')
    BY <1>1, <1>4 DEF Alone, Lone
  <2> QED
    BY <1>2, <2>1 DEF Alone
<1> QED
  BY <1>1, <1>2, <1>3, <1>4 DEF Calm

\* What is said with the status of a handler.
LEMMA TwoSaid ==
  ASSUME NEW x \in Signals, x.name \notin {"rawResponse", "disconnected"}
  PROVE  LET two == <<x, Status("info")>> IN Mute(two) /\ ~Says(two, "disconnected")
<1> DEFINE one == <<x>>
<1>1. /\ Status("info") \in Signals /\ Status("info").name = "status"
  BY PlainSignals DEF StatusTexts
<1>2. one \in Seq(Signals) /\ Mute(one) /\ ~Says(one, "disconnected")
  BY SaysFacts, SeqFacts DEF Mute
<1>3. <<x, Status("info")>> = Append(one, Status("info"))
  OBVIOUS
<1> HIDE DEF one
<1>4. Mute(Append(one, Status("info"))) /\ ~Says(Append(one, Status("info")), "disconnected")
  BY <1>1, <1>2, SaysFacts DEF Mute
<1> QED
  BY <1>3, <1>4

LEMMA TwoMute ==
  /\ Mute(<<Sig("connected", ""), Status("info")>>)
  /\ Mute(<<Status("info"), Status("info")>>)
  /\ Mute(<<Sig("supportedPidsReady", ""), Status("info")>>)
  /\ ~Says(<<Sig("supportedPidsReady", ""), Status("info")>>, "disconnected")
BY TwoSaid, PlainSignals DEF StatusTexts

LEMMA AnswerCalm ==
  ASSUME Base, OnAnswer
  PROVE  Timed' /\ Truthful(signals') /\ (ready = TRUE => Calm)
<1>1. /\ wire # <<>> /\ busy /\ Quiet /\ ~canMode /\ Head(wire) = current
  <2>1. AnswersMatch /\ ~btTransport /\ canMode = FALSE
    BY BaseFacts DEF Base, Matched
  <2>2. wire # <<>> /\ Quiet
    BY DEF OnAnswer
  <2>3. busy /\ wire = <<current>>
    BY <2>1, <2>2 DEF AnswersMatch
  <2> QED
    BY <2>1, <2>2, <2>3
<1>2. PICK r \in Answers : HandlePrompt(r, Tail(wire)) /\ r.to = current
  <2>1. PICK ok \in BOOLEAN :
          HandlePrompt([to |-> Head(wire), ok |-> ok /\ Head(wire).kind # "CanStart"], Tail(wire))
    BY DEF OnAnswer
  <2>2. [to |-> Head(wire), ok |-> ok /\ Head(wire).kind # "CanStart"] \in Answers
    BY <1>1, BaseFacts DEF Answers
  <2> QED
    BY <1>1, <2>1, <2>2
<1>3. CASE ProcessInitStep(Tail(wire)) /\ current.kind = "Init"
  <2>1. \E out \in {<<>>, <<Sig("connected", ""), Status("info")>>} :
          SendNext(queue, FALSE, FALSE, FALSE, Tail(wire), out)
    BY <1>3 DEF ProcessInitStep
  <2>2. Timed' /\ signals' \in {<<>>, <<Sig("connected", ""), Status("info")>>}
    BY <2>1, BaseFacts, SendNextFrames
  <2>3. Mute(<<Sig("connected", ""), Status("info")>>)
    BY TwoMute
  <2>4. ready # TRUE
    BY <1>1, <1>3 DEF Base, Straight
  <2> QED
    BY <2>2, <2>3, <2>4, MuteFacts
<1>4. CASE CountBlock(r, Tail(wire))
  <2>1. PICK out \in {<<>>, <<Sig("supportedPidsReady", ""), Status("info")>>} :
          SendNext(queue, FALSE, FALSE, FALSE, Tail(wire), out)
    BY <1>4 DEF CountBlock
  <2>2. UNCHANGED ready
    BY <1>4 DEF CountBlock, sessionVars
  <2>3. Mute(out) /\ ~Says(out, "disconnected")
    BY <2>1, TwoMute, MuteFacts, SaysFacts
  <2> QED
    BY <1>1, <2>1, <2>2, <2>3, MuteCalm
<1>5. CASE HandleOther(r, Tail(wire))
  <2>1. /\ current.kind \notin {"Init", "PidSupport"} /\ UNCHANGED ready
        /\ SendNext(queue, FALSE, FALSE, FALSE, Tail(wire),
                    IF current.kind = "CanStart" THEN <<>> ELSE <<Emitted(r)>>)
    BY <1>5 DEF HandleOther, sessionVars
  <2>2. CASE current.kind = "CanStart"
    <3>1. SendNext(queue, FALSE, FALSE, FALSE, Tail(wire), <<>>)
      BY <2>1, <2>2
    <3> QED
      BY <1>1, <2>1, <3>1, MuteCalm, MuteFacts, SaysFacts
  <2>3. CASE current.kind # "CanStart"
    <3>1. Emitted(r) \in Signals
      BY <2>1, <2>3, BaseFacts, EmittedType
    <3>2. /\ Emitted(r).name # "disconnected"
          /\ Emitted(r).name = "rawResponse" =>
               /\ current.kind = "Raw" /\ Emitted(r).arg = current.arg
               /\ Emitted(r).answer.ok => Emitted(r).answer.to = Cmd("Raw", Emitted(r).arg)
      BY <1>2, <2>1, <2>3, BaseFacts, EmittedTrue
    <3>3. SendNext(queue, FALSE, FALSE, FALSE, Tail(wire), <<Emitted(r)>>)
      BY <2>1, <2>3
    <3> HIDE DEF Calm
    <3> QED
      BY <1>1, <2>1, <3>1, <3>2, <3>3, ReportedCalm
  <2> QED
    BY <2>2, <2>3
<1> QED
  BY <1>2, <1>3, <1>4, <1>5 DEF HandlePrompt

LEMMA TimeoutCalm ==
  ASSUME Base, Sure, OnTimeout
  PROVE  Timed' /\ Truthful(signals') /\ (ready = TRUE => Calm)
<1>1. timeoutOn /\ busy /\ Quiet
  BY BaseFacts DEF OnTimeout
<1>2. CASE TimeoutHighBaud
  <2>1. ready # TRUE
    BY <1>2 DEF TimeoutHighBaud, HighBaudLeft, SilentAtz
  <2>2. CASE FailConnect(later, <<Status("info")>>)
    BY <2>1, <2>2, FailMute, MuteFacts
  <2>3. CASE timeoutOn' = FALSE /\ signals' = <<Status("info"), Status("info")>>
    BY <2>1, <2>3, TwoMute, MuteFacts DEF Timed
  <2> QED
    BY <1>2, <2>2, <2>3 DEF TimeoutHighBaud
<1>3. ~TimeoutAtz
  BY BaseFacts DEF TimeoutAtz, AtzLeft
<1>4. CASE TimeoutFails
  <2>1. ready # TRUE /\ FailConnect(later, <<>>)
    BY <1>4 DEF TimeoutFails
  <2> QED
    BY <2>1, FailMute, MuteFacts
<1>5. CASE TimeoutSkips
  <2>1. PICK out \in {<<>>, <<Sig("pidUnsupported", current.arg)>>,
                      <<Sig("rawResponse", current.arg)>>} :
          /\ SendNext(queue, FALSE, canMode, FALSE, Unanswered, out)
          /\ out = <<Sig("rawResponse", current.arg)>> => current.kind = "Raw"
    BY <1>5 DEF TimeoutSkips, Sig
  <2>2. UNCHANGED ready /\ canMode = FALSE
    BY <1>5, BaseFacts DEF TimeoutSkips, sessionVars
  <2>3. current.arg \in Texts
    BY BaseFacts DEF Cmds
  <2>4. ASSUME NEW name \in {"pidUnsupported", "rawResponse"}
        PROVE  /\ Sig(name, current.arg) \in Signals
               /\ Sig(name, current.arg).name = name /\ Sig(name, current.arg).arg = current.arg
               /\ Sig(name, current.arg).answer.ok = FALSE
    BY <2>3, SigType DEF Sig, SignalNames, NoAnswer
  <2>5. CASE out \in {<<>>, <<Sig("pidUnsupported", current.arg)>>}
    BY <1>1, <2>1, <2>2, <2>4, <2>5, ReportedCalm
  <2>6. CASE out = <<Sig("rawResponse", current.arg)>>
    BY <1>1, <2>1, <2>2, <2>4, <2>6, ReportedCalm
  <2> QED
    BY <2>1, <2>5, <2>6
<1> QED
  BY <1>2, <1>3, <1>4, <1>5 DEF OnTimeout

-----------------------------------------------------------------------------
(* Every step of the driver.                                               *)

LEMMA SubmitMute ==
  ASSUME Base, NEW cmds \in Seq(Asked), NEW out, Mute(out), Submit(cmds, out)
  PROVE  Mute(signals') /\ Timed'
<1>1. cmds \in Seq(Plain)
  BY PlainFacts
<1>2. queue \o cmds \in Seq(Plain)
  BY <1>1, BaseFacts, SeqFacts
<1>3. SendNext(queue \o cmds, busy, FALSE, timeoutOn, wire, out)
  BY BaseFacts DEF Submit
<1> QED
  BY <1>2, <1>3, BaseFacts, SendNextFrames

LEMMA CallingMute ==
  ASSUME Base, Calling
  PROVE  Mute(signals') /\ Timed'
<1>1. <<Status("info")>> \o <<>> = <<Status("info")>> /\ Mute(<<Status("info")>>)
  <2>1. Status("info") \in Signals /\ Status("info").name = "status"
    BY PlainSignals DEF StatusTexts
  <2> QED
    BY <2>1, SaysFacts, Concat DEF Mute
<1>2. CASE \E cmds \in Seq(Asked), out \in {<<>>, <<Status("info")>> \o <<>>} : Submit(cmds, out)
  BY <1>1, <1>2, SubmitMute, MuteFacts
<1>3. CASE UNCHANGED pipeVars /\ signals' = <<>>
  BY <1>3, MuteFacts DEF Base, Timed, pipeVars
<1> QED
  BY <1>2, <1>3, CallingSubmits

\* A step the driver takes by itself, and any step.
LEMMA ReactHonest ==
  ASSUME Sure, Base, React
  PROVE  Timed' /\ Truthful(signals') /\ (ready = TRUE => Calm)
<1>1. ~OnBanner /\ ~OnCanData
  BY BaseFacts DEF OnBanner, OnCanData
<1> QED
  BY <1>1, PollCalm, AnswerCalm, TimeoutCalm, BluetoothCalm, LambdaCalm, MuteFacts DEF React

LEMMA DeliverHonest ==
  ASSUME Base, Truthful(signals), Deliver
  PROVE  Timed' /\ Truthful(signals')
<1>1. /\ signals' = Tail(signals) /\ signals # <<>> /\ signals \in Seq(Signals)
      /\ UNCHANGED <<timeoutOn, busy>>
  BY BaseFacts DEF Deliver, pipeVars
<1>2. \A i \in Reports(Tail(signals)) :
        i + 1 \in Reports(signals) /\ Tail(signals)[i] = signals[i + 1]
  BY <1>1 DEF Reports
<1> QED
  BY <1>1, <1>2 DEF Base, Timed, Truthful

LEMMA NextHonest ==
  ASSUME Sure, Base, Truthful(signals), [Next]_vars
  PROVE  Timed' /\ Truthful(signals')
<1>1. CASE UNCHANGED vars
  BY <1>1 DEF Base, Timed, Truthful, vars, pipeVars
<1>2. CASE Client
  <2>1. ~Monitoring
    BY DEF Monitoring, Sure, InTime
  <2> QED
    BY <1>2, <2>1, ConnectingMute, CallingMute, MuteFacts DEF Client, Sure
<1> QED
  BY <1>1, <1>2, ReactHonest, DeliverHonest DEF Next

LEMMA NextBase ==
  ASSUME Sure, Base, Truthful(signals), [Next]_vars
  PROVE  Base' /\ Truthful(signals')
<1>1. "bt" \notin Chatty
  BY DEF Sure, Prompted
<1>2. TypeOK' /\ Phased' /\ Matched'
  BY <1>1, NextType, NextPhased, NextMatched DEF Base, Sure
<1>3. Straight' /\ Len(signals') <= 3
  BY NextStraight DEF Base, Sure, Refined
<1> QED
  BY <1>2, <1>3, NextHonest DEF Base

\* sendRawCommand, between two signals or in a slot.
LEMMA SubmitBase ==
  ASSUME Base, NEW cmds \in Seq(Asked), NEW out \in Seq(Signals), Len(out) <= 3,
         Submit(cmds, out), UNCHANGED <<pollVars, probeVars>>
  PROVE  Base' /\ signals' = out /\ ready = TRUE /\ ready' = TRUE
<1>1. /\ cmds \in Seq(Cmds) /\ cmds \in Seq(Plain) /\ ready = TRUE
      /\ \A i \in 1..Len(cmds) : cmds[i].kind # "Init"
  BY PlainFacts, BaseFacts DEF Asked, Submit
<1>2. /\ queue \o cmds \in Seq(Plain) /\ queue \o cmds \in Seq(Cmds)
      /\ SendNext(queue \o cmds, busy, FALSE, timeoutOn, wire, out)
      /\ UNCHANGED <<linkVars, sessionVars, later>>
  BY <1>1, BaseFacts, SeqFacts DEF Submit
<1>3. TypeOK'
  <2>1. PollOK' /\ ProbeOK'
    BY KeptType DEF Base
  <2> QED
    BY <1>1, <2>1, SubmitType DEF Base
<1>4. Phased' /\ Matched'
  BY <1>1, SubmitPhased, SubmitMatched DEF Base
<1>5. Timed' /\ signals' = out
  BY <1>2, BaseFacts, SendNextFrames
<1>6. Straight'
  <2>1. \A i \in 1..Len(queue \o cmds) : (queue \o cmds)[i].kind # "Init"
    <3>1. \A i \in 1..Len(queue) : queue[i].kind # "Init"
      BY <1>1 DEF Base, Straight
    <3> QED
      BY <1>1, <3>1, BaseFacts
  <2>2. busy \/ wire # <<>> => current.kind # "Init"
    BY <1>1 DEF Base, Straight
  <2>3. /\ \A i \in 1..Len(queue') : queue'[i].kind # "Init"
        /\ busy' \/ wire' # <<>> => current'.kind # "Init"
    BY <1>2, <2>1, <2>2, SentReady
  <2>4. UNCHANGED <<bt, btTransport, banner, ready, opening, later>>
    BY <1>2 DEF linkVars, deviceVars, sessionVars
  <2> QED
    BY <1>1, <2>3, <2>4, ReadyStraight DEF Base
<1>7. ready' = TRUE
  BY <1>1, <1>2 DEF sessionVars
<1> QED
  BY <1>1, <1>3, <1>4, <1>5, <1>6, <1>7 DEF Base

LEMMA SubmitFrames ==
  ASSUME Base, NEW cmds \in Seq(Asked), NEW out, Submit(cmds, out)
  PROVE  /\ signals' = out
         /\ \A text : Only(queue \o cmds, busy, current, text) =>
                       Only(queue', busy', current', text)
         /\ Lone(queue \o cmds, busy, current) => Lone(queue', busy', current')
<1>1. cmds \in Seq(Plain)
  BY PlainFacts
<1>2. queue \o cmds \in Seq(Plain)
  BY <1>1, BaseFacts, SeqFacts
<1>3. SendNext(queue \o cmds, busy, FALSE, timeoutOn, wire, out)
  BY BaseFacts DEF Submit
<1> QED
  BY <1>2, <1>3, BaseFacts, SendNextFrames

-----------------------------------------------------------------------------
(* The listeners.                                                          *)

\* A client that has asked and has no result has its link; the first listener waits for the
\* only raw command there is, the second for keys.
Waiting ==
  /\ asked \in BOOLEAN /\ waitSeed \in Nat /\ waitKey \in Nat
  /\ asked => ready /\ ~Says(signals, "disconnected")
  /\ waitSeed + waitKey > 0 => asked
  /\ waitSeed > 0 => waitKey = 0 /\ Alone /\ OneFrame(SeedRequest)
  /\ waitKey > 0 => OneFrame(KeyFrame)

Secure == Base /\ Truthful(signals) /\ Waiting /\ SuccessIsEarned

LEMMA NobodyWaits ==
  ASSUME Waiting, ~asked
  PROVE  waitSeed = 0 /\ waitKey = 0
BY DEF Waiting

\* What the driver does, and what the client may call while it waits and when it does not.
LEMMA OtherwiseSecure ==
  ASSUME Sure, Patient, Secure,
         \/ Otherwise(React) \/ Otherwise(Querying)
         \/ (Patient => ~asked) /\ Otherwise(Client)
  PROVE  Secure'
<1>1. /\ UNCHANGED <<waitSeed, waitKey, asked>> /\ verdict' = {}
  BY DEF Otherwise
<1>2. Base' /\ Truthful(signals') /\ SuccessIsEarned'
  <2>1. Querying => Calling
    <3>1. Querying => Quiet
      BY DEF Querying
    <3> QED
      BY <3>1 DEF Calling
  <2>2. [Next]_vars
    BY <2>1 DEF Otherwise, Next, Client
  <2> QED
    BY <1>1, <2>2, NextBase DEF Secure, SuccessIsEarned
<1>3. CASE ~asked
  BY <1>1, <1>2, <1>3, NobodyWaits DEF Waiting, Secure
<1>4. CASE asked /\ (React \/ Querying)
  <2>1. ready = TRUE
    BY <1>4, BaseFacts DEF Secure, Waiting
  <2>2. Calm
    BY <1>4, <2>1, ReactHonest, QueryingCalm DEF Secure
  <2> QED
    BY <1>1, <1>2, <2>2 DEF Calm, Waiting, Secure
<1> QED
  BY <1>3, <1>4 DEF Otherwise

\* A request, refused or sent: no other raw command waits.
LEMMA RequestSecure ==
  ASSUME Sure, Patient, Secure, SendSecurityAccessRequest
  PROVE  Secure'
<1>1. ~asked /\ ~RawWaiting /\ waitSeed = 0 /\ waitKey = 0
  BY NobodyWaits DEF SendSecurityAccessRequest, Secure
<1>2. CASE verdict' = {Refused(NoAnswer)} /\ UNCHANGED <<vars, waitSeed, waitKey, asked>>
  <2>1. SuccessIsEarned'
    BY <1>2 DEF SuccessIsEarned, Refused
  <2>2. UNCHANGED <<ready, queue, busy, current, signals>>
    BY <1>2 DEF vars, sessionVars, pipeVars
  <2>3. Base' /\ Truthful(signals')
    BY <1>2, NextBase DEF Secure
  <2>4. Waiting'
    BY <1>1, <1>2, <2>2 DEF Waiting, Secure
  <2> QED
    BY <2>1, <2>3, <2>4 DEF Secure
<1>3. CASE /\ SendRawCommand(SeedRequest, <<>>)
           /\ waitSeed' = waitSeed + 1 /\ asked' = TRUE
           /\ verdict' = {} /\ UNCHANGED waitKey
  <2> DEFINE seed == <<Cmd("Raw", SeedRequest)>>
  <2>1. /\ seed \in Seq(Asked) /\ seed \in Seq(Cmds) /\ Len(seed) = 1
        /\ \A i \in 1..Len(seed) : seed[i].arg = SeedRequest
    <3>1. seed \in Seq(Asked) /\ seed \in Seq(Cmds)
      BY AskedFacts, AskedAreCmds, SecurityAssumption
    <3>2. Cmd("Raw", SeedRequest).arg = SeedRequest
      BY DEF Cmd
    <3>3. Len(seed) = 1 /\ seed[1] = Cmd("Raw", SeedRequest)
      OBVIOUS
    <3> HIDE DEF seed
    <3> QED
      BY <3>1, <3>2, <3>3
  <2>2. Submit(seed, <<>>) /\ UNCHANGED <<pollVars, probeVars>>
    BY <1>3 DEF SendRawCommand
  <2> HIDE DEF seed
  <2>3. Base' /\ signals' = <<>> /\ ready' = TRUE
    <3>1. <<>> \in Seq(Signals) /\ Len(<<>>) <= 3
      OBVIOUS
    <3> QED
      BY <2>1, <2>2, <3>1, SubmitBase DEF Secure
  <2>4. Free(queue, busy, current)
    BY <1>1 DEF RawWaiting, Free, RawAt
  <2>5. /\ Only(queue \o seed, busy, current, SeedRequest)
        /\ Lone(queue \o seed, busy, current)
    BY <2>1, <2>4, BaseFacts, FramesQueued DEF Secure
  <2>6. /\ Only(queue', busy', current', SeedRequest)
        /\ Lone(queue', busy', current')
    BY <2>1, <2>2, <2>5, SubmitFrames DEF Secure
  <2>7. Alone' /\ OneFrame(SeedRequest)'
    BY <2>3, <2>6, MuteFacts DEF Alone, OneFrame
  <2>8. ~Says(signals', "disconnected") /\ Truthful(signals')
    BY <2>3, SaysFacts, MuteFacts
  <2>9. SuccessIsEarned'
    BY <1>3 DEF SuccessIsEarned
  <2>10. waitSeed' = 1 /\ waitKey' = 0
    BY <1>1, <1>3
  <2> QED
    BY <1>3, <2>3, <2>7, <2>8, <2>9, <2>10 DEF Secure, Waiting
<1> QED
  BY <1>2, <1>3 DEF SendSecurityAccessRequest

\* A signal is handled: what the others say stays.
LEMMA TailHolds ==
  ASSUME Base, signals # <<>>
  PROVE  /\ Tail(signals) \in Seq(Signals) /\ Len(Tail(signals)) <= 3
         /\ \A i \in Reports(Tail(signals)) :
              /\ i \in Nat \ {0} /\ i + 1 \in Reports(signals)
              /\ Tail(signals)[i] = signals[i + 1]
         /\ Truthful(signals) => Truthful(Tail(signals))
         /\ \A name : ~Says(signals, name) => ~Says(Tail(signals), name)
         /\ Head(signals) = signals[1]
         /\ Head(signals).name = "rawResponse" => 1 \in Reports(signals)
<1>1. /\ signals \in Seq(Signals) /\ Len(signals) \in Nat \ {0} /\ Len(signals) <= 3
      /\ Tail(signals) \in Seq(Signals) /\ Len(Tail(signals)) = Len(signals) - 1
      /\ \A i \in 1..Len(Tail(signals)) : Tail(signals)[i] = signals[i + 1]
      /\ Head(signals) = signals[1]
  BY BaseFacts DEF Base
<1>2. /\ \A i \in Reports(Tail(signals)) :
           /\ i \in Nat \ {0} /\ i + 1 \in Reports(signals)
           /\ Tail(signals)[i] = signals[i + 1]
  BY <1>1 DEF Reports
<1>3. \A name : ~Says(signals, name) => ~Says(Tail(signals), name)
  BY <1>1, SaysFacts
<1>4. Truthful(signals) => Truthful(Tail(signals))
  BY <1>2 DEF Truthful
<1>5. Head(signals).name = "rawResponse" => 1 \in Reports(signals)
  BY <1>1 DEF Reports
<1>6. Len(Tail(signals)) <= 3
  BY <1>1
<1> QED
  BY <1>1, <1>2, <1>3, <1>4, <1>5, <1>6, ZenonT(30)

LEMMA DeliverCalm ==
  ASSUME Sure, Base, Truthful(signals), Deliver
  PROVE  /\ Base' /\ Truthful(signals') /\ ready' = ready
         /\ ~Says(signals, "disconnected") => ~Says(signals', "disconnected")
         /\ \A text : OneFrame(text) => OneFrame(text)'
         /\ Alone => Alone'
<1>1. Base' /\ Truthful(signals')
  BY NextBase DEF Next
<1>2. /\ signals' = Tail(signals) /\ signals # <<>>
      /\ UNCHANGED <<ready, queue, busy, current>>
  BY DEF Deliver, sessionVars, pipeVars
<1>3. \A text : OneFrame(text) => OneFrame(text)'
  BY <1>2, TailHolds DEF OneFrame
<1>4. ASSUME Alone PROVE Alone'
  <2>1. \A i, j \in Reports(signals') : i = j
    <3> SUFFICES ASSUME NEW i \in Reports(signals'), NEW j \in Reports(signals') PROVE i = j
      OBVIOUS
    <3>1. i + 1 = j + 1 /\ i \in Nat /\ j \in Nat
      BY <1>2, <1>4, TailHolds DEF Alone
    <3> QED
      BY <3>1
  <2>2. Reports(signals') # {} => Reports(signals) # {}
    BY <1>2, TailHolds
  <2> QED
    BY <1>2, <1>4, <2>1, <2>2 DEF Alone
<1> QED
  BY <1>1, <1>2, <1>3, <1>4, TailHolds

\* The answer heard is the seed: the keys are queued where nothing else raw is.
LEMMA SeedSecure ==
  ASSUME Sure, Secure, signals # <<>>, Head(signals).name = "rawResponse", waitSeed > 0,
         waitSeed' = 0, waitKey' = waitSeed, verdict' = {}, asked' = asked,
         Submit([i \in 1..waitSeed |-> Cmd("Raw", KeyFrame)], Tail(signals)),
         UNCHANGED <<pollVars, probeVars>>
  PROVE  Secure'
<1> DEFINE keys == [i \in 1..waitSeed |-> Cmd("Raw", KeyFrame)]
<1>1. /\ asked /\ waitKey = 0 /\ Alone /\ waitSeed \in Nat /\ asked \in BOOLEAN
      /\ ~Says(signals, "disconnected")
  BY DEF Secure, Waiting
<1>2. Cmd("Raw", KeyFrame) \in Asked /\ Cmd("Raw", KeyFrame).arg = KeyFrame
  BY AskedType, SecurityAssumption DEF Kinds, Texts, Cmd
<1>3. /\ keys \in Seq(Asked)
      /\ \A i \in 1..Len(keys) : keys[i].arg = KeyFrame
  <2>1. keys \in Seq(Asked) /\ Len(keys) = waitSeed
    BY <1>1, <1>2
  <2> QED
    BY <1>2, <2>1
<1>4. Submit(keys, Tail(signals))
  OBVIOUS
<1> HIDE DEF keys
<1>5. /\ Tail(signals) \in Seq(Signals) /\ Len(Tail(signals)) <= 3
      /\ Truthful(Tail(signals)) /\ ~Says(Tail(signals), "disconnected")
      /\ 1 \in Reports(signals)
  BY <1>1, TailHolds DEF Secure
<1>6. Base' /\ signals' = Tail(signals) /\ ready' = TRUE
  BY <1>3, <1>4, <1>5, SubmitBase DEF Secure
<1>7. Reports(signals') = {}
  <2> SUFFICES ASSUME NEW i \in Reports(signals') PROVE FALSE
    OBVIOUS
  <2>1. i \in Nat \ {0} /\ i + 1 \in Reports(signals)
    BY <1>6, TailHolds DEF Secure
  <2>2. i + 1 = 1
    BY <1>1, <1>5, <2>1 DEF Alone
  <2> QED
    BY <2>1, <2>2
<1>8. Free(queue, busy, current)
  BY <1>1, <1>5 DEF Alone
<1>9. keys \in Seq(Cmds)
  BY <1>3, AskedAreCmds
<1>10. Only(queue \o keys, busy, current, KeyFrame)
  BY <1>3, <1>8, <1>9, BaseFacts, FramesQueued DEF Secure
<1>11. Only(queue', busy', current', KeyFrame)
  BY <1>3, <1>4, <1>10, SubmitFrames DEF Secure
<1>12. OneFrame(KeyFrame)'
  BY <1>7, <1>11 DEF OneFrame
<1>13. SuccessIsEarned'
  BY DEF SuccessIsEarned
<1> QED
  BY <1>1, <1>5, <1>6, <1>12, <1>13 DEF Secure, Waiting

\* A verdict is taken from the answer to a key.
LEMMA VerdictEarned ==
  ASSUME Secure, signals # <<>>, Head(signals).name = "rawResponse",
         NEW lucky \in BOOLEAN, NEW v \in TakeForVerdict(Head(signals).answer, lucky), v.success
  PROVE  v.by.ok /\ v.by.to = Cmd("Raw", KeyFrame)
<1> DEFINE r == Head(signals).answer
<1>1. waitKey # 0 /\ v = [success |-> Says67(r, lucky), by |-> r]
  BY DEF TakeForVerdict
<1>2. Head(signals) = signals[1] /\ 1 \in Reports(signals)
  BY TailHolds DEF Secure
<1>3. OneFrame(KeyFrame)
  BY <1>1 DEF Secure, Waiting
<1>4. Head(signals).arg = KeyFrame
  BY <1>2, <1>3 DEF OneFrame
<1>5. r.ok => r.to = Cmd("Raw", KeyFrame)
  BY <1>2, <1>4 DEF Secure, Truthful
<1>6. v.by = r /\ r.ok
  BY <1>1 DEF Says67
<1> QED
  BY <1>5, <1>6

LEMMA DeliverSecure ==
  ASSUME Sure, Secure, SecurityDeliver
  PROVE  Secure'
<1> DEFINE sig == Head(signals)
           r == sig.answer
<1>1. signals # <<>> /\ sig = signals[1] /\ (sig.name = "rawResponse" => 1 \in Reports(signals))
  BY TailHolds DEF SecurityDeliver, Secure
<1>2. CASE sig.name # "rawResponse"
  <2>1. /\ Deliver /\ verdict' = {} /\ UNCHANGED <<waitSeed, waitKey>>
        /\ asked' = (asked /\ sig.name # "disconnected")
    BY <1>2 DEF SecurityDeliver
  <2>2. asked => sig.name # "disconnected"
    <3>1. Says(signals, "disconnected") <=>
            sig.name = "disconnected" \/ Says(Tail(signals), "disconnected")
      BY <1>1, BaseFacts, SaysFacts DEF Secure
    <3> QED
      BY <3>1 DEF Secure, Waiting
  <2>3. asked \in BOOLEAN /\ asked' = asked
    BY <2>1, <2>2 DEF Secure, Waiting
  <2>4. SuccessIsEarned'
    BY <2>1 DEF SuccessIsEarned
  <2>5. /\ Base' /\ Truthful(signals') /\ ready' = ready
        /\ ~Says(signals, "disconnected") => ~Says(signals', "disconnected")
        /\ \A text : OneFrame(text) => OneFrame(text)'
        /\ Alone => Alone'
    BY <2>1, DeliverCalm DEF Secure
  <2>6. Waiting'
    BY <2>1, <2>3, <2>5 DEF Secure, Waiting
  <2> QED
    BY <2>4, <2>5, <2>6 DEF Secure
<1>3. CASE sig.name = "rawResponse"
  <2>1. PICK lucky \in BOOLEAN :
          \/ sig.arg \in Frames /\ HearFrame(r, lucky)
          \/ sig.arg \notin Frames /\ HearOther(r, lucky)
    BY <1>3 DEF SecurityDeliver
  <2>2. asked' = (asked /\ verdict' = {}) /\ asked \in BOOLEAN
    BY <1>3 DEF SecurityDeliver, Secure, Waiting
  <2>3. ASSUME waitSeed > 0 PROVE sig.arg = SeedRequest /\ waitKey = 0
    BY <1>1, <1>3, <2>3 DEF Secure, Waiting, OneFrame
  <2>4. ASSUME waitKey # 0 PROVE sig.arg = KeyFrame
    BY <1>1, <1>3, <2>4 DEF Secure, Waiting, OneFrame
  <2>5. CASE GivesSeed(r, lucky) /\ waitSeed > 0 /\ HearFrame(r, lucky)
    <3>1. /\ waitSeed' = 0 /\ waitKey' = waitSeed /\ verdict' = TakeForVerdict(r, lucky)
          /\ Submit([i \in 1..waitSeed |-> Cmd("Raw", KeyFrame)], Tail(signals))
          /\ UNCHANGED <<pollVars, probeVars>>
      BY <2>5 DEF HearFrame
    <3>2. verdict' = {}
      BY <2>3, <2>5, <3>1 DEF TakeForVerdict
    <3>3. asked' = asked
      BY <2>2, <3>2
    <3> HIDE DEF sig, r
    <3> QED
      BY <1>1, <1>3, <2>5, <3>1, <3>2, <3>3, SeedSecure DEF sig
  <2>6. CASE waitSeed' = 0 /\ waitKey' = 0 /\ Deliver
              /\ verdict' \subseteq TakeForVerdict(r, lucky) \cup {Refused(r)}
    <3>1. SuccessIsEarned'
      <4> SUFFICES ASSUME NEW v \in verdict', v.success
                   PROVE  v.by.ok /\ v.by.to = Cmd("Raw", KeyFrame)
        BY DEF SuccessIsEarned
      <4>1. v # Refused(r)
        BY DEF Refused
      <4>2. v \in TakeForVerdict(r, lucky)
        BY <2>6, <4>1
      <4> QED
        BY <1>1, <1>3, <4>2, VerdictEarned
    <3>2. /\ Base' /\ Truthful(signals') /\ ready' = ready
          /\ ~Says(signals, "disconnected") => ~Says(signals', "disconnected")
      BY <2>6, DeliverCalm DEF Secure
    <3>3. asked' \in BOOLEAN /\ (asked' => asked)
      BY <2>2
    <3>4. Waiting'
      BY <2>6, <3>2, <3>3 DEF Secure, Waiting
    <3> QED
      BY <3>1, <3>2, <3>4 DEF Secure
  <2>7. CASE sig.arg \notin Frames /\ HearOther(r, lucky)
    <3>1. waitSeed = 0 /\ waitKey = 0
      BY <2>3, <2>4, <2>7 DEF Frames, Secure, Waiting
    <3> QED
      BY <2>6, <2>7, <3>1 DEF HearOther
  <2>8. CASE HearFrame(r, lucky) /\ ~(GivesSeed(r, lucky) /\ waitSeed > 0)
    BY <2>6, <2>8 DEF HearFrame
  <2> QED
    BY <2>1, <2>5, <2>7, <2>8
<1> QED
  BY <1>2, <1>3

\* sendSecurityAccessRequest never reports a success that was not earned: whatever else is polled,
\* queried, answered in time or left unanswered during the access, the verdict is the ECU's positive
\* answer to a key.  It says so of a dongle that answers in time or never (Sure) and of a client
\* that, from its request to its result, keeps its link and sends no other raw command (Patient).
\* Without Patient it is false: every listener hears the answers to all raw commands and outlives
\* the link, so that another answer, or that of a later link, may be taken for the verdict
\* (Elm327.cpp:794-843).
THEOREM SuccessEarned == ASSUME Sure, Patient PROVE SecuritySpec => []SuccessIsEarned
<1>1. SecurityInit => Secure
  <2> SUFFICES ASSUME SecurityInit PROVE Secure
    OBVIOUS
  <2>1. TypeOK /\ Phased /\ Matched /\ Straight /\ Len(signals) <= 3
    BY InitType, InitPhased, InitMatched, InitStraight DEF SecurityInit
  <2>2. timeoutOn = FALSE /\ signals = <<>>
    BY DEF SecurityInit, Init
  <2>3. waitSeed = 0 /\ waitKey = 0 /\ asked = FALSE /\ verdict = {}
    BY DEF SecurityInit
  <2>4. Waiting
    <3>1. asked \in BOOLEAN /\ ~asked
      BY <2>3
    <3>2. waitSeed \in Nat /\ waitKey \in Nat /\ ~(waitSeed > 0) /\ ~(waitKey > 0)
      BY <2>3
    <3>3. ~(waitSeed + waitKey > 0)
      BY <2>3
    <3> QED
      BY <3>1, <3>2, <3>3, Zenon DEF Waiting
  <2>5. SuccessIsEarned /\ Truthful(signals)
    BY <2>2, <2>3, MuteFacts DEF SuccessIsEarned
  <2> QED
    BY <2>1, <2>2, <2>4, <2>5 DEF Secure, Base, Timed
<1>2. Secure /\ [SecurityNext]_allVars => Secure'
  <2> SUFFICES ASSUME Secure, [SecurityNext]_allVars PROVE Secure'
    OBVIOUS
  <2>1. CASE UNCHANGED allVars
    <3>1. /\ UNCHANGED <<vars, waitSeed, waitKey, asked, verdict>>
          /\ UNCHANGED <<ready, queue, busy, current, signals>>
      BY <2>1 DEF allVars, securityVars, vars, sessionVars, pipeVars
    <3>2. Base' /\ Truthful(signals')
      BY <3>1, NextBase DEF Secure
    <3>3. Waiting' /\ SuccessIsEarned'
      BY <3>1 DEF Secure, Waiting, SuccessIsEarned, Alone, OneFrame
    <3> QED
      BY <3>2, <3>3 DEF Secure
  <2> QED
    BY <2>1, DeliverSecure, RequestSecure, OtherwiseSecure DEF SecurityNext
<1>3. Secure => SuccessIsEarned
  BY DEF Secure
<1> QED
  BY <1>1, <1>2, <1>3, PTL DEF SecuritySpec
=============================================================================
