----------------------------- MODULE PanelProofs ------------------------------
(***************************************************************************)
(* What ECU Studio's OBD panel guarantees, proved for every number of      *)
(* dialogs: once its slots have run it knows the link and its buttons say  *)
(* so, the acquisitions it shows are the driver's, and drive mode measures. *)
(*                                                                         *)
(* The invariant (Known) says the same while signals are on their way and  *)
(* dialogs are open: of what is then still to be done, only the dialog     *)
(* opened last may be of the present link, and it is known which rest of a *)
(* slot it will run.                                                       *)
(***************************************************************************)
EXTENDS ObdPanel, SequenceTheorems, TLAPS

Losing == told \in {<<"disconnected">>, <<"errorOccurred", "disconnected">>}

\* What the driver has said and the panel has not heard yet.
LinkKnown ==
  /\ phase # "idle" => panel.want
  /\ \/ told = <<>> /\ panel.connected = (phase = "ready")
     \/ told = <<"connected">> /\ phase = "ready" /\ ~panel.connected
     \/ told = <<"errorOccurred">> /\ phase = "idle" /\ ~panel.connected
     \/ Losing /\ phase = "idle"

\* Only the last dialog opened may be of the present link, and no session starts under it.
DialogsKnown ==
  /\ \A i \in 1..Len(dialogs) : i < Len(dialogs) => dialogs[i].old
  /\ \A i \in 1..Len(dialogs) : ~dialogs[i].old =>
       /\ dialogs[i].rest = "disconnected" => ~panel.connected
       /\ ~late /\ ~Losing /\ dialogs[i].rest \in {"datalog", "sniff"} =>
            panel.connected /\ ~panel.validating /\ ~panel.datalog
  /\ panel.validating /\ panel.ticks => Len(dialogs) < MaxDialogs

\* The buttons tell the link, unless a dialog has still to change them.
ButtonsKnown ==
  ~late /\ ~Losing /\ told # <<"connected">> =>
    \/ panel.stopShown = panel.connected /\ panel.toolsOn = panel.connected
    \/ ~panel.connected /\ \E i \in 1..Len(dialogs) :
         dialogs[i].rest = "disconnected" /\ ~dialogs[i].old

AcquisitionsKnown ==
  /\ panel.monitor => phase = "ready"
  /\ ~late =>
       /\ phase # "ready" => panel.polled = "none"
       /\ ~Losing => (panel.validating => panel.connected /\ panel.polled = "tune")
       /\ ~Losing => (panel.datalog => panel.connected /\ panel.polled = "datalog")
       /\ panel.polled # "none" => panel.validating \/ panel.datalog
       /\ panel.monitor => panel.sniff

DriveKnown ==
  told = <<>> /\ panel.driveMode /\ panel.rom /\ ~panel.gained /\ panel.connected =>
    panel.validating \/ \E i \in 1..Len(dialogs) : dialogs[i].rest = "drive"

Known == LinkKnown /\ DialogsKnown /\ ButtonsKnown /\ AcquisitionsKnown /\ DriveKnown

\* scheduleAutoReconnect touches the timer alone.
LEMMA ScheduleKeeps ==
  ASSUME NEW p \in PanelType, NEW q, q = Schedule(p)
  PROVE  /\ q \in PanelType
         /\ q.connected = p.connected /\ q.want = p.want /\ q.driveMode = p.driveMode
         /\ q.rom = p.rom /\ q.gained = p.gained /\ q.validating = p.validating /\ q.ticks = p.ticks
         /\ q.datalog = p.datalog /\ q.sniff = p.sniff /\ q.toolsOn = p.toolsOn
         /\ q.stopShown = p.stopShown /\ q.polled = p.polled /\ q.monitor = p.monitor
<1>1. q \in PanelType
  BY DEF Schedule, PanelType
<1> QED
  BY <1>1 DEF Schedule, PanelType

\* startValidation starts a session on a link with a tune, and ends what was there.
LEMMA SessionStarts ==
  ASSUME NEW p \in PanelType, NEW w \in BOOLEAN, p.connected, p.rom, ~p.validating,
         NEW q, q = StartValidation(p, w)
  PROVE  /\ q \in PanelType
         /\ q.connected = p.connected /\ q.want = p.want /\ q.driveMode = p.driveMode
         /\ q.rom = p.rom /\ q.toolsOn = p.toolsOn /\ q.stopShown = p.stopShown
         /\ q.validating /\ ~q.ticks /\ ~q.datalog /\ ~q.sniff /\ q.polled = "tune"
         /\ q.monitor = (p.monitor /\ ~p.sniff)
<1> DEFINE m == p.monitor /\ ~p.sniff
           c == IF p.driveMode /\ p.csv = "none" /\ w THEN "rows" ELSE p.csv
           t == p.ticked
<1>1. m \in BOOLEAN /\ t \in SUBSET BoxCategories
  BY DEF PanelType
<1>2. c \in {"none", "values", "rows"}
  BY DEF PanelType
<1>3. q = [p EXCEPT !.datalog = FALSE, !.sniff = FALSE, !.monitor = m, !.polled = "tune",
                    !.validating = TRUE, !.ticks = FALSE, !.asked = t, !.changed = FALSE,
                    !.gained = FALSE, !.csv = c]
  BY DEF StartValidation
<1> DEFINE r == [p EXCEPT !.asked = t, !.changed = FALSE, !.gained = FALSE, !.csv = c]
<1>4. q.monitor = m
  BY <1>3 DEF PanelType
<1> HIDE DEF m, c, t
<1>a. r \in PanelType
  BY <1>1, <1>2, ZenonT(60) DEF PanelType
<1>b. /\ r.connected = p.connected /\ r.want = p.want /\ r.driveMode = p.driveMode
      /\ r.rom = p.rom /\ r.toolsOn = p.toolsOn /\ r.stopShown = p.stopShown
  BY ZenonT(60) DEF PanelType
<1>c. q = [r EXCEPT !.datalog = FALSE, !.sniff = FALSE, !.monitor = m, !.polled = "tune",
                    !.validating = TRUE, !.ticks = FALSE]
  BY <1>3 DEF PanelType
<1> HIDE DEF r
<1>5. q \in PanelType
  BY <1>1, <1>a, <1>c, ZenonT(150) DEF PanelType
<1>6. q.connected = p.connected /\ q.want = p.want /\ q.driveMode = p.driveMode
  BY <1>a, <1>b, <1>c, ZenonT(60) DEF PanelType
<1>7. q.rom = p.rom /\ q.toolsOn = p.toolsOn /\ q.stopShown = p.stopShown
  BY <1>a, <1>b, <1>c, ZenonT(60) DEF PanelType
<1>8. q.validating /\ ~q.ticks /\ ~q.datalog /\ ~q.sniff
  BY <1>3 DEF PanelType
<1>9. q.polled = "tune"
  BY <1>3 DEF PanelType
<1> QED
  BY <1>4, <1>5, <1>6, <1>7, <1>8, <1>9 DEF m

LEMMA EndSessionOutcome ==
  ASSUME NEW p \in PanelType, NEW q, q = EndSession(p)
  PROVE  /\ q \in PanelType
         /\ q.connected = p.connected /\ q.want = p.want /\ q.driveMode = p.driveMode
         /\ q.rom = p.rom /\ q.gained = p.gained /\ q.ticks = p.ticks /\ q.datalog = p.datalog /\ q.sniff = p.sniff
         /\ q.toolsOn = p.toolsOn /\ q.stopShown = p.stopShown /\ q.monitor = p.monitor
         /\ ~q.validating /\ q.polled = "none"
<1> DEFINE c == IF p.driveMode THEN "none" ELSE p.csv
<1>1. c \in {"none", "values", "rows"}
  BY DEF PanelType
<1>2. q = [p EXCEPT !.polled = "none", !.validating = FALSE, !.asked = {}, !.changed = FALSE,
                    !.csv = c]
  BY DEF EndSession
<1> HIDE DEF c
<1>3. q \in PanelType
  BY <1>1, <1>2, ZenonT(60) DEF PanelType
<1> QED
  BY <1>2, <1>3 DEF PanelType

LEMMA ClearedOutcome ==
  ASSUME NEW p \in PanelType, NEW q, q = Cleared(p)
  PROVE  /\ q \in PanelType
         /\ q.connected = p.connected /\ q.want = p.want /\ q.driveMode = p.driveMode
         /\ q.rom = p.rom /\ q.gained = p.gained /\ q.validating = p.validating /\ q.ticks = p.ticks
         /\ q.datalog = p.datalog /\ q.sniff = p.sniff /\ q.toolsOn = p.toolsOn
         /\ q.stopShown = p.stopShown
         /\ q.polled = "none" /\ ~q.monitor
<1>1. q \in PanelType
  BY ZenonT(60) DEF Cleared, PanelType
<1> QED
  BY <1>1 DEF Cleared, PanelType

LEMMA AfterDisconnectedOutcome ==
  ASSUME NEW p \in PanelType, NEW q, q = AfterDisconnected(p)
  PROVE  /\ q \in PanelType
         /\ q.connected = p.connected /\ q.want = p.want /\ q.driveMode = p.driveMode
         /\ q.rom = p.rom /\ q.gained = p.gained /\ q.validating = p.validating /\ q.ticks = p.ticks
         /\ q.datalog = p.datalog /\ q.polled = p.polled /\ q.monitor = p.monitor
         /\ ~q.sniff /\ ~q.stopShown /\ ~q.toolsOn
<1> DEFINE r == [p EXCEPT !.sniff = FALSE, !.connectOn = TRUE, !.stopShown = FALSE,
                          !.toolsOn = FALSE, !.valOn = FALSE]
<1>1. r \in PanelType
  BY ZenonT(60) DEF PanelType
<1>2. /\ ~r.sniff /\ ~r.stopShown /\ ~r.toolsOn
      /\ r.connected = p.connected /\ r.want = p.want /\ r.driveMode = p.driveMode
      /\ r.rom = p.rom /\ r.gained = p.gained /\ r.validating = p.validating /\ r.ticks = p.ticks
      /\ r.datalog = p.datalog /\ r.polled = p.polled /\ r.monitor = p.monitor
  BY DEF PanelType
<1>3. q = Schedule(r)
  BY DEF AfterDisconnected
<1> HIDE DEF r
<1> QED
  BY <1>1, <1>2, <1>3, ScheduleKeeps

DialogType == [rest : Rests, old : BOOLEAN]

\* q is p with a session started by startValidation, or p.
Started(p, q) ==
  /\ q \in PanelType
  /\ q.connected = p.connected /\ q.want = p.want /\ q.driveMode = p.driveMode
  /\ q.rom = p.rom /\ q.toolsOn = p.toolsOn /\ q.stopShown = p.stopShown
  /\ \/ q = p
     \/ /\ p.connected /\ p.rom /\ ~p.validating
        /\ q.validating /\ ~q.ticks /\ ~q.datalog /\ ~q.sniff /\ q.polled = "tune"
        /\ q.monitor = (p.monitor /\ ~p.sniff)

LEMMA StartValidationOutcome ==
  ASSUME NEW p \in PanelType, NEW w \in BOOLEAN, NEW q, q = StartValidation(p, w)
  PROVE  Started(p, q) /\ (p.connected /\ p.rom => q.validating)
<1>1. CASE p.connected /\ p.rom /\ ~p.validating
  <2>1. /\ q \in PanelType
        /\ q.connected = p.connected /\ q.want = p.want /\ q.driveMode = p.driveMode
        /\ q.rom = p.rom /\ q.toolsOn = p.toolsOn /\ q.stopShown = p.stopShown
        /\ q.validating /\ ~q.ticks /\ ~q.datalog /\ ~q.sniff /\ q.polled = "tune"
        /\ q.monitor = (p.monitor /\ ~p.sniff)
    <3>1. /\ q \in PanelType
          /\ q.connected = p.connected /\ q.want = p.want /\ q.driveMode = p.driveMode
          /\ q.rom = p.rom /\ q.toolsOn = p.toolsOn /\ q.stopShown = p.stopShown
      BY <1>1, SessionStarts, ZenonT(60)
    <3>2. q.validating /\ ~q.ticks /\ ~q.datalog /\ ~q.sniff /\ q.polled = "tune"
      BY <1>1, SessionStarts
    <3>3. q.monitor = (p.monitor /\ ~p.sniff)
      BY <1>1, SessionStarts
    <3> QED
      BY <3>1, <3>2, <3>3, Zenon
  <2> QED
    BY <1>1, <2>1, Zenon DEF Started
<1>2. CASE ~(p.connected /\ p.rom /\ ~p.validating)
  <2>1. q = p
    BY <1>2 DEF StartValidation
  <2> QED
    BY <1>2, <2>1 DEF Started
<1> QED
  BY <1>1, <1>2

LEMMA TryAutoStartOutcome ==
  ASSUME NEW p \in PanelType, NEW w \in BOOLEAN, NEW q, q = TryAutoStart(p, w)
  PROVE  Started(p, q) /\ (p.driveMode /\ p.connected /\ p.rom => q.validating)
<1>1. CASE p.driveMode
  BY <1>1, StartValidationOutcome DEF TryAutoStart
<1>2. CASE ~p.driveMode
  <2>1. q = p
    BY <1>2 DEF TryAutoStart
  <2> QED
    BY <1>2, <2>1 DEF Started
<1> QED
  BY <1>1, <1>2

LEMMA OutdatedFacts ==
  ASSUME PanelTypeOK
  PROVE  /\ Outdated \in Seq(DialogType) /\ Len(Outdated) = Len(dialogs)
         /\ \A i \in 1..Len(dialogs) : Outdated[i].rest = dialogs[i].rest /\ Outdated[i].old
<1>1. dialogs \in Seq(DialogType) /\ Len(dialogs) \in Nat
  BY DEF PanelTypeOK, DialogType
<1>2. \A i \in 1..Len(dialogs) : dialogs[i] \in DialogType
  BY <1>1
<1>3. \A x \in DialogType : /\ [x EXCEPT !.old = TRUE] \in DialogType
                            /\ [x EXCEPT !.old = TRUE].rest = x.rest
                            /\ [x EXCEPT !.old = TRUE].old
  BY DEF DialogType
<1>4. Outdated \in [1..Len(dialogs) -> DialogType]
  BY <1>2, <1>3 DEF Outdated
<1>5. \A i \in 1..Len(dialogs) : Outdated[i].rest = dialogs[i].rest /\ Outdated[i].old
  BY <1>2, <1>3 DEF Outdated
<1>6. Outdated \in Seq(DialogType)
  BY <1>1, <1>4, SeqDef
<1>7. DOMAIN Outdated = 1..Len(dialogs) /\ DOMAIN Outdated = 1..Len(Outdated)
      /\ Len(Outdated) \in Nat
  BY <1>4, <1>6, LenProperties
<1> HIDE DEF DialogType
<1> QED
  BY <1>1, <1>5, <1>6, <1>7

\* Signals are told one by one, and each leaves what was told after it.
LEMMA ToldFacts ==
  /\ Tail(<<"connected">>) = <<>> /\ Tail(<<"disconnected">>) = <<>>
  /\ Tail(<<"errorOccurred">>) = <<>>
  /\ Tail(<<"errorOccurred", "disconnected">>) = <<"disconnected">>
  /\ Head(<<"connected">>) = "connected" /\ Head(<<"disconnected">>) = "disconnected"
  /\ Head(<<"errorOccurred">>) = "errorOccurred"
  /\ Head(<<"errorOccurred", "disconnected">>) = "errorOccurred"
OBVIOUS

LEMMA ToldApart ==
  /\ <<"connected">> # <<>> /\ <<"disconnected">> # <<>> /\ <<"errorOccurred">> # <<>>
  /\ <<"errorOccurred", "disconnected">> # <<>>
  /\ <<"connected">> # <<"disconnected">> /\ <<"connected">> # <<"errorOccurred">>
  /\ <<"connected">> # <<"errorOccurred", "disconnected">>
  /\ <<"disconnected">> # <<"errorOccurred">>
  /\ <<"disconnected">> # <<"errorOccurred", "disconnected">>
  /\ <<"errorOccurred">> # <<"errorOccurred", "disconnected">>
OBVIOUS

LEMMA PanelFields ==
  ASSUME PanelTypeOK
  PROVE  /\ panel \in PanelType /\ dialogs \in Seq(DialogType) /\ Len(dialogs) \in Nat
         /\ \A i \in 1..Len(dialogs) : dialogs[i] \in DialogType
<1>1. panel \in PanelType /\ dialogs \in Seq(DialogType)
  BY DEF PanelTypeOK, DialogType
<1> HIDE DEF DialogType
<1> QED
  BY <1>1

-----------------------------------------------------------------------------
(* The panel at rest. *)

\* No signal is on its way and no dialog has anything left to do.
Wired(ph, p, lt) ==
  /\ ph # "idle" => p.want
  /\ p.connected = (ph = "ready")
  /\ p.monitor => ph = "ready"
  /\ ~lt =>
       /\ p.stopShown = p.connected /\ p.toolsOn = p.connected
       /\ ph # "ready" => p.polled = "none"
       /\ p.validating => p.connected /\ p.polled = "tune"
       /\ p.datalog => p.connected /\ p.polled = "datalog"
       /\ p.polled # "none" => p.validating \/ p.datalog
       /\ p.monitor => p.sniff

Measuring(p) == p.driveMode /\ p.rom /\ ~p.gained /\ p.connected => p.validating

LEMMA LosingApart ==
  /\ told = <<>> => ~Losing /\ told # <<"connected">>
  /\ told = <<"connected">> => ~Losing
  /\ told = <<"errorOccurred">> => ~Losing /\ told # <<"connected">>
  /\ Losing => told # <<>> /\ told # <<"connected">> /\ told # <<"errorOccurred">>
BY ToldApart, Zenon DEF Losing

LEMMA LosingApartNext ==
  /\ told' = <<>> => ~Losing' /\ told' # <<"connected">>
  /\ told' = <<"connected">> => ~Losing'
  /\ told' = <<"errorOccurred">> => ~Losing' /\ told' # <<"connected">>
  /\ Losing' => told' # <<>> /\ told' # <<"connected">> /\ told' # <<"errorOccurred">>
BY ToldApart, Zenon DEF Losing

LEMMA QuietWired ==
  ASSUME PanelTypeOK, Known, told = <<>>, dialogs = <<>>
  PROVE  Wired(phase, panel, late) /\ Measuring(panel)
<1> DEFINE lost == Losing
           come == told = <<"connected">>
<1>1. ~lost /\ ~come
  BY LosingApart
<1>2. /\ phase # "idle" => panel.want
      /\ panel.connected = (phase = "ready")
  BY ToldApart, <1>1, Zenon DEF Known, LinkKnown
<1>3. 1..Len(dialogs) = {}
  OBVIOUS
<1>4. ~late => panel.stopShown = panel.connected /\ panel.toolsOn = panel.connected
  BY <1>1, <1>3, Zenon DEF Known, ButtonsKnown
<1>5. /\ panel.monitor => phase = "ready"
      /\ ~late =>
           /\ phase # "ready" => panel.polled = "none"
           /\ panel.validating => panel.connected /\ panel.polled = "tune"
           /\ panel.datalog => panel.connected /\ panel.polled = "datalog"
           /\ panel.polled # "none" => panel.validating \/ panel.datalog
           /\ panel.monitor => panel.sniff
  BY <1>1, Zenon DEF Known, AcquisitionsKnown
<1>6. Measuring(panel)
  BY <1>3, Zenon DEF Known, DriveKnown, Measuring
<1> QED
  BY <1>2, <1>4, <1>5, <1>6, Zenon DEF Wired

LEMMA WiredKnown ==
  ASSUME told' = <<>>, dialogs' = <<>>, Wired(phase', panel', late'), Measuring(panel'),
         PanelAssumption
  PROVE  Known'
<1>1. ~Losing' /\ told' # <<"connected">>
  BY LosingApartNext
<1>2. LinkKnown'
  BY Zenon DEF LinkKnown, Wired
<1>3. 1..Len(dialogs') = {} /\ Len(dialogs') = 0
  OBVIOUS
<1>4. DialogsKnown'
  BY <1>3 DEF DialogsKnown, PanelAssumption
<1>5. ButtonsKnown'
  BY Zenon DEF ButtonsKnown, Wired
<1>6. AcquisitionsKnown'
  BY Zenon DEF AcquisitionsKnown, Wired
<1>7. DriveKnown'
  BY Zenon DEF DriveKnown, Measuring
<1> QED
  BY <1>2, <1>4, <1>5, <1>6, <1>7, Zenon DEF Known

\* A dialog is opened by the user, the link being up and its session over.
LEMMA OpenedKnown ==
  ASSUME NEW r \in Rests \ {"disconnected"},
         told' = <<>>, dialogs' = <<[rest |-> r, old |-> FALSE]>>,
         Wired(phase', panel', late'), ~panel'.validating, PanelAssumption,
         r \in {"datalog", "sniff"} /\ ~late' => panel'.connected /\ ~panel'.datalog,
         Measuring(panel') \/ r = "drive"
  PROVE  Known'
<1>1. ~Losing' /\ told' # <<"connected">>
  BY LosingApartNext
<1>2. LinkKnown'
  BY Zenon DEF LinkKnown, Wired
<1>3. /\ 1..Len(dialogs') = {1} /\ Len(dialogs') = 1
      /\ dialogs'[1].rest = r /\ ~dialogs'[1].old
  OBVIOUS
<1>4. DialogsKnown'
  <2>1. \A i \in 1..Len(dialogs') : ~(i < Len(dialogs'))
    BY <1>3
  <2>2. \A i \in 1..Len(dialogs') : ~dialogs'[i].old =>
          /\ dialogs'[i].rest = "disconnected" => ~panel'.connected
          /\ ~late' /\ ~Losing' /\ dialogs'[i].rest \in {"datalog", "sniff"} =>
               panel'.connected /\ ~panel'.validating /\ ~panel'.datalog
    BY <1>3, Zenon
  <2> QED
    BY <2>1, <2>2, Zenon DEF DialogsKnown
<1>5. ButtonsKnown'
  BY Zenon DEF ButtonsKnown, Wired
<1>6. AcquisitionsKnown'
  BY Zenon DEF AcquisitionsKnown, Wired
<1>7. DriveKnown'
  BY <1>3, Zenon DEF DriveKnown, Measuring
<1> QED
  BY <1>2, <1>4, <1>5, <1>6, <1>7, Zenon DEF Known

\* The driver has announced that the link is lost: nothing is polled any more.
LEMMA LostKnown ==
  ASSUME Losing', phase' = "idle", ~panel'.monitor, DialogsKnown',
         ~late' => panel'.polled = "none"
  PROVE  Known'
<1>1. told' # <<>> /\ told' # <<"connected">>
  BY LosingApartNext
<1>2. LinkKnown'
  BY Zenon DEF LinkKnown
<1>3. ButtonsKnown'
  BY Zenon DEF ButtonsKnown
<1>4. AcquisitionsKnown'
  BY Zenon DEF AcquisitionsKnown
<1>5. DriveKnown'
  BY <1>1, Zenon DEF DriveKnown
<1> QED
  BY <1>2, <1>3, <1>4, <1>5, Zenon DEF Known

\* A session that is started leaves the panel in agreement with the driver.
LEMMA StartedWired ==
  ASSUME NEW p \in PanelType, NEW q, Started(p, q), NEW ph, NEW lt, Wired(ph, p, lt)
  PROVE  Wired(ph, q, lt)
<1>1. CASE q = p
  BY <1>1, Zenon
<1>2. CASE /\ p.connected /\ p.rom /\ ~p.validating
           /\ q.validating /\ ~q.ticks /\ ~q.datalog /\ ~q.sniff /\ q.polled = "tune"
           /\ q.monitor = (p.monitor /\ ~p.sniff)
  BY <1>2, Zenon DEF Wired, Started
<1> QED
  BY <1>1, <1>2, Zenon DEF Started

-----------------------------------------------------------------------------
(* The driver. *)

LEMMA ConnectOutcome ==
  ASSUME Elm!Connect, phase # "ready"
  PROVE  /\ told = <<>>
         /\ \/ phase' = "opening" /\ told' = <<>>
            \/ phase' = "idle" /\ told' = <<"errorOccurred">>
<1>1. Elm!Ending = <<>>
  BY DEF Elm!Ending
<1>2. Append(<<>>, "errorOccurred") = <<"errorOccurred">>
  OBVIOUS
<1> QED
  BY <1>1, <1>2, Zenon DEF Elm!Connect

LEMMA DisconnectOutcome ==
  ASSUME Elm!Disconnect
  PROVE  /\ told = <<>> /\ phase' = "idle"
         /\ told' = IF phase = "ready" THEN <<"disconnected">> ELSE <<>>
BY Zenon DEF Elm!Disconnect, Elm!Ending

\* What the agreement of the panel with the driver depends on has not changed.
LEMMA SameKeeps ==
  ASSUME PanelTypeOK, Known, NEW p,
         p.connected = panel.connected, p.want = panel.want,
         p.driveMode = panel.driveMode, p.rom = panel.rom /\ p.gained = panel.gained,
         p.validating = panel.validating, p.ticks = panel.ticks \/ Len(dialogs) < MaxDialogs,
         p.datalog = panel.datalog, p.sniff = panel.sniff, p.toolsOn = panel.toolsOn,
         p.stopShown = panel.stopShown, p.polled = panel.polled, p.monitor = panel.monitor,
         panel' = p, p \in PanelType, UNCHANGED <<phase, told, dialogs, late>>
  PROVE  PanelTypeOK' /\ Known'
<1>1. /\ Losing => Losing'
      /\ Losing' => Losing
      /\ told' = told /\ phase' = phase /\ dialogs' = dialogs /\ late' = late
  BY DEF Losing
<1>2. /\ panel'.connected = panel.connected /\ panel'.want = panel.want
      /\ panel'.driveMode = panel.driveMode /\ panel'.rom = panel.rom /\ panel'.gained = panel.gained
      /\ panel'.validating = panel.validating
      /\ panel'.ticks = panel.ticks \/ Len(dialogs) < MaxDialogs
      /\ panel'.datalog = panel.datalog /\ panel'.sniff = panel.sniff
      /\ panel'.toolsOn = panel.toolsOn /\ panel'.stopShown = panel.stopShown
      /\ panel'.polled = panel.polled /\ panel'.monitor = panel.monitor
  OBVIOUS
<1>3. LinkKnown'
  BY <1>1, <1>2, Zenon DEF Known, LinkKnown
<1>4. DialogsKnown'
  <2>1. panel'.validating /\ panel'.ticks => Len(dialogs) < MaxDialogs
    BY <1>2, Zenon DEF Known, DialogsKnown
  <2> QED
    BY <1>1, <1>2, <2>1, SMTT(30) DEF Known, DialogsKnown
<1>5. ButtonsKnown'
  BY <1>1, <1>2, SMTT(30) DEF Known, ButtonsKnown
<1>6. AcquisitionsKnown'
  BY <1>1, <1>2, SMTT(30) DEF Known, AcquisitionsKnown
<1>7. DriveKnown'
  BY <1>1, <1>2, Zenon DEF Known, DriveKnown
<1> QED
  BY <1>1, <1>3, <1>4, <1>5, <1>6, <1>7, Zenon DEF PanelTypeOK, Known

\* startConnect, the panel not being connected: whatever dialog is over it.
LEMMA StartConnectKeeps ==
  ASSUME PanelTypeOK, Known, NEW p \in PanelType,
         p.connected = panel.connected, p.want = panel.want,
         p.driveMode = panel.driveMode, p.rom = panel.rom /\ p.gained = panel.gained,
         p.validating = panel.validating, p.ticks = panel.ticks,
         p.datalog = panel.datalog, p.sniff = panel.sniff, p.toolsOn = panel.toolsOn,
         p.stopShown = panel.stopShown, p.polled = panel.polled, p.monitor = panel.monitor,
         StartConnect(p), told = <<>>, ~p.connected, UNCHANGED <<dialogs, late>>
  PROVE  PanelTypeOK' /\ Known'
<1>1. CASE panel' = Schedule(p) /\ UNCHANGED <<phase, told>>
  <2>1. /\ panel' \in PanelType
        /\ panel'.connected = p.connected /\ panel'.want = p.want
        /\ panel'.driveMode = p.driveMode /\ panel'.ticks = p.ticks
        /\ panel'.rom = p.rom /\ panel'.gained = p.gained /\ panel'.validating = p.validating
        /\ panel'.datalog = p.datalog /\ panel'.sniff = p.sniff
        /\ panel'.toolsOn = p.toolsOn
        /\ panel'.stopShown = p.stopShown /\ panel'.polled = p.polled
        /\ panel'.monitor = p.monitor
    BY <1>1, ScheduleKeeps
  <2> QED
    BY <1>1, <2>1, SameKeeps
<1>2. CASE Elm!Connect /\ panel' = Cleared([p EXCEPT !.want = TRUE, !.connectOn = FALSE])
  <2> DEFINE r == [p EXCEPT !.want = TRUE, !.connectOn = FALSE]
  <2>1. /\ r \in PanelType
        /\ r.connected = p.connected /\ r.want = TRUE /\ r.validating = p.validating
        /\ r.datalog = p.datalog /\ r.toolsOn = p.toolsOn /\ r.stopShown = p.stopShown
        /\ r.ticks = p.ticks
    BY DEF PanelType
  <2>2. /\ panel' \in PanelType
        /\ panel'.connected = p.connected /\ panel'.want
        /\ panel'.validating = p.validating /\ panel'.datalog = p.datalog
        /\ panel'.toolsOn = p.toolsOn /\ panel'.stopShown = p.stopShown
        /\ panel'.ticks = p.ticks /\ panel'.polled = "none" /\ ~panel'.monitor
    <3>1. panel' = Cleared(r)
      BY <1>2
    <3> HIDE DEF r
    <3> QED
      BY <2>1, <3>1, ClearedOutcome
  <2>3. phase # "ready" /\ ~Losing /\ told # <<"connected">>
    BY LosingApart, ToldApart, Zenon DEF Known, LinkKnown
  <2>4. /\ phase' \in {"idle", "opening"}
        /\ \/ told' = <<>>
           \/ phase' = "idle" /\ told' = <<"errorOccurred">>
    BY <1>2, <2>3, ConnectOutcome, Zenon
  <2>5. ~Losing' /\ told' # <<"connected">>
    BY <2>4, LosingApartNext, Zenon
  <2>6. phase' # "ready" /\ phase' \in {"idle", "opening", "ready"}
    BY <2>4
  <2>7. ~panel'.connected
    BY <2>2
  <2>8. LinkKnown'
    <3>1. p.connected = FALSE
      BY DEF PanelType
    <3>2. panel'.connected = (phase' = "ready")
      BY <2>2, <2>6, <3>1
    <3> QED
      BY <2>2, <2>4, <2>7, <3>2, Zenon DEF LinkKnown
  <2>9. DialogsKnown'
    BY <2>2, <2>3, Zenon DEF Known, DialogsKnown
  <2>10. ButtonsKnown'
    BY <2>2, <2>3, Zenon DEF Known, ButtonsKnown
  <2>11. AcquisitionsKnown'
    BY <2>2, <2>3, <2>6, Zenon DEF Known, AcquisitionsKnown
  <2>12. DriveKnown'
    BY <2>7, Zenon DEF DriveKnown
  <2> QED
    BY <2>2, <2>6, <2>8, <2>9, <2>10, <2>11, <2>12, Zenon DEF PanelTypeOK, Known
<1> QED
  BY <1>1, <1>2 DEF StartConnect

LEMMA ToggleConnectKeeps ==
  ASSUME PanelTypeOK, PanelAssumption, Known, ToggleConnect
  PROVE  PanelTypeOK' /\ Known'
<1>1. /\ told = <<>> /\ dialogs = <<>> /\ dialogs' = <<>> /\ late' = late
      /\ panel \in PanelType
  BY DEF ToggleConnect, AtHand, Quiet, PanelTypeOK
<1>2. Wired(phase, panel, late) /\ Measuring(panel)
  BY <1>1, QuietWired
<1>3. CASE panel.connected \/ panel.want
  <2> DEFINE r == [panel EXCEPT !.want = FALSE, !.timer = FALSE, !.connectOn = TRUE,
                                !.stopShown = FALSE]
  <2>1. Elm!Disconnect /\ panel' = Cleared(r)
    BY <1>3 DEF ToggleConnect
  <2>2. /\ r \in PanelType
        /\ r.connected = panel.connected /\ ~r.stopShown
        /\ r.validating = panel.validating
        /\ r.datalog = panel.datalog /\ r.toolsOn = panel.toolsOn
        /\ r.driveMode = panel.driveMode /\ r.rom = panel.rom /\ r.gained = panel.gained
    BY <1>1, ZenonT(30) DEF PanelType
  <2> HIDE DEF r
  <2>3. /\ panel' \in PanelType
        /\ panel'.connected = panel.connected
        /\ panel'.validating = panel.validating /\ panel'.datalog = panel.datalog
        /\ panel'.toolsOn = panel.toolsOn /\ ~panel'.stopShown
        /\ panel'.polled = "none" /\ ~panel'.monitor
    BY <2>1, <2>2, ClearedOutcome
  <2>4. phase' = "idle" /\ told' = IF phase = "ready" THEN <<"disconnected">> ELSE <<>>
    BY <2>1, DisconnectOutcome
  <2>5. PanelTypeOK'
    BY <1>1, <2>3, <2>4, Zenon DEF PanelTypeOK
  <2>6. 1..Len(dialogs') = {} /\ Len(dialogs') = 0
    BY <1>1
  <2>7. DialogsKnown'
    BY <2>6 DEF DialogsKnown, PanelAssumption
  <2>8. CASE phase = "ready"
    <3>1. Losing'
      BY <2>4, <2>8 DEF Losing
    <3> QED
      BY <2>3, <2>4, <2>5, <2>7, <3>1, LostKnown
  <2>9. CASE phase # "ready"
    <3>1. told' = <<>>
      BY <2>4, <2>9
    <3>2. ~panel'.connected
      BY <1>2, <2>3, <2>9 DEF Wired
    <3>3. Measuring(panel')
      BY <3>2, Zenon DEF Measuring
    <3>4. phase' # "ready"
      BY <2>4
    <3>5. panel.connected = FALSE
      BY <1>2, <2>9 DEF Wired
    <3>6. Wired(phase', panel', late')
      <4>1. ~late => panel'.stopShown = panel'.connected /\ panel'.toolsOn = panel'.connected
        <5>1. ~late => panel.toolsOn = panel.connected
          BY <1>2, Zenon DEF Wired
        <5>2. panel'.stopShown \in BOOLEAN
          BY <2>3 DEF PanelType
        <5> QED
          BY <5>1, <5>2, <2>3, <3>2, <3>5
      <4>2. ~late => ~panel.validating /\ ~panel.datalog
        BY <1>2, <3>5, Zenon DEF Wired
      <4>3. panel'.connected = (phase' = "ready")
        BY <2>3, <3>4, <3>5
      <4> QED
        BY <4>1, <4>2, <4>3, <2>3, <2>4, <1>1, Zenon DEF Wired
    <3> QED
      BY <1>1, <2>5, <3>1, <3>3, <3>6, WiredKnown
  <2> QED
    BY <2>8, <2>9
<1>4. CASE ~(panel.connected \/ panel.want)
  <2>1. StartConnect(panel)
    BY <1>4 DEF ToggleConnect
  <2> QED
    BY <1>1, <1>4, <2>1, StartConnectKeeps
<1> QED
  BY <1>3, <1>4

-----------------------------------------------------------------------------
(* The user, with nothing left to do. *)

\* What a button leaves alone, the link being at rest.
LEMMA ButtonKeeps ==
  ASSUME PanelTypeOK, PanelAssumption, UNCHANGED <<phase, told, dialogs, late>>,
         told = <<>>, dialogs = <<>>, panel' \in PanelType,
         Wired(phase, panel', late), Measuring(panel')
  PROVE  PanelTypeOK' /\ Known'
<1>1. /\ told' = <<>> /\ dialogs' = <<>> /\ phase' = phase /\ late' = late
  OBVIOUS
<1>2. Wired(phase', panel', late')
  BY <1>1, Zenon
<1> QED
  BY <1>1, <1>2, WiredKnown, Zenon DEF PanelTypeOK

\* Members that the agreement of the panel with the driver does not depend on.
LEMMA WiredSame ==
  ASSUME NEW p, NEW q, NEW ph, NEW lt, Wired(ph, p, lt),
         q.connected = p.connected, q.want = p.want, q.validating = p.validating,
         q.datalog = p.datalog, q.sniff = p.sniff, q.toolsOn = p.toolsOn,
         q.stopShown = p.stopShown, q.polled = p.polled, q.monitor = p.monitor
  PROVE  Wired(ph, q, lt)
BY Zenon DEF Wired

LEMMA AutoReconnectKeeps ==
  ASSUME PanelTypeOK, PanelAssumption, Known, OnAutoReconnectToggled
  PROVE  PanelTypeOK' /\ Known'
<1> DEFINE a == ~panel.auto
           p == [panel EXCEPT !.auto = a]
           o == [p EXCEPT !.timer = FALSE]
<1>1. /\ told = <<>> /\ dialogs = <<>> /\ UNCHANGED <<phase, told, dialogs, late>>
      /\ panel \in PanelType
  BY DEF OnAutoReconnectToggled, AtHand, Quiet, PanelTypeOK
<1>2. Wired(phase, panel, late) /\ Measuring(panel)
  BY <1>1, QuietWired
<1>3. p = [panel EXCEPT !.auto = ~@]
  BY <1>1 DEF PanelType
<1>4. panel' \in {o, Schedule(p), p}
  BY <1>3 DEF OnAutoReconnectToggled
<1>5. a \in BOOLEAN
  OBVIOUS
<1> HIDE DEF a
<1>6. /\ p \in PanelType
      /\ p.connected = panel.connected /\ p.want = panel.want
      /\ p.validating = panel.validating /\ p.datalog = panel.datalog
      /\ p.sniff = panel.sniff /\ p.toolsOn = panel.toolsOn
      /\ p.stopShown = panel.stopShown /\ p.polled = panel.polled
      /\ p.monitor = panel.monitor /\ p.driveMode = panel.driveMode /\ p.rom = panel.rom /\ p.gained = panel.gained
  BY <1>1, <1>5, ZenonT(30) DEF PanelType
<1> HIDE DEF p
<1>7. /\ o \in PanelType
      /\ o.connected = p.connected /\ o.want = p.want
      /\ o.validating = p.validating /\ o.datalog = p.datalog
      /\ o.sniff = p.sniff /\ o.toolsOn = p.toolsOn
      /\ o.stopShown = p.stopShown /\ o.polled = p.polled
      /\ o.monitor = p.monitor /\ o.driveMode = p.driveMode /\ o.rom = p.rom /\ o.gained = p.gained
  BY <1>6, ZenonT(30) DEF PanelType
<1> HIDE DEF o
<1>8. /\ panel' \in PanelType
      /\ panel'.connected = p.connected /\ panel'.want = p.want
      /\ panel'.validating = p.validating /\ panel'.datalog = p.datalog
      /\ panel'.sniff = p.sniff /\ panel'.toolsOn = p.toolsOn
      /\ panel'.stopShown = p.stopShown /\ panel'.polled = p.polled
      /\ panel'.monitor = p.monitor /\ panel'.driveMode = p.driveMode /\ panel'.rom = p.rom /\ panel'.gained = p.gained
  <2>1. CASE panel' = o
    BY <1>7, <2>1, Zenon
  <2>2. CASE panel' = Schedule(p)
    BY <1>6, <2>2, ScheduleKeeps
  <2>3. CASE panel' = p
    BY <1>6, <2>3, Zenon
  <2> QED
    BY <1>4, <2>1, <2>2, <2>3
<1>9. Wired(phase, panel', late) /\ Measuring(panel')
  BY <1>2, <1>6, <1>8, Zenon DEF Wired, Measuring
<1> QED
  BY <1>1, <1>8, <1>9, ButtonKeeps

LEMMA WatchedType ==
  ASSUME NEW boxes \in SUBSET BoxCategories, BoxAssumption
  PROVE  Watched(boxes) \in SUBSET BoxCategories
BY DEF Watched, BoxAssumption

\* What the filter of categories leaves alone.
LEMMA FilteredOutcome ==
  ASSUME NEW p \in PanelType, NEW boxes \in SUBSET BoxCategories, BoxAssumption,
         NEW q, q = Filtered(p, boxes)
  PROVE  /\ q \in PanelType
         /\ q.connected = p.connected /\ q.want = p.want /\ q.driveMode = p.driveMode
         /\ q.validating = p.validating /\ q.datalog = p.datalog /\ q.sniff = p.sniff
         /\ q.toolsOn = p.toolsOn /\ q.stopShown = p.stopShown /\ q.polled = p.polled
         /\ q.monitor = p.monitor /\ q.asked = p.asked
         /\ q.ticked = Watched(boxes) \cap p.loaded /\ q.rom = (q.ticked # {})
         /\ q.changed = (p.changed \/ (p.validating
              /\ (q.ticked = {} \/ ~(q.ticked \subseteq p.ticked))))
         /\ q.gained = (q.ticked # {} /\ (p.gained \/ ~(p.validating \/ p.rom)))
<1> DEFINE t == Watched(boxes) \cap p.loaded
           r == t # {}
           c == p.changed \/ (p.validating /\ (t = {} \/ ~(t \subseteq p.ticked)))
           g == t # {} /\ (p.gained \/ ~(p.validating \/ p.rom))
<1>1. t \in SUBSET BoxCategories
  BY WatchedType DEF PanelType
<1>2. r \in BOOLEAN /\ c \in BOOLEAN /\ g \in BOOLEAN
  BY DEF PanelType
<1>3. q = [p EXCEPT !.boxes = boxes, !.ticked = t, !.rom = r, !.changed = c, !.gained = g]
  BY DEF Filtered
<1>4. q.ticked = t
  BY <1>3 DEF PanelType
<1> HIDE DEF r, c, g, t
<1>5. q \in PanelType
  BY <1>1, <1>2, <1>3, ZenonT(60) DEF PanelType
<1>6. /\ q.connected = p.connected /\ q.want = p.want /\ q.driveMode = p.driveMode
      /\ q.validating = p.validating /\ q.datalog = p.datalog /\ q.sniff = p.sniff
  BY <1>3, ZenonT(60) DEF PanelType
<1>7. /\ q.toolsOn = p.toolsOn /\ q.stopShown = p.stopShown /\ q.polled = p.polled
      /\ q.monitor = p.monitor /\ q.asked = p.asked
  BY <1>3, ZenonT(60) DEF PanelType
<1>8. q.rom = r /\ q.changed = c /\ q.gained = g
  BY <1>3, ZenonT(60) DEF PanelType
<1> QED
  BY <1>4, <1>5, <1>6, <1>7, <1>8, Zenon DEF r, c, g, t

\* Rules that come by the boxes alone are told apart.
LEMMA FilteredWired ==
  ASSUME NEW p \in PanelType, NEW boxes \in SUBSET BoxCategories, BoxAssumption,
         NEW ph, NEW lt, Wired(ph, p, lt), Measuring(p), NEW q, q = Filtered(p, boxes)
  PROVE  q \in PanelType /\ Wired(ph, q, lt) /\ Measuring(q)
<1>1. /\ q \in PanelType
      /\ q.connected = p.connected /\ q.want = p.want /\ q.driveMode = p.driveMode
      /\ q.validating = p.validating /\ q.datalog = p.datalog /\ q.sniff = p.sniff
      /\ q.toolsOn = p.toolsOn /\ q.stopShown = p.stopShown /\ q.polled = p.polled
      /\ q.monitor = p.monitor /\ q.rom = (q.ticked # {})
      /\ q.gained = (q.ticked # {} /\ (p.gained \/ ~(p.validating \/ p.rom)))
  BY ONLY BoxAssumption, p \in PanelType, boxes \in SUBSET BoxCategories,
     q = Filtered(p, boxes), FilteredOutcome
<1>2. Wired(ph, q, lt)
  BY <1>1, WiredSame, Zenon
<1>3. Measuring(q)
  BY <1>1, Zenon DEF Measuring
<1> QED
  BY <1>1, <1>2, <1>3, Zenon

\* What loading a tune leaves alone.
LEMMA LoadsOutcome ==
  ASSUME NEW p \in PanelType, NEW found \in SUBSET Watched(p.boxes), NEW q, q = Loads(p, found)
  PROVE  /\ q \in PanelType
         /\ q.connected = p.connected /\ q.want = p.want
         /\ q.validating = p.validating /\ q.datalog = p.datalog
         /\ q.sniff = p.sniff /\ q.toolsOn = p.toolsOn
         /\ q.stopShown = p.stopShown /\ q.polled = p.polled
         /\ q.monitor = p.monitor /\ q.changed = p.validating
<1> DEFINE r == found # {}
           v == r /\ p.connected
           c == p.validating
<1>1. r \in BOOLEAN /\ v \in BOOLEAN /\ c \in BOOLEAN
  BY DEF PanelType
<1>2. found \in SUBSET BoxCategories
  BY BoxAssumption, WatchedType DEF PanelType
<1>3. q = [p EXCEPT !.loaded = found, !.ticked = found, !.rom = r, !.valOn = v, !.changed = c,
                    !.gained = FALSE]
  BY DEF Loads
<1> HIDE DEF v, r, c
<1>4. q \in PanelType
  BY <1>1, <1>2, <1>3, ZenonT(60) DEF PanelType
<1>5. /\ q.connected = p.connected /\ q.want = p.want
      /\ q.validating = p.validating /\ q.datalog = p.datalog
      /\ q.sniff = p.sniff /\ q.toolsOn = p.toolsOn
  BY <1>3, ZenonT(60) DEF PanelType
<1>6. /\ q.stopShown = p.stopShown /\ q.polled = p.polled
      /\ q.monitor = p.monitor /\ q.changed = c
  BY <1>3, ZenonT(60) DEF PanelType
<1> QED
  BY <1>4, <1>5, <1>6, Zenon DEF c

LEMMA CategoryFilterKeeps ==
  ASSUME PanelTypeOK, PanelAssumption, Known, OnCategoryFilterChanged
  PROVE  PanelTypeOK' /\ Known'
<1>1. /\ told = <<>> /\ dialogs = <<>> /\ UNCHANGED <<phase, told, dialogs, late>>
      /\ panel \in PanelType
  BY DEF OnCategoryFilterChanged, TabsAtHand, AtHand, Quiet, PanelTypeOK
<1>2. Wired(phase, panel, late) /\ Measuring(panel)
  BY <1>1, QuietWired
<1>3. PICK boxes \in SUBSET BoxCategories : panel' = Filtered(panel, boxes)
  BY <1>1 DEF OnCategoryFilterChanged, PanelType
<1>4. panel' \in PanelType /\ Wired(phase, panel', late) /\ Measuring(panel')
  BY <1>1, <1>2, <1>3, BoxAssumption, FilteredWired
<1> QED
  BY <1>1, <1>4, ButtonKeeps

\* A rule enabled or disabled changes two members.
LEMMA RuleCellRules ==
  ASSUME panel \in PanelType, OnRuleCellChanged
  PROVE  \E t \in SUBSET BoxCategories, c \in BOOLEAN :
           /\ panel' = [panel EXCEPT !.ticked = t, !.changed = c]
           /\ \/ t \subseteq panel.ticked /\ c = panel.changed
              \/ c = (panel.changed \/ panel.validating)
<1>1. PICK d \in Watched(panel.boxes) \cap panel.loaded :
        panel' = IF d \in panel.ticked THEN [panel EXCEPT !.ticked = @ \ {d}]
                 ELSE [panel EXCEPT !.ticked = @ \cup {d}, !.changed = @ \/ panel.validating]
  BY DEF OnRuleCellChanged
<1>2. d \in BoxCategories /\ panel.ticked \subseteq BoxCategories
      /\ panel.changed \in BOOLEAN /\ panel.validating \in BOOLEAN
  BY DEF PanelType
<1>3. CASE d \in panel.ticked
  <2>1. panel' = [panel EXCEPT !.ticked = panel.ticked \ {d}, !.changed = panel.changed]
    BY <1>1, <1>3 DEF PanelType
  <2>2. panel.ticked \ {d} \in SUBSET BoxCategories /\ panel.ticked \ {d} \subseteq panel.ticked
    BY <1>2
  <2> DEFINE t == panel.ticked \ {d}
  <2>3. panel' = [panel EXCEPT !.ticked = t, !.changed = panel.changed]
        /\ t \in SUBSET BoxCategories /\ t \subseteq panel.ticked
    BY <2>1, <2>2
  <2> HIDE DEF t
  <2> QED
    BY <1>2, <2>3
<1>4. CASE d \notin panel.ticked
  <2>1. panel' = [panel EXCEPT !.ticked = panel.ticked \cup {d},
                               !.changed = panel.changed \/ panel.validating]
    BY <1>1, <1>4 DEF PanelType
  <2>2. /\ panel.ticked \cup {d} \in SUBSET BoxCategories
        /\ (panel.changed \/ panel.validating) \in BOOLEAN
    BY <1>2
  <2> DEFINE t == panel.ticked \cup {d}
             c == panel.changed \/ panel.validating
  <2>3. panel' = [panel EXCEPT !.ticked = t, !.changed = c]
        /\ t \in SUBSET BoxCategories /\ c \in BOOLEAN /\ c = (panel.changed \/ panel.validating)
    BY <2>1, <2>2
  <2> HIDE DEF t, c
  <2> QED
    BY <2>3
<1> QED
  BY <1>3, <1>4

LEMMA RuleCellKeeps ==
  ASSUME PanelTypeOK, PanelAssumption, Known, OnRuleCellChanged
  PROVE  PanelTypeOK' /\ Known'
<1>1. /\ told = <<>> /\ dialogs = <<>> /\ UNCHANGED <<phase, told, dialogs, late>>
      /\ panel \in PanelType
  BY DEF OnRuleCellChanged, TabsAtHand, AtHand, Quiet, PanelTypeOK
<1>2. Wired(phase, panel, late) /\ Measuring(panel)
  BY <1>1, QuietWired
<1>3. PICK t \in SUBSET BoxCategories, c \in BOOLEAN :
        panel' = [panel EXCEPT !.ticked = t, !.changed = c]
  BY <1>1, RuleCellRules
<1>4. /\ panel' \in PanelType
      /\ panel'.connected = panel.connected /\ panel'.want = panel.want
      /\ panel'.driveMode = panel.driveMode /\ panel'.rom = panel.rom
      /\ panel'.gained = panel.gained /\ panel'.validating = panel.validating
  BY <1>1, <1>3, ZenonT(60) DEF PanelType
<1>5. /\ panel'.datalog = panel.datalog /\ panel'.sniff = panel.sniff
      /\ panel'.toolsOn = panel.toolsOn /\ panel'.stopShown = panel.stopShown
      /\ panel'.polled = panel.polled /\ panel'.monitor = panel.monitor
  BY <1>1, <1>3, ZenonT(60) DEF PanelType
<1>6. Wired(phase, panel', late) /\ Measuring(panel')
  BY <1>2, <1>4, <1>5, Zenon DEF Wired, Measuring
<1> QED
  BY <1>1, <1>4, <1>6, ButtonKeeps

LEMMA DriveModeKeeps ==
  ASSUME PanelTypeOK, PanelAssumption, Known, OnDriveModeToggled
  PROVE  PanelTypeOK' /\ Known'
<1> DEFINE d == ~panel.driveMode
           p == [panel EXCEPT !.driveMode = d]
<1>1. /\ told = <<>> /\ dialogs = <<>> /\ UNCHANGED <<phase, told, dialogs, late>>
      /\ panel \in PanelType
  BY DEF OnDriveModeToggled, AtHand, Quiet, PanelTypeOK
<1>2. Wired(phase, panel, late)
  BY <1>1, QuietWired
<1>3. p = [panel EXCEPT !.driveMode = ~@]
  BY <1>1 DEF PanelType
<1>4. PICK w \in BOOLEAN : panel' = TryAutoStart(p, w)
  BY <1>3 DEF OnDriveModeToggled
<1>5. d \in BOOLEAN
  OBVIOUS
<1> HIDE DEF d
<1>6. /\ p \in PanelType
      /\ p.connected = panel.connected /\ p.want = panel.want
      /\ p.validating = panel.validating /\ p.datalog = panel.datalog
      /\ p.sniff = panel.sniff /\ p.toolsOn = panel.toolsOn
      /\ p.stopShown = panel.stopShown /\ p.polled = panel.polled
      /\ p.monitor = panel.monitor /\ p.rom = panel.rom /\ p.gained = panel.gained
  BY <1>1, <1>5, ZenonT(30) DEF PanelType
<1> HIDE DEF p
<1>7. Wired(phase, p, late)
  BY <1>2, <1>6, Zenon DEF Wired
<1>8. Started(p, panel') /\ (p.driveMode /\ p.connected /\ p.rom => panel'.validating)
  BY <1>4, <1>6, TryAutoStartOutcome
<1>9. Wired(phase, panel', late)
  BY <1>6, <1>7, <1>8, StartedWired
<1>10. panel' \in PanelType /\ Measuring(panel')
  BY <1>8, Zenon DEF Started, Measuring
<1> QED
  BY <1>1, <1>9, <1>10, ButtonKeeps

LEMMA RoutePresetKeeps ==
  ASSUME PanelTypeOK, PanelAssumption, Known, ApplyRoutePreset
  PROVE  PanelTypeOK' /\ Known'
<1> DEFINE p == [panel EXCEPT !.driveMode = TRUE, !.auto = TRUE]
<1>1. /\ told = <<>> /\ dialogs = <<>> /\ UNCHANGED <<phase, told, dialogs, late>>
      /\ panel \in PanelType
  BY DEF ApplyRoutePreset, AtHand, Quiet, PanelTypeOK
<1>2. Wired(phase, panel, late) /\ Measuring(panel)
  BY <1>1, QuietWired
<1>3. PICK w \in BOOLEAN :
        \E f \in {IF panel.driveMode THEN p ELSE TryAutoStart(p, w),
                 Schedule(IF panel.driveMode THEN p ELSE TryAutoStart(p, w))} :
          panel' = Filtered(f, RouteCategories)
  BY DEF ApplyRoutePreset
<1>4. /\ p \in PanelType
      /\ p.connected = panel.connected /\ p.want = panel.want
      /\ p.validating = panel.validating /\ p.datalog = panel.datalog
      /\ p.sniff = panel.sniff /\ p.toolsOn = panel.toolsOn
      /\ p.stopShown = panel.stopShown /\ p.polled = panel.polled
      /\ p.monitor = panel.monitor /\ p.rom = panel.rom /\ p.gained = panel.gained
  BY <1>1, ZenonT(30) DEF PanelType
<1> HIDE DEF p
<1>5. Wired(phase, p, late)
  BY <1>2, <1>4, Zenon DEF Wired
<1> DEFINE q == IF panel.driveMode THEN p ELSE TryAutoStart(p, w)
<1>6. q \in PanelType /\ Wired(phase, q, late) /\ Measuring(q)
  <2>1. CASE panel.driveMode
    <3>1. q = p
      BY <2>1
    <3>2. Measuring(p)
      BY <1>2, <1>4, <2>1, Zenon DEF Measuring
    <3> HIDE DEF q
    <3> QED
      BY <1>4, <1>5, <3>1, <3>2, Zenon
  <2>2. CASE ~panel.driveMode
    <3>1. q = TryAutoStart(p, w)
      BY <2>2
    <3> HIDE DEF q
    <3>2. Started(p, q) /\ (p.driveMode /\ p.connected /\ p.rom => q.validating)
      BY <1>4, <3>1, TryAutoStartOutcome
    <3>3. Wired(phase, q, late)
      BY <1>4, <1>5, <3>2, StartedWired
    <3> QED
      BY <3>2, <3>3, Zenon DEF Started, Measuring
  <2> QED
    BY <2>1, <2>2
<1>7. PICK f \in {q, Schedule(q)} : panel' = Filtered(f, RouteCategories)
  BY <1>3
<1> HIDE DEF q
<1>8. f \in PanelType /\ Wired(phase, f, late) /\ Measuring(f)
  <2>1. CASE f = q
    BY <1>6, <2>1, Zenon
  <2>2. CASE f = Schedule(q)
    <3>1. /\ f \in PanelType
          /\ f.connected = q.connected /\ f.want = q.want
          /\ f.driveMode = q.driveMode
          /\ f.rom = q.rom /\ f.gained = q.gained /\ f.validating = q.validating
          /\ f.datalog = q.datalog /\ f.sniff = q.sniff
          /\ f.toolsOn = q.toolsOn
          /\ f.stopShown = q.stopShown /\ f.polled = q.polled
          /\ f.monitor = q.monitor
      BY <1>6, <2>2, ScheduleKeeps
    <3> QED
      BY <1>6, <3>1, Zenon DEF Wired, Measuring
  <2> QED
    BY <1>7, <2>1, <2>2
<1>9. panel' \in PanelType /\ Wired(phase, panel', late) /\ Measuring(panel')
  BY <1>7, <1>8, BoxAssumption, FilteredWired
<1> QED
  BY <1>1, <1>9, ButtonKeeps

LEMMA RefreshKeeps ==
  ASSUME PanelTypeOK, PanelAssumption, Known, RefreshValidatorFromDoc
  PROVE  PanelTypeOK' /\ Known'
<1>1. /\ told = <<>> /\ dialogs = <<>> /\ UNCHANGED <<phase, told, dialogs, late>>
      /\ panel \in PanelType
  BY DEF RefreshValidatorFromDoc, AtHand, Quiet, PanelTypeOK
<1>2. Wired(phase, panel, late)
  BY <1>1, QuietWired
<1>3. PICK found \in SUBSET Watched(panel.boxes), w \in BOOLEAN :
        LET p == Loads(panel, found) IN
        panel' = IF p.rom /\ p.connected THEN TryAutoStart(p, w) ELSE p
  BY DEF RefreshValidatorFromDoc
<1> DEFINE p == Loads(panel, found)
<1>4. panel' = IF p.rom /\ p.connected THEN TryAutoStart(p, w) ELSE p
  BY <1>3
<1>6. /\ p \in PanelType
      /\ p.connected = panel.connected /\ p.want = panel.want
      /\ p.validating = panel.validating /\ p.datalog = panel.datalog
      /\ p.sniff = panel.sniff /\ p.toolsOn = panel.toolsOn
      /\ p.stopShown = panel.stopShown /\ p.polled = panel.polled
      /\ p.monitor = panel.monitor
  BY <1>1, <1>3, LoadsOutcome
<1> HIDE DEF p
<1>7. Wired(phase, p, late)
  BY <1>2, <1>6, Zenon DEF Wired
<1>8. CASE p.rom /\ p.connected
  <2>1. panel' = TryAutoStart(p, w)
    BY <1>4, <1>8
  <2>2. Started(p, panel') /\ (p.driveMode /\ p.connected /\ p.rom => panel'.validating)
    BY <1>6, <2>1, TryAutoStartOutcome
  <2>3. Wired(phase, panel', late)
    BY <1>6, <1>7, <2>2, StartedWired
  <2>4. panel' \in PanelType /\ Measuring(panel')
    BY <2>2, Zenon DEF Started, Measuring
  <2> QED
    BY <1>1, <2>3, <2>4, ButtonKeeps
<1>9. CASE ~(p.rom /\ p.connected)
  <2>1. panel' = p
    BY <1>4, <1>9
  <2>2. Measuring(panel')
    BY <1>6, <1>9, <2>1, Zenon DEF Measuring
  <2> QED
    BY <1>1, <1>6, <1>7, <2>1, <2>2, ButtonKeeps
<1> QED
  BY <1>8, <1>9

-----------------------------------------------------------------------------
(* Sessions that the user stops. *)

\* A session that ends leaves the panel in agreement with the driver.
LEMMA EndSessionWired ==
  ASSUME NEW p \in PanelType, NEW ph, NEW lt, Wired(ph, p, lt), p.validating,
         NEW q, q = EndSession(p)
  PROVE  /\ q \in PanelType /\ Wired(ph, q, lt) /\ ~q.validating
         /\ q.connected = p.connected /\ q.want = p.want /\ q.driveMode = p.driveMode
         /\ q.datalog = p.datalog /\ q.ticks = p.ticks /\ q.rom = p.rom /\ q.gained = p.gained
         /\ ~lt => ~q.datalog
<1>1. /\ q \in PanelType
      /\ q.connected = p.connected /\ q.want = p.want /\ q.driveMode = p.driveMode
      /\ q.rom = p.rom /\ q.gained = p.gained /\ q.ticks = p.ticks /\ q.datalog = p.datalog /\ q.sniff = p.sniff
      /\ q.toolsOn = p.toolsOn /\ q.stopShown = p.stopShown /\ q.monitor = p.monitor
      /\ ~q.validating /\ q.polled = "none"
  BY EndSessionOutcome
<1>2. ~lt => ~q.datalog
  <2>1. ~lt => p.polled = "tune"
    BY Zenon DEF Wired
  <2>2. ~lt => p.polled # "datalog"
    BY <2>1
  <2> QED
    BY <1>1, <2>2, Zenon DEF Wired
<1>3. Wired(ph, q, lt)
  <2>1. ph # "idle" => q.want
    BY <1>1, Zenon DEF Wired
  <2>2. q.connected = (ph = "ready") /\ (q.monitor => ph = "ready")
    BY <1>1, Zenon DEF Wired
  <2>3. ~lt => /\ q.stopShown = q.connected /\ q.toolsOn = q.connected
               /\ q.monitor => q.sniff
    BY <1>1, Zenon DEF Wired
  <2> QED
    BY <1>1, <1>2, <2>1, <2>2, <2>3, Zenon DEF Wired
<1> QED
  BY <1>1, <1>2, <1>3, Zenon

\* The summary of a session that the user stops is open.
LEMMA SummaryOpened ==
  ASSUME PanelTypeOK, PanelAssumption, NEW r \in Rests \ {"disconnected", "csv"},
         told = <<>>, dialogs = <<>>, late' = late,
         NEW p \in PanelType, Wired(phase, p, late), p.validating, p.ticks,
         StopValidationThen(p, r), ~p.driveMode \/ r = "drive",
         p.connected \/ r \notin {"datalog", "sniff"}
  PROVE  PanelTypeOK' /\ Known'
<1>1. /\ dialogs' = Append(dialogs, [rest |-> r, old |-> FALSE])
      /\ panel' = EndSession(p) /\ UNCHANGED <<phase, told>>
  BY DEF StopValidationThen
<1>2. /\ panel' \in PanelType /\ Wired(phase, panel', late) /\ ~panel'.validating
      /\ panel'.connected = p.connected /\ panel'.driveMode = p.driveMode
      /\ ~late => ~panel'.datalog
  BY <1>1, EndSessionWired
<1>3. dialogs' = <<[rest |-> r, old |-> FALSE]>>
  BY <1>1
<1>4. told' = <<>> /\ phase' = phase
  BY <1>1
<1>5. Wired(phase', panel', late')
  BY <1>2, <1>4, Zenon
<1>6. r \in {"datalog", "sniff"} /\ ~late' => panel'.connected /\ ~panel'.datalog
  BY <1>2
<1>7. Measuring(panel') \/ r = "drive"
  BY <1>2, Zenon DEF Measuring
<1>8. Known'
  BY <1>2, <1>3, <1>4, <1>5, <1>6, <1>7, OpenedKnown
<1>9. dialogs' \in Seq([rest : Rests, old : BOOLEAN]) /\ Len(dialogs') = 1
  BY <1>3
<1>10. Len(dialogs') <= MaxDialogs
  BY <1>9 DEF PanelAssumption
<1> QED
  BY <1>2, <1>4, <1>8, <1>9, <1>10, Zenon DEF PanelTypeOK

LEMMA ToggleValidationKeeps ==
  ASSUME PanelTypeOK, PanelAssumption, Known, ToggleValidation
  PROVE  PanelTypeOK' /\ Known'
<1>1. /\ told = <<>> /\ dialogs = <<>> /\ late' = late /\ panel \in PanelType
      /\ ~panel.driveMode
  BY DEF ToggleValidation, TabsAtHand, AtHand, Quiet, PanelTypeOK
<1>2. Wired(phase, panel, late)
  BY <1>1, QuietWired
<1>3. CASE panel.validating /\ panel.ticks
  <2>1. StopValidationThen(panel, "none")
    BY <1>3 DEF ToggleValidation
  <2> QED
    BY <1>1, <1>2, <1>3, <2>1, SummaryOpened DEF Rests
<1>4. CASE panel.validating /\ ~panel.ticks
  <2>1. Resume(EndSession(panel), "none") /\ UNCHANGED dialogs
    BY <1>4 DEF ToggleValidation, StopValidationThen
  <2>2. panel' = EndSession(panel) /\ UNCHANGED <<phase, told>>
    BY <2>1 DEF Resume
  <2>3. panel' \in PanelType /\ Wired(phase, panel', late) /\ ~panel'.driveMode
    BY <1>1, <1>2, <1>4, <2>2, EndSessionWired
  <2>4. Measuring(panel')
    BY <2>3, Zenon DEF Measuring
  <2> QED
    BY <1>1, <2>1, <2>2, <2>3, <2>4, ButtonKeeps
<1>5. CASE ~panel.validating
  <2>1. PICK w \in BOOLEAN : panel' = StartValidation(panel, w)
    BY <1>5 DEF ToggleValidation
  <2>2. UNCHANGED <<phase, told, dialogs>>
    BY <1>5 DEF ToggleValidation
  <2>3. Started(panel, panel')
    BY <1>1, <2>1, StartValidationOutcome
  <2>4. Wired(phase, panel', late)
    BY <1>1, <1>2, <2>3, StartedWired
  <2>5. panel' \in PanelType /\ Measuring(panel')
    BY <1>1, <2>3, Zenon DEF Started, Measuring
  <2> QED
    BY <1>1, <2>2, <2>4, <2>5, ButtonKeeps
<1> QED
  BY <1>3, <1>4, <1>5

LEMMA ToggleDatalogKeeps ==
  ASSUME PanelTypeOK, PanelAssumption, Known, ToggleDatalog
  PROVE  PanelTypeOK' /\ Known'
<1>1. /\ told = <<>> /\ dialogs = <<>> /\ late' = late /\ panel \in PanelType
      /\ ~panel.driveMode /\ panel.connected
  BY DEF ToggleDatalog, TabsAtHand, AtHand, Quiet, PanelTypeOK
<1>2. Wired(phase, panel, late)
  BY <1>1, QuietWired
<1>3. CASE panel.datalog
  <2>1. /\ panel' = [panel EXCEPT !.polled = "none", !.datalog = FALSE]
        /\ UNCHANGED <<phase, told, dialogs>>
    BY <1>3 DEF ToggleDatalog
  <2>2. /\ panel' \in PanelType
        /\ panel'.connected = panel.connected /\ panel'.want = panel.want
        /\ panel'.validating = panel.validating /\ ~panel'.datalog
        /\ panel'.sniff = panel.sniff /\ panel'.toolsOn = panel.toolsOn
        /\ panel'.stopShown = panel.stopShown /\ panel'.polled = "none"
        /\ panel'.monitor = panel.monitor /\ panel'.driveMode = panel.driveMode
    BY <1>1, <2>1, ZenonT(30) DEF PanelType
  <2>3. ~late => ~panel.validating
    <3>1. ~late => panel.polled = "datalog"
      BY <1>2, <1>3, Zenon DEF Wired
    <3>2. ~late => panel.polled # "tune"
      BY <3>1
    <3> QED
      BY <1>2, <3>2, Zenon DEF Wired
  <2>4. Wired(phase, panel', late) /\ Measuring(panel')
    BY <1>1, <1>2, <2>2, <2>3, Zenon DEF Wired, Measuring
  <2> QED
    BY <1>1, <2>1, <2>2, <2>4, ButtonKeeps
<1>4. CASE ~panel.datalog
  <2>1. StopValidationThen(panel, "datalog")
    BY <1>4 DEF ToggleDatalog
  <2>2. CASE panel.validating /\ panel.ticks
    BY <1>1, <1>2, <2>1, <2>2, SummaryOpened DEF Rests
  <2>3. CASE ~(panel.validating /\ panel.ticks)
    <3> DEFINE r == IF panel.validating THEN EndSession(panel) ELSE panel
    <3>1. Resume(r, "datalog") /\ UNCHANGED dialogs
      BY <2>1, <2>3 DEF StopValidationThen
    <3>2. /\ r \in PanelType /\ Wired(phase, r, late) /\ ~r.validating
          /\ r.connected /\ r.want = panel.want /\ ~r.driveMode
      <4>1. CASE panel.validating
        <5>1. r = EndSession(panel)
          BY <4>1
        <5> HIDE DEF r
        <5> QED
          BY <1>1, <1>2, <4>1, <5>1, EndSessionWired
      <4>2. CASE ~panel.validating
        <5>1. r = panel
          BY <4>2
        <5> HIDE DEF r
        <5> QED
          BY <1>1, <1>2, <4>2, <5>1
      <4> QED
        BY <4>1, <4>2
    <3> HIDE DEF r
    <3>3. /\ panel' = [r EXCEPT !.polled = "datalog", !.datalog = TRUE]
          /\ UNCHANGED <<phase, told>>
      BY <3>1 DEF Resume
    <3>4. /\ panel' \in PanelType
          /\ panel'.connected = r.connected /\ panel'.want = r.want
          /\ panel'.validating = r.validating /\ panel'.datalog
          /\ panel'.sniff = r.sniff /\ panel'.toolsOn = r.toolsOn
          /\ panel'.stopShown = r.stopShown /\ panel'.polled = "datalog"
          /\ panel'.monitor = r.monitor /\ panel'.driveMode = r.driveMode
      BY <3>2, <3>3, ZenonT(30) DEF PanelType
    <3>5. phase = "ready"
      BY <3>2 DEF Wired
    <3>6. Wired(phase, panel', late) /\ Measuring(panel')
      BY <3>2, <3>4, <3>5, Zenon DEF Wired, Measuring
    <3> QED
      BY <1>1, <3>1, <3>3, <3>4, <3>6, ButtonKeeps
  <2> QED
    BY <2>2, <2>3
<1> QED
  BY <1>3, <1>4

LEMMA ToggleCanSniffKeeps ==
  ASSUME PanelTypeOK, PanelAssumption, Known, ToggleCanSniff
  PROVE  PanelTypeOK' /\ Known'
<1>1. /\ told = <<>> /\ dialogs = <<>> /\ late' = late /\ panel \in PanelType
      /\ ~panel.driveMode /\ panel.connected
  BY DEF ToggleCanSniff, TabsAtHand, AtHand, Quiet, PanelTypeOK
<1>2. Wired(phase, panel, late)
  BY <1>1, QuietWired
<1>3. CASE panel.sniff
  <2>1. /\ panel' = [panel EXCEPT !.monitor = FALSE, !.sniff = FALSE]
        /\ UNCHANGED <<phase, told, dialogs>>
    BY <1>3 DEF ToggleCanSniff
  <2>2. /\ panel' \in PanelType
        /\ panel'.connected = panel.connected /\ panel'.want = panel.want
        /\ panel'.validating = panel.validating /\ panel'.datalog = panel.datalog
        /\ ~panel'.sniff /\ panel'.toolsOn = panel.toolsOn
        /\ panel'.stopShown = panel.stopShown /\ panel'.polled = panel.polled
        /\ ~panel'.monitor /\ panel'.driveMode = panel.driveMode
    BY <1>1, <2>1, ZenonT(30) DEF PanelType
  <2>3. Wired(phase, panel', late) /\ Measuring(panel')
    BY <1>1, <1>2, <2>2, Zenon DEF Wired, Measuring
  <2> QED
    BY <1>1, <2>1, <2>2, <2>3, ButtonKeeps
<1>4. CASE ~panel.sniff
  <2> DEFINE s == [panel EXCEPT !.polled = "none", !.datalog = FALSE]
             p == IF panel.datalog THEN s ELSE panel
  <2>1. StopValidationThen(p, "sniff")
    BY <1>4 DEF ToggleCanSniff
  <2>2. /\ s \in PanelType
        /\ s.connected = panel.connected /\ s.want = panel.want
        /\ s.validating = panel.validating /\ ~s.datalog
        /\ s.sniff = panel.sniff /\ s.toolsOn = panel.toolsOn
        /\ s.stopShown = panel.stopShown /\ s.polled = "none"
        /\ s.monitor = panel.monitor /\ s.driveMode = panel.driveMode
    BY <1>1, ZenonT(30) DEF PanelType
  <2>3. p = IF panel.datalog THEN s ELSE panel
    OBVIOUS
  <2> HIDE DEF s, p
  <2>4. /\ p \in PanelType /\ Wired(phase, p, late)
        /\ p.connected /\ ~p.driveMode /\ ~p.datalog
    <3>1. CASE panel.datalog
      <4>1. ~late => ~panel.validating
        <5>1. ~late => panel.polled = "datalog"
          BY <1>2, <3>1, Zenon DEF Wired
        <5>2. ~late => panel.polled # "tune"
          BY <5>1
        <5> QED
          BY <1>2, <5>2, Zenon DEF Wired
      <4>2. Wired(phase, s, late)
        BY <1>1, <1>2, <2>2, <4>1, Zenon DEF Wired
      <4> QED
        BY <1>1, <2>2, <2>3, <3>1, <4>2
    <3>2. CASE ~panel.datalog
      BY <1>1, <1>2, <2>3, <3>2
    <3> QED
      BY <3>1, <3>2
  <2>5. CASE p.validating /\ p.ticks
    BY <1>1, <2>1, <2>4, <2>5, SummaryOpened DEF Rests
  <2>6. CASE ~(p.validating /\ p.ticks)
    <3> DEFINE r == IF p.validating THEN EndSession(p) ELSE p
    <3>1. Resume(r, "sniff") /\ UNCHANGED dialogs
      BY <2>1, <2>6 DEF StopValidationThen
    <3>2. /\ r \in PanelType /\ Wired(phase, r, late) /\ ~r.validating /\ ~r.datalog
          /\ r.connected /\ ~r.driveMode
      <4>1. CASE p.validating
        <5>1. r = EndSession(p)
          BY <4>1
        <5> HIDE DEF r
        <5> QED
          BY <2>4, <4>1, <5>1, EndSessionWired
      <4>2. CASE ~p.validating
        <5>1. r = p
          BY <4>2
        <5> HIDE DEF r
        <5> QED
          BY <2>4, <4>2, <5>1
      <4> QED
        BY <4>1, <4>2
    <3> HIDE DEF r
    <3>3. phase = "ready"
      BY <3>2 DEF Wired
    <3>4. /\ panel' = [r EXCEPT !.sniff = TRUE, !.monitor = TRUE, !.polled = "none"]
          /\ UNCHANGED <<phase, told>>
      BY <3>1, <3>3 DEF Resume
    <3>5. /\ panel' \in PanelType
          /\ panel'.connected = r.connected /\ panel'.want = r.want
          /\ panel'.validating = r.validating /\ panel'.datalog = r.datalog
          /\ panel'.sniff /\ panel'.toolsOn = r.toolsOn
          /\ panel'.stopShown = r.stopShown /\ panel'.polled = "none"
          /\ panel'.monitor /\ panel'.driveMode = r.driveMode
      BY <3>2, <3>4, ZenonT(30) DEF PanelType
    <3>6. Wired(phase, panel', late) /\ Measuring(panel')
      BY <3>2, <3>3, <3>5, Zenon DEF Wired, Measuring
    <3> QED
      BY <1>1, <3>1, <3>4, <3>5, <3>6, ButtonKeeps
  <2> QED
    BY <2>5, <2>6
<1> QED
  BY <1>3, <1>4

LEMMA DriveSessionKeeps ==
  ASSUME PanelTypeOK, PanelAssumption, Known, OnDriveSessionClicked
  PROVE  PanelTypeOK' /\ Known'
<1>1. /\ told = <<>> /\ dialogs = <<>> /\ late' = late /\ panel \in PanelType
      /\ panel.driveMode
  BY DEF OnDriveSessionClicked, AtHand, Quiet, PanelTypeOK
<1>2. Wired(phase, panel, late) /\ Measuring(panel)
  BY <1>1, QuietWired
<1>3. CASE panel.validating /\ panel.ticks
  <2>1. StopValidationThen(panel, "drive")
    BY <1>3 DEF OnDriveSessionClicked
  <2> QED
    BY <1>1, <1>2, <1>3, <2>1, SummaryOpened DEF Rests
<1>4. CASE panel.validating /\ ~panel.ticks
  <2> DEFINE r == EndSession(panel)
  <2>1. Resume(r, "drive") /\ UNCHANGED dialogs
    BY <1>4 DEF OnDriveSessionClicked, StopValidationThen
  <2> HIDE DEF r
  <2>2. /\ r \in PanelType /\ Wired(phase, r, late) /\ ~r.validating
        /\ r.connected = panel.connected
    BY <1>1, <1>2, <1>4, EndSessionWired DEF r
  <2>3. CASE r.connected /\ r.want
    <3> DEFINE t == [r EXCEPT !.want = FALSE]
    <3>1. panel' = Cleared(t) /\ Elm!Disconnect
      BY <2>1, <2>3 DEF Resume
    <3>2. t \in PanelType
      BY <2>2, ZenonT(30) DEF PanelType
    <3> HIDE DEF t
    <3>3. panel' \in PanelType /\ panel'.polled = "none" /\ ~panel'.monitor
      BY <3>1, <3>2, ClearedOutcome
    <3>4. phase = "ready"
      BY <2>2, <2>3 DEF Wired
    <3>5. phase' = "idle" /\ Losing'
      BY <3>1, <3>4, DisconnectOutcome DEF Losing
    <3>6. dialogs' = <<>> /\ 1..Len(dialogs') = {} /\ Len(dialogs') = 0
      BY <1>1, <2>1
    <3>7. DialogsKnown'
      BY <3>6 DEF DialogsKnown, PanelAssumption
    <3>8. Known'
      BY <3>3, <3>5, <3>7, LostKnown
    <3> QED
      BY <1>1, <2>1, <3>3, <3>5, <3>8, Zenon DEF PanelTypeOK
  <2>4. CASE ~(r.connected /\ r.want)
    <3>1. panel' = r /\ UNCHANGED <<phase, told>>
      BY <2>1, <2>4 DEF Resume
    <3>2. ~r.connected
      BY <2>2, <2>4 DEF Wired
    <3>3. Measuring(panel')
      BY <3>1, <3>2, Zenon DEF Measuring
    <3> QED
      BY <1>1, <2>1, <2>2, <3>1, <3>3, ButtonKeeps
  <2> QED
    BY <2>3, <2>4
<1>5. CASE ~panel.validating /\ ~panel.connected
  <2>1. StartConnect(panel) /\ UNCHANGED dialogs
    BY <1>5 DEF OnDriveSessionClicked
  <2> QED
    BY <1>1, <1>5, <2>1, StartConnectKeeps
<1>6. CASE ~panel.validating /\ panel.connected
  <2>1. PICK w \in BOOLEAN : panel' = TryAutoStart(panel, w)
    BY <1>6 DEF OnDriveSessionClicked
  <2>2. UNCHANGED <<phase, told, dialogs>>
    BY <1>6 DEF OnDriveSessionClicked
  <2>3. /\ Started(panel, panel')
        /\ panel.driveMode /\ panel.connected /\ panel.rom => panel'.validating
    BY <1>1, <2>1, TryAutoStartOutcome
  <2>4. Wired(phase, panel', late)
    BY <1>1, <1>2, <2>3, StartedWired
  <2>5. panel' \in PanelType /\ Measuring(panel')
    BY <2>3, Zenon DEF Started, Measuring
  <2> QED
    BY <1>1, <2>2, <2>4, <2>5, ButtonKeeps
<1> QED
  BY <1>3, <1>4, <1>5, <1>6

LEMMA ToggleCsvKeeps ==
  ASSUME PanelTypeOK, PanelAssumption, Known, ToggleCsv
  PROVE  PanelTypeOK' /\ Known'
<1>1. /\ told = <<>> /\ dialogs = <<>> /\ late' = late /\ panel \in PanelType
      /\ ~panel.driveMode /\ UNCHANGED <<phase, told, late>>
  BY DEF ToggleCsv, TabsAtHand, AtHand, Quiet, PanelTypeOK
<1>2. Wired(phase, panel, late) /\ Measuring(panel)
  BY <1>1, QuietWired
<1>3. CASE panel.csv # "none"
  <2>1. panel' = [panel EXCEPT !.csv = "none"] /\ UNCHANGED dialogs
    BY <1>3 DEF ToggleCsv
  <2>2. /\ panel' \in PanelType
        /\ panel'.connected = panel.connected /\ panel'.want = panel.want
        /\ panel'.validating = panel.validating /\ panel'.datalog = panel.datalog
        /\ panel'.sniff = panel.sniff /\ panel'.toolsOn = panel.toolsOn
        /\ panel'.stopShown = panel.stopShown /\ panel'.polled = panel.polled
        /\ panel'.monitor = panel.monitor /\ panel'.driveMode = panel.driveMode
        /\ panel'.rom = panel.rom /\ panel'.gained = panel.gained
    BY <1>1, <2>1, ZenonT(30) DEF PanelType
  <2>3. Wired(phase, panel', late) /\ Measuring(panel')
    BY <1>2, <2>2, Zenon DEF Wired, Measuring
  <2> QED
    BY <1>1, <2>1, <2>2, <2>3, ButtonKeeps
<1>4. CASE panel.csv = "none"
  <2>1. /\ dialogs' = <<[rest |-> "csv", old |-> FALSE]>> /\ UNCHANGED panel
    BY <1>4 DEF ToggleCsv
  <2>2. 1..Len(dialogs') = {1} /\ Len(dialogs') = 1
        /\ dialogs'[1].rest = "csv" /\ ~dialogs'[1].old
    BY <2>1
  <2>3. /\ told' = <<>> /\ ~Losing' /\ told' # <<"connected">>
    BY <1>1, LosingApartNext
  <2>4. Wired(phase', panel', late') /\ Measuring(panel')
    BY <1>1, <1>2, <2>1, Zenon
  <2>5. DialogsKnown'
    <3>1. \A i \in 1..Len(dialogs') : ~(i < Len(dialogs'))
      BY <2>2
    <3>2. \A i \in 1..Len(dialogs') : /\ dialogs'[i].rest # "disconnected"
                                      /\ dialogs'[i].rest \notin {"datalog", "sniff"}
      BY <2>2
    <3>3. Len(dialogs') < MaxDialogs
      BY <2>2 DEF PanelAssumption
    <3> QED
      BY <3>1, <3>2, <3>3, Zenon DEF DialogsKnown
  <2>6. LinkKnown' /\ ButtonsKnown' /\ AcquisitionsKnown' /\ DriveKnown'
    BY <2>3, <2>4, Zenon
       DEF LinkKnown, ButtonsKnown, AcquisitionsKnown, DriveKnown, Wired, Measuring
  <2>7. dialogs' \in Seq([rest : Rests, old : BOOLEAN]) /\ Len(dialogs') <= MaxDialogs
    BY <2>1 DEF PanelAssumption, Rests
  <2> QED
    BY <1>1, <2>1, <2>5, <2>6, <2>7, Zenon DEF PanelTypeOK, Known
<1> QED
  BY <1>3, <1>4

-----------------------------------------------------------------------------
(* Signals and timers, whatever dialog is open. *)

LEMMA PidResultKeeps ==
  ASSUME PanelTypeOK, Known, OnPidResult
  PROVE  PanelTypeOK' /\ Known'
<1> DEFINE p == [panel EXCEPT !.ticks = TRUE]
<1>1. panel' = p /\ UNCHANGED <<phase, told, dialogs, late>> /\ Len(dialogs) < MaxDialogs
  BY DEF OnPidResult
<1>2. panel \in PanelType
  BY DEF PanelTypeOK
<1>3. /\ p \in PanelType
      /\ p.connected = panel.connected /\ p.want = panel.want
      /\ p.driveMode = panel.driveMode /\ p.rom = panel.rom /\ p.gained = panel.gained
      /\ p.validating = panel.validating
      /\ p.datalog = panel.datalog /\ p.sniff = panel.sniff /\ p.toolsOn = panel.toolsOn
      /\ p.stopShown = panel.stopShown /\ p.polled = panel.polled
      /\ p.monitor = panel.monitor
  BY <1>2, ZenonT(30) DEF PanelType
<1> HIDE DEF p
<1> QED
  BY <1>1, <1>3, SameKeeps

LEMMA EstablishKeeps ==
  ASSUME PanelTypeOK, Known, DriverEstablishes
  PROVE  PanelTypeOK' /\ Known'
<1>1. /\ told = <<>> /\ phase = "opening" /\ phase' = "ready" /\ told' = <<"connected">>
      /\ UNCHANGED <<panel, dialogs, late>>
  BY DEF DriverEstablishes, Elm!Establish
<1>2. ~Losing /\ ~Losing' /\ told # <<"connected">>
  BY <1>1, LosingApart, LosingApartNext
<1>3. phase # "ready" /\ phase # "idle"
  BY <1>1
<1>4. ~panel.connected /\ panel.want
  BY <1>1, <1>3, ToldApart, Zenon DEF Known, LinkKnown
<1>5. LinkKnown'
  BY <1>1, <1>4, Zenon DEF LinkKnown
<1>6. DialogsKnown'
  BY <1>1, <1>2, SMTT(30) DEF Known, DialogsKnown
<1>7. ButtonsKnown'
  BY <1>1, Zenon DEF ButtonsKnown
<1>8. AcquisitionsKnown'
  BY <1>1, <1>2, <1>3, Zenon DEF Known, AcquisitionsKnown
<1>9. DriveKnown'
  BY <1>1, ToldApart, Zenon DEF DriveKnown
<1> QED
  BY <1>1, <1>5, <1>6, <1>7, <1>8, <1>9, Zenon DEF PanelTypeOK, Known

LEMMA FailKeeps ==
  ASSUME PanelTypeOK, Known, DriverFails
  PROVE  PanelTypeOK' /\ Known'
<1>1. /\ told = <<>> /\ phase \in {"opening", "ready"} /\ phase' = "idle"
      /\ told' = <<"errorOccurred">> \o Elm!Ending
      /\ panel' = Cleared(panel) /\ UNCHANGED <<dialogs, late>> /\ panel \in PanelType
  BY DEF DriverFails, Elm!Fail, PanelTypeOK
<1>2. told' = IF phase = "ready" THEN <<"errorOccurred", "disconnected">>
              ELSE <<"errorOccurred">>
  <2>1. \A a, b : <<a>> \o <<b>> = <<a, b>>
    <3> SUFFICES ASSUME NEW a, NEW b PROVE <<a>> \o <<b>> = <<a, b>>
      OBVIOUS
    <3>1. <<a>> \in Seq({a, b}) /\ <<b>> \in Seq({a, b}) /\ <<a, b>> \in Seq({a, b})
      OBVIOUS
    <3>2. /\ Len(<<a>> \o <<b>>) = 2 /\ (<<a>> \o <<b>>)[1] = a /\ (<<a>> \o <<b>>)[2] = b
          /\ <<a>> \o <<b>> \in Seq({a, b})
      BY <3>1
    <3>3. Len(<<a, b>>) = 2 /\ <<a, b>>[1] = a /\ <<a, b>>[2] = b
      OBVIOUS
    <3> QED
      <4>1. \A i \in 1..2 : i = 1 \/ i = 2
        OBVIOUS
      <4>2. \A i \in 1..Len(<<a, b>>) : (<<a>> \o <<b>>)[i] = <<a, b>>[i]
        BY <3>2, <3>3, <4>1, Zenon
      <4> DEFINE s == <<a>> \o <<b>>
                 t == <<a, b>>
      <4>3. s \in Seq({a, b}) /\ t \in Seq({a, b}) /\ Len(s) = Len(t)
            /\ \A i \in 1..Len(s) : s[i] = t[i]
        BY <3>1, <3>2, <3>3, <4>2, Zenon
      <4> HIDE DEF s, t
      <4>4. s = t
        BY <4>3, SeqEqual
      <4> QED
        BY <4>4 DEF s, t
  <2>2. \A a : <<a>> \o <<>> = <<a>>
    OBVIOUS
  <2> QED
    BY <1>1, <2>1, <2>2, Zenon DEF Elm!Ending
<1>3. /\ panel' \in PanelType
      /\ panel'.connected = panel.connected /\ panel'.want = panel.want
      /\ panel'.driveMode = panel.driveMode
      /\ panel'.rom = panel.rom /\ panel'.gained = panel.gained /\ panel'.validating = panel.validating
      /\ panel'.ticks = panel.ticks
      /\ panel'.datalog = panel.datalog /\ panel'.toolsOn = panel.toolsOn
      /\ panel'.stopShown = panel.stopShown
      /\ panel'.polled = "none" /\ ~panel'.monitor
  BY <1>1, ClearedOutcome
<1>4. ~Losing /\ told # <<"connected">>
  BY <1>1, LosingApart
<1>5. PanelTypeOK'
  BY <1>1, <1>3, Zenon DEF PanelTypeOK
<1>6. CASE phase = "ready"
  <2>1. Losing'
    BY <1>2, <1>6 DEF Losing
  <2>2. DialogsKnown'
    BY <1>1, <1>3, <2>1, SMTT(30) DEF Known, DialogsKnown
  <2> QED
    BY <1>1, <1>3, <1>5, <2>1, <2>2, LostKnown
<1>7. CASE phase # "ready"
  <2>1. told' = <<"errorOccurred">>
    BY <1>2, <1>7
  <2>2. ~Losing' /\ told' # <<"connected">>
    BY <2>1, LosingApartNext
  <2>3. ~panel.connected
    BY <1>1, <1>7, ToldApart, Zenon DEF Known, LinkKnown
  <2>4. LinkKnown'
    BY <1>1, <1>3, <2>1, <2>3, Zenon DEF LinkKnown
  <2>5. DialogsKnown'
    BY <1>1, <1>3, <1>4, SMTT(30) DEF Known, DialogsKnown
  <2>6. ButtonsKnown'
    BY <1>1, <1>3, <1>4, SMTT(30) DEF Known, ButtonsKnown
  <2>7. AcquisitionsKnown'
    BY <1>1, <1>3, <1>4, <2>3, Zenon DEF Known, AcquisitionsKnown
  <2>8. DriveKnown'
    BY <2>1, ToldApart, Zenon DEF DriveKnown
  <2> QED
    BY <1>5, <2>4, <2>5, <2>6, <2>7, <2>8, Zenon DEF Known
<1> QED
  BY <1>6, <1>7

LEMMA TryAutoReconnectKeeps ==
  ASSUME PanelTypeOK, Known, TryAutoReconnect
  PROVE  PanelTypeOK' /\ Known'
<1> DEFINE p == [panel EXCEPT !.timer = FALSE]
<1>1. /\ told = <<>> /\ UNCHANGED <<dialogs, late>> /\ panel \in PanelType
      /\ IF p.auto /\ p.want /\ ~p.connected THEN StartConnect(p)
         ELSE panel' = p /\ UNCHANGED <<phase, told>>
  BY DEF TryAutoReconnect, Quiet, PanelTypeOK
<1>2. /\ p \in PanelType
      /\ p.connected = panel.connected /\ p.want = panel.want
      /\ p.driveMode = panel.driveMode /\ p.rom = panel.rom /\ p.gained = panel.gained
      /\ p.validating = panel.validating /\ p.ticks = panel.ticks
      /\ p.datalog = panel.datalog /\ p.sniff = panel.sniff /\ p.toolsOn = panel.toolsOn
      /\ p.stopShown = panel.stopShown /\ p.polled = panel.polled
      /\ p.monitor = panel.monitor
  BY <1>1, ZenonT(30) DEF PanelType
<1> HIDE DEF p
<1>3. CASE p.auto /\ p.want /\ ~p.connected
  BY <1>1, <1>2, <1>3, StartConnectKeeps
<1>4. CASE ~(p.auto /\ p.want /\ ~p.connected)
  BY <1>1, <1>2, <1>4, SameKeeps
<1> QED
  BY <1>3, <1>4

\* The dialogs that were open are of the past.
LEMMA OutdatedKnown ==
  ASSUME PanelTypeOK, Known, dialogs' = Outdated,
         panel'.validating /\ panel'.ticks => panel.validating /\ panel.ticks
  PROVE  DialogsKnown' /\ dialogs' \in Seq([rest : Rests, old : BOOLEAN])
         /\ Len(dialogs') <= MaxDialogs
         /\ \A i \in 1..Len(dialogs') : dialogs'[i].old
<1>1. /\ Outdated \in Seq(DialogType) /\ Len(Outdated) = Len(dialogs)
      /\ \A i \in 1..Len(dialogs) : Outdated[i].rest = dialogs[i].rest /\ Outdated[i].old
  BY OutdatedFacts
<1>2. \A i \in 1..Len(dialogs') : dialogs'[i].old
  BY <1>1
<1>3. panel'.validating /\ panel'.ticks => Len(dialogs') < MaxDialogs
  BY <1>1, Zenon DEF Known, DialogsKnown
<1>4. DialogsKnown'
  BY <1>2, <1>3, Zenon DEF DialogsKnown
<1>5. Len(dialogs') <= MaxDialogs
  BY <1>1 DEF PanelTypeOK
<1> QED
  BY <1>1, <1>2, <1>4, <1>5, Zenon DEF DialogType

LEMMA ConnectedKeeps ==
  ASSUME PanelTypeOK, Known, OnConnected
  PROVE  PanelTypeOK' /\ Known'
<1> DEFINE p == [panel EXCEPT !.connected = TRUE, !.want = TRUE, !.timer = FALSE,
                              !.connectOn = TRUE, !.stopShown = TRUE, !.toolsOn = TRUE,
                              !.valOn = panel.rom]
<1>1. /\ told # <<>> /\ Head(told) = "connected" /\ told' = Tail(told) /\ phase' = phase
      /\ dialogs' = Outdated /\ late' = late
  BY DEF OnConnected, Hears, Elm!Handle
<1>2. PICK w \in BOOLEAN : panel' = TryAutoStart(p, w)
  BY DEF OnConnected
<1>3. told = <<"connected">> /\ phase = "ready" /\ ~panel.connected
  <2>1. told # <<"errorOccurred">> /\ told # <<"disconnected">>
        /\ told # <<"errorOccurred", "disconnected">>
    BY <1>1, ToldFacts
  <2> QED
    BY <1>1, <2>1, Zenon DEF Known, LinkKnown, Losing
<1>4. told' = <<>> /\ ~Losing' /\ ~Losing
  BY <1>1, <1>3, ToldFacts, LosingApart, LosingApartNext
<1>5. /\ p \in PanelType /\ p.connected /\ p.want /\ p.stopShown = TRUE /\ p.toolsOn = TRUE
      /\ p.connected = TRUE
      /\ p.validating = panel.validating /\ p.ticks = panel.ticks
      /\ p.datalog = panel.datalog /\ p.sniff = panel.sniff
      /\ p.polled = panel.polled /\ p.monitor = panel.monitor
      /\ p.driveMode = panel.driveMode /\ p.rom = panel.rom /\ p.gained = panel.gained
  <2>1. panel \in PanelType /\ panel.rom \in BOOLEAN
    BY DEF PanelTypeOK, PanelType
  <2> QED
    BY <2>1, ZenonT(60) DEF PanelType
<1> HIDE DEF p
<1>6. Wired(phase, p, late)
  <2>1. p.connected = (phase = "ready")
    BY <1>3, <1>5
  <2>2. ~late => ~panel.validating /\ ~panel.datalog
    BY <1>3, <1>4, Zenon DEF Known, AcquisitionsKnown
  <2> QED
    BY <1>3, <1>4, <1>5, <2>1, <2>2, Zenon DEF Wired, Known, AcquisitionsKnown
<1>7. /\ Started(p, panel')
      /\ p.driveMode /\ p.connected /\ p.rom => panel'.validating
  BY <1>2, <1>5, TryAutoStartOutcome
<1>8. Wired(phase', panel', late')
  <2>1. Wired(phase, panel', late)
    BY <1>5, <1>6, <1>7, StartedWired
  <2> QED
    BY <1>1, <2>1, Zenon
<1>9. panel'.validating /\ panel'.ticks => panel.validating /\ panel.ticks
  BY <1>5, <1>7, Zenon DEF Started
<1>10. DialogsKnown' /\ dialogs' \in Seq([rest : Rests, old : BOOLEAN])
       /\ Len(dialogs') <= MaxDialogs
  BY <1>1, <1>9, OutdatedKnown
<1>11. panel' \in PanelType /\ Measuring(panel')
  BY <1>7, Zenon DEF Started, Measuring
<1>12. LinkKnown' /\ ButtonsKnown' /\ AcquisitionsKnown' /\ DriveKnown'
  BY <1>4, <1>8, <1>11, Zenon
     DEF LinkKnown, ButtonsKnown, AcquisitionsKnown, DriveKnown, Wired, Measuring
<1> QED
  BY <1>1, <1>3, <1>10, <1>11, <1>12, Zenon DEF PanelTypeOK, Known

LEMMA ErrorKeeps ==
  ASSUME PanelTypeOK, Known, OnError
  PROVE  PanelTypeOK' /\ Known'
<1> DEFINE wanted == panel.want /\ panel.auto
           p == [panel EXCEPT !.connectOn = TRUE, !.connected = FALSE, !.want = wanted]
<1>1. /\ told # <<>> /\ Head(told) = "errorOccurred" /\ told' = Tail(told)
      /\ UNCHANGED <<phase, dialogs, late>> /\ panel' = Schedule(p) /\ panel \in PanelType
  BY DEF OnError, Hears, Elm!Handle, PanelTypeOK
<1>2. wanted \in BOOLEAN
  OBVIOUS
<1> HIDE DEF wanted
<1>3. /\ p \in PanelType /\ ~p.connected /\ p.connected = FALSE
      /\ p.validating = panel.validating /\ p.ticks = panel.ticks
      /\ p.datalog = panel.datalog /\ p.sniff = panel.sniff
      /\ p.toolsOn = panel.toolsOn /\ p.stopShown = panel.stopShown
      /\ p.polled = panel.polled /\ p.monitor = panel.monitor
  BY <1>1, <1>2, ZenonT(60) DEF PanelType
<1> HIDE DEF p
<1>4. /\ panel' \in PanelType
      /\ panel'.connected = p.connected
      /\ panel'.validating = p.validating /\ panel'.ticks = p.ticks
      /\ panel'.datalog = p.datalog /\ panel'.sniff = p.sniff /\ panel'.toolsOn = p.toolsOn
      /\ panel'.stopShown = p.stopShown /\ panel'.polled = p.polled
      /\ panel'.monitor = p.monitor
  BY <1>1, <1>3, ScheduleKeeps
<1>5. PanelTypeOK'
  BY <1>1, <1>4, Zenon DEF PanelTypeOK
<1>6. \/ told = <<"errorOccurred">> /\ ~panel.connected
      \/ told = <<"errorOccurred", "disconnected">>
  <2>1. told # <<"connected">> /\ told # <<"disconnected">>
    BY <1>1, ToldFacts
  <2> QED
    BY <1>1, <2>1, Zenon DEF Known, LinkKnown, Losing
<1>7. phase = "idle"
  BY <1>6, ToldApart, Zenon DEF Known, LinkKnown
<1>8. phase' # "ready" /\ phase' = "idle" /\ phase # "ready"
  BY <1>1, <1>7
<1>9. CASE told = <<"errorOccurred">> /\ ~panel.connected
  <2>1. told' = <<>> /\ ~Losing /\ ~Losing' /\ told # <<"connected">>
    BY <1>1, <1>9, ToldFacts, LosingApart, LosingApartNext
  <2>2. panel.connected = FALSE
    BY <1>1, <1>9 DEF PanelType
  <2>3. panel'.connected = panel.connected /\ panel'.connected = (phase' = "ready")
    BY <1>3, <1>4, <1>8, <2>2
  <2>4. LinkKnown'
    BY <1>8, <2>1, <2>3, Zenon DEF LinkKnown
  <2>5. DialogsKnown'
    BY <1>1, <1>3, <1>4, <2>1, <2>3, SMTT(30) DEF Known, DialogsKnown
  <2>6. ButtonsKnown'
    BY <1>1, <1>3, <1>4, <2>1, <2>3, SMTT(30) DEF Known, ButtonsKnown
  <2>7. AcquisitionsKnown'
    BY <1>1, <1>3, <1>4, <1>8, <2>1, <2>3, SMTT(30) DEF Known, AcquisitionsKnown
  <2>8. DriveKnown'
    BY <1>3, <1>4, Zenon DEF DriveKnown
  <2> QED
    BY <1>5, <2>4, <2>5, <2>6, <2>7, <2>8, Zenon DEF Known
<1>10. CASE told = <<"errorOccurred", "disconnected">>
  <2>1. told' = <<"disconnected">> /\ Losing' /\ Losing
    BY <1>1, <1>10, ToldFacts DEF Losing
  <2>2. DialogsKnown'
    BY <1>1, <1>3, <1>4, <2>1, SMTT(30) DEF Known, DialogsKnown
  <2>3. ~panel'.monitor /\ (~late' => panel'.polled = "none")
    BY <1>1, <1>3, <1>4, <1>8, Zenon DEF Known, AcquisitionsKnown
  <2> QED
    BY <1>5, <1>8, <2>1, <2>2, <2>3, LostKnown
<1> QED
  BY <1>6, <1>9, <1>10

LEMMA DisconnectedKeeps ==
  ASSUME PanelTypeOK, Known, OnDisconnected
  PROVE  PanelTypeOK' /\ Known'
<1> DEFINE p == [panel EXCEPT !.connected = FALSE, !.datalog = FALSE]
<1>1. /\ told # <<>> /\ Head(told) = "disconnected" /\ told' = Tail(told)
      /\ UNCHANGED <<phase, late>> /\ panel \in PanelType
  BY DEF OnDisconnected, Hears, PanelTypeOK
<1>2. \/ /\ p.validating /\ p.ticks
         /\ dialogs' = Append(Outdated, [rest |-> "disconnected", old |-> FALSE])
         /\ panel' = EndSession(p)
      \/ /\ ~(p.validating /\ p.ticks)
         /\ dialogs' = Outdated
         /\ panel' = AfterDisconnected(IF p.validating THEN EndSession(p) ELSE p)
  BY DEF OnDisconnected
<1>3. /\ p \in PanelType /\ p.connected = FALSE /\ p.datalog = FALSE
      /\ p.validating = panel.validating /\ p.ticks = panel.ticks
      /\ p.sniff = panel.sniff
      /\ p.toolsOn = panel.toolsOn /\ p.stopShown = panel.stopShown
      /\ p.polled = panel.polled /\ p.monitor = panel.monitor
  BY <1>1, ZenonT(60) DEF PanelType
<1> HIDE DEF p
<1>4. told = <<"disconnected">> /\ phase = "idle"
  <2>1. told # <<"connected">> /\ told # <<"errorOccurred">>
        /\ told # <<"errorOccurred", "disconnected">>
    BY <1>1, ToldFacts
  <2> QED
    BY <1>1, <2>1, Zenon DEF Known, LinkKnown, Losing
<1>5. told' = <<>> /\ ~Losing'
  BY <1>1, <1>4, ToldFacts, LosingApartNext
<1>6. phase # "ready" /\ phase' # "ready" /\ phase' = "idle"
  BY <1>1, <1>4
<1>7. ~panel.monitor /\ (~late => panel.polled = "none")
  BY <1>6, Zenon DEF Known, AcquisitionsKnown
<1>8. CASE p.validating /\ p.ticks
  <2>1. /\ dialogs' = Append(Outdated, [rest |-> "disconnected", old |-> FALSE])
        /\ panel' = EndSession(p)
    BY <1>2, <1>8
  <2>2. /\ panel' \in PanelType
        /\ panel'.connected = p.connected /\ panel'.datalog = p.datalog
        /\ panel'.monitor = p.monitor
        /\ ~panel'.validating /\ panel'.polled = "none"
    BY <1>3, <2>1, EndSessionOutcome
  <2>3. Len(dialogs) < MaxDialogs
    BY <1>3, <1>8, Zenon DEF Known, DialogsKnown
  <2>4. /\ Outdated \in Seq(DialogType) /\ Len(Outdated) = Len(dialogs)
        /\ \A i \in 1..Len(dialogs) : Outdated[i].rest = dialogs[i].rest /\ Outdated[i].old
    BY OutdatedFacts
  <2>5. Len(dialogs) \in Nat
    BY PanelFields
  <2>6. [rest |-> "disconnected", old |-> FALSE] \in DialogType
    BY DEF DialogType, Rests
  <2> DEFINE d == [rest |-> "disconnected", old |-> FALSE]
  <2>7. d.rest = "disconnected" /\ ~d.old
    OBVIOUS
  <2> HIDE DEF d, DialogType
  <2>8. /\ dialogs' \in Seq(DialogType) /\ Len(dialogs') = Len(dialogs) + 1
        /\ dialogs'[Len(dialogs) + 1] = d
        /\ \A i \in 1..Len(dialogs) : dialogs'[i] = Outdated[i]
    <3>1. dialogs' = Append(Outdated, d) /\ d \in DialogType
      BY <2>1, <2>6 DEF d
    <3> QED
      BY <3>1, <2>4
  <2>9. \A i \in 1..Len(dialogs') : i < Len(dialogs') => dialogs'[i].old
    BY <2>4, <2>5, <2>8
  <2>10. \A i \in 1..Len(dialogs') : ~dialogs'[i].old => dialogs'[i] = d
    BY <2>4, <2>5, <2>8
  <2>11. DialogsKnown'
    <3>1. \A i \in 1..Len(dialogs') : ~dialogs'[i].old =>
            ~(dialogs'[i].rest \in {"datalog", "sniff"})
      BY <2>7, <2>10
    <3> QED
      BY <1>3, <2>2, <2>9, <3>1, Zenon DEF DialogsKnown
  <2>12. Len(dialogs') <= MaxDialogs
    BY <2>3, <2>5, <2>8, PanelAssumption DEF PanelAssumption
  <2>13. LinkKnown'
    <3>1. panel'.connected = (phase' = "ready")
      BY <1>3, <1>6, <2>2
    <3> QED
      BY <1>5, <1>6, <3>1, Zenon DEF LinkKnown
  <2>14. ButtonsKnown'
    <3>1. Len(dialogs) + 1 \in 1..Len(dialogs')
      BY <2>5, <2>8
    <3>2. \E i \in 1..Len(dialogs') : dialogs'[i].rest = "disconnected" /\ ~dialogs'[i].old
      BY <2>7, <2>8, <3>1, Zenon
    <3> QED
      BY <1>3, <2>2, <3>2, Zenon DEF ButtonsKnown
  <2>15. AcquisitionsKnown'
    BY <1>3, <1>7, <2>2, Zenon DEF AcquisitionsKnown
  <2>16. DriveKnown'
    BY <1>3, <2>2, Zenon DEF DriveKnown
  <2> QED
    BY <1>1, <2>2, <2>8, <2>11, <2>12, <2>13, <2>14, <2>15, <2>16, Zenon
       DEF PanelTypeOK, Known, DialogType
<1>9. CASE ~(p.validating /\ p.ticks)
  <2> DEFINE r == IF p.validating THEN EndSession(p) ELSE p
  <2>1. dialogs' = Outdated /\ panel' = AfterDisconnected(r)
    BY <1>2, <1>9
  <2>2. /\ r \in PanelType
        /\ r.connected = FALSE /\ r.datalog = FALSE /\ r.monitor = panel.monitor
        /\ ~r.validating /\ (r.polled = "none" \/ r.polled = panel.polled)
    <3>1. CASE p.validating
      <4>1. r = EndSession(p)
        BY <3>1
      <4> HIDE DEF r
      <4> QED
        BY <1>3, <4>1, EndSessionOutcome
    <3>2. CASE ~p.validating
      <4>1. r = p
        BY <3>2
      <4> HIDE DEF r
      <4> QED
        BY <1>3, <3>2, <4>1
    <3> QED
      BY <3>1, <3>2
  <2> HIDE DEF r
  <2>3. /\ panel' \in PanelType
        /\ panel'.connected = r.connected
        /\ panel'.validating = r.validating
        /\ panel'.datalog = r.datalog /\ panel'.polled = r.polled
        /\ panel'.monitor = r.monitor
        /\ ~panel'.sniff /\ ~panel'.stopShown /\ ~panel'.toolsOn
    BY <2>1, <2>2, AfterDisconnectedOutcome
  <2>4. ~panel'.validating
    BY <2>2, <2>3
  <2>5. DialogsKnown' /\ dialogs' \in Seq([rest : Rests, old : BOOLEAN])
        /\ Len(dialogs') <= MaxDialogs
    BY <2>1, <2>4, OutdatedKnown
  <2>6. panel'.connected = (phase' = "ready")
    BY <1>6, <2>2, <2>3
  <2>7. LinkKnown'
    BY <1>5, <1>6, <2>6, Zenon DEF LinkKnown
  <2>8. ButtonsKnown'
    <3>1. panel'.stopShown = panel'.connected /\ panel'.toolsOn = panel'.connected
      BY <2>2, <2>3 DEF PanelType
    <3> QED
      BY <3>1, Zenon DEF ButtonsKnown
  <2>9. AcquisitionsKnown'
    BY <1>1, <1>7, <2>2, <2>3, Zenon DEF AcquisitionsKnown
  <2>10. DriveKnown'
    BY <2>2, <2>3, Zenon DEF DriveKnown
  <2> QED
    BY <1>1, <2>3, <2>5, <2>7, <2>8, <2>9, <2>10, Zenon DEF PanelTypeOK, Known
<1> QED
  BY <1>8, <1>9

-----------------------------------------------------------------------------
(* Dialogs. *)

\* A dialog is closed: those under it are of the past.
LEMMA Popped ==
  ASSUME PanelTypeOK, Known, dialogs # <<>>, dialogs' = SubSeq(dialogs, 1, Len(dialogs) - 1)
  PROVE  /\ dialogs' \in Seq([rest : Rests, old : BOOLEAN])
         /\ Len(dialogs') = Len(dialogs) - 1 /\ Len(dialogs') < MaxDialogs
         /\ Len(dialogs) \in 1..Len(dialogs)
         /\ \A i \in 1..Len(dialogs') : i \in 1..Len(dialogs) /\ dialogs'[i] = dialogs[i]
         /\ \A i \in 1..Len(dialogs') : dialogs'[i].old
         /\ \A i \in 1..Len(dialogs) : i \in 1..Len(dialogs') \/ i = Len(dialogs)
         /\ \A i \in 1..Len(dialogs) : ~dialogs[i].old => i = Len(dialogs)
<1> DEFINE n == Len(dialogs)
<1>1. dialogs \in Seq(DialogType) /\ n \in Nat /\ n # 0
  <2>1. dialogs \in Seq(DialogType)
    BY PanelFields
  <2> HIDE DEF DialogType
  <2> QED
    BY <2>1
<1>2. n <= MaxDialogs
  BY DEF PanelTypeOK
<1>3. MaxDialogs \in Nat
  BY PanelAssumption DEF PanelAssumption
<1> HIDE DEF DialogType
<1>4. /\ dialogs' \in Seq(DialogType) /\ Len(dialogs') = n - 1
      /\ \A i \in 1..(n - 1) : dialogs'[i] = dialogs[i]
  <2>1. 1 \in Int /\ n - 1 \in Int /\ dialogs' = SubSeq(dialogs, 1, n - 1)
    BY <1>1
  <2>2. \A i \in 1..(n - 1) : dialogs[i] \in DialogType
    BY <1>1
  <2>3. /\ dialogs' \in Seq(DialogType)
        /\ Len(dialogs') = IF 1 <= n - 1 THEN (n - 1) - 1 + 1 ELSE 0
        /\ \A i \in 1..((n - 1) - 1 + 1) : dialogs'[i] = dialogs[1 + i - 1]
    <3> DEFINE q == SubSeq(dialogs, 1, n - 1)
    <3> HIDE DEF n
    <3>1. /\ q \in Seq(DialogType)
          /\ Len(q) = IF 1 <= n - 1 THEN (n - 1) - 1 + 1 ELSE 0
          /\ \A i \in 1..((n - 1) - 1 + 1) : q[i] = dialogs[1 + i - 1]
      BY <2>1, <2>2, SubSeqProperties
    <3> HIDE DEF q
    <3>2. dialogs' = q
      BY <2>1 DEF q
    <3> QED
      BY <3>1, <3>2, Zenon
  <2> HIDE DEF n
  <2>4. (n - 1) - 1 + 1 = n - 1 /\ \A i \in 1..(n - 1) : 1 + i - 1 = i
    BY <1>1
  <2>5. Len(dialogs') = n - 1
    BY <1>1, <2>3
  <2>6. \A i \in 1..(n - 1) : dialogs'[i] = dialogs[i]
    BY <2>3, <2>4
  <2> QED
    BY <2>3, <2>5, <2>6
<1>5. \A i \in 1..n : i < n => dialogs[i].old
  BY Zenon DEF Known, DialogsKnown
<1> HIDE DEF n
<1>6. n \in 1..n /\ \A i \in 1..(n - 1) : i \in 1..n /\ i < n
  BY <1>1
<1>7. \A i \in 1..n : i \in 1..(n - 1) \/ i = n
  BY <1>1
<1>8. \A i \in 1..n : i < n \/ i = n
  BY <1>1
<1>9. n - 1 < MaxDialogs
  BY <1>1, <1>2, <1>3
<1>10. /\ \A i \in 1..Len(dialogs') : i \in 1..n /\ dialogs'[i] = dialogs[i]
       /\ \A i \in 1..Len(dialogs') : dialogs'[i].old
       /\ \A i \in 1..n : i \in 1..Len(dialogs') \/ i = n
       /\ \A i \in 1..n : ~dialogs[i].old => i = n
  <2>1. \A i \in 1..(n - 1) : dialogs'[i].old
    BY <1>4, <1>5, <1>6, Zenon
  <2> QED
    BY <1>4, <1>5, <1>6, <1>7, <1>8, <2>1, Zenon
<1> QED
  BY <1>4, <1>6, <1>9, <1>10, Zenon DEF n, DialogType

LEMMA PoppedKnown ==
  ASSUME PanelTypeOK, Known, dialogs # <<>>, dialogs' = SubSeq(dialogs, 1, Len(dialogs) - 1)
  PROVE  DialogsKnown'
<1>1. /\ Len(dialogs') < MaxDialogs
      /\ \A i \in 1..Len(dialogs') : dialogs'[i].old
  BY Popped
<1> QED
  BY <1>1, Zenon DEF DialogsKnown

\* The dialog that is closed is not that of a lost link: the buttons tell the link.
LEMMA ButtonsTell ==
  ASSUME PanelTypeOK, Known, told = <<>>, dialogs # <<>>,
         dialogs[Len(dialogs)].rest # "disconnected", ~late
  PROVE  panel.stopShown = panel.connected /\ panel.toolsOn = panel.connected
<1>1. ~Losing /\ told # <<"connected">>
  BY LosingApart
<1>2. \A i \in 1..Len(dialogs) : ~dialogs[i].old => i = Len(dialogs)
  <2>1. Len(dialogs) \in Nat
    BY PanelFields
  <2>2. \A i \in 1..Len(dialogs) : i < Len(dialogs) \/ i = Len(dialogs)
    BY <2>1
  <2> QED
    BY <2>2, Zenon DEF Known, DialogsKnown
<1> QED
  BY <1>1, <1>2, Zenon DEF Known, ButtonsKnown

\* What the rest of a slot may do to the panel without its being at odds with the driver.
LEMMA RestKnown ==
  ASSUME PanelTypeOK, Known, told = <<>>, dialogs # <<>>,
         dialogs' = SubSeq(dialogs, 1, Len(dialogs) - 1),
         UNCHANGED <<phase, told>>, panel' \in PanelType, late' \in BOOLEAN, late => late',
         panel'.connected = panel.connected, panel'.want = panel.want,
         panel'.driveMode = panel.driveMode, panel'.rom = panel.rom,
         panel'.gained = panel.gained, panel'.validating = panel.validating,
         panel'.monitor => phase = "ready",
         ~late' => panel'.stopShown = panel'.connected /\ panel'.toolsOn = panel'.connected,
         ~late' => /\ panel.datalog => panel'.datalog
                   /\ panel'.datalog => panel'.connected /\ panel'.polled = "datalog"
                   /\ panel'.validating => panel'.polled = panel.polled
                   /\ phase # "ready" => panel'.polled = "none"
                   /\ panel'.polled # "none" => panel'.validating \/ panel'.datalog
                   /\ panel'.monitor => panel'.sniff,
         dialogs[Len(dialogs)].rest # "drive" \/ ~panel.connected
  PROVE  PanelTypeOK' /\ Known'
<1>1. /\ dialogs' \in Seq([rest : Rests, old : BOOLEAN])
      /\ Len(dialogs') = Len(dialogs) - 1 /\ Len(dialogs') < MaxDialogs
      /\ \A i \in 1..Len(dialogs') : dialogs'[i] = dialogs[i]
      /\ \A i \in 1..Len(dialogs) : i \in 1..Len(dialogs') \/ i = Len(dialogs)
  BY Popped
<1>2. Len(dialogs') <= MaxDialogs
  BY PanelAssumption, PanelFields, <1>1 DEF PanelAssumption
<1>3. PanelTypeOK'
  BY <1>1, <1>2, Zenon DEF PanelTypeOK
<1>4. ~Losing /\ ~Losing' /\ told' = <<>> /\ phase' = phase
  BY LosingApart, LosingApartNext
<1>5. panel.connected = (phase = "ready") /\ (phase # "idle" => panel.want)
  BY <1>4, ToldApart, Zenon DEF Known, LinkKnown
<1>6. LinkKnown'
  <2>1. panel'.connected = (phase' = "ready")
    BY <1>4, <1>5
  <2>2. phase' # "idle" => panel'.want
    BY <1>4, <1>5
  <2> QED
    BY <1>4, <2>1, <2>2, Zenon DEF LinkKnown
<1>7. DialogsKnown'
  BY PoppedKnown
<1>8. ButtonsKnown'
  BY Zenon DEF ButtonsKnown
<1>9. AcquisitionsKnown'
  <2>1. ~late => (panel.validating => panel.connected /\ panel.polled = "tune")
    BY <1>4, Zenon DEF Known, AcquisitionsKnown
  <2> QED
    BY <1>4, <2>1, Zenon DEF AcquisitionsKnown
<1>10. DriveKnown'
  <2>1. panel.driveMode /\ panel.rom /\ ~panel.gained /\ panel.connected =>
          panel.validating \/ \E i \in 1..Len(dialogs) : dialogs[i].rest = "drive"
    BY Zenon DEF Known, DriveKnown
  <2>2. ASSUME panel.connected, NEW i \in 1..Len(dialogs), dialogs[i].rest = "drive"
        PROVE  \E j \in 1..Len(dialogs') : dialogs'[j].rest = "drive"
    BY <1>1, <2>2, Zenon
  <2> QED
    BY <2>1, <2>2, Zenon DEF DriveKnown
<1> QED
  BY <1>3, <1>6, <1>7, <1>8, <1>9, <1>10, Zenon DEF Known

LEMMA ChooseCsvKeeps ==
  ASSUME PanelTypeOK, Known, ChooseCsv
  PROVE  PanelTypeOK' /\ Known'
<1> DEFINE c == IF panel.validating THEN "rows" ELSE "values"
<1>1. /\ told = <<>> /\ dialogs # <<>> /\ dialogs[Len(dialogs)].rest = "csv"
      /\ panel' = [panel EXCEPT !.csv = c]
      /\ dialogs' = SubSeq(dialogs, 1, Len(dialogs) - 1)
      /\ UNCHANGED <<phase, told, late>> /\ panel \in PanelType /\ late \in BOOLEAN
  BY DEF ChooseCsv, Quiet, PanelTypeOK
<1>2. c \in {"none", "values", "rows"}
  OBVIOUS
<1> HIDE DEF c
<1>3. /\ panel' \in PanelType
      /\ panel'.connected = panel.connected /\ panel'.want = panel.want
      /\ panel'.driveMode = panel.driveMode /\ panel'.rom = panel.rom /\ panel'.gained = panel.gained
      /\ panel'.validating = panel.validating
      /\ panel'.datalog = panel.datalog /\ panel'.sniff = panel.sniff
      /\ panel'.toolsOn = panel.toolsOn
      /\ panel'.stopShown = panel.stopShown /\ panel'.polled = panel.polled
      /\ panel'.monitor = panel.monitor
  BY <1>1, <1>2, ZenonT(60) DEF PanelType
<1>4. dialogs[Len(dialogs)].rest # "disconnected" /\ dialogs[Len(dialogs)].rest # "drive"
  BY <1>1
<1>5. ~late => panel.stopShown = panel.connected /\ panel.toolsOn = panel.connected
  BY <1>1, <1>4, ButtonsTell
<1>6. ~Losing
  BY <1>1, LosingApart
<1>7. /\ panel.monitor => phase = "ready"
      /\ ~late => /\ panel.datalog => panel.connected /\ panel.polled = "datalog"
                  /\ phase # "ready" => panel.polled = "none"
                  /\ panel.polled # "none" => panel.validating \/ panel.datalog
                  /\ panel.monitor => panel.sniff
  BY <1>6, Zenon DEF Known, AcquisitionsKnown
<1>8. late' = late
  BY <1>1
<1>9. panel'.monitor => phase = "ready"
  BY <1>3, <1>7
<1>10. ~late' => /\ panel'.stopShown = panel'.connected /\ panel'.toolsOn = panel'.connected
  BY <1>3, <1>5, <1>8, Zenon
<1>11. ~late' => /\ panel.datalog => panel'.datalog
                 /\ panel'.datalog => panel'.connected /\ panel'.polled = "datalog"
                 /\ panel'.validating => panel'.polled = panel.polled
                 /\ phase # "ready" => panel'.polled = "none"
                 /\ panel'.polled # "none" => panel'.validating \/ panel'.datalog
                 /\ panel'.monitor => panel'.sniff
  BY <1>3, <1>7, <1>8, Zenon
<1> QED
  BY <1>1, <1>3, <1>4, <1>8, <1>9, <1>10, <1>11, RestKnown

LEMMA CloseDialogKeeps ==
  ASSUME PanelTypeOK, Known, CloseDialog
  PROVE  PanelTypeOK' /\ Known'
<1> DEFINE top == dialogs[Len(dialogs)]
<1>1. /\ told = <<>> /\ dialogs # <<>> /\ panel \in PanelType /\ late \in BOOLEAN
      /\ dialogs' = SubSeq(dialogs, 1, Len(dialogs) - 1)
      /\ Resume(panel, top.rest)
      /\ late' = (late \/ (top.old /\ top.rest \notin {"none", "csv"}))
  BY DEF CloseDialog, Quiet, PanelTypeOK
<1>2. top \in DialogType
  <2>1. Len(dialogs) \in 1..Len(dialogs)
    BY <1>1, Popped
  <2> QED
    BY <2>1, PanelFields
<1>3. /\ top.rest \in {"disconnected", "drive", "datalog", "sniff", "none", "csv"}
      /\ top.old \in BOOLEAN
  BY <1>2 DEF DialogType, Rests
<1>4. ~Losing /\ told # <<"connected">>
  BY <1>1, LosingApart
<1>5. panel.connected = (phase = "ready") /\ (phase # "idle" => panel.want)
  BY <1>1, <1>4, ToldApart, Zenon DEF Known, LinkKnown
<1>6. /\ panel.monitor => phase = "ready"
      /\ ~late => /\ panel.datalog => panel.connected /\ panel.polled = "datalog"
                  /\ phase # "ready" => panel.polled = "none"
                  /\ panel.polled # "none" => panel.validating \/ panel.datalog
                  /\ panel.monitor => panel.sniff
  BY <1>4, Zenon DEF Known, AcquisitionsKnown
<1>7. ~top.old /\ ~late =>
        /\ top.rest = "disconnected" => ~panel.connected
        /\ top.rest \in {"datalog", "sniff"} =>
             panel.connected /\ ~panel.validating /\ ~panel.datalog
  <2>1. Len(dialogs) \in 1..Len(dialogs)
    BY <1>1, Popped
  <2> QED
    BY <1>4, <2>1, Zenon DEF Known, DialogsKnown
<1>8. top.rest # "disconnected" /\ ~late =>
        panel.stopShown = panel.connected /\ panel.toolsOn = panel.connected
  BY <1>1, ButtonsTell
<1>9. late' \in BOOLEAN /\ (late => late')
  <2>1. (top.old /\ top.rest \notin {"none", "csv"}) \in BOOLEAN
    OBVIOUS
  <2> QED
    BY <1>1, <2>1
<1>10. ~late' => ~late /\ (top.rest \notin {"none", "csv"} => ~top.old)
  BY <1>1
<1> HIDE DEF top
<1>11. CASE top.rest = "disconnected"
  <2>1. panel' = AfterDisconnected(panel) /\ UNCHANGED <<phase, told>>
    BY <1>1, <1>11 DEF Resume
  <2>2. /\ panel' \in PanelType
        /\ panel'.connected = panel.connected /\ panel'.want = panel.want
        /\ panel'.driveMode = panel.driveMode
        /\ panel'.rom = panel.rom /\ panel'.gained = panel.gained /\ panel'.validating = panel.validating
        /\ panel'.datalog = panel.datalog /\ panel'.polled = panel.polled
        /\ panel'.monitor = panel.monitor
        /\ ~panel'.sniff /\ ~panel'.stopShown /\ ~panel'.toolsOn
    BY <1>1, <2>1, AfterDisconnectedOutcome
  <2>3. ~late' => ~panel.connected
    BY <1>7, <1>10, <1>11
  <2>4. panel'.monitor => phase = "ready"
    BY <1>6, <2>2
  <2>5. ~late' => panel'.stopShown = panel'.connected /\ panel'.toolsOn = panel'.connected
    BY <2>2, <2>3 DEF PanelType
  <2>6. ~late' => ~panel'.monitor
    BY <1>5, <1>6, <2>2, <2>3
  <2>7. ~late' => /\ panel.datalog => panel'.datalog
                  /\ panel'.datalog => panel'.connected /\ panel'.polled = "datalog"
                  /\ panel'.validating => panel'.polled = panel.polled
                  /\ phase # "ready" => panel'.polled = "none"
                  /\ panel'.polled # "none" => panel'.validating \/ panel'.datalog
                  /\ panel'.monitor => panel'.sniff
    BY <1>6, <1>10, <2>2, <2>6, Zenon
  <2>8. dialogs[Len(dialogs)].rest # "drive"
    BY <1>11 DEF top
  <2> QED
    BY <1>1, <1>9, <2>1, <2>2, <2>4, <2>5, <2>7, <2>8, RestKnown
<1>12. CASE top.rest = "drive"
  <2>1. CASE panel.connected /\ panel.want
    <3> DEFINE t == [panel EXCEPT !.want = FALSE]
    <3>1. panel' = Cleared(t) /\ Elm!Disconnect
      BY <1>1, <1>12, <2>1 DEF Resume
    <3>2. t \in PanelType
      BY <1>1, ZenonT(30) DEF PanelType
    <3> HIDE DEF t
    <3>3. panel' \in PanelType /\ panel'.polled = "none" /\ ~panel'.monitor
      BY <3>1, <3>2, ClearedOutcome
    <3>4. phase = "ready"
      BY <1>5, <2>1
    <3>5. phase' = "idle" /\ Losing'
      BY <3>1, <3>4, DisconnectOutcome DEF Losing
    <3>6. DialogsKnown'
      BY <1>1, PoppedKnown
    <3>7. Known'
      BY <3>3, <3>5, <3>6, LostKnown
    <3>8. dialogs' \in Seq([rest : Rests, old : BOOLEAN]) /\ Len(dialogs') < MaxDialogs
          /\ Len(dialogs') = Len(dialogs) - 1
      BY <1>1, Popped
    <3>9. Len(dialogs') <= MaxDialogs
      BY <3>8, PanelAssumption, PanelFields DEF PanelAssumption
    <3> QED
      BY <1>9, <3>3, <3>5, <3>7, <3>8, <3>9, Zenon DEF PanelTypeOK
  <2>2. CASE ~(panel.connected /\ panel.want)
    <3>1. panel' = panel /\ UNCHANGED <<phase, told>>
      BY <1>1, <1>12, <2>2 DEF Resume
    <3>2. ~panel.connected
      BY <1>5, <2>2
    <3>3. top.rest # "disconnected"
      BY <1>12
    <3>4. panel' \in PanelType /\ (panel'.monitor => phase = "ready")
          /\ (~late' => panel'.stopShown = panel'.connected
                        /\ panel'.toolsOn = panel'.connected)
      BY <1>1, <1>6, <1>8, <1>10, <3>1, <3>3, Zenon
    <3>5. ~late' => /\ panel'.datalog => panel'.connected /\ panel'.polled = "datalog"
                    /\ phase # "ready" => panel'.polled = "none"
                    /\ panel'.polled # "none" => panel'.validating \/ panel'.datalog
                    /\ panel'.monitor => panel'.sniff
      BY <1>6, <1>10, <3>1, Zenon
    <3> QED
      BY <1>1, <1>9, <3>1, <3>2, <3>4, <3>5, RestKnown
  <2> QED
    BY <2>1, <2>2
<1>13. CASE top.rest = "datalog"
  <2>1. /\ panel' = [panel EXCEPT !.polled = "datalog", !.datalog = TRUE]
        /\ UNCHANGED <<phase, told>>
    BY <1>1, <1>13 DEF Resume
  <2>2. /\ panel' \in PanelType
        /\ panel'.connected = panel.connected /\ panel'.want = panel.want
        /\ panel'.driveMode = panel.driveMode
        /\ panel'.rom = panel.rom /\ panel'.gained = panel.gained /\ panel'.validating = panel.validating
        /\ panel'.datalog /\ panel'.polled = "datalog"
        /\ panel'.monitor = panel.monitor /\ panel'.sniff = panel.sniff
        /\ panel'.stopShown = panel.stopShown /\ panel'.toolsOn = panel.toolsOn
    BY <1>1, <2>1, ZenonT(60) DEF PanelType
  <2>3. ~late' => panel.connected /\ ~panel.validating /\ phase = "ready"
    BY <1>5, <1>7, <1>10, <1>13
  <2>4. top.rest # "disconnected" /\ top.rest # "drive"
    BY <1>13
  <2>5. /\ panel'.monitor => phase = "ready"
        /\ ~late' => panel'.stopShown = panel'.connected /\ panel'.toolsOn = panel'.connected
    BY <1>6, <1>8, <1>10, <2>2, <2>4, Zenon
  <2>6. ~late' => /\ panel'.connected /\ ~panel'.validating
                  /\ panel'.monitor => panel'.sniff
    BY <1>6, <1>10, <2>2, <2>3, Zenon
  <2>7. dialogs[Len(dialogs)].rest # "drive"
    BY <2>4 DEF top
  <2> QED
    BY <1>1, <1>9, <2>1, <2>2, <2>3, <2>5, <2>6, <2>7, RestKnown
<1>14. CASE top.rest = "sniff"
  <2> DEFINE m == panel.monitor \/ phase = "ready"
             o == IF phase = "ready" THEN "none" ELSE panel.polled
  <2>1. /\ panel' = [panel EXCEPT !.sniff = TRUE, !.monitor = m, !.polled = o]
        /\ UNCHANGED <<phase, told>>
    BY <1>1, <1>14 DEF Resume
  <2>2. m \in BOOLEAN /\ o \in {"none", "datalog", "tune"}
    BY <1>1 DEF PanelType
  <2>3. (m => phase = "ready") /\ (phase = "ready" => o = "none")
    BY <1>6
  <2> HIDE DEF m, o
  <2>4. /\ panel' \in PanelType
        /\ panel'.connected = panel.connected /\ panel'.want = panel.want
        /\ panel'.driveMode = panel.driveMode
        /\ panel'.rom = panel.rom /\ panel'.gained = panel.gained /\ panel'.validating = panel.validating
        /\ panel'.datalog = panel.datalog /\ panel'.polled = o
        /\ panel'.monitor = m /\ panel'.sniff
        /\ panel'.stopShown = panel.stopShown /\ panel'.toolsOn = panel.toolsOn
    BY <1>1, <2>1, <2>2, ZenonT(60) DEF PanelType
  <2>5. ~late' => panel.connected /\ ~panel.validating /\ ~panel.datalog /\ phase = "ready"
    BY <1>5, <1>7, <1>10, <1>14
  <2>6. top.rest # "disconnected" /\ top.rest # "drive"
    BY <1>14
  <2>7. panel'.monitor => phase = "ready"
    BY <2>3, <2>4
  <2>8. ~late' => panel'.stopShown = panel'.connected /\ panel'.toolsOn = panel'.connected
    BY <1>8, <1>10, <2>4, <2>6, Zenon
  <2>9. ~late' => /\ ~panel'.validating /\ ~panel'.datalog /\ panel'.polled = "none"
    BY <2>3, <2>4, <2>5
  <2>10. dialogs[Len(dialogs)].rest # "drive"
    BY <2>6 DEF top
  <2> QED
    BY <1>1, <1>9, <2>1, <2>4, <2>5, <2>7, <2>8, <2>9, <2>10, RestKnown
<1>15. CASE top.rest \in {"none", "csv"}
  <2>1. panel' = panel /\ UNCHANGED <<phase, told>>
    BY <1>1, <1>15 DEF Resume
  <2>2. top.rest # "disconnected" /\ top.rest # "drive"
    BY <1>15
  <2>3. panel' \in PanelType /\ (panel'.monitor => phase = "ready")
        /\ (~late' => panel'.stopShown = panel'.connected
                      /\ panel'.toolsOn = panel'.connected)
    BY <1>1, <1>6, <1>8, <1>10, <2>1, <2>2, Zenon
  <2>4. ~late' => /\ panel'.datalog => panel'.connected /\ panel'.polled = "datalog"
                  /\ phase # "ready" => panel'.polled = "none"
                  /\ panel'.polled # "none" => panel'.validating \/ panel'.datalog
                  /\ panel'.monitor => panel'.sniff
    BY <1>6, <1>10, <2>1, Zenon
  <2>5. dialogs[Len(dialogs)].rest # "drive"
    BY <2>2 DEF top
  <2> QED
    BY <1>1, <1>9, <2>1, <2>3, <2>4, <2>5, RestKnown
<1> QED
  BY <1>3, <1>11, <1>12, <1>13, <1>14, <1>15, Zenon

LEMMA PanelBegins ==
  ASSUME PanelInit
  PROVE  PanelTypeOK /\ Known
<1>1. phase = "idle" /\ told = <<>> /\ dialogs = <<>> /\ late = FALSE
  BY DEF PanelInit, Elm!Init
<1>2. PICK auto \in BOOLEAN, driveMode \in BOOLEAN, boxes \in SUBSET BoxCategories :
       panel = [connected |-> FALSE, want |-> FALSE, auto |-> auto, timer |-> FALSE,
                driveMode |-> driveMode, rom |-> FALSE, validating |-> FALSE, ticks |-> FALSE,
                datalog |-> FALSE, sniff |-> FALSE, csv |-> "none", connectOn |-> TRUE,
                toolsOn |-> FALSE, valOn |-> FALSE, stopShown |-> FALSE,
                polled |-> "none", monitor |-> FALSE, boxes |-> boxes, loaded |-> {},
                ticked |-> {}, asked |-> {}, changed |-> FALSE, gained |-> FALSE]
  BY DEF PanelInit
<1>3. panel \in PanelType
  BY <1>2 DEF PanelType
<1>4. PanelTypeOK
  <2>1. dialogs \in Seq([rest : Rests, old : BOOLEAN]) /\ Len(dialogs) = 0
    BY <1>1
  <2>2. 0 <= MaxDialogs
    BY PanelAssumption DEF PanelAssumption
  <2> QED
    BY <1>1, <1>3, <2>1, <2>2 DEF PanelTypeOK
<1>5. /\ panel.connected = FALSE /\ panel.stopShown = FALSE /\ panel.toolsOn = FALSE
      /\ ~panel.validating /\ ~panel.datalog /\ ~panel.monitor /\ panel.polled = "none"
  BY <1>2
<1>6. panel.connected = (phase = "ready") /\ phase # "ready"
  BY <1>1, <1>5
<1>7. 1..Len(dialogs) = {}
  BY <1>1
<1>8. LinkKnown
  BY <1>1, <1>6, Zenon DEF LinkKnown
<1>9. DialogsKnown
  BY <1>5, <1>7, Zenon DEF DialogsKnown
<1>10. ButtonsKnown
  BY <1>5, Zenon DEF ButtonsKnown
<1>11. AcquisitionsKnown
  BY <1>5, Zenon DEF AcquisitionsKnown
<1>12. DriveKnown
  BY <1>5, Zenon DEF DriveKnown
<1> QED
  BY <1>4, <1>8, <1>9, <1>10, <1>11, <1>12 DEF Known

LEMMA PanelStays ==
  ASSUME PanelTypeOK, Known, [PanelNext]_panelVars
  PROVE  PanelTypeOK' /\ Known'
<1>1. CASE PanelNext
  BY <1>1, PanelAssumption, ConnectedKeeps, DisconnectedKeeps, ErrorKeeps, PidResultKeeps,
     EstablishKeeps, FailKeeps, TryAutoReconnectKeeps, ToggleConnectKeeps,
     AutoReconnectKeeps, DriveModeKeeps, RoutePresetKeeps, CategoryFilterKeeps, RuleCellKeeps,
     DriveSessionKeeps, RefreshKeeps,
     ToggleDatalogKeeps, ToggleValidationKeeps, ToggleCanSniffKeeps, ToggleCsvKeeps,
     CloseDialogKeeps, ChooseCsvKeeps, Zenon DEF PanelNext, Slots
<1>2. CASE UNCHANGED panelVars
  <2>1. UNCHANGED <<phase, told, panel, dialogs, late>>
    BY <1>2 DEF panelVars
  <2>2. panel \in PanelType
    BY DEF PanelTypeOK
  <2> QED
    BY <2>1, <2>2, SameKeeps
<1> QED
  BY <1>1, <1>2

-----------------------------------------------------------------------------
(* What a session judges is what it polls.                                 *)

\* The member `changed` tells the sessions whose rules came after what they poll.
Asks(p) == p.validating /\ ~p.changed => p.rom /\ p.ticked \subseteq p.asked

SameRules(q, p) ==
  /\ q.validating = p.validating /\ q.changed = p.changed /\ q.rom = p.rom
  /\ q.ticked = p.ticked /\ q.asked = p.asked

LEMMA KeptAsks ==
  ASSUME NEW p, NEW q, SameRules(q, p), Asks(p)
  PROVE  Asks(q)
BY DEF SameRules, Asks

LEMMA KeptThrough ==
  ASSUME NEW p, NEW q, NEW r, SameRules(q, p), SameRules(r, q)
  PROVE  SameRules(r, p)
BY DEF SameRules

LEMMA ScheduleAsks ==
  ASSUME NEW p \in PanelType
  PROVE  SameRules(Schedule(p), p)
BY DEF Schedule, PanelType, SameRules

LEMMA ClearedAsks ==
  ASSUME NEW p \in PanelType
  PROVE  SameRules(Cleared(p), p)
BY DEF Cleared, PanelType, SameRules

LEMMA AfterDisconnectedAsks ==
  ASSUME NEW p \in PanelType
  PROVE  SameRules(AfterDisconnected(p), p)
<1> DEFINE q == [p EXCEPT !.sniff = FALSE, !.connectOn = TRUE, !.stopShown = FALSE,
                          !.toolsOn = FALSE, !.valOn = FALSE]
<1>1. q \in PanelType /\ SameRules(q, p)
  BY DEF PanelType, SameRules
<1>2. AfterDisconnected(p) = Schedule(q)
  BY DEF AfterDisconnected
<1> HIDE DEF q
<1> QED
  BY <1>1, <1>2, ScheduleAsks, KeptThrough

\* A session that starts polls all its rules need.
LEMMA SessionAsks ==
  ASSUME NEW p \in PanelType, NEW w \in BOOLEAN, Asks(p)
  PROVE  Asks(StartValidation(p, w)) /\ Asks(TryAutoStart(p, w))
<1> DEFINE q == StartValidation(p, w)
<1>1. CASE ~p.connected \/ ~p.rom \/ p.validating
  <2>1. q = p
    BY <1>1 DEF StartValidation
  <2> QED
    BY <2>1 DEF TryAutoStart
<1>2. CASE ~(~p.connected \/ ~p.rom \/ p.validating)
  <2>1. q.rom = p.rom /\ q.ticked = p.ticked /\ q.asked = p.ticked
    BY <1>2 DEF StartValidation, PanelType
  <2>2. Asks(q)
    BY <1>2, <2>1 DEF Asks
  <2> QED
    BY <2>2 DEF TryAutoStart
<1> QED
  BY <1>1, <1>2

LEMMA EndAsks ==
  ASSUME NEW p \in PanelType
  PROVE  EndSession(p) \in PanelType /\ Asks(EndSession(p))
BY EndSessionOutcome DEF Asks

LEMMA ResumeAsks ==
  ASSUME NEW p \in PanelType, NEW rest \in Rests, Asks(p), Resume(p, rest)
  PROVE  Asks(panel')
<1>1. CASE rest = "disconnected"
  BY <1>1, AfterDisconnectedAsks, KeptAsks DEF Resume
<1>2. CASE rest = "drive"
  <2>1. CASE p.connected /\ p.want
    <3> DEFINE q == [p EXCEPT !.want = FALSE]
    <3>1. q \in PanelType /\ SameRules(q, p)
      BY DEF PanelType, SameRules
    <3>2. panel' = Cleared(q)
      BY <1>2, <2>1 DEF Resume
    <3> HIDE DEF q
    <3> QED
      BY <3>1, <3>2, ClearedAsks, KeptThrough, KeptAsks
  <2>2. CASE ~(p.connected /\ p.want)
    BY <1>2, <2>2 DEF Resume
  <2> QED
    BY <2>1, <2>2
<1>3. CASE rest = "datalog"
  <2>1. SameRules(panel', p)
    BY <1>3 DEF Resume, PanelType, SameRules
  <2> QED
    BY <2>1, KeptAsks
<1>4. CASE rest = "sniff"
  <2>1. SameRules(panel', p)
    BY <1>4 DEF Resume, PanelType, SameRules
  <2> QED
    BY <2>1, KeptAsks
<1>5. CASE rest \in {"none", "csv"}
  BY <1>5 DEF Resume
<1> QED
  BY <1>1, <1>2, <1>3, <1>4, <1>5 DEF Rests

LEMMA StopAsks ==
  ASSUME NEW p \in PanelType, NEW rest \in Rests, Asks(p), StopValidationThen(p, rest)
  PROVE  Asks(panel')
<1>1. CASE p.validating /\ p.ticks
  BY <1>1, EndAsks DEF StopValidationThen
<1>2. CASE ~(p.validating /\ p.ticks)
  <2>1. CASE p.validating
    <3>1. Resume(EndSession(p), rest)
      BY <1>2, <2>1 DEF StopValidationThen
    <3> QED
      BY <3>1, EndAsks, ResumeAsks
  <2>2. CASE ~p.validating
    <3>1. Resume(p, rest)
      BY <1>2, <2>2 DEF StopValidationThen
    <3> QED
      BY <3>1, ResumeAsks
  <2> QED
    BY <2>1, <2>2
<1> QED
  BY <1>1, <1>2

LEMMA StartConnectAsks ==
  ASSUME NEW p \in PanelType, Asks(p), StartConnect(p)
  PROVE  Asks(panel')
<1>1. CASE panel' = Schedule(p)
  BY <1>1, ScheduleAsks, KeptAsks
<1>2. CASE panel' = Cleared([p EXCEPT !.want = TRUE, !.connectOn = FALSE])
  <2> DEFINE q == [p EXCEPT !.want = TRUE, !.connectOn = FALSE]
  <2>1. q \in PanelType /\ SameRules(q, p)
    BY DEF PanelType, SameRules
  <2>2. panel' = Cleared(q)
    BY <1>2
  <2> HIDE DEF q
  <2> QED
    BY <2>1, <2>2, ClearedAsks, KeptThrough, KeptAsks
<1> QED
  BY <1>1, <1>2 DEF StartConnect

\* The categories filtered: rules that come under a session are told.
LEMMA FilteredAsks ==
  ASSUME NEW p \in PanelType, NEW boxes \in SUBSET BoxCategories, Asks(p)
  PROVE  Asks(Filtered(p, boxes))
<1> DEFINE q == Filtered(p, boxes)
<1>1. /\ q.validating = p.validating /\ q.asked = p.asked /\ q.rom = (q.ticked # {})
      /\ q.changed = (p.changed \/ (p.validating
           /\ (q.ticked = {} \/ ~(q.ticked \subseteq p.ticked))))
  BY BoxAssumption, FilteredOutcome
<1> HIDE DEF q
<1>2. ASSUME q.validating, ~q.changed
      PROVE  q.rom /\ q.ticked \subseteq q.asked
  <2>1. p.validating /\ ~p.changed /\ q.ticked # {} /\ q.ticked \subseteq p.ticked
    BY <1>1, <1>2
  <2> QED
    BY <1>1, <2>1 DEF Asks
<1> QED
  BY <1>2 DEF q, Asks

\* The slots of the driver's signals, and the driver.
LEMMA SignalsAsk ==
  ASSUME panel \in PanelType, Asks(panel),
         Slots \/ OnPidResult \/ DriverEstablishes \/ DriverFails
  PROVE  Asks(panel')
<1>1. CASE OnConnected
  <2> DEFINE q == [panel EXCEPT !.connected = TRUE, !.want = TRUE, !.timer = FALSE,
                       !.connectOn = TRUE, !.stopShown = TRUE, !.toolsOn = TRUE,
                       !.valOn = panel.rom]
  <2>1. q \in PanelType
    BY ZenonT(60) DEF PanelType
  <2>2. SameRules(q, panel)
    BY DEF PanelType, SameRules
  <2>3. \E w \in BOOLEAN : panel' = TryAutoStart(q, w)
    BY <1>1 DEF OnConnected
  <2> HIDE DEF q
  <2> QED
    BY <2>1, <2>2, <2>3, KeptAsks, SessionAsks
<1>2. CASE OnDisconnected
  <2> DEFINE p == [panel EXCEPT !.connected = FALSE, !.datalog = FALSE]
  <2>1. p \in PanelType /\ SameRules(p, panel)
    BY DEF PanelType, SameRules
  <2>2. \/ panel' = EndSession(p) \/ panel' = AfterDisconnected(EndSession(p))
        \/ panel' = AfterDisconnected(p)
    BY <1>2 DEF OnDisconnected
  <2> HIDE DEF p
  <2>3. Asks(p)
    BY <2>1, KeptAsks
  <2> QED
    BY <2>1, <2>2, <2>3, EndAsks, AfterDisconnectedAsks, KeptAsks
<1>3. CASE OnError
  <2> DEFINE q == [panel EXCEPT !.connectOn = TRUE, !.connected = FALSE,
                                !.want = panel.want /\ panel.auto]
  <2>1. q \in PanelType /\ SameRules(q, panel)
    BY DEF PanelType, SameRules
  <2>2. panel' = Schedule(q)
    BY <1>3 DEF OnError
  <2> HIDE DEF q
  <2> QED
    BY <2>1, <2>2, ScheduleAsks, KeptThrough, KeptAsks
<1>4. CASE OnPidResult
  <2>1. SameRules(panel', panel)
    BY <1>4 DEF OnPidResult, PanelType, SameRules
  <2> QED
    BY <2>1, KeptAsks
<1>5. CASE DriverEstablishes
  BY <1>5 DEF DriverEstablishes
<1>6. CASE DriverFails
  BY <1>6, ClearedAsks, KeptAsks DEF DriverFails
<1> QED
  BY <1>1, <1>2, <1>3, <1>4, <1>5, <1>6 DEF Slots

\* The user and the timer, the rules left aside.
LEMMA UserAsks ==
  ASSUME panel \in PanelType, Asks(panel),
         \/ TryAutoReconnect \/ ToggleConnect \/ OnAutoReconnectToggled
         \/ OnDriveModeToggled \/ OnDriveSessionClicked
  PROVE  Asks(panel')
<1>1. CASE TryAutoReconnect
  <2> DEFINE p == [panel EXCEPT !.timer = FALSE]
  <2>1. p \in PanelType /\ SameRules(p, panel)
    BY DEF PanelType, SameRules
  <2>2. StartConnect(p) \/ panel' = p
    BY <1>1 DEF TryAutoReconnect
  <2> HIDE DEF p
  <2> QED
    BY <2>1, <2>2, KeptAsks, StartConnectAsks
<1>2. CASE ToggleConnect
  <2> DEFINE p == [panel EXCEPT !.want = FALSE, !.timer = FALSE, !.connectOn = TRUE,
                                !.stopShown = FALSE]
  <2>1. p \in PanelType /\ SameRules(p, panel)
    BY DEF PanelType, SameRules
  <2>2. panel' = Cleared(p) \/ StartConnect(panel)
    BY <1>2 DEF ToggleConnect
  <2> HIDE DEF p
  <2> QED
    BY <2>1, <2>2, KeptAsks, KeptThrough, ClearedAsks, StartConnectAsks
<1>3. CASE OnAutoReconnectToggled
  <2> DEFINE p == [panel EXCEPT !.auto = ~panel.auto]
             q == [p EXCEPT !.timer = FALSE]
  <2>1. p \in PanelType /\ SameRules(p, panel)
    BY DEF PanelType, SameRules
  <2>2. panel' = q \/ panel' = Schedule(p) \/ panel' = p
    BY <1>3 DEF OnAutoReconnectToggled
  <2>3. SameRules(q, p)
    BY <2>1 DEF PanelType, SameRules
  <2> HIDE DEF p, q
  <2> QED
    BY <2>1, <2>2, <2>3, KeptAsks, KeptThrough, ScheduleAsks
<1>4. CASE OnDriveModeToggled
  <2> DEFINE p == [panel EXCEPT !.driveMode = ~panel.driveMode]
  <2>1. p \in PanelType /\ SameRules(p, panel)
    BY DEF PanelType, SameRules
  <2>2. \E w \in BOOLEAN : panel' = TryAutoStart(p, w)
    BY <1>4 DEF OnDriveModeToggled
  <2> HIDE DEF p
  <2> QED
    BY <2>1, <2>2, KeptAsks, SessionAsks
<1>5. CASE OnDriveSessionClicked
  <2>1. \/ StopValidationThen(panel, "drive") \/ StartConnect(panel)
        \/ \E w \in BOOLEAN : panel' = TryAutoStart(panel, w)
    BY <1>5 DEF OnDriveSessionClicked
  <2>2. "drive" \in Rests
    BY DEF Rests
  <2> QED
    BY <2>1, <2>2, StopAsks, StartConnectAsks, SessionAsks
<1> QED
  BY <1>1, <1>2, <1>3, <1>4, <1>5

\* What changes the rules.
LEMMA RulesAsk ==
  ASSUME panel \in PanelType, Asks(panel),
         \/ ApplyRoutePreset \/ OnCategoryFilterChanged \/ OnRuleCellChanged
         \/ RefreshValidatorFromDoc
  PROVE  Asks(panel')
<1>1. CASE ApplyRoutePreset
  <2> DEFINE p == [panel EXCEPT !.driveMode = TRUE, !.auto = TRUE]
  <2>1. p \in PanelType /\ SameRules(p, panel)
    BY DEF PanelType, SameRules
  <2>2. PICK w \in BOOLEAN :
          LET q == IF panel.driveMode THEN p ELSE TryAutoStart(p, w) IN
          panel' = Filtered(IF ~panel.auto /\ p.want /\ ~p.connected THEN Schedule(q) ELSE q,
                            RouteCategories)
    BY <1>1 DEF ApplyRoutePreset
  <2> DEFINE q == IF panel.driveMode THEN p ELSE TryAutoStart(p, w)
             r == IF ~panel.auto /\ p.want /\ ~p.connected THEN Schedule(q) ELSE q
  <2>3. panel' = Filtered(r, RouteCategories)
    BY <2>2
  <2> HIDE DEF p
  <2>4. Asks(p)
    BY <2>1, KeptAsks
  <2>5. q \in PanelType /\ Asks(q)
    <3>1. TryAutoStart(p, w) \in PanelType /\ Asks(TryAutoStart(p, w))
      BY <2>1, <2>4, TryAutoStartOutcome, SessionAsks DEF Started
    <3> QED
      BY <2>1, <2>4, <3>1
  <2> HIDE DEF q
  <2>6. Schedule(q) \in PanelType /\ Asks(Schedule(q))
    BY <2>5, ScheduleKeeps, ScheduleAsks, KeptAsks
  <2>7. r \in PanelType /\ Asks(r)
    BY <2>5, <2>6
  <2> HIDE DEF r
  <2> QED
    BY <2>3, <2>7, FilteredAsks, BoxAssumption DEF BoxAssumption
<1>2. CASE OnCategoryFilterChanged
  <2>1. PICK boxes \in SUBSET BoxCategories : panel' = Filtered(panel, boxes)
    BY <1>2 DEF OnCategoryFilterChanged, PanelType
  <2> QED
    BY <2>1, FilteredAsks
<1>3. CASE OnRuleCellChanged
  <2>1. PICK t \in SUBSET BoxCategories, c \in BOOLEAN :
          /\ panel' = [panel EXCEPT !.ticked = t, !.changed = c]
          /\ \/ t \subseteq panel.ticked /\ c = panel.changed
             \/ c = (panel.changed \/ panel.validating)
    BY <1>3, RuleCellRules
  <2>2. /\ panel'.validating = panel.validating /\ panel'.rom = panel.rom
        /\ panel'.asked = panel.asked /\ panel'.ticked = t /\ panel'.changed = c
    BY <2>1 DEF PanelType
  <2> QED
    BY <2>1, <2>2 DEF Asks
<1>4. CASE RefreshValidatorFromDoc
  <2>1. PICK found \in SUBSET Watched(panel.boxes), w \in BOOLEAN :
          LET p == Loads(panel, found) IN
          panel' = IF p.rom /\ p.connected THEN TryAutoStart(p, w) ELSE p
    BY <1>4 DEF RefreshValidatorFromDoc
  <2> DEFINE p == Loads(panel, found)
  <2>2. p \in PanelType /\ p.validating = panel.validating /\ p.changed = panel.validating
    BY LoadsOutcome
  <2>3. panel' = p \/ panel' = TryAutoStart(p, w)
    BY <2>1
  <2> HIDE DEF p
  <2>4. Asks(p)
    BY <2>2 DEF Asks
  <2> QED
    BY <2>2, <2>3, <2>4, SessionAsks
<1> QED
  BY <1>1, <1>2, <1>3, <1>4

\* The tools of the tabs, and the dialogs.
LEMMA ToolsAsk ==
  ASSUME panel \in PanelType, Asks(panel), dialogs \in Seq([rest : Rests, old : BOOLEAN]),
         \/ ToggleDatalog \/ ToggleValidation \/ ToggleCanSniff \/ ToggleCsv
         \/ CloseDialog \/ ChooseCsv
  PROVE  Asks(panel')
<1>0. {"datalog", "none", "sniff"} \subseteq Rests
  BY DEF Rests
<1>1. CASE ToggleDatalog
  <2> DEFINE q == [panel EXCEPT !.polled = "none", !.datalog = FALSE]
  <2>1. SameRules(q, panel)
    BY DEF PanelType, SameRules
  <2>2. panel' = q \/ StopValidationThen(panel, "datalog")
    BY <1>1 DEF ToggleDatalog
  <2> HIDE DEF q
  <2> QED
    BY <1>0, <2>1, <2>2, KeptAsks, StopAsks
<1>2. CASE ToggleValidation
  <2>1. \/ StopValidationThen(panel, "none")
        \/ \E w \in BOOLEAN : panel' = StartValidation(panel, w)
    BY <1>2 DEF ToggleValidation
  <2> QED
    BY <1>0, <2>1, StopAsks, SessionAsks
<1>3. CASE ToggleCanSniff
  <2> DEFINE q == [panel EXCEPT !.monitor = FALSE, !.sniff = FALSE]
             r == [panel EXCEPT !.polled = "none", !.datalog = FALSE]
  <2>1. SameRules(q, panel) /\ SameRules(r, panel) /\ r \in PanelType
    BY DEF PanelType, SameRules
  <2>2. \/ panel' = q \/ StopValidationThen(panel, "sniff") \/ StopValidationThen(r, "sniff")
    BY <1>3 DEF ToggleCanSniff
  <2> HIDE DEF q, r
  <2> QED
    BY <1>0, <2>1, <2>2, KeptAsks, StopAsks
<1>4. CASE ToggleCsv
  <2>1. SameRules(panel', panel)
    BY <1>4 DEF ToggleCsv, PanelType, SameRules
  <2> QED
    BY <2>1, KeptAsks
<1>5. CASE CloseDialog
  <2>1. dialogs # <<>> /\ Resume(panel, dialogs[Len(dialogs)].rest)
    BY <1>5 DEF CloseDialog
  <2>2. dialogs[Len(dialogs)] \in [rest : Rests, old : BOOLEAN]
    <3> DEFINE S == [rest : Rests, old : BOOLEAN]
    <3>1. dialogs \in Seq(S)
      OBVIOUS
    <3> HIDE DEF S
    <3>2. Len(dialogs) \in 1..Len(dialogs)
      BY <2>1, <3>1
    <3>3. dialogs[Len(dialogs)] \in S
      BY <3>1, <3>2
    <3> QED
      BY <3>3 DEF S
  <2>3. dialogs[Len(dialogs)].rest \in Rests
    BY <2>2
  <2> QED
    BY <2>1, <2>3, ResumeAsks
<1>6. CASE ChooseCsv
  <2>1. SameRules(panel', panel)
    BY <1>6 DEF ChooseCsv, PanelType, SameRules
  <2> QED
    BY <2>1, KeptAsks
<1> QED
  BY <1>1, <1>2, <1>3, <1>4, <1>5, <1>6

LEMMA AsksStays ==
  ASSUME PanelTypeOK, Asks(panel), [PanelNext]_panelVars
  PROVE  Asks(panel')
<1>1. panel \in PanelType /\ dialogs \in Seq([rest : Rests, old : BOOLEAN])
  BY DEF PanelTypeOK
<1>2. CASE PanelNext
  BY <1>1, <1>2, SignalsAsk, UserAsks, RulesAsk, ToolsAsk, Zenon DEF PanelNext
<1>3. CASE UNCHANGED panelVars
  BY <1>3 DEF panelVars
<1> QED
  BY <1>2, <1>3

LEMMA AsksBegins ==
  ASSUME PanelInit
  PROVE  Asks(panel)
BY DEF PanelInit, Asks

LEMMA KnownAgrees ==
  ASSUME PanelTypeOK, Known, Asks(panel)
  PROVE  PanelAgrees /\ AcquisitionsReal /\ DriveModeMeasures
<1>1. told = <<>> => ~Losing /\ told # <<"connected">>
  BY LosingApart
<1>2. told = <<>> => panel.connected = (phase = "ready")
  BY ToldApart, <1>1, Zenon DEF Known, LinkKnown
<1>3. dialogs = <<>> => 1..Len(dialogs) = {}
  OBVIOUS
<1>4. PanelAgrees
  <2>1. told = <<>> /\ dialogs = <<>> /\ ~late =>
         panel.stopShown = panel.connected /\ panel.toolsOn = panel.connected
    BY <1>1, <1>3, Zenon DEF Known, ButtonsKnown
  <2>2. phase # "idle" => panel.want
    BY Zenon DEF Known, LinkKnown
  <2> QED
    BY <1>2, <2>1, <2>2, Zenon DEF PanelAgrees, Quiet
<1>5. AcquisitionsReal
  <2>1. told = <<>> /\ ~late =>
          /\ panel.validating => panel.connected /\ panel.polled = "tune"
          /\ panel.datalog => panel.connected /\ panel.polled = "datalog"
          /\ panel.polled # "none" => panel.validating \/ panel.datalog
          /\ panel.monitor => panel.sniff
    BY <1>1, Zenon DEF Known, AcquisitionsKnown
  <2> QED
    BY <1>2, <2>1, Zenon DEF AcquisitionsReal, Quiet
<1>6. DriveModeMeasures
  BY <1>3, Zenon DEF Known, DriveKnown, Asks, DriveModeMeasures, AtHand, Quiet
<1> QED
  BY <1>4, <1>5, <1>6

\* However the driver's signals, the reconnection timer, the user and the summaries left open
\* follow each other, ObdPanel's members and buttons agree with the driver once its slots have
\* run, and the acquisitions shown are the driver's.  Drive mode starts a session by itself,
\* and the session polls all it judges, except as DriveModeMeasures says: for a tune that
\* became ready by the boxes of its categories alone no session is tried, and a session under
\* which the tune or its rules changed polls what it polled before.
THEOREM PanelKnows ==
  PanelSpec => [](PanelTypeOK /\ PanelAgrees /\ AcquisitionsReal /\ DriveModeMeasures)
<1> DEFINE IInv == PanelTypeOK /\ Known /\ Asks(panel)
<1>1. PanelInit => IInv
  BY PanelBegins, AsksBegins
<1>2. IInv /\ [PanelNext]_panelVars => IInv'
  BY PanelStays, AsksStays
<1>3. IInv => PanelTypeOK /\ PanelAgrees /\ AcquisitionsReal /\ DriveModeMeasures
  BY KnownAgrees
<1> QED
  BY <1>1, <1>2, <1>3, PTL DEF PanelSpec
=============================================================================
