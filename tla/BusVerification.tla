-------------------------- MODULE BusVerification ---------------------------
(***************************************************************************)
(* Measuring a tuned signal on the CAN bus through a socketspy-mcp         *)
(* subprocess spoken to over TCP: the verification dialog                  *)
(* (hub/verify_on_bus_dialog.cpp), which ends with a verdict, and the      *)
(* validator (obd/can_tune_validator.cpp), which goes on until stopped.    *)
(* The two are the same code but for what differs below; `tool` says which *)
(* one is on the screen.                                                   *)
(*                                                                         *)
(* Both are event loops: the slots of the subprocess, the socket and the   *)
(* timers.  readyRead handles every line it holds before it returns, even  *)
(* once one of them has stopped the run: `batch` is what it has left, and  *)
(* nothing else happens meanwhile.                                         *)
(*                                                                         *)
(* Abstractions.  Signals, values, the comparison and the log are left     *)
(* out: a sample meets the criterion or not when its answer is handled, by *)
(* the fields of that moment.  An answer carries the run that asked for    *)
(* it.  The server is external: it answers in order, or closes the         *)
(* connection, or dies.  A validator stopped while its subprocess starts,  *)
(* and started again within 150 ms, replaces a socket that may be          *)
(* connecting: the signals of the one replaced are left out.               *)
(***************************************************************************)
EXTENDS Integers, Sequences

CONSTANTS
  MaxAsked,     \* bound: requests not answered yet
  MaxKnocks,    \* bound: timers of each kind that will try to connect
  MaxRunNo      \* runs told apart: numbers are used again after so many

ASSUME BusAssumption == MaxAsked \in Nat \ {0} /\ MaxKnocks \in Nat \ {0} /\ MaxRunNo \in Nat \ {0}

VARIABLES
  tool,         \* "verify", the dialog, or "validate", the validator
  busRunning, initialized, polling,    \* m_running, m_initialized, m_pollTimer runs
  overall,      \* m_overallTimer runs
  proc,         \* m_proc: "none", "starting", "up"
  socket,       \* m_socket: "none", "idle", "connecting", "connected"
  knocks,       \* timers armed: "first" after 150 ms, "again" after 250 ms
  asked,        \* requests the server has not answered
  lines,        \* answers in the socket
  batch,        \* answers readyRead has left to handle
  runNo,        \* the run started last, 0 before the first
  outcome       \* the verdict shown: "none", "success", "failure"

busVars == <<tool, busRunning, initialized, polling, overall, proc, socket, knocks,
             asked, lines, batch, runNo, outcome>>

traffic == <<asked, lines, batch>>

Answer == [kind : {"initialize", "can_monitor"}, run : 1..MaxRunNo]

BusInit ==
  /\ tool \in {"verify", "validate"}
  /\ busRunning = FALSE /\ initialized = FALSE /\ polling = FALSE /\ overall = FALSE
  /\ proc = "none" /\ socket = "none"
  /\ knocks = [first |-> 0, again |-> 0]
  /\ asked = <<>> /\ lines = <<>> /\ batch = <<>>
  /\ runNo = 0 /\ outcome = "none"

\* The event loop is free to call a slot.
Free == batch = <<>>

\* The bound on requests and answers.
Room == Len(asked) + Len(lines) + Len(batch) < MaxAsked

Verifying == tool = "verify"

-----------------------------------------------------------------------------
(* Starting and stopping. *)

\* A slip: the socket outlives the run.
StopKeepingSocket(verdict, k) ==
  /\ busRunning' = FALSE /\ polling' = FALSE /\ overall' = FALSE /\ proc' = "none"
  /\ outcome' = verdict
  /\ asked' = <<>> /\ knocks' = k /\ UNCHANGED <<initialized, runNo, lines, socket>>

\* stopVerification and stopMonitoring, on armed timers k.  Waiting for a subprocess
\* that is still starting may end its start: the validator's onProcStarted, which does
\* not look at m_running, then makes a socket and arms its timer.
StopRun(verdict, k) ==
  \E starts \in {FALSE, proc = "starting" /\ ~Verifying} :
    /\ starts => k["first"] < MaxKnocks
    /\ busRunning' = FALSE /\ polling' = FALSE /\ overall' = FALSE /\ proc' = "none"
    /\ socket' = IF starts THEN "idle" ELSE "none"
    /\ knocks' = IF starts THEN [k EXCEPT !["first"] = @ + 1] ELSE k
    /\ outcome' = verdict
    /\ asked' = <<>> /\ lines' = <<>>
    /\ UNCHANGED <<initialized, runNo>>

\* What both starts do.
Start ==
  /\ Free /\ ~busRunning
  /\ busRunning' = TRUE /\ initialized' = FALSE
  /\ proc' = "starting" /\ runNo' = 1 + (runNo % MaxRunNo)
  /\ outcome' = "none" /\ UNCHANGED <<tool, polling, socket, knocks, traffic>>

\* A slip: the time limit is left for the polling to start.
StartUntimed == Verifying /\ Start /\ UNCHANGED overall

StartVerification == Verifying /\ Start /\ overall' = TRUE

StartMonitoring == ~Verifying /\ Start /\ UNCHANGED overall

\* The button.
UserStops == Free /\ busRunning /\ StopRun("failure", knocks) /\ UNCHANGED <<tool, batch>>

-----------------------------------------------------------------------------
(* The subprocess. *)

\* In the validator the new socket may take the place of another.
OnProcStarted ==
  /\ Free /\ proc = "starting" /\ knocks["first"] < MaxKnocks
  /\ proc' = "up" /\ socket' = "idle"
  /\ knocks' = [knocks EXCEPT !["first"] = @ + 1]
  /\ UNCHANGED <<tool, busRunning, initialized, polling, overall, traffic, runNo, outcome>>

\* It cannot be started.
OnProcErrorOccurred ==
  /\ Free /\ proc = "starting" /\ StopRun("failure", knocks)
  /\ UNCHANGED <<tool, batch>>

\* It ends before it was told to.
OnProcFinished ==
  /\ Free /\ proc = "up" /\ StopRun("failure", knocks) /\ UNCHANGED <<tool, batch>>

-----------------------------------------------------------------------------
(* The socket. *)

Unstopped == UNCHANGED <<busRunning, initialized, polling, overall, proc, runNo, outcome>>

\* sendRequest and m_pending.insert: a request goes out on a connected socket only.
Ask(kind, now) ==
  asked' = IF now = "connected" THEN Append(asked, [kind |-> kind, run |-> runNo]) ELSE asked

\* onSocketError, m_socket being in state `now` and left in state `after`.  The dialog
\* gives up when the error comes over a connection, the validator tries again as long
\* as there was no handshake.
OnSocketError(now, after, k) ==
  IF initialized \/ (Verifying /\ now = "connected")
  THEN StopRun("failure", k)
  ELSE /\ Unstopped /\ socket' = after
       /\ k["again"] < MaxKnocks /\ knocks' = [k EXCEPT !["again"] = @ + 1]
       /\ IF now = "connected" /\ after = "idle" THEN asked' = <<>> /\ lines' = <<>>
          ELSE UNCHANGED <<asked, lines>>

\* The 150 ms timer connects whatever the socket is doing: doing it already is an
\* error, told at once, which leaves the attempt going.
KnockFirst ==
  /\ Free /\ knocks["first"] > 0
  /\ LET left == [knocks EXCEPT !["first"] = @ - 1] IN
     IF busRunning /\ socket \in {"connecting", "connected"}
     THEN OnSocketError(socket, socket, left)
     ELSE /\ knocks' = left
          /\ socket' = IF busRunning /\ socket = "idle" THEN "connecting" ELSE socket
          /\ Unstopped /\ UNCHANGED <<asked, lines>>
  /\ UNCHANGED <<tool, batch>>

\* The 250 ms timer of onSocketError connects an idle socket only.
KnockAgain ==
  /\ Free /\ knocks["again"] > 0
  /\ knocks' = [knocks EXCEPT !["again"] = @ - 1]
  /\ socket' = IF busRunning /\ socket = "idle" THEN "connecting" ELSE socket
  /\ Unstopped /\ UNCHANGED <<tool, traffic>>

OnSocketConnected ==
  /\ Free /\ socket = "connecting" /\ Room
  /\ socket' = "connected" /\ Ask("initialize", "connected")
  /\ Unstopped /\ UNCHANGED <<tool, knocks, lines, batch>>

\* The connection is refused, or closed with what it carried.
ConnectionLost ==
  /\ Free /\ busRunning /\ socket \in {"connecting", "connected"}
  /\ OnSocketError(socket, "idle", knocks) /\ UNCHANGED <<tool, batch>>

\* onSocketReadyRead takes what has arrived.
OnSocketReadyRead ==
  /\ Free /\ socket = "connected" /\ lines # <<>>
  /\ batch' = lines /\ lines' = <<>>
  /\ Unstopped /\ UNCHANGED <<tool, socket, knocks, asked>>

-----------------------------------------------------------------------------
(* Answers. *)

\* handleResponse to the handshake: a first sample, then one per tick.
HandleInitialize ==
  /\ Head(batch).kind = "initialize"
  /\ initialized' = TRUE /\ polling' = TRUE /\ Ask("can_monitor", socket)
  /\ UNCHANGED <<busRunning, overall, proc, socket, knocks, lines, runNo, outcome>>

\* An error of JSON-RPC.
HandleError == StopRun("failure", knocks)

\* handleResponse to can_monitor: only the dialog ends on a sample that passes.
HandleSample ==
  /\ Head(batch).kind = "can_monitor"
  /\ \/ Verifying /\ StopRun("success", knocks)
     \/ Unstopped /\ UNCHANGED <<socket, knocks, asked, lines>>

\* The loop of onSocketReadyRead and the CanTuneValidator's: one line.
HandleResponse ==
  /\ ~Free
  /\ HandleInitialize \/ HandleSample \/ HandleError
  /\ batch' = Tail(batch) /\ UNCHANGED tool

OnPollTick ==
  /\ Free /\ polling /\ busRunning /\ initialized /\ Room
  /\ Ask("can_monitor", socket)
  /\ Unstopped /\ UNCHANGED <<tool, socket, knocks, lines, batch>>

OnOverallTimeout ==
  /\ Free /\ overall /\ busRunning
  /\ StopRun("failure", knocks) /\ UNCHANGED <<tool, batch>>

\* The server answers the oldest request; its answer is read at once or later.
ServerAnswers ==
  /\ Free /\ socket = "connected" /\ asked # <<>>
  /\ lines' = Append(lines, Head(asked)) /\ asked' = Tail(asked)
  /\ Unstopped /\ UNCHANGED <<tool, socket, knocks, batch>>

-----------------------------------------------------------------------------
BusNext ==
  \/ StartVerification \/ StartMonitoring \/ UserStops
  \/ OnProcStarted \/ OnProcErrorOccurred \/ OnProcFinished
  \/ KnockFirst \/ KnockAgain \/ OnSocketConnected \/ ConnectionLost
  \/ OnSocketReadyRead \/ HandleResponse \/ OnPollTick \/ OnOverallTimeout \/ ServerAnswers

\* A loop begun goes on; the event loop serves a timer that is due, whatever else it
\* serves before.
BusFairness == WF_busVars(HandleResponse) /\ SF_busVars(OnOverallTimeout)

BusSpec == BusInit /\ [][BusNext]_busVars /\ BusFairness

-----------------------------------------------------------------------------
(* Properties. *)

BusTypeOK ==
  /\ tool \in {"verify", "validate"}
  /\ {busRunning, initialized, polling, overall} \subseteq BOOLEAN
  /\ proc \in {"none", "starting", "up"}
  /\ socket \in {"none", "idle", "connecting", "connected"}
  /\ knocks \in [{"first", "again"} -> 0..MaxKnocks]
  /\ {asked, lines, batch} \subseteq Seq(Answer)
  /\ runNo \in 0..MaxRunNo
  /\ outcome \in {"none", "success", "failure"}

\* An answer that is handled was asked by the last run started: a server and a socket
\* of an earlier run, their timers and the connections they tried again, never get a
\* sample of theirs into the verdict of another run (verify_on_bus_dialog.cpp:508-646).
AnswersAreOfThisRun == \A i \in 1..Len(batch) : batch[i].run = runNo

\* A verification ends, with a verdict, whatever the subprocess, the server and the bus
\* do or fail to do (verify_on_bus_dialog.cpp:673-681).
VerificationEnds == (Verifying /\ busRunning) ~> ~busRunning
=============================================================================
