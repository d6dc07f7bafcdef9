------------------------------ MODULE CanPanel ------------------------------
(***************************************************************************)
(* The CAN monitor of ECU Studio (panels/can_panel.cpp): a capture thread  *)
(* that reads the bus, and the panel that starts it, stops it and shows    *)
(* what it posts.                                                          *)
(*                                                                         *)
(* A thread looks at its stop flag between two reads of at most 100 ms;    *)
(* stopCapture waits for it, so a thread is never followed by another      *)
(* before its run() has returned, while what it posted may still be on its *)
(* way.                                                                    *)
(*                                                                         *)
(* Abstractions.  Frames, statistics and the table are left out: a message *)
(* posted is a frame or the failure to open the interface.  The separate   *)
(* SocketSpy program has no state here.                                    *)
(***************************************************************************)
EXTENDS Integers, Sequences

CONSTANTS
  MaxPosted     \* bound: signals on their way to the panel

ASSUME CanAssumption == MaxPosted \in Nat \ {0}

VARIABLES
  capture,      \* m_capture's thread: "none", "opening", "reading", "closed"
  mail,         \* its signals on their way, and those of threads before it
  interfaces,   \* the combo has an interface to offer
  startOn, stopOn, refreshOn    \* buttons enabled

canVars == <<capture, mail, interfaces, startOn, stopOn, refreshOn>>

CanInit ==
  /\ capture = "none" /\ mail = <<>>
  /\ interfaces \in BOOLEAN /\ startOn = interfaces
  /\ stopOn = FALSE /\ refreshOn = TRUE

\* Interfaces come and go: the combo changes when it is refreshed.
RefreshInterfaces ==
  /\ refreshOn
  /\ interfaces' \in BOOLEAN /\ startOn' = interfaces'
  /\ UNCHANGED <<capture, mail, stopOn, refreshOn>>

StartCapture ==
  /\ startOn /\ capture = "none"
  /\ capture' = "opening"
  /\ startOn' = FALSE /\ stopOn' = TRUE /\ refreshOn' = FALSE
  /\ UNCHANGED <<mail, interfaces>>

-----------------------------------------------------------------------------
(* CanCaptureThread::run *)

Post(m) == Len(mail) < MaxPosted /\ mail' = Append(mail, m)

OpenInterface ==
  /\ capture = "opening" /\ capture' = "reading"
  /\ UNCHANGED <<mail, interfaces, startOn, stopOn, refreshOn>>

OpenFails ==
  /\ capture = "opening" /\ capture' = "closed" /\ Post("error")
  /\ UNCHANGED <<interfaces, startOn, stopOn, refreshOn>>

ReadFrame ==
  /\ capture = "reading" /\ Post("frame")
  /\ UNCHANGED <<capture, interfaces, startOn, stopOn, refreshOn>>

-----------------------------------------------------------------------------
(* The panel. *)

\* stopCapture
StopCapture ==
  IF capture = "none" THEN UNCHANGED <<capture, startOn, stopOn, refreshOn>>
  ELSE /\ capture' = "none"
       /\ startOn' = interfaces /\ stopOn' = FALSE /\ refreshOn' = TRUE

StopClicked ==
  /\ stopOn /\ StopCapture /\ UNCHANGED <<mail, interfaces>>

\* A slip: the message is shown and the dead thread kept.
DeliverMessage ==
  /\ mail # <<>> /\ mail' = Tail(mail)
  /\ UNCHANGED <<capture, startOn, stopOn, refreshOn, interfaces>>

\* onFrame, and the slot of errorOccurred, which stops the capture of the moment.
Deliver ==
  /\ mail # <<>> /\ mail' = Tail(mail)
  /\ IF Head(mail) = "error" THEN StopCapture
     ELSE UNCHANGED <<capture, startOn, stopOn, refreshOn>>
  /\ UNCHANGED interfaces

CanNext ==
  \/ RefreshInterfaces \/ StartCapture \/ StopClicked
  \/ OpenInterface \/ OpenFails \/ ReadFrame \/ Deliver

CanFairness == WF_canVars(Deliver)

CanSpec == CanInit /\ [][CanNext]_canVars /\ CanFairness

-----------------------------------------------------------------------------
(* Properties. *)

CanTypeOK ==
  /\ capture \in {"none", "opening", "reading", "closed"}
  /\ mail \in Seq({"frame", "error"}) /\ Len(mail) <= MaxPosted
  /\ {interfaces, startOn, stopOn, refreshOn} \subseteq BOOLEAN

\* A capture whose thread has given up does not stay on the screen as one that goes
\* on: the panel lets go of it and offers to start again (can_panel.cpp:316-319), even
\* with the stop of a user, the frames of earlier captures and their errors in between.
DeadCaptureReleased == (capture = "closed") ~> (capture = "none" /\ startOn)
=============================================================================
