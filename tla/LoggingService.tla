--------------------------- MODULE LoggingService ---------------------------
(***************************************************************************)
(* The foreground service that keeps the phone awake during a driving      *)
(* session (LoggingService.java), the calls that ECU Drive posts to the    *)
(* Android main thread for it (platform.cpp), and what                     *)
(* drive_controller.cpp does to keep it: a start with the session,         *)
(* another one when the application leaves the foreground, a watchdog      *)
(* every 15 s, and a stop.                                                 *)
(*                                                                         *)
(* Abstractions.  The texts, the notification channel and the permissions  *)
(* asked for are left out; the notification comes and goes with the wake   *)
(* lock, except that onCreate takes the lock first.  The conditions of a   *)
(* session, a tune and a link, are taken as met.                           *)
(*                                                                         *)
(* What Android does is external: the commands of a service come in order, *)
(* a service without one is created, stopSelf destroys it whatever has     *)
(* come meanwhile, and a service killed while START_STICKY is started      *)
(* again with a null intent.                                               *)
(***************************************************************************)
EXTENDS Naturals, Sequences

CONSTANTS
  MaxCalls,     \* bound: calls and commands waiting
  MaxMishaps    \* bound: starts refused, services and processes killed

ASSUME ServiceAssumption == MaxCalls \in Nat /\ MaxMishaps \in Nat

VARIABLES
  driving,      \* m_sessionOn
  suspended,    \* m_uiSuspended
  watchdog,     \* m_bgWatchdog runs
  calls,        \* posted to the Android main thread
  commands,     \* what Android has for the service
  service,      \* there is one
  wakeLock,     \* mWakeLock is held
  sticky,       \* what onStartCommand returned last
  orphan,       \* the process ended during a session, and Android kept its service
  mishaps

serviceVars == <<driving, suspended, watchdog, calls, commands, service, wakeLock, sticky,
                 orphan, mishaps>>
controller == <<driving, suspended, watchdog>>
phone == <<service, wakeLock, sticky, orphan>>

ServiceInit ==
  /\ driving = FALSE /\ suspended = FALSE /\ watchdog = FALSE
  /\ calls = <<>> /\ commands = <<>>
  /\ service = FALSE /\ wakeLock = FALSE /\ sticky = FALSE /\ orphan = FALSE /\ mishaps = 0

\* runOnAndroidMainThread
PostCall(c) == Len(calls) < MaxCalls /\ calls' = Append(calls, c)

Mishap == mishaps < MaxMishaps /\ mishaps' = mishaps + 1

-----------------------------------------------------------------------------
(* The controller. *)

\* A slip: the service is started once, and nothing looks after it.
BeginDrivingUnwatched ==
  /\ ~driving /\ driving' = TRUE /\ PostCall("start")
  /\ UNCHANGED <<suspended, watchdog, commands, phone, mishaps>>

\* startSession
BeginDriving ==
  /\ ~driving /\ driving' = TRUE /\ PostCall("start") /\ watchdog' = TRUE
  /\ UNCHANGED <<suspended, commands, phone, mishaps>>

\* stopSession: by the user, or because the link is lost.
EndDriving ==
  /\ driving /\ driving' = FALSE /\ watchdog' = FALSE /\ PostCall("stop")
  /\ UNCHANGED <<suspended, commands, phone, mishaps>>

ApplicationStateChanged ==
  /\ suspended' = ~suspended
  /\ \/ ~driving /\ UNCHANGED <<watchdog, calls>>
     \/ driving /\ ~suspended /\ PostCall("start") /\ watchdog' = TRUE
     \/ driving /\ suspended /\ PostCall("update") /\ UNCHANGED watchdog
  /\ UNCHANGED <<driving, commands, phone, mishaps>>

\* stopSession stops the timer, so that its own test of m_sessionOn never fails.
OnBackgroundWatchdog ==
  /\ watchdog /\ PostCall(IF suspended THEN "start" ELSE "update")
  /\ UNCHANGED <<controller, commands, phone, mishaps>>

-----------------------------------------------------------------------------
(* The Android main thread. *)

NextCall(c) == calls # <<>> /\ Head(calls) = c /\ calls' = Tail(calls)
Sent(c) == Len(commands) < MaxCalls /\ commands' = Append(commands, c) /\ UNCHANGED mishaps

\* External: Android refuses a start from the background.
StartRefused == suspended /\ Mishap

\* LoggingService.start and update: a start refused is caught and logged.
CallStarts ==
  /\ NextCall("start") \/ NextCall("update")
  /\ \/ Sent("start")
     \/ StartRefused /\ UNCHANGED commands
  /\ UNCHANGED <<controller, phone>>

\* A slip: a stop refused is caught and logged.
CallStopUntold ==
  /\ NextCall("stop")
  /\ \/ Sent("stop")
     \/ StartRefused /\ UNCHANGED commands
  /\ UNCHANGED <<controller, phone>>

\* LoggingService.stop: refused, it falls back on stopService.
CallStop ==
  /\ NextCall("stop")
  /\ \/ Sent("stop")
     \/ StartRefused /\ commands' = Append(commands, "destroy")
  /\ UNCHANGED <<controller, phone>>

NextCommand(c) == commands # <<>> /\ Head(commands) = c

\* onCreate if there is no service, then onStartCommand, with an intent or without one.
OnStartCommand ==
  /\ NextCommand("start") \/ NextCommand("again")
  /\ service' = TRUE /\ wakeLock' = TRUE /\ sticky' = TRUE
  /\ commands' = Tail(commands) /\ UNCHANGED <<controller, calls, orphan, mishaps>>

\* onCreate if there is no service, then onStartCommand of ACTION_STOP.
OnStopCommand ==
  /\ NextCommand("stop")
  /\ service' = TRUE /\ wakeLock' = FALSE /\ sticky' = FALSE /\ orphan' = FALSE
  /\ commands' = Append(Tail(commands), "destroy")
  /\ UNCHANGED <<controller, calls, mishaps>>

OnDestroy ==
  /\ NextCommand("destroy")
  /\ service' = FALSE /\ wakeLock' = FALSE /\ sticky' = FALSE /\ orphan' = FALSE
  /\ commands' = Tail(commands) /\ UNCHANGED <<controller, calls, mishaps>>

-----------------------------------------------------------------------------
(* External: what Android kills. *)

\* The service alone; one that is sticky is made again for what it had to do.
ServiceKilled ==
  /\ service /\ Mishap /\ service' = FALSE /\ wakeLock' = FALSE
  /\ commands' = IF sticky /\ commands = <<>> THEN <<"again">> ELSE commands
  /\ UNCHANGED <<controller, calls, sticky, orphan>>

\* The process, killed or left by the user; the destructor of the controller stops nothing.
ProcessEnds ==
  /\ Mishap /\ driving' = FALSE /\ suspended' = FALSE /\ watchdog' = FALSE /\ calls' = <<>>
  /\ service' = FALSE /\ wakeLock' = FALSE
  /\ \/ commands' = <<>>
     \/ sticky /\ commands' = <<"again">>
  /\ orphan' = (commands' # <<>>) /\ sticky' = orphan'

ServiceNext ==
  \/ BeginDriving \/ EndDriving \/ ApplicationStateChanged \/ OnBackgroundWatchdog
  \/ CallStarts \/ CallStop \/ OnStartCommand \/ OnStopCommand \/ OnDestroy
  \/ ServiceKilled \/ ProcessEnds

\* The timer fires, the main thread runs its calls and Android delivers its commands.
ServiceFairness ==
  /\ WF_serviceVars(OnBackgroundWatchdog) /\ WF_serviceVars(CallStarts \/ CallStop)
  /\ WF_serviceVars(OnStartCommand \/ OnStopCommand \/ OnDestroy)

-----------------------------------------------------------------------------
(* Properties. *)

ServiceTypeOK ==
  /\ {driving, suspended, watchdog, service, wakeLock, sticky, orphan} \subseteq BOOLEAN
  /\ calls \in Seq({"start", "update", "stop"}) /\ Len(calls) <= MaxCalls
  /\ commands \in Seq({"start", "stop", "destroy", "again"}) /\ Len(commands) <= MaxCalls + mishaps
  /\ mishaps \in 0..MaxMishaps

\* Once what was asked for is done, a phone without a session may sleep, however sessions, the
\* background and what Android refuses or kills followed each other, unless the process ended
\* during a session: the service that Android then starts again has nobody to stop it
\* (LoggingService.java:52-82).
WakeLockReleased ==
  ~driving /\ calls = <<>> /\ commands = <<>> /\ ~orphan => ~wakeLock

\* A session that lasts is kept awake again whatever happened to its service, one that the stop
\* of the session before destroyed included (drive_controller.cpp:700).
SessionKeptAwake == driving ~> (wakeLock \/ ~driving)
=============================================================================
