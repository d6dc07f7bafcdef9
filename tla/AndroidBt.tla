----------------------------- MODULE AndroidBt ------------------------------
(***************************************************************************)
(* Bluetooth on Android: the driver (Elm327.cpp, the Android branches)     *)
(* calls BtRfcommHelper.connect, which blocks, on a thread of its own for  *)
(* each attempt, and the helper keeps one socket for all of them in static *)
(* fields.  An attempt given up goes on in its thread: what it finds in    *)
(* the end, and what it does to the helper's socket, comes at any moment   *)
(* of the attempts that follow.                                            *)
(*                                                                         *)
(* A thread of the helper goes through `at`: close() the socket there is,  *)
(* connect its own, then put it in the static fields or, on an exception,  *)
(* close() again; its result is posted to the driver.                      *)
(*                                                                         *)
(* Abstractions.  An attempt is the current one as long as no call has     *)
(* moved m_btGen on.  The initialisation of the dongle, which Elm327       *)
(* models, is one step here.  A thread's number is used again when its     *)
(* socket is closed.                                                       *)
(***************************************************************************)
EXTENDS Integers, Sequences

CONSTANTS
  Threads,      \* bound: threads and sockets at a time
  MaxResults    \* bound: results on their way

ASSUME ThreadsAssumption == 0 \notin Threads /\ MaxResults \in Nat \ {0}

VARIABLES
  driver,       \* "idle", "opening", "linked" until the dongle is ready, "ready"
  attempt,      \* m_btAttempt
  io,           \* m_io: "none", "open", "closed" when its poll has closed it
  limit,        \* m_btConnectTimeout runs
  retries,      \* timers of 250 ms armed
  thread,       \* what each thread is doing, and whether its m_btGen is the current one
  results,      \* results posted: [ok, current]
  sSocket,      \* the helper's socket: the thread it is of, or 0
  sockets       \* sockets connected

btVars == <<driver, attempt, io, limit, retries, thread, results, sSocket, sockets>>

helper == <<sSocket, sockets>>
attempts == <<attempt, limit, retries>>

MaxRetries == 1     \* bound: timers of 250 ms
MaxAttempt == 2

BtInit ==
  /\ driver = "idle" /\ attempt = 0 /\ io = "none" /\ limit = FALSE /\ retries = 0
  /\ thread = [t \in Threads |-> [at |-> "none", current |-> FALSE]]
  /\ results = <<>> /\ sSocket = 0 /\ sockets = {}

\* BtRfcommHelper.close
HelperClose == sSocket' = 0 /\ sockets' = sockets \ {sSocket}

\* ++m_btGen: no attempt is the current one any more.
Outdate ==
  /\ thread' = [t \in Threads |-> [thread[t] EXCEPT !.current = FALSE]]
  /\ results' = [i \in 1..Len(results) |-> [results[i] EXCEPT !.current = FALSE]]

\* disconnectPort; closeTransport closes the helper's socket.
BtDisconnected ==
  /\ driver' = "idle" /\ attempt' = 0 /\ io' = "none" /\ limit' = FALSE
  /\ Outdate /\ HelperClose /\ UNCHANGED retries

\* startBtSocket and startAndroidNativeBt for attempt n: a new m_btGen, a new thread.
\* An m_io of the driver's own is closed, which closes the helper's socket.
StartNativeBt(n) ==
  /\ attempt' = n /\ limit' = TRUE /\ driver' = "opening" /\ io' = "none"
  /\ results' = [i \in 1..Len(results) |-> [results[i] EXCEPT !.current = FALSE]]
  /\ \E t \in Threads :
       /\ thread[t].at = "none" /\ t \notin sockets
       /\ thread' = [u \in Threads |-> IF u = t THEN [at |-> "close", current |-> TRUE]
                                       ELSE [thread[u] EXCEPT !.current = FALSE]]

-----------------------------------------------------------------------------
(* The driver. *)

ConnectBluetooth ==
  /\ driver \in {"idle", "ready"}
  /\ StartNativeBt(0) /\ HelperClose /\ UNCHANGED retries

DisconnectBluetooth == driver # "idle" /\ BtDisconnected

OnBtConnectTimeout ==
  /\ limit /\ driver = "opening"
  /\ IF attempt < MaxAttempt
     THEN StartNativeBt(attempt + 1) /\ HelperClose /\ UNCHANGED retries
     ELSE BtDisconnected

\* The 250 ms timer looks at m_opening only, which stays until the dongle is ready.
RetryAttempt ==
  /\ retries > 0 /\ retries' = retries - 1
  /\ IF driver \in {"opening", "linked"}
     THEN /\ StartNativeBt(attempt)
          /\ IF io = "none" THEN UNCHANGED helper ELSE HelperClose
     ELSE UNCHANGED <<driver, attempt, io, limit, thread, results, helper>>

\* A slip: the socket of an attempt given up is left to the helper.
OnAndroidBtResultKept ==
  /\ results # <<>> /\ results' = Tail(results) /\ ~Head(results).current
  /\ UNCHANGED <<driver, attempt, io, limit, retries, thread, helper>>

OnAndroidBtResult ==
  /\ results # <<>> /\ results' = Tail(results)
  /\ \/ /\ ~Head(results).current
        /\ IF Head(results).ok THEN HelperClose ELSE UNCHANGED helper
        /\ UNCHANGED <<driver, io, attempts, thread>>
     \/ /\ Head(results).current /\ Head(results).ok
        /\ driver' = "linked" /\ io' = "open" /\ limit' = FALSE
        /\ UNCHANGED <<attempt, retries, thread, helper>>
     \/ /\ Head(results).current /\ ~Head(results).ok /\ attempt < MaxAttempt
        /\ attempt' = attempt + 1
        /\ retries < MaxRetries /\ retries' = retries + 1
        /\ UNCHANGED <<driver, io, limit, thread, helper>>

\* The last attempt failed too.
OnAndroidBtFailed ==
  /\ results # <<>> /\ Head(results).current /\ ~Head(results).ok
  /\ attempt = MaxAttempt
  /\ driver' = "idle" /\ attempt' = 0 /\ io' = "none" /\ limit' = FALSE
  /\ thread' = [t \in Threads |-> [thread[t] EXCEPT !.current = FALSE]]
  /\ results' = [i \in 1..Len(results) - 1 |-> [results[i + 1] EXCEPT !.current = FALSE]]
  /\ HelperClose /\ UNCHANGED retries

\* The dongle answers the initialisation or does not.
DongleReady ==
  /\ driver = "linked" /\ io = "open" /\ sSocket # 0 /\ driver' = "ready"
  /\ UNCHANGED <<io, attempts, thread, results, helper>>

DongleSilent == driver = "linked" /\ BtDisconnected

\* AndroidBtIo's poll finds no socket: it closes itself, and tells nobody.
PollFindsNone ==
  /\ io = "open" /\ sSocket = 0 /\ io' = "closed"
  /\ UNCHANGED <<driver, attempts, thread, results, helper>>

-----------------------------------------------------------------------------
(* BtRfcommHelper.connect *)

ThreadCloses(t) ==
  /\ thread[t].at = "close" /\ thread' = [thread EXCEPT ![t].at = "connect"]
  /\ HelperClose /\ UNCHANGED <<driver, io, attempts, results>>

ThreadConnects(t) ==
  /\ thread[t].at = "connect" /\ thread' = [thread EXCEPT ![t].at = "store"]
  /\ sockets' = sockets \cup {t}
  /\ UNCHANGED <<driver, io, attempts, results, sSocket>>

\* The socket that was there, if another thread's, is forgotten.
ThreadStores(t) ==
  /\ thread[t].at = "store" /\ thread' = [thread EXCEPT ![t].at = "ok"]
  /\ sSocket' = t /\ UNCHANGED <<driver, io, attempts, results, sockets>>

\* An exception: whatever socket there is gets closed.
ThreadFails(t) ==
  /\ thread[t].at = "connect" /\ thread' = [thread EXCEPT ![t].at = "failed"]
  /\ HelperClose /\ UNCHANGED <<driver, io, attempts, results>>

ThreadEnds(t) ==
  /\ thread[t].at \in {"ok", "failed"} /\ Len(results) < MaxResults
  /\ thread' = [thread EXCEPT ![t] = [at |-> "none", current |-> FALSE]]
  /\ results' = Append(results, [ok |-> thread[t].at = "ok", current |-> thread[t].current])
  /\ UNCHANGED <<driver, io, attempts, helper>>

\* External: the system closes a socket nothing refers to.
Finalize(t) ==
  /\ t \in sockets /\ t # sSocket /\ thread[t].at # "store"
  /\ sockets' = sockets \ {t}
  /\ UNCHANGED <<driver, io, attempts, thread, results, sSocket>>

BtNext ==
  \/ ConnectBluetooth \/ DisconnectBluetooth \/ OnBtConnectTimeout \/ RetryAttempt
  \/ OnAndroidBtResult \/ OnAndroidBtFailed
  \/ DongleReady \/ DongleSilent \/ PollFindsNone
  \/ \E t \in Threads : \/ ThreadCloses(t) \/ ThreadConnects(t) \/ ThreadStores(t)
                        \/ ThreadFails(t) \/ ThreadEnds(t) \/ Finalize(t)

BtSpec == BtInit /\ [][BtNext]_btVars

-----------------------------------------------------------------------------
(* Properties. *)

BtTypeOK ==
  /\ driver \in {"idle", "opening", "linked", "ready"}
  /\ attempt \in 0..MaxAttempt /\ io \in {"none", "open", "closed"}
  /\ limit \in BOOLEAN /\ retries \in 0..MaxRetries
  /\ thread \in [Threads -> [at : {"none", "close", "connect", "store", "ok", "failed"},
                             current : BOOLEAN]]
  /\ results \in Seq([ok : BOOLEAN, current : BOOLEAN]) /\ Len(results) <= MaxResults
  /\ sSocket \in Threads \cup {0} /\ sockets \subseteq Threads

\* A driver that gave up or was told to leaves no socket behind: whatever an attempt it
\* no longer waits for comes to, the helper holds none once the threads are through and
\* their results are in (Elm327.cpp:281-287, 455-484), and the dongle can be reached
\* again.
DongleLetGo ==
  (driver = "idle" /\ results = <<>> /\ \A t \in Threads : thread[t].at = "none")
    => sSocket = 0
=============================================================================
