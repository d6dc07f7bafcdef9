------------------------------ MODULE ElmLink -------------------------------
(***************************************************************************)
(* What the ELM327 driver promises about the link to whoever listens to    *)
(* its signals: connected is emitted once per connection and only by an    *)
(* attempt under way, a connection that ends is always announced by        *)
(* disconnected, an attempt that fails by errorOccurred, and nothing else  *)
(* is said in between.                                                     *)
(***************************************************************************)
EXTENDS Sequences

VARIABLES
  phase,        \* "idle", "opening" or "ready"
  told          \* link signals emitted and not handled yet

vars == <<phase, told>>

Init == phase = "idle" /\ told = <<>>

Ending == IF phase = "ready" THEN <<"disconnected">> ELSE <<>>

Handle == told # <<>> /\ told' = Tail(told) /\ UNCHANGED phase

\* The user connects: the previous connection ends first.
Connect ==
  /\ told = <<>>
  /\ \/ phase' = "opening" /\ told' = Ending
     \/ phase' = "idle" /\ told' = Append(Ending, "errorOccurred")

Establish ==
  /\ told = <<>> /\ phase = "opening"
  /\ phase' = "ready" /\ told' = <<"connected">>

\* The attempt fails, or the connection is lost.
Fail ==
  /\ told = <<>> /\ phase \in {"opening", "ready"}
  /\ phase' = "idle" /\ told' = <<"errorOccurred">> \o Ending

Disconnect ==
  /\ told = <<>>
  /\ phase' = "idle" /\ told' = Ending

Next == Handle \/ Connect \/ Establish \/ Fail \/ Disconnect

Spec == Init /\ [][Next]_vars
=============================================================================
