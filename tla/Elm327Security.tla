--------------------------- MODULE Elm327Security ---------------------------
(***************************************************************************)
(* sendSecurityAccessRequest over the ELM327 driver: the seed is asked for *)
(* with a raw command, a listener waits for an answer to a command that    *)
(* starts with "27" and queues the key, and a second listener takes the    *)
(* next answer to any raw command for the ECU's verdict.  The listeners    *)
(* are connections to rawResponse: they outlive the link, and every one of *)
(* them hears every answer.  Listeners of one kind are alike, so they are  *)
(* counted.                                                                *)
(***************************************************************************)
EXTENDS Elm327

CONSTANTS
  SeedRequest,  \* the texts of the two frames, within RawCommands
  KeyFrame,
  Patient,      \* does the client wait for its raw commands before it asks, and then
                \* keep its link and send no other until it has the result?
  MaxListeners  \* bound: no request while so many listeners wait

ASSUME SecurityAssumption ==
  /\ SeedRequest \in RawCommands /\ KeyFrame \in RawCommands /\ SeedRequest # KeyFrame
  /\ Patient \in BOOLEAN /\ MaxListeners \in Nat

VARIABLES
  waitSeed,     \* listeners for an answer to a "27" command
  waitKey,      \* listeners for the next answer, whatever the command
  asked,        \* external: the client asked, on this link, and has no result
  verdict       \* securityAccessResult emitted in the last step, with its cause

securityVars == <<waitSeed, waitKey, asked, verdict>>
allVars == <<vars, securityVars>>

Frames == {SeedRequest, KeyFrame}
Verdicts == [success : BOOLEAN, by : Answers]
Refused(r) == [success |-> FALSE, by |-> r]

SecurityInit == Init /\ waitSeed = 0 /\ waitKey = 0 /\ asked = FALSE /\ verdict = {}

RawWaiting ==
  \/ busy /\ current.kind = "Raw"
  \/ \E i \in 1..Len(queue) : queue[i].kind = "Raw"

\* A slip: both listeners are connected with the request.
RequestBothListen ==
  /\ Quiet /\ waitSeed + waitKey < MaxListeners
  /\ Patient => ~asked /\ ~RawWaiting
  /\ SendRawCommand(SeedRequest, <<>>)
  /\ waitSeed' = waitSeed + 1 /\ waitKey' = waitKey + 1
  /\ asked' = TRUE /\ verdict' = {}

\* Refused at once when not ready or for an unknown algorithm.
SendSecurityAccessRequest ==
  /\ Quiet /\ waitSeed + waitKey < MaxListeners
  /\ Patient => ~asked /\ ~RawWaiting
  /\ \/ /\ verdict' = {Refused(NoAnswer)}
        /\ UNCHANGED <<vars, waitSeed, waitKey, asked>>
     \/ /\ SendRawCommand(SeedRequest, <<>>)
        /\ waitSeed' = waitSeed + 1 /\ asked' = TRUE
        /\ verdict' = {} /\ UNCHANGED waitKey

\* A seed is four bytes after 67 01, which the answer to a key is too short for;
\* another answer may (lucky) look like one, or hold the text 67 and not 7F.
GivesSeed(r, lucky) == r.ok /\ (r.to.arg = SeedRequest \/ (lucky /\ r.to.arg # KeyFrame))
Says67(r, lucky) == r.ok /\ (r.to.arg \in Frames \/ lucky)

\* The second listeners take the answer r for the verdict.
TakeForVerdict(r, lucky) ==
  IF waitKey = 0 THEN {} ELSE {[success |-> Says67(r, lucky), by |-> r]}

\* A slip: the key is computed but its frame is never queued.
HearFrameUnsent(r, lucky) ==
  /\ waitSeed' = 0 /\ waitKey' = IF GivesSeed(r, lucky) THEN waitSeed ELSE 0
  /\ verdict' = TakeForVerdict(r, lucky)
                  \cup (IF GivesSeed(r, lucky) \/ waitSeed = 0 THEN {} ELSE {Refused(r)})
  /\ Deliver

\* A "27" command was answered.  Each first listener queues its key and installs a
\* second one, or gives up; a listener installed now does not hear this answer.
\* A seed is only ever given to a driver that is ready.
HearFrame(r, lucky) ==
  /\ waitSeed' = 0
  /\ \/ /\ GivesSeed(r, lucky) /\ waitSeed > 0
        /\ waitKey' = waitSeed
        /\ verdict' = TakeForVerdict(r, lucky)
        /\ Submit([i \in 1..waitSeed |-> Cmd("Raw", KeyFrame)], Tail(signals))
        /\ UNCHANGED <<pollVars, probeVars>>
     \/ /\ ~(GivesSeed(r, lucky) /\ waitSeed > 0)
        /\ waitKey' = 0
        /\ verdict' = TakeForVerdict(r, lucky)
                        \cup (IF waitSeed = 0 THEN {} ELSE {Refused(r)})
        /\ Deliver

\* Another raw command was answered.
HearOther(r, lucky) ==
  /\ waitKey' = 0 /\ UNCHANGED waitSeed
  /\ verdict' = TakeForVerdict(r, lucky)
  /\ Deliver

SecurityDeliver ==
  /\ signals # <<>>
  /\ LET sig == Head(signals) IN
     \/ /\ sig.name = "rawResponse"
        /\ \E lucky \in BOOLEAN :
             \/ sig.arg \in Frames /\ HearFrame(sig.answer, lucky)
             \/ sig.arg \notin Frames /\ HearOther(sig.answer, lucky)
        /\ asked' = (asked /\ verdict' = {})
     \/ /\ sig.name # "rawResponse"
        /\ Deliver /\ verdict' = {} /\ UNCHANGED <<waitSeed, waitKey>>
        /\ asked' = (asked /\ sig.name # "disconnected")

\* What the driver does meanwhile.
Otherwise(A) == A /\ verdict' = {} /\ UNCHANGED <<waitSeed, waitKey, asked>>

SecurityNext ==
  \/ SecurityDeliver
  \/ SendSecurityAccessRequest
  \/ Otherwise(React)
  \/ Otherwise(Querying)
  \/ (Patient => ~asked) /\ Otherwise(Client)

SecuritySpec == SecurityInit /\ [][SecurityNext]_allVars

\* The event loop, as in Elm327; the slots of every signal are those above.
SecurityFairSpec ==
  /\ SecuritySpec
  /\ WF_allVars(SecurityDeliver)
  /\ WF_allVars(Otherwise(OnTimeout))

-----------------------------------------------------------------------------
(* Properties. *)

\* "keyHex = key calculee et envoyee" (Elm327.hpp:126): a success reported is the
\* ECU's positive answer to a key that was sent, not its answer to the request for
\* a seed or to another command.
SuccessIsEarned == \A v \in verdict : v.success => v.by.ok /\ v.by.to = Cmd("Raw", KeyFrame)

\* "Emet securityAccessResult(success, keyHex) a la fin" (Elm327.hpp:88): a
\* request that was sent gets its result.
SecurityConcluded == (waitSeed + waitKey > 0) ~> (waitSeed + waitKey = 0)
=============================================================================
