-------------------------------- MODULE Mpps --------------------------------
(***************************************************************************)
(* The MPPS programmer (libs/mpps, panels/mpps_panel.cpp): connecting to   *)
(* the dongle, reading the ROM of the ECU and writing it, on a worker      *)
(* thread.                                                                 *)
(*                                                                         *)
(* Every operation is a sequence of calls of sendCommand, each a transfer  *)
(* out and a transfer in with a time limit: `step` is the call being made. *)
(* The main thread makes the calls of connect and disconnect and waits,    *)
(* the worker those of an operation.  The dongle is external: it carries   *)
(* out what it receives, in order, or refuses it, and one answer per       *)
(* command waits in its endpoint until some transfer in takes it.          *)
(*                                                                         *)
(* The worker tells the end of a writing by log, which appends to a widget *)
(* of the main thread from its own (mpps_panel.cpp:296-299): the text is   *)
(* taken to be shown, though Qt promises nothing for such a call.  Its     *)
(* signals are posted; operationFailed is connected to nothing.            *)
(*                                                                         *)
(* Abstractions.  ROMs are numbered as they are written, and a block of    *)
(* the ECU is the ROM it is of; frames, check bytes, the protocol of the   *)
(* vehicle, the bytes read and the progress bar are left out.              *)
(* eraseSector, setProtocol and hardwareChecksum are called by nothing.    *)
(***************************************************************************)
EXTENDS Integers, Sequences

CONSTANTS
  Blocks,       \* blocks of MAX_BLOCK_SIZE in a ROM
  MaxOwed,      \* bound: answers not taken when a transfer gives up
  MaxWrites     \* bound: ROMs written

ASSUME MppsAssumption == Blocks \in Nat \ {0} /\ MaxOwed \in Nat /\ MaxWrites \in Nat

VARIABLES
  device,       \* m_device: "none", "opening", "connected"
  leaked,       \* the interface is claimed by a handle that nobody closes
  operating,    \* setOperating(true): scan, connect, read and write are disabled
  checklist,    \* writeRom is in its file and checklist dialogs
  job,          \* "none", "read", "write": what the worker runs
  step,         \* the call of sendCommand being made, "none" between operations
  next,         \* block that step "block" transfers
  awaiting,     \* the transfer out is done and the transfer in is waiting
  failed,       \* a block of the job failed
  wire,         \* commands sent whose answer was not taken
  answered,     \* how many of them the dongle has carried out
  flash,        \* the ECU's blocks
  refused,      \* blocks whose last writing carried out was refused (read by no code)
  rom,          \* m_pendingWrite
  posted,       \* signals of the worker on their way to the main thread
  verdict       \* what the panel was last told of a writing: "written" or "failed"

mppsVars == <<device, leaked, operating, checklist, job, step, next, awaiting, failed, wire,
              answered, flash, refused, rom, posted, verdict>>

panelState == <<device, leaked, operating, checklist, rom>>
dongleState == <<wire, answered, flash, refused>>
toldState == <<posted, verdict>>

Steps == {"none", "handshake", "ident", "abort", "enter", "block", "exit"}

\* The command of a call; only the writing of a block changes the ECU.
Command == IF step = "block" /\ job = "write"
           THEN [writes |-> TRUE, block |-> next, rom |-> rom]
           ELSE [writes |-> FALSE, block |-> 1, rom |-> 0]

MppsInit ==
  /\ device = "none" /\ leaked = FALSE /\ operating = FALSE /\ checklist = FALSE
  /\ job = "none" /\ step = "none" /\ next = 1 /\ awaiting = FALSE /\ failed = FALSE
  /\ wire = <<>> /\ answered = 0 /\ flash = [b \in 1..Blocks |-> 0] /\ refused = {} /\ rom = 0
  /\ posted = <<>> /\ verdict = "written"

-----------------------------------------------------------------------------
(* sendCommand, and what its caller does with the result. *)

\* The transfer out succeeds.
SendCommand ==
  /\ step # "none" /\ ~awaiting
  /\ wire' = Append(wire, Command) /\ awaiting' = TRUE
  /\ UNCHANGED <<panelState, job, step, next, failed, answered, flash, refused, toldState>>

\* The worker's end: the text of a writing at once, and romReadComplete and the watcher's
\* finished for the panel to hear.
Report ==
  /\ step' = "none" /\ job' = "none" /\ awaiting' = FALSE
  /\ verdict' = IF job = "read" THEN verdict ELSE IF failed' THEN "failed" ELSE "written"
  /\ posted' = IF job = "read" /\ ~failed' THEN <<"read", "finished">> ELSE <<"finished">>
  /\ UNCHANGED <<panelState, next>>

\* connect returns: the handle stays open when the handshake fails.
HandshakeEnds(ok) ==
  /\ step = "handshake"
  /\ device' = IF ok THEN "connected" ELSE "none"
  /\ leaked' = (leaked \/ ~ok)
  /\ step' = (IF ok THEN "ident" ELSE "none") /\ awaiting' = FALSE
  /\ UNCHANGED <<operating, checklist, rom, job, next, failed, toldState>>

\* identifyEcu only labels.
IdentEnds ==
  /\ step = "ident" /\ step' = "none" /\ awaiting' = FALSE
  /\ UNCHANGED <<panelState, job, next, failed, toldState>>

\* disconnect, then m_device.reset().
AbortEnds ==
  /\ step = "abort" /\ step' = "none" /\ awaiting' = FALSE
  /\ device' = "none"
  /\ UNCHANGED <<leaked, operating, checklist, rom, job, next, failed, toldState>>

\* enterProgMode
EnterEnds(ok) ==
  /\ step = "enter"
  /\ IF ok THEN /\ step' = "block" /\ next' = 1 /\ awaiting' = FALSE
                /\ UNCHANGED <<panelState, job, failed, toldState>>
     ELSE failed' = TRUE /\ Report

\* A slip: the loop of writeBlock goes on after an error.
BlockEndsAnyway(ok) ==
  /\ step = "block" /\ awaiting' = FALSE /\ failed' = FALSE
  /\ IF next < Blocks THEN step' = "block" /\ next' = next + 1
     ELSE step' = "exit" /\ UNCHANGED next
  /\ UNCHANGED <<panelState, job, toldState>>

\* readBlock, writeBlock: the loop stops at the first error.
BlockEnds(ok) ==
  /\ step = "block" /\ awaiting' = FALSE /\ failed' = ~ok
  /\ IF ok /\ next < Blocks THEN step' = "block" /\ next' = next + 1
     ELSE step' = "exit" /\ UNCHANGED next
  /\ UNCHANGED <<panelState, job, toldState>>

\* exitProgMode: its result is ignored.
ExitEnds == step = "exit" /\ UNCHANGED failed /\ Report

CallEnds(ok) ==
  \/ HandshakeEnds(ok) \/ IdentEnds \/ AbortEnds \/ EnterEnds(ok) \/ BlockEnds(ok) \/ ExitEnds

\* The transfer out fails: nothing was sent.
SendFails ==
  /\ step # "none" /\ ~awaiting
  /\ CallEnds(FALSE) /\ UNCHANGED dongleState

\* The transfer in takes the first answer there is: a success whatever it answers, a
\* refusal too, unless it is empty.
ReceiveAnswer ==
  /\ awaiting /\ answered > 0
  /\ wire' = Tail(wire) /\ answered' = answered - 1 /\ UNCHANGED <<flash, refused>>
  /\ \E empty \in BOOLEAN : CallEnds(~empty)

\* No answer in time: it may come later.
ReceiveTimesOut ==
  /\ awaiting /\ answered = 0 /\ Len(wire) <= MaxOwed
  /\ CallEnds(FALSE) /\ UNCHANGED dongleState

\* External: the dongle carries out the next command, or refuses to write a block.
DongleAnswers ==
  /\ answered < Len(wire)
  /\ answered' = answered + 1
  /\ LET c == wire[answered + 1] IN
     \/ ~c.writes /\ UNCHANGED <<flash, refused>>
     \/ /\ c.writes
        /\ flash' = [flash EXCEPT ![c.block] = c.rom] /\ refused' = refused \ {c.block}
     \/ c.writes /\ UNCHANGED flash /\ refused' = refused \cup {c.block}
  /\ UNCHANGED <<panelState, job, step, next, awaiting, failed, wire, toldState>>

-----------------------------------------------------------------------------
(* The panel.  The main thread waits in sendCommand during connect and disconnect. *)

MainFree == (step = "none" \/ job # "none") /\ ~checklist

\* connectDevice: no device, no access, or an interface already claimed end it at once.
ConnectDevice ==
  /\ MainFree /\ ~operating /\ device = "none"
  /\ \/ UNCHANGED mppsVars
     \/ /\ ~leaked
        /\ device' = "opening" /\ step' = "handshake" /\ awaiting' = FALSE
        /\ UNCHANGED <<leaked, operating, checklist, rom, job, next, failed, dongleState,
                       toldState>>

\* disconnectDevice
DisconnectDevice ==
  /\ MainFree /\ ~operating /\ device = "connected"
  /\ step' = "abort" /\ awaiting' = FALSE
  /\ UNCHANGED <<panelState, job, next, failed, dongleState, toldState>>

\* A slip: the buttons stay enabled during the operation.
StartJobEnabled(j) ==
  /\ job' = j /\ step' = "enter" /\ awaiting' = FALSE /\ failed' = FALSE
  /\ UNCHANGED operating

\* setOperating(true), then QtConcurrent::run.
StartJob(j) ==
  /\ operating' = TRUE
  /\ job' = j /\ step' = "enter" /\ awaiting' = FALSE /\ failed' = FALSE

ReadRom ==
  /\ MainFree /\ ~operating /\ device = "connected"
  /\ StartJob("read")
  /\ UNCHANGED <<device, leaked, checklist, rom, next, dongleState, toldState>>

\* writeRom up to its dialogs.
WriteRom ==
  /\ MainFree /\ ~operating /\ device = "connected" /\ rom < MaxWrites
  /\ checklist' = TRUE
  /\ UNCHANGED <<device, leaked, operating, rom, job, step, next, awaiting, failed,
                 dongleState, toldState>>

\* The four boxes are ticked and the ROM is written, unless it is empty.
AcceptChecklist ==
  /\ checklist /\ checklist' = FALSE
  /\ rom' = rom + 1
  /\ StartJob("write")
  /\ UNCHANGED <<device, leaked, next, dongleState, toldState>>

RejectChecklist ==
  /\ checklist /\ checklist' = FALSE
  /\ UNCHANGED <<device, leaked, operating, rom, job, step, next, awaiting, failed,
                 dongleState, toldState>>

\* A posted signal reaches the panel.
HandlePosted ==
  /\ MainFree /\ posted # <<>>
  /\ posted' = Tail(posted)
  /\ operating' = (operating /\ Head(posted) # "finished")
  /\ UNCHANGED <<device, leaked, checklist, rom, job, step, next, awaiting, failed,
                 dongleState, verdict>>

MppsNext ==
  \/ SendCommand \/ SendFails \/ ReceiveAnswer \/ ReceiveTimesOut \/ DongleAnswers
  \/ ConnectDevice \/ DisconnectDevice \/ ReadRom
  \/ WriteRom \/ AcceptChecklist \/ RejectChecklist \/ HandlePosted

MppsSpec == MppsInit /\ [][MppsNext]_mppsVars

-----------------------------------------------------------------------------
(* Properties. *)

MppsTypeOK ==
  /\ device \in {"none", "opening", "connected"} /\ leaked \in BOOLEAN
  /\ operating \in BOOLEAN /\ checklist \in BOOLEAN
  /\ job \in {"none", "read", "write"} /\ step \in Steps
  /\ next \in 1..Blocks /\ awaiting \in BOOLEAN /\ failed \in BOOLEAN
  /\ wire \in Seq([writes : BOOLEAN, block : 1..Blocks, rom : Nat])
  /\ answered \in 0..Len(wire)
  /\ flash \in [1..Blocks -> Nat] /\ refused \subseteq 1..Blocks /\ rom \in Nat
  /\ posted \in Seq({"read", "finished"})
  /\ verdict \in {"written", "failed"}

\* While the worker runs, nobody disconnects or frees the device under it, makes a call of
\* his own on it, or starts a second worker.
WorkerAlone ==
  job # "none" => device = "connected" /\ step \in {"enter", "block", "exit"} /\ operating

\* Block b of the ECU once the dongle has carried out what it was sent.
Settles(b) ==
  LET writes == {i \in (answered + 1)..Len(wire) : wire[i].writes /\ wire[i].block = b} IN
  IF writes = {} THEN flash[b]
  ELSE wire[CHOOSE i \in writes : \A j \in writes : j <= i].rom

\* An ECU left between two ROMs is told as soon as the writing ends: unless the last one was
\* told to have failed, each block is of the ROM last written, whatever answer was lost,
\* late or empty, a call given up, or the device disconnected and connected again.  A
\* block the dongle refused is left out: the code takes the refusal for an answer like any
\* other (MppsDevice_libusb.cpp:287-289) and tells that it was written.
TornIsTold ==
  job # "write" /\ verdict = "written" => \A b \in (1..Blocks) \ refused : Settles(b) = rom
=============================================================================
