---------------------------- MODULE FilesProofs ------------------------------
(***************************************************************************)
(* What is proved of the parts that download, install and change files and *)
(* ROMs, for every instance of each, and then of the whole of MCFiles,     *)
(* each part of which behaves as if alone.                                 *)
(*                                                                         *)
(* What goes through a list of modifications, words or areas is a fold.    *)
(* Nothing is proved by induction over the list: FoldLeft goes through the *)
(* subsets of its domain, which are finite and have a smallest one where a *)
(* statement fails, and `FoldRun` gives the intermediate values.           *)
(***************************************************************************)
EXTENDS MCFiles, SequenceTheorems, FiniteSetTheorems, TLAPS

-----------------------------------------------------------------------------
(* Folds.  FoldLeft takes a sequence from its last element down to the     *)
(* first one, through the subsets of its domain: `Minimal` is induction    *)
(* over them, `FoldThere` that such a function of subsets exists, and      *)
(* `FoldRun` that it goes through the sequence element by element.         *)

LEMMA Smallest ==
  ASSUME NEW S, IsFiniteSet(S), NEW T, T \subseteq SUBSET S, T # {}
  PROVE  \E s \in T : \A t \in T : t \subseteq s => t = s
<1>1. IsWellFoundedOn(StrictSubsetOrdering(S), FiniteSubsetsOf(S))
  BY FS_StrictSubsetOrderingWellFounded
<1>2. T \subseteq FiniteSubsetsOf(S)
  BY FS_FiniteSubsetsOfFinite
<1>3. PICK s \in T : \A t \in T : <<t, s>> \notin StrictSubsetOrdering(S)
  <2> HIDE DEF StrictSubsetOrdering
  <2> QED  BY <1>1, <1>2, WFMin
<1>4. ASSUME NEW t \in T, t \subseteq s, t # s PROVE FALSE
  BY <1>3, <1>4 DEF StrictSubsetOrdering
<1> QED  BY <1>4

LEMMA Minimal ==
  ASSUME NEW S, IsFiniteSet(S), NEW T, T \subseteq SUBSET S, T # {}
  PROVE  \E s \in T : \A x \in s : s \ {x} \notin T
<1>1. PICK s \in T : \A t \in T : t \subseteq s => t = s
  BY Smallest
<1>2. ASSUME NEW x \in s, s \ {x} \in T PROVE FALSE
  BY <1>1, <1>2
<1> QED  BY <1>2

\* Induction up to n.
LEMMA Upward ==
  ASSUME NEW n \in Nat, NEW T, 0 \in T, \A i \in 1..n : i - 1 \in T => i \in T
  PROVE  \A i \in 0..n : i \in T
<1> DEFINE N == 0..n
           upto(i) == 0..i
           U == {upto(i) : i \in {i \in N : i \notin T}}
<1>1. IsFiniteSet(N)
  BY FS_Interval
<1>2. U \subseteq SUBSET N
  OBVIOUS
<1>3. ASSUME U # {} PROVE FALSE
  <2>1. PICK u \in U : \A v \in U : v \subseteq u => v = u
    <3> HIDE DEF U, N
    <3> QED  BY <1>1, <1>2, <1>3, Smallest
  <2>2. PICK i \in N : i \notin T /\ u = upto(i)
    BY <2>1
  <2>3. i \in 1..n /\ i - 1 \in N /\ i - 1 \notin T
    BY <2>2
  <2>4. upto(i - 1) \in U /\ upto(i - 1) \subseteq upto(i) /\ i \in upto(i) /\ i \notin upto(i - 1)
    BY <2>3
  <2> HIDE DEF U, upto
  <2> QED  BY <2>1, <2>2, <2>4
<1>4. \A i \in N : i \notin T => U # {}
  OBVIOUS
<1> QED  BY <1>3, <1>4

\* Folding down a set, an element picked at a time.
FoldOf(f, S, base, pick, Step) ==
  \A s \in SUBSET S : f[s] = IF s = {} THEN base ELSE Step[<<pick[s], f[s \ {pick[s]}]>>]

LEMMA FoldThere ==
  ASSUME NEW S, IsFiniteSet(S), NEW D, NEW base \in D, NEW pick,
         \A s \in SUBSET S : s # {} => pick[s] \in s,
         NEW Step \in [S \X D -> D]
  PROVE  \E f \in [SUBSET S -> D] : FoldOf(f, S, base, pick, Step)
<1> DEFINE Eq(f, s) == f[s] = IF s = {} THEN base ELSE Step[<<pick[s], f[s \ {pick[s]}]>>]
           Upto(s) == {t \in SUBSET S : Cardinality(t) <= Cardinality(s)}
           Good(s) == \E f \in [SUBSET S -> D] : \A t \in Upto(s) : Eq(f, t)
           Bad0 == {s \in SUBSET S : ~Good(s)}
<1>1. \A s \in SUBSET S : IsFiniteSet(s) /\ Cardinality(s) \in Nat
  BY FS_Subset, FS_CardinalityType
<1>2. \A s \in SUBSET S : \A x \in s :
        s \ {x} \in SUBSET S /\ Cardinality(s \ {x}) = Cardinality(s) - 1
  BY <1>1, FS_RemoveElement
<1>3. ASSUME NEW s \in SUBSET S, s = {} \/ \E x \in s : Good(s \ {x}) PROVE Good(s)
  <2>1. CASE s = {}
    <3> DEFINE f == [t \in SUBSET S |-> base]
    <3>1. Upto(s) = {{}}
      BY <1>1, <2>1, FS_EmptySet
    <3>2. f \in [SUBSET S -> D] /\ Eq(f, {})
      OBVIOUS
    <3> HIDE DEF Upto, f, Eq
    <3>3. \A t \in Upto(s) : Eq(f, t)
      BY <3>1, <3>2
    <3> QED  BY <3>2, <3>3
  <2>2. CASE \E x \in s : Good(s \ {x})
    <3>1. PICK x \in s : Good(s \ {x})
      BY <2>2
    <3>2. PICK g \in [SUBSET S -> D] : \A t \in Upto(s \ {x}) : Eq(g, t)
      BY <3>1
    <3> DEFINE f == [t \in SUBSET S |->
                       IF t = {} THEN base ELSE Step[<<pick[t], g[t \ {pick[t]}]>>]]
    <3>3. f \in [SUBSET S -> D]
      OBVIOUS
    <3>4. ASSUME NEW t \in Upto(s) PROVE Eq(f, t)
      <4>1. CASE t = {}
        BY <4>1
      <4>2. CASE t # {}
        <5> DEFINE u == t \ {pick[t]}
        <5>1. pick[t] \in t /\ u \in SUBSET S
          BY <4>2
        <5>2. u \in Upto(s \ {x})
          BY <1>1, <1>2, <5>1
        <5>3. Eq(g, u)
          BY <3>2, <5>2
        <5>4. f[u] = g[u]
          BY <5>1, <5>3
        <5> QED  BY <4>2, <5>4
      <4> QED  BY <4>1, <4>2
    <3> HIDE DEF f, Eq, Upto
    <3> QED  BY <3>3, <3>4
  <2> QED  BY <1>3, <2>1, <2>2
<1>4. Bad0 = {}
  <2> HIDE DEF Good
  <2> SUFFICES ASSUME Bad0 # {} PROVE FALSE
    OBVIOUS
  <2>1. PICK s \in Bad0 : \A x \in s : s \ {x} \notin Bad0
    BY Minimal
  <2>2. s = {} \/ \E x \in s : Good(s \ {x})
    BY <2>1
  <2> QED  BY <1>3, <2>1, <2>2
<1>5. Good(S)
  <2> HIDE DEF Good
  <2> QED  BY <1>4
<1>6. PICK f \in [SUBSET S -> D] : \A t \in Upto(S) : Eq(f, t)
  BY <1>5
<1>7. \A t \in SUBSET S : t \in Upto(S)
  BY FS_Subset
<1> HIDE DEF Upto
<1> QED  BY <1>6, <1>7 DEF FoldOf

LEMMA MaxIsIn ==
  ASSUME NEW n \in Nat, NEW s \in SUBSET (1..n), s # {}
  PROVE  Max(s) \in s /\ \A y \in s : Max(s) >= y
<1> DEFINE above(x) == {y \in s : y > x}
           T == {above(x) : x \in s}
<1>1. IsFiniteSet(1..n)
  BY FS_Interval
<1>2. T \subseteq SUBSET (1..n) /\ T # {}
  OBVIOUS
<1>3. PICK t \in T : \A u \in T : u \subseteq t => u = t
  <2> DEFINE N == 1..n
  <2> HIDE DEF T, N
  <2>1. IsFiniteSet(N) /\ T \subseteq SUBSET N /\ T # {}
    BY <1>1, <1>2 DEF N
  <2> QED  BY <2>1, Smallest
<1>4. PICK x \in s : t = above(x)
  BY <1>3
<1>5. ASSUME NEW y \in s, y > x PROVE FALSE
  <2>1. s \subseteq Int /\ y \in Int /\ x \in Int
    OBVIOUS
  <2>2. above(y) \in T
    OBVIOUS
  <2>3. y \in t /\ y \notin above(y)
    BY <1>4, <1>5, <2>1
  <2>4. above(y) \subseteq t
    <3> SUFFICES ASSUME NEW z \in s, z > y PROVE z \in t
      OBVIOUS
    <3>1. z \in Int /\ z > x
      BY <1>5, <2>1
    <3> QED  BY <1>4, <3>1
  <2> HIDE DEF T
  <2> QED  BY <1>3, <2>2, <2>3, <2>4
<1>6. \A y \in s : x >= y
  BY <1>5
<1> QED  BY <1>6 DEF Max

LEMMA MinIsIn ==
  ASSUME NEW n \in Nat, NEW s \in SUBSET (1..n), s # {}
  PROVE  Min(s) \in s /\ \A y \in s : Min(s) <= y
<1> DEFINE below(x) == {y \in s : y < x}
           T == {below(x) : x \in s}
<1>1. IsFiniteSet(1..n)
  BY FS_Interval
<1>2. T \subseteq SUBSET (1..n) /\ T # {}
  OBVIOUS
<1>3. PICK t \in T : \A u \in T : u \subseteq t => u = t
  <2> DEFINE N == 1..n
  <2> HIDE DEF T, N
  <2>1. IsFiniteSet(N) /\ T \subseteq SUBSET N /\ T # {}
    BY <1>1, <1>2 DEF N
  <2> QED  BY <2>1, Smallest
<1>4. PICK x \in s : t = below(x)
  BY <1>3
<1>5. ASSUME NEW y \in s, y < x PROVE FALSE
  <2>1. s \subseteq Int /\ y \in Int /\ x \in Int
    OBVIOUS
  <2>2. below(y) \in T
    OBVIOUS
  <2>3. y \in t /\ y \notin below(y)
    BY <1>4, <1>5, <2>1
  <2>4. below(y) \subseteq t
    <3> SUFFICES ASSUME NEW z \in s, z < y PROVE z \in t
      OBVIOUS
    <3>1. z \in Int /\ z < x
      BY <1>5, <2>1
    <3> QED  BY <1>4, <3>1
  <2> HIDE DEF T
  <2> QED  BY <1>3, <2>2, <2>3, <2>4
<1>6. \A y \in s : x <= y
  BY <1>5
<1> QED  BY <1>6 DEF Min

\* Folding down 1..n, the largest one at a time; going from 1 up to n.
IsFold(f, n, D, base, Step) ==
  /\ f \in [SUBSET (1..n) -> D]
  /\ \A s \in SUBSET (1..n) : f[s] = IF s = {} THEN base ELSE Step[<<Max(s), f[s \ {Max(s)}]>>]
GoesOn(g, n, D, base, Step) ==
  \A s \in SUBSET (1..n) :
    /\ s = {} => g[s] = base
    /\ s # {} /\ g[s \ {Max(s)}] \in D => g[s] = Step[<<Max(s), g[s \ {Max(s)}]>>]
Runs(run, n, D, base, Step) ==
  /\ run \in [0..n -> D] /\ run[0] = base
  /\ \A i \in 1..n : run[i] = Step[<<i, run[i - 1]>>]

IsStep(Step, n, D) == Step \in [(1..n) \X D -> D]
Through(g, n, D, base, Step) == \E run : Runs(run, n, D, base, Step) /\ run[n] = g[1..n]

LEMMA FoldRun ==
  ASSUME NEW n \in Nat, NEW D, NEW base \in D, NEW Step, IsStep(Step, n, D),
         NEW g, GoesOn(g, n, D, base, Step)
  PROVE  Through(g, n, D, base, Step)
<1> USE DEF IsStep
<1>0. \A s \in SUBSET (1..n) :
        /\ s = {} => g[s] = base
        /\ s # {} /\ g[s \ {Max(s)}] \in D => g[s] = Step[<<Max(s), g[s \ {Max(s)}]>>]
  BY DEF GoesOn
<1> DEFINE Out == {s \in SUBSET (1..n) : g[s] \notin D}
           run == [i \in 0..n |-> g[1..i]]
<1>1. Out = {}
  <2> SUFFICES ASSUME Out # {} PROVE FALSE
    OBVIOUS
  <2>1. IsFiniteSet(1..n) /\ Out \subseteq SUBSET (1..n)
    BY FS_Interval
  <2>2. PICK s \in Out : \A x \in s : s \ {x} \notin Out
    <3> HIDE DEF Out
    <3> QED  BY <2>1, Minimal
  <2>3. s # {}
    BY <1>0, <2>2
  <2>4. Max(s) \in s
    BY <2>3, MaxIsIn
  <2>5. g[s \ {Max(s)}] \in D /\ Max(s) \in 1..n
    BY <2>2, <2>4
  <2> QED  BY <1>0, <2>3, <2>5
<1>2. \A i \in 0..n : 1..i \in SUBSET (1..n)
  OBVIOUS
<1>3. run \in [0..n -> D]
  BY <1>1, <1>2
<1>4. ASSUME NEW i \in 1..n PROVE run[i] = Step[<<i, run[i - 1]>>]
  <2>1. 1..i \in SUBSET (1..n) /\ 1..i # {} /\ i \in Nat
    OBVIOUS
  <2>2. Max(1..i) = i
    <3>1. Max(1..i) \in 1..i /\ \A y \in 1..i : Max(1..i) >= y
      BY <2>1, MaxIsIn
    <3> QED  BY <3>1
  <2>3. (1..i) \ {i} = 1..(i - 1)
    OBVIOUS
  <2>4. g[1..i] = Step[<<i, g[1..(i - 1)]>>]
    BY <1>0, <1>1, <2>1, <2>2, <2>3
  <2>5. i \in 0..n /\ i - 1 \in 0..n
    OBVIOUS
  <2> HIDE DEF Out
  <2>6. run[i] = g[1..i] /\ run[i - 1] = g[1..(i - 1)]
    BY <2>5
  <2> QED  BY <2>4, <2>6
<1>5. run[0] = base /\ run[n] = g[1..n]
  <2>1. 1..0 = {} /\ {} \in SUBSET (1..n) /\ 0 \in 0..n /\ n \in 0..n
    OBVIOUS
  <2>2. g[{}] = base
    BY <1>0
  <2>3. run[0] = g[1..0] /\ run[n] = g[1..n]
    BY <2>1
  <2> QED  BY <2>1, <2>2, <2>3
<1> HIDE DEF Out, run
<1> QED  BY <1>3, <1>4, <1>5 DEF Runs, Through

\* What FoldLeft chooses, when it is a function of subsets, goes through the sequence.
LEMMA FoldExists ==
  ASSUME NEW n \in Nat, NEW D, NEW base \in D, NEW Step, IsStep(Step, n, D)
  PROVE  \E f : IsFold(f, n, D, base, Step)
<1> USE DEF IsStep
<1> DEFINE pick == [s \in SUBSET (1..n) |-> Max(s)]
<1>1. \A s \in SUBSET (1..n) : s # {} => pick[s] \in s
  BY MaxIsIn
<1>2. IsFiniteSet(1..n)
  BY FS_Interval
<1>3. PICK f \in [SUBSET (1..n) -> D] : FoldOf(f, 1..n, base, pick, Step)
  <2> HIDE DEF pick
  <2> QED  BY <1>1, <1>2, FoldThere
<1>4. \A s \in SUBSET (1..n) : f[s] = IF s = {} THEN base ELSE Step[<<Max(s), f[s \ {Max(s)}]>>]
  BY <1>3 DEF FoldOf
<1> HIDE DEF pick
<1> QED  BY <1>4 DEF IsFold

-----------------------------------------------------------------------------
(* The updater of ECU Studio. *)

\* What takes the place of the AppImage is whole.
Installing == stage = "verified" => tmpFile.whole

UpdaterInv == UpdaterTypeOK /\ AppImageWhole /\ Installing

LEMMA WindowsTyped ==
  ASSUME windows \in Seq(OpenedWindow)
  PROVE  /\ \A phase \in Phases : Tell(phase) \in Seq(OpenedWindow)
         /\ \A phase \in Phases : Append(Tell(phase), NewWindow) \in Seq(OpenedWindow)
         /\ windows # <<>> => SubSeq(windows, 1, Len(windows) - 1) \in Seq(OpenedWindow)
         /\ \A i \in 1..Len(windows), phase \in Phases :
              [windows EXCEPT ![i] = SetPhase(@, phase)] \in Seq(OpenedWindow)
         /\ <<NewWindow>> \in Seq(OpenedWindow)
<1>1. \A w \in OpenedWindow, phase \in Phases : SetPhase(w, phase) \in OpenedWindow
  BY DEF SetPhase, OpenedWindow
<1>2. NewWindow \in OpenedWindow
  BY DEF NewWindow, OpenedWindow, Phases
<1>3. \A phase \in Phases : Tell(phase) \in Seq(OpenedWindow)
  BY <1>1 DEF Tell
<1>4. \A i \in 1..Len(windows), phase \in Phases :
        [windows EXCEPT ![i] = SetPhase(@, phase)] \in Seq(OpenedWindow)
  <2> SUFFICES ASSUME NEW i \in 1..Len(windows), NEW phase \in Phases
               PROVE  [windows EXCEPT ![i] = SetPhase(@, phase)] \in Seq(OpenedWindow)
    OBVIOUS
  <2>1. SetPhase(windows[i], phase) \in OpenedWindow
    BY <1>1
  <2> QED  BY <2>1
<1> HIDE DEF NewWindow
<1>5. windows # <<>> => SubSeq(windows, 1, Len(windows) - 1) \in Seq(OpenedWindow)
  OBVIOUS
<1>6. <<NewWindow>> \in Seq(OpenedWindow)
  BY <1>2
<1> QED  BY <1>2, <1>3, <1>4, <1>5, <1>6

LEMMA UpdaterStep == ASSUME UpdaterInv, [UpdaterNext]_updaterVars PROVE UpdaterInv'
<1> USE UpdaterAssumption
<1>0. /\ windows \in Seq(OpenedWindow) /\ {"Checking", "Available", "Downloading", "Done", "Error"} = Phases
      /\ NoFile \in File /\ updater \in {"Idle", "FetchManifest", "FetchSig", "Downloading"}
  BY DEF UpdaterInv, UpdaterTypeOK, Phases, NoFile, File
<1> DEFINE Rest == UNCHANGED <<tmpFile, appImage>> /\ stage' \in {stage, "none"}
<1>1. CASE OpenWindow
  BY <1>0, <1>1, WindowsTyped
  DEF OpenWindow, UpdaterInv, UpdaterTypeOK, AppImageWhole, Installing, checked, disk, outside,
      CheckForUpdates
<1>2. CASE SilentCheck
  BY <1>0, <1>2
  DEF SilentCheck, UpdaterInv, UpdaterTypeOK, AppImageWhole, Installing, checked, disk, outside,
      CheckForUpdates
<1>3. CASE CloseWindow
  BY <1>0, <1>3, WindowsTyped
  DEF CloseWindow, UpdaterInv, UpdaterTypeOK, AppImageWhole, Installing, checked, disk, outside
<1>4. CASE Download
  <2>1. windows' \in Seq(OpenedWindow)
    <3>1. Len(windows) \in 1..Len(windows)
      BY <1>0, <1>4 DEF Download
    <3>2. windows' = [windows EXCEPT ![Len(windows)] = SetPhase(@, "Downloading")]
      BY <1>4 DEF Download
    <3> QED  BY <1>0, <3>1, <3>2, WindowsTyped
  <2> QED  BY <1>0, <1>4, <2>1
           DEF Download, UpdaterInv, UpdaterTypeOK, AppImageWhole, Installing, checked, disk, outside
<1>5. CASE OnManifestReply
  <2>1. windows' \in Seq(OpenedWindow)
    BY <1>0, <1>5, WindowsTyped DEF OnManifestReply, CheckEnds
  <2> QED  BY <1>5, <2>1
           DEF OnManifestReply, CheckEnds, UpdaterInv, UpdaterTypeOK, AppImageWhole, Installing,
               disk, outside
<1>6. CASE OnSigReply
  <2>1. windows' \in Seq(OpenedWindow)
    BY <1>0, <1>6, WindowsTyped DEF OnSigReply, CheckEnds, OfferUpdate
  <2> QED  BY <1>6, <2>1
           DEF OnSigReply, CheckEnds, OfferUpdate, UpdaterInv, UpdaterTypeOK, AppImageWhole,
               Installing, disk, outside
<1>7. CASE DownloadFails
  <2>1. windows' \in Seq(OpenedWindow)
    BY <1>0, <1>7, WindowsTyped DEF DownloadFails, DownloadEnds
  <2> QED  BY <1>0, <1>7, <2>1
           DEF DownloadFails, DownloadEnds, UpdaterInv, UpdaterTypeOK, AppImageWhole, Installing,
               checked, outside
<1>8. CASE WriteTmp
  <2>1. tmpFile' \in File
    BY <1>8 DEF WriteTmp, UpdaterInv, UpdaterTypeOK, File
  <2> QED  BY <1>8, <2>1
           DEF WriteTmp, UpdaterInv, UpdaterTypeOK, AppImageWhole, Installing, checked, outside
<1>9. CASE VerifySha256
  <2>1. windows' \in Seq(OpenedWindow)
    BY <1>0, <1>9, WindowsTyped DEF VerifySha256, DownloadEnds
  <2>2. tmpFile = [release |-> version, whole |-> TRUE] => tmpFile.whole
    OBVIOUS
  <2> QED  BY <1>0, <1>9, <2>1, <2>2
           DEF VerifySha256, DownloadEnds, UpdaterInv, UpdaterTypeOK, AppImageWhole, Installing,
               checked, outside
<1>10. CASE AtomicInstall
  <2>1. windows' \in Seq(OpenedWindow)
    BY <1>0, <1>10, WindowsTyped DEF AtomicInstall, DownloadEnds
  <2> QED  BY <1>0, <1>10, <2>1
           DEF AtomicInstall, DownloadEnds, UpdaterInv, UpdaterTypeOK, AppImageWhole, Installing,
               checked, outside
<1>11. CASE Publish
  BY <1>11 DEF Publish, UpdaterInv, UpdaterTypeOK, AppImageWhole, Installing, checked, disk
<1>12. CASE Restart
  <2>1. windows' \in Seq(OpenedWindow)
    BY <1>12 DEF Restart, Fresh
  <2> QED  BY <1>12, <2>1
           DEF Restart, Fresh, UpdaterInv, UpdaterTypeOK, AppImageWhole, Installing, disk
<1>13. CASE UNCHANGED updaterVars
  BY <1>13 DEF updaterVars, UpdaterInv, UpdaterTypeOK, AppImageWhole, Installing
<1> QED
  BY <1>1, <1>2, <1>3, <1>4, <1>5, <1>6, <1>7, <1>8, <1>9, <1>10, <1>11, <1>12, <1>13
  DEF UpdaterNext

LEMMA UpdaterBegins == UpdaterInit => UpdaterInv
BY UpdaterAssumption
DEF UpdaterInit, UpdaterInv, UpdaterTypeOK, AppImageWhole, Installing, NoFile, File

-----------------------------------------------------------------------------
(* The launcher of the tools. *)

LEMMA HubStep == ASSUME HubTypeOK, [HubNext]_hubVars PROVE HubTypeOK'
<1> USE DEF HubTypeOK, buttons, ToolFails, RefreshAvailability, Available
<1>1. CASE OnManifest
  BY <1>1 DEF OnManifest
<1>2. CASE OnBinary
  BY <1>2 DEF OnBinary
<1>3. ASSUME NEW t \in Tools, DownloadTool(t) PROVE HubTypeOK'
  BY <1>3 DEF DownloadTool, hubVars
<1>4. ASSUME NEW t \in Tools, Launch(t) \/ ToolEnds(t) PROVE HubTypeOK'
  BY <1>4 DEF Launch, ToolEnds
<1>5. CASE UNCHANGED hubVars
  BY <1>5 DEF hubVars
<1> QED  BY <1>1, <1>2, <1>3, <1>4, <1>5 DEF HubNext

LEMMA HubBegins == HubInit => HubTypeOK
BY DEF HubInit, HubTypeOK, Available

-----------------------------------------------------------------------------
(* The updater of ECU Drive. *)

\* What is offered, and what a download under way fetches, is newer than the program.
Offering ==
  up => /\ state \in {"available", "downloading", "ready"} => latest > current
        /\ state = "available" => apkUrl \in {0, latest}
        /\ state \in {"downloading", "ready"} => apkPath = latest
        /\ asked # 0 => state = "downloading" /\ asked = apkPath
        /\ state = "ready" => cache[apkPath] = apkPath

\* The notes to be shown are of versions newer than those seen, the others were shown.
NotesInOrder ==
  /\ whatsNew \subseteq (seen + 1)..current /\ askedNotes \subseteq 1..seen /\ seen <= current

DriveUpdaterInv == DriveUpdaterTypeOK /\ Offering /\ NotesInOrder

LEMMA DriveUpdaterStep ==
  ASSUME DriveUpdaterInv, [DriveUpdaterNext]_updateVars PROVE DriveUpdaterInv'
<1> USE VersionsAssumption DEF DriveUpdaterInv, release, notes, apk, found
<1>0. {current, newest} \subseteq 1..Versions /\ cache \in [1..Versions -> 0..Versions]
  BY DEF DriveUpdaterTypeOK
<1>1. CASE Check
  BY <1>1 DEF Check, DriveUpdaterTypeOK, Offering, NotesInOrder
<1>2. CASE CheckFails
  BY <1>2 DEF CheckFails, DriveUpdaterTypeOK, Offering, NotesInOrder
<1>3. CASE ReleaseHeard
  <2>1. NotesInOrder' /\ seen' \in 0..Versions /\ whatsNew' \subseteq 1..Versions
        /\ askedNotes' \subseteq 1..Versions
    BY <1>3, SMTT(30) DEF ReleaseHeard, RebuildDerivedNotes, NotesInOrder, DriveUpdaterTypeOK
  <2>2. DriveUpdaterTypeOK'
    BY <1>3, <2>1, SMTT(30) DEF ReleaseHeard, DriveUpdaterTypeOK
  <2>3. Offering'
    BY <1>3 DEF ReleaseHeard, Offering, DriveUpdaterTypeOK
  <2> QED  BY <2>1, <2>2, <2>3
<1>4. CASE DownloadApk
  <2>1. latest \in 1..Versions /\ asked' = latest
    BY <1>4 DEF DownloadApk, Offering, DriveUpdaterTypeOK
  <2>2. cache' \in [1..Versions -> 0..Versions]
    BY <1>0, <1>4, <2>1 DEF DownloadApk
  <2>3. DriveUpdaterTypeOK'
    BY <1>4, <2>1, <2>2 DEF DownloadApk, DriveUpdaterTypeOK
  <2>4. Offering' /\ NotesInOrder'
    BY <1>4, <2>1 DEF DownloadApk, Offering, NotesInOrder
  <2> QED  BY <2>3, <2>4
<1>5. CASE ApkFails
  <2>1. cache' \in [1..Versions -> 0..Versions]
    BY <1>0, <1>5, SMTT(30) DEF ApkFails
  <2>2. DriveUpdaterTypeOK'
    BY <1>5, <2>1 DEF ApkFails, DriveUpdaterTypeOK
  <2>3. Offering' /\ NotesInOrder'
    BY <1>5 DEF ApkFails, Offering, NotesInOrder
  <2> QED  BY <2>2, <2>3
<1>6. CASE ApkArrives
  <2>1. apkPath \in 1..Versions /\ asked = apkPath
    BY <1>6 DEF ApkArrives, Offering, DriveUpdaterTypeOK
  <2>2. cache' \in [1..Versions -> 0..Versions] /\ (state' = "ready" => cache'[apkPath] = asked)
    BY <1>0, <1>6, <2>1, SMTT(30) DEF ApkArrives
  <2>3. DriveUpdaterTypeOK'
    <3>1. asked' = 0 /\ state' \in {"failed", "ready"}
          /\ UNCHANGED <<current, newest, withApk, up, latest, apkUrl, apkPath, seen, whatsNew,
                         askedNotes>>
      BY <1>6 DEF ApkArrives
    <3>2. {latest', apkUrl', apkPath', asked', seen'} \subseteq 0..Versions
      BY <3>1 DEF DriveUpdaterTypeOK
    <3> QED  BY <2>2, <3>1, <3>2 DEF DriveUpdaterTypeOK
  <2>4. Offering' /\ NotesInOrder'
    BY <1>6, <2>1, <2>2 DEF ApkArrives, Offering, NotesInOrder
  <2> QED  BY <2>3, <2>4
<1>7. CASE Install
  <2>1. apkPath \in 1..Versions /\ cache[apkPath] \in 1..Versions /\ cache[apkPath] > current
    BY <1>0, <1>7 DEF Install, Offering, DriveUpdaterTypeOK
  <2>2. DriveUpdaterTypeOK'
    BY <1>7, <2>1 DEF Install, DriveUpdaterTypeOK
  <2>3. Offering'
    BY <1>7 DEF Install, Offering
  <2>4. NotesInOrder'
    BY <1>0, <1>7, <2>1, SMTT(30) DEF Install, NotesInOrder, DriveUpdaterTypeOK
  <2> QED  BY <2>2, <2>3, <2>4
<1>8. CASE InstallFails \/ Dismiss
  BY <1>8 DEF InstallFails, Dismiss, DriveUpdaterTypeOK, Offering, NotesInOrder
<1>9. CASE AcknowledgeNotes
  <2>1. NotesInOrder' /\ seen' \in 0..Versions /\ whatsNew' \subseteq 1..Versions
        /\ askedNotes' \subseteq 1..Versions
    BY <1>9 DEF AcknowledgeNotes, NotesInOrder, DriveUpdaterTypeOK
  <2> QED  BY <1>9, <2>1 DEF AcknowledgeNotes, DriveUpdaterTypeOK, Offering
<1>10. CASE Ends
  BY <1>10 DEF Ends, DriveUpdaterTypeOK, Offering, NotesInOrder
<1>11. CASE Starts
  <2>1. NotesInOrder'
    BY <1>11 DEF Starts, NotesInOrder
  <2> QED  BY <1>11, <2>1 DEF Starts, DriveUpdaterTypeOK, Offering
<1>12. CASE PublishVersion
  <2>1. newest' \in 1..Versions /\ withApk' \subseteq 1..Versions
    <3>1. newest + 1 \in 1..Versions
      BY <1>0, <1>12 DEF PublishVersion
    <3>2. withApk \subseteq 1..Versions
      BY DEF DriveUpdaterTypeOK
    <3> QED  BY <1>12, <3>1, <3>2 DEF PublishVersion
  <2>2. UNCHANGED <<current, up, state, latest, apkUrl, apkPath, cache, asked, seen, whatsNew,
                    askedNotes>>
    BY <1>12 DEF PublishVersion
  <2>3. DriveUpdaterTypeOK'
    BY <2>1, <2>2 DEF DriveUpdaterTypeOK
  <2> QED  BY <2>2, <2>3 DEF Offering, NotesInOrder
<1>13. CASE UNCHANGED updateVars
  BY <1>13 DEF updateVars, DriveUpdaterTypeOK, Offering, NotesInOrder
<1> QED
  BY <1>1, <1>2, <1>3, <1>4, <1>5, <1>6, <1>7, <1>8, <1>9, <1>10, <1>11, <1>12, <1>13
  DEF DriveUpdaterNext

LEMMA DriveUpdaterBegins == DriveUpdaterInit => DriveUpdaterInv
BY VersionsAssumption
DEF DriveUpdaterInit, DriveUpdaterInv, DriveUpdaterTypeOK, Offering, NotesInOrder

LEMMA DriveUpdaterSays == DriveUpdaterInv => ApkOffered /\ NotesShownOnce
<1> SUFFICES ASSUME DriveUpdaterInv PROVE ApkOffered /\ NotesShownOnce
  OBVIOUS
<1>1. ApkOffered
  BY DEF DriveUpdaterInv, Offering, ApkOffered
<1>2. NotesShownOnce
  BY DEF DriveUpdaterInv, NotesInOrder, DriveUpdaterTypeOK, NotesShownOnce
<1> QED  BY <1>1, <1>2

\* UpdateManager, whatever the network, the disk and the user do and wherever it is killed:
\* its state and its windows keep their ranges, and the AppImage that the next start runs is
\* whole, since only a file received whole and of the right sum takes its place.
THEOREM AppImageIsWhole == UpdaterSpec => []UpdaterTypeOK /\ []AppImageWhole
<1>1. UpdaterInv /\ [UpdaterNext]_updaterVars => UpdaterInv'
  BY UpdaterStep
<1>2. UpdaterInv => UpdaterTypeOK /\ AppImageWhole
  BY DEF UpdaterInv
<1> QED  BY UpdaterBegins, <1>1, <1>2, PTL DEF UpdaterSpec

\* The launcher of the tools keeps one download at a time, of a tool it knows, and a binary that
\* is absent, short or whole.
THEOREM HubIsTyped == HubSpec => []HubTypeOK
<1>1. HubTypeOK /\ [HubNext]_hubVars => HubTypeOK'
  BY HubStep
<1> QED  BY HubBegins, <1>1, PTL DEF HubSpec

\* The updater of ECU Drive calls ready only a package that is in its cache, is the version it
\* names and is newer than the program, and shows no notes that were acknowledged: after any
\* checks, releases, downloads, failures and restarts.
THEOREM ApkIsOffered ==
  DriveUpdaterSpec => []DriveUpdaterTypeOK /\ []ApkOffered /\ []NotesShownOnce
<1>1. DriveUpdaterInv /\ [DriveUpdaterNext]_updateVars => DriveUpdaterInv'
  BY DriveUpdaterStep
<1>2. DriveUpdaterInv => DriveUpdaterTypeOK
  BY DEF DriveUpdaterInv
<1> QED  BY DriveUpdaterBegins, DriveUpdaterSays, <1>1, <1>2, PTL DEF DriveUpdaterSpec

-----------------------------------------------------------------------------
(* The editor of recipes. *)

RowOn(t) == [field : Fields \cup {Blank}, type : TypesOf(t) \cup {"unknown"}, apart : BOOLEAN]
RowsOn(t) == {rows \in Seq(RowOn(t)) : Len(rows) <= MaxRows}
FormOn(t) == [field : Fields \cup {Blank}, type : TypesOf(t)]

RecipeTyped ==
  /\ recipe = [u \in Pages |-> recipe[u]] /\ \A t \in Pages : recipe[t] \in RowsOn(t)
  /\ \A p \in DOMAIN recipeFiles, t \in Pages : recipeFiles[p][t] \in RowsOn(t)
  /\ path \in DOMAIN recipeFiles \cup {NoPath} /\ recipeSteps \in 0..MaxRecipeSteps
  /\ dirty \in BOOLEAN /\ trusted \in BOOLEAN
FormsTyped ==
  /\ DOMAIN picked = Pages /\ \A t \in Pages : picked[t] \in 0..Len(recipe[t])
  /\ DOMAIN form = Pages /\ \A t \in Pages : form[t] \in FormOn(t)
  /\ behind \subseteq Pages

DamosInv == RecipeTyped /\ FormsTyped /\ FormInStep /\ RecipeMarked

LEMMA TypesApart ==
  ASSUME NEW t \in Pages
  PROVE  /\ "unknown" \notin TypesOf(t) /\ FirstType(t) \in TypesOf(t) /\ TypesOf(t) \subseteq RowTypes
         /\ "pattern" \in TypesOf("mods") /\ (t # "entries" => t = "mods")
BY DEF Pages, TypesOf, FirstType, RowTypes

LEMMA StepsCounted ==
  ASSUME OneStep, recipeSteps \in 0..MaxRecipeSteps PROVE recipeSteps' \in 0..MaxRecipeSteps
BY RecipeAssumption DEF OneStep

\* A form that is filled is of its page.
LEMMA LoadedTyped ==
  ASSUME NEW t \in Pages, NEW rows \in RowsOn(t), NEW k \in 0..Len(rows), NEW f \in FormOn(t)
  PROVE  Loaded(t, rows, k, f) \in FormOn(t)
<1>1. CASE k = 0
  BY <1>1, TypesApart DEF Loaded, FormOn
<1>2. CASE k # 0
  <2>1. rows[k] \in RowOn(t)
    BY <1>2 DEF RowsOn
  <2> QED  BY <1>2, <2>1, TypesApart DEF Loaded, FormOn, RowOn
<1> QED  BY <1>1, <1>2

\* What a file gives back is stored again as it is.
LEMMA StoredTwice ==
  ASSUME NEW r, \A t \in Pages : r[t] \in RowsOn(t)
  PROVE  /\ \A t \in Pages : Stored(r)[t] \in RowsOn(t)
         /\ Stored(Stored(r)) = Stored(r)
         /\ Stored([t \in Pages |-> r[t]]) = Stored(r)
<1> DEFINE kept(t, line) == IF line.type # "unknown" THEN line
                           ELSE IF t = "entries" THEN [line EXCEPT !.type = "value"]
                           ELSE [line EXCEPT !.field = Blank]
<1>1. ASSUME NEW t \in Pages, NEW line \in RowOn(t)
      PROVE  kept(t, line) \in RowOn(t) /\ kept(t, kept(t, line)) = kept(t, line)
  <2>1. CASE line.type # "unknown"
    BY <2>1
  <2>2. CASE line.type = "unknown" /\ t = "entries"
    BY <2>2 DEF RowOn, TypesOf
  <2>3. CASE line.type = "unknown" /\ t # "entries"
    BY <2>3 DEF RowOn
  <2> QED  BY <2>1, <2>2, <2>3
<1> HIDE DEF kept
<1>2. \A q : Stored(q) = [t \in Pages |-> [i \in DOMAIN q[t] |-> kept(t, q[t][i])]]
  BY DEF Stored, kept
<1>3. ASSUME NEW t \in Pages
      PROVE  /\ Stored(r)[t] \in RowsOn(t) /\ DOMAIN Stored(r)[t] = DOMAIN r[t]
             /\ \A i \in DOMAIN r[t] : Stored(r)[t][i] = kept(t, r[t][i])
             /\ [i \in DOMAIN r[t] |-> kept(t, Stored(r)[t][i])] = Stored(r)[t]
  <2>1. r[t] \in Seq(RowOn(t)) /\ Len(r[t]) <= MaxRows
    BY DEF RowsOn
  <2>2. Stored(r)[t] = [i \in DOMAIN r[t] |-> kept(t, r[t][i])]
    BY <1>2
  <2>3. \A i \in DOMAIN r[t] : r[t][i] \in RowOn(t)
    BY <2>1
  <2>4. \A i \in DOMAIN r[t] : kept(t, r[t][i]) \in RowOn(t)
    BY <1>1, <2>3
  <2>5. DOMAIN r[t] = 1..Len(r[t]) /\ Len(r[t]) \in Nat
    BY <2>1
  <2>6. Stored(r)[t] \in Seq(RowOn(t)) /\ Len(Stored(r)[t]) = Len(r[t])
    BY <2>2, <2>4, <2>5
  <2>7. [i \in DOMAIN r[t] |-> kept(t, Stored(r)[t][i])] = Stored(r)[t]
    BY <1>1, <2>2, <2>3
  <2> QED  BY <2>1, <2>2, <2>6, <2>7 DEF RowsOn
<1>4. Stored(Stored(r)) = Stored(r)
  <2>1. Stored(Stored(r)) = [t \in Pages |-> [i \in DOMAIN Stored(r)[t] |-> kept(t, Stored(r)[t][i])]]
    BY <1>2
  <2>2. Stored(r) = [t \in Pages |-> Stored(r)[t]]
    BY DEF Stored
  <2>3. \A t \in Pages : [i \in DOMAIN Stored(r)[t] |-> kept(t, Stored(r)[t][i])] = Stored(r)[t]
    BY <1>3
  <2> QED  BY <2>1, <2>2, <2>3, Zenon
<1>5. Stored([t \in Pages |-> r[t]]) = Stored(r)
  BY DEF Stored
<1> QED  BY <1>3, <1>4, <1>5

\* A row that is selected is shown, and its table is not left behind over other rows.
LEMMA SetRowsKeeps ==
  ASSUME RecipeTyped, FormsTyped, FormInStep,
         NEW t \in Pages, NEW rows \in RowsOn(t), NEW k \in 0..Len(rows), SetRows(t, rows, k)
  PROVE  /\ FormsTyped' /\ FormInStep'
         /\ recipe' = [u \in Pages |-> recipe'[u]] /\ \A u \in Pages : recipe'[u] \in RowsOn(u)
<1>1. /\ recipe' = [u \in Pages |-> recipe'[u]] /\ recipe'[t] = rows
      /\ \A u \in Pages : u # t => recipe'[u] = recipe[u]
  BY DEF SetRows, RecipeTyped
<1>2. /\ DOMAIN form' = Pages /\ form'[t] = Select(t, rows, k, form[t])
      /\ \A u \in Pages : u # t => form'[u] = form[u]
  BY DEF SetRows, FormsTyped
<1>3. /\ DOMAIN picked' = Pages /\ picked'[t] = k
      /\ \A u \in Pages : u # t => picked'[u] = picked[u]
  BY DEF SetRows, FormsTyped
<1>4. /\ behind' \subseteq Pages /\ (t \in behind' <=> StaysBehind(t, rows, k))
      /\ \A u \in Pages : u # t => (u \in behind' <=> u \in behind)
  BY DEF SetRows, FormsTyped
<1>5. Select(t, rows, k, form[t]) \in FormOn(t)
  BY LoadedTyped DEF Select, FormsTyped
<1>6. FormsTyped'
  BY <1>1, <1>2, <1>3, <1>4, <1>5 DEF FormsTyped
<1>7. ASSUME NEW u \in Pages \ behind', picked'[u] # 0
      PROVE  form'[u] = Loaded(u, recipe'[u], picked'[u], form'[u])
  <2>1. CASE u # t
    BY <1>1, <1>2, <1>3, <1>4, <1>7, <2>1 DEF FormInStep
  <2>2. CASE u = t
    <3>1. form'[t] = Select(t, rows, k, form[t]) /\ k # 0 /\ ~StaysBehind(t, rows, k)
      BY <1>2, <1>3, <1>4, <1>7, <2>2
    <3>2. \A f, g : Loaded(t, rows, k, f) = Loaded(t, rows, k, g)
      BY <3>1 DEF Loaded
    <3>3. CASE picked[t] = k
      <4>1. t \notin behind /\ rows = recipe[t]
        BY <3>1, <3>3 DEF StaysBehind
      <4>2. form[t] = Loaded(t, rows, k, form[t])
        BY <3>1, <3>3, <4>1 DEF FormInStep
      <4>3. form'[t] = form[t]
        BY <3>1, <3>3 DEF Select
      <4> QED  BY <1>1, <1>3, <2>2, <4>2, <4>3
    <3>4. CASE picked[t] # k
      <4>1. form'[t] = Loaded(t, rows, k, form[t])
        BY <3>1, <3>4 DEF Select
      <4> QED  BY <1>1, <1>3, <2>2, <3>2, <4>1
    <3> QED  BY <3>3, <3>4
  <2> QED  BY <2>1, <2>2
<1>8. FormInStep'
  BY <1>7 DEF FormInStep
<1> QED  BY <1>1, <1>6, <1>8 DEF RecipeTyped

LEMMA SetRecipeKeeps ==
  ASSUME RecipeTyped, FormsTyped, FormInStep,
         NEW r, r = [u \in Pages |-> r[u]], \A t \in Pages : r[t] \in RowsOn(t), NEW p, SetRecipe(r, p)
  PROVE  /\ FormsTyped' /\ FormInStep' /\ recipe' = r /\ path' = p /\ ~dirty' /\ trusted'
<1> DEFINE first(t) == IF r[t] = <<>> THEN 0 ELSE 1
<1>1. /\ recipe' = r /\ path' = p /\ dirty' = FALSE /\ trusted' = TRUE
      /\ picked' = [t \in Pages |-> first(t)]
      /\ form' = [t \in Pages |-> Select(t, r[t], first(t), form[t])]
      /\ behind' = {t \in Pages : StaysBehind(t, r[t], first(t))}
  BY DEF SetRecipe
<1>2. ASSUME NEW t \in Pages
      PROVE first(t) \in 0..Len(r[t]) /\ Select(t, r[t], first(t), form[t]) \in FormOn(t)
  <2>1. first(t) \in 0..Len(r[t])
    BY DEF RowsOn
  <2> HIDE DEF first
  <2>2. form[t] \in FormOn(t)
    BY DEF FormsTyped
  <2> QED  BY <2>1, <2>2, LoadedTyped DEF Select
<1> HIDE DEF first
<1>3. FormsTyped'
  BY <1>1, <1>2 DEF FormsTyped
<1>4. ASSUME NEW u \in Pages \ behind', picked'[u] # 0
      PROVE  form'[u] = Loaded(u, recipe'[u], picked'[u], form'[u])
  <2> DEFINE k == first(u)
  <2>1. /\ form'[u] = Select(u, r[u], k, form[u]) /\ k # 0 /\ ~StaysBehind(u, r[u], k)
        /\ picked'[u] = k /\ recipe'[u] = r[u]
    BY <1>1, <1>4
  <2> HIDE DEF k
  <2>2. \A f, g : Loaded(u, r[u], k, f) = Loaded(u, r[u], k, g)
    BY <2>1 DEF Loaded
  <2>3. CASE picked[u] = k
    <3>1. u \notin behind /\ r[u] = recipe[u]
      BY <2>1, <2>3 DEF StaysBehind
    <3>2. form[u] = Loaded(u, r[u], k, form[u])
      BY <2>1, <2>3, <3>1 DEF FormInStep
    <3>3. form'[u] = form[u]
      BY <2>1, <2>3 DEF Select
    <3> QED  BY <2>1, <3>2, <3>3
  <2>4. CASE picked[u] # k
    <3>1. form'[u] = Loaded(u, r[u], k, form[u])
      BY <2>1, <2>4 DEF Select
    <3> QED  BY <2>1, <2>2, <3>1
  <2> QED  BY <2>3, <2>4
<1> QED  BY <1>1, <1>3, <1>4 DEF FormInStep

-----------------------------------------------------------------------------

LEMMA NewRecipeKeeps == ASSUME DamosInv, NewEmptyRecipe PROVE DamosInv'
<1> DEFINE r == [t \in Pages |-> <<>>]
<1>1. r = [u \in Pages |-> r[u]] /\ \A t \in Pages : r[t] \in RowsOn(t)
  BY RecipeAssumption DEF RowsOn
<1> HIDE DEF r
<1>2. SetRecipe(r, NoPath) /\ UNCHANGED recipeFiles /\ recipeSteps' \in 0..MaxRecipeSteps
  BY StepsCounted DEF NewEmptyRecipe, r, DamosInv, RecipeTyped
<1>3. FormsTyped' /\ FormInStep' /\ recipe' = r /\ path' = NoPath /\ ~dirty' /\ trusted'
  BY <1>1, <1>2, SetRecipeKeeps DEF DamosInv
<1>4. RecipeTyped'
  BY <1>1, <1>2, <1>3 DEF RecipeTyped, DamosInv, SetRecipe
<1> QED  BY <1>3, <1>4 DEF DamosInv, RecipeMarked

LEMMA OpenRecipeKeeps == ASSUME DamosInv, OpenRecipeFile PROVE DamosInv'
<1>1. PICK p \in DOMAIN recipeFiles : SetRecipe([t \in Pages |-> recipeFiles[p][t]], p)
  BY DEF OpenRecipeFile
<1> DEFINE r == [t \in Pages |-> recipeFiles[p][t]]
<1>2. r = [u \in Pages |-> r[u]] /\ \A t \in Pages : r[t] \in RowsOn(t)
  BY DEF DamosInv, RecipeTyped
<1>3. Stored(r) = Stored(recipeFiles[p])
  BY StoredTwice DEF DamosInv, RecipeTyped
<1> HIDE DEF r
<1>4. SetRecipe(r, p) /\ UNCHANGED recipeFiles /\ recipeSteps' \in 0..MaxRecipeSteps
  BY <1>1, StepsCounted DEF OpenRecipeFile, r, DamosInv, RecipeTyped
<1>5. FormsTyped' /\ FormInStep' /\ recipe' = r /\ path' = p /\ ~dirty' /\ trusted'
  BY <1>2, <1>4, SetRecipeKeeps DEF DamosInv
<1>6. RecipeTyped'
  BY <1>2, <1>4, <1>5 DEF RecipeTyped, DamosInv, SetRecipe
<1> QED  BY <1>3, <1>4, <1>5, <1>6 DEF DamosInv, RecipeMarked

LEMMA SaveRecipeKeeps ==
  ASSUME DamosInv, NEW p \in DOMAIN recipeFiles, SaveTo(p), recipeSteps' \in 0..MaxRecipeSteps
  PROVE  DamosInv'
<1>1. path' = p /\ UNCHANGED <<recipe, picked, form, behind>>
  BY DEF SaveTo
<1>2. FormsTyped' /\ FormInStep'
  BY <1>1 DEF DamosInv, FormsTyped, FormInStep
<1>3. /\ recipe' = [u \in Pages |-> recipe'[u]] /\ \A t \in Pages : recipe'[t] \in RowsOn(t)
      /\ dirty' \in BOOLEAN /\ trusted' \in BOOLEAN
  BY <1>1 DEF DamosInv, RecipeTyped, SaveTo
<1>4. \A t \in Pages : CutFile[t] \in RowsOn(t)
  <2>1. \A t \in Pages : CutFile[t] = <<>>
    BY DEF CutFile, Pages
  <2>2. \A t \in Pages : <<>> \in RowsOn(t)
    BY RecipeAssumption DEF RowsOn
  <2> QED  BY <2>1, <2>2
<1>5. CASE recipeFiles' \in {recipeFiles, [recipeFiles EXCEPT ![p] = CutFile]} /\ trusted' = FALSE
  <2>1. /\ DOMAIN recipeFiles' = DOMAIN recipeFiles
        /\ \A q \in DOMAIN recipeFiles : recipeFiles'[q] \in {recipeFiles[q], CutFile}
    BY <1>5
  <2>2. RecipeTyped'
    BY <1>1, <1>3, <1>4, <2>1 DEF RecipeTyped, DamosInv
  <2> QED  BY <1>2, <1>5, <2>2 DEF DamosInv, RecipeMarked
<1>6. CASE recipeFiles' = [recipeFiles EXCEPT ![p] = Stored(recipe)]
  <2>1. /\ DOMAIN recipeFiles' = DOMAIN recipeFiles /\ recipeFiles'[p] = Stored(recipe)
        /\ \A q \in DOMAIN recipeFiles : recipeFiles'[q] \in {recipeFiles[q], Stored(recipe)}
    BY <1>6
  <2>2. Stored(Stored(recipe)) = Stored(recipe) /\ \A t \in Pages : Stored(recipe)[t] \in RowsOn(t)
    BY StoredTwice DEF DamosInv, RecipeTyped
  <2>3. RecipeTyped'
    BY <1>1, <1>3, <2>1, <2>2 DEF RecipeTyped, DamosInv
  <2> QED  BY <1>1, <1>2, <2>1, <2>2, <2>3 DEF DamosInv, RecipeMarked
<1> QED  BY <1>5, <1>6 DEF SaveTo

\* A change of the rows marks the recipe.
LEMMA MarkedKeeps ==
  ASSUME DamosInv, NEW t \in Pages, NEW rows \in RowsOn(t), NEW k \in 0..Len(rows),
         SetRows(t, rows, k), UNCHANGED <<recipeFiles, path, trusted>>,
         recipeSteps' \in 0..MaxRecipeSteps,
         dirty' \/ (dirty' = dirty /\ rows = recipe[t]), dirty' \in BOOLEAN
  PROVE  DamosInv'
<1>1. /\ FormsTyped' /\ FormInStep'
      /\ recipe' = [u \in Pages |-> recipe'[u]] /\ \A u \in Pages : recipe'[u] \in RowsOn(u)
  BY SetRowsKeeps DEF DamosInv
<1>2. RecipeTyped'
  BY <1>1 DEF RecipeTyped, DamosInv
<1>3. rows = recipe[t] => recipe' = recipe
  BY DEF SetRows, DamosInv, RecipeTyped
<1> QED  BY <1>1, <1>2, <1>3 DEF DamosInv, RecipeMarked

LEMMA EditFormKeeps ==
  ASSUME DamosInv, NEW t \in Pages, NEW f \in FormOn(t), EditForm(t, f),
         recipeSteps' \in 0..MaxRecipeSteps
  PROVE  DamosInv'
<1> DEFINE k == picked[t]
<1>0. /\ UNCHANGED <<picked, trusted, recipeFiles, path>> /\ dirty' = TRUE /\ behind' = behind \ {t}
      /\ form' = [form EXCEPT ![t] = f]
  BY DEF EditForm, Kept
<1>1. RowOf(f) \in RowOn(t) /\ RowOf(f).field = f.field /\ RowOf(f).type = f.type
      /\ f = [field |-> f.field, type |-> f.type] /\ f.type # "unknown"
  BY TypesApart DEF RowOf, RowOn, FormOn
<1>2. recipe[t] \in RowsOn(t) /\ k \in 0..Len(recipe[t]) /\ recipe = [u \in Pages |-> recipe[u]]
      /\ \A u \in Pages : recipe[u] \in RowsOn(u)
  BY DEF DamosInv, RecipeTyped, FormsTyped
<1>3. /\ recipe' = [u \in Pages |-> recipe'[u]] /\ recipe'[t] \in RowsOn(t)
      /\ Len(recipe'[t]) = Len(recipe[t])
      /\ \A u \in Pages : u # t => recipe'[u] = recipe[u]
      /\ k # 0 => recipe'[t][k] = RowOf(f)
  <2>1. CASE k = 0
    BY <1>2, <2>1 DEF EditForm
  <2>2. CASE k # 0
    <3>1. recipe' = [recipe EXCEPT ![t] = [recipe[t] EXCEPT ![k] = RowOf(f)]]
      BY <1>2, <2>2 DEF EditForm
    <3>2. /\ [recipe[t] EXCEPT ![k] = RowOf(f)] \in Seq(RowOn(t))
          /\ Len([recipe[t] EXCEPT ![k] = RowOf(f)]) = Len(recipe[t])
          /\ [recipe[t] EXCEPT ![k] = RowOf(f)][k] = RowOf(f)
      BY <1>1, <1>2, <2>2 DEF RowsOn
    <3>3. [recipe[t] EXCEPT ![k] = RowOf(f)] \in RowsOn(t)
      BY <1>2, <3>2 DEF RowsOn
    <3> HIDE DEF k
    <3> QED  BY <1>2, <3>1, <3>2, <3>3
  <2> QED  BY <2>1, <2>2
<1>4. RecipeTyped'
  BY <1>0, <1>2, <1>3 DEF RecipeTyped, DamosInv
<1>5. /\ DOMAIN form' = Pages /\ form'[t] = f /\ \A u \in Pages : u # t => form'[u] = form[u]
  BY <1>0 DEF DamosInv, FormsTyped
<1>6. FormsTyped'
  BY <1>0, <1>3, <1>5 DEF DamosInv, FormsTyped
<1>7. ASSUME NEW u \in Pages \ behind', picked'[u] # 0
      PROVE  form'[u] = Loaded(u, recipe'[u], picked'[u], form'[u])
  <2>1. CASE u = t
    BY <1>0, <1>1, <1>3, <1>5, <1>7, <2>1 DEF Loaded
  <2>2. CASE u # t
    BY <1>0, <1>3, <1>5, <1>7, <2>2 DEF FormInStep, DamosInv
  <2> QED  BY <2>1, <2>2
<1> QED  BY <1>0, <1>4, <1>6, <1>7 DEF DamosInv, FormInStep, RecipeMarked

LEMMA DetectKeeps == ASSUME DamosInv, DetectFromRom PROVE DamosInv'
<1>1. PICK n \in 0..MaxRows :
        /\ n + Len(recipe["entries"]) <= MaxRows
        /\ recipe' = [recipe EXCEPT !["entries"] = @ \o [i \in 1..n |-> NewRow("entries")]]
        /\ dirty' = (n > 0) /\ trusted' = (trusted /\ (n > 0 \/ ~dirty))
  BY DEF DetectFromRom
<1> DEFINE old == recipe["entries"]
           more == [i \in 1..n |-> NewRow("entries")]
<1>2. /\ UNCHANGED <<recipeFiles, path, picked, form, behind>>
      /\ recipeSteps' \in 0..MaxRecipeSteps /\ dirty' \in BOOLEAN /\ trusted' \in BOOLEAN
  <2>1. UNCHANGED <<recipeFiles, path, picked, form, behind>>
    BY DEF DetectFromRom, Kept
  <2>2. recipeSteps' \in 0..MaxRecipeSteps
    BY StepsCounted DEF DetectFromRom, DamosInv, RecipeTyped
  <2>3. dirty' \in BOOLEAN /\ trusted' \in BOOLEAN
    BY <1>1 DEF DamosInv, RecipeTyped
  <2> QED  BY <2>1, <2>2, <2>3
<1>3. NewRow("entries") \in RowOn("entries")
  BY RecipeAssumption DEF NewRow, RowOn, TypesOf, FirstType
<1>4. "entries" \in Pages /\ old \in Seq(RowOn("entries")) /\ Len(old) <= MaxRows
  BY DEF DamosInv, RecipeTyped, RowsOn, Pages
<1>5. more \in Seq(RowOn("entries")) /\ Len(more) = n
  BY <1>3
<1>6. /\ old \o more \in Seq(RowOn("entries")) /\ Len(old \o more) = Len(old) + n
      /\ \A i \in 1..Len(old) : (old \o more)[i] = old[i]
  <2> HIDE DEF old, more
  <2> QED  BY <1>4, <1>5
<1>7. n = 0 => old \o more = old
  <2> HIDE DEF old, more
  <2>1. n = 0 => more = <<>>
    BY <1>5
  <2> QED  BY <1>4, <2>1
<1>8. old \o more \in RowsOn("entries")
  <2> HIDE DEF more
  <2> QED  BY <1>1, <1>4, <1>6 DEF RowsOn
<1> DEFINE new == old \o more
<1> HIDE DEF more
<1>9. /\ recipe' = [u \in Pages |-> recipe'[u]] /\ recipe'["entries"] = new
      /\ \A u \in Pages : u # "entries" => recipe'[u] = recipe[u]
  BY <1>1, <1>4 DEF DamosInv, RecipeTyped, more
<1> HIDE DEF new
<1>10. RecipeTyped'
  BY <1>2, <1>8, <1>9 DEF DamosInv, RecipeTyped, new
<1>11. \A u \in Pages : Len(recipe'[u]) >= Len(recipe[u])
  BY <1>1, <1>4, <1>6, <1>9, SMTT(30) DEF new, DamosInv, RecipeTyped, RowsOn
<1>12. FormsTyped'
  <2>1. \A u \in Pages : picked[u] \in 0..Len(recipe'[u])
    <3> SUFFICES ASSUME NEW u \in Pages PROVE picked[u] \in 0..Len(recipe'[u])
      OBVIOUS
    <3>1. picked[u] \in 0..Len(recipe[u]) /\ Len(recipe[u]) \in Nat /\ Len(recipe'[u]) \in Nat
      BY <1>10 DEF DamosInv, FormsTyped, RecipeTyped, RowsOn
    <3> QED  BY <1>11, <3>1
  <2> QED  BY <1>2, <2>1 DEF DamosInv, FormsTyped
<1>13. ASSUME NEW u \in Pages \ behind', picked'[u] # 0
       PROVE  form'[u] = Loaded(u, recipe'[u], picked'[u], form'[u])
  <2>1. form[u] = Loaded(u, recipe[u], picked[u], form[u])
    BY <1>2, <1>13 DEF DamosInv, FormInStep
  <2>2. recipe'[u][picked[u]] = recipe[u][picked[u]]
    <3>1. picked[u] \in 1..Len(recipe[u])
      BY <1>2, <1>13 DEF DamosInv, FormsTyped
    <3>2. CASE u = "entries"
      BY <1>6, <1>9, <3>1, <3>2 DEF new
    <3>3. CASE u # "entries"
      BY <1>9, <3>3
    <3> QED  BY <3>2, <3>3
  <2> QED  BY <1>2, <1>13, <2>1, <2>2 DEF Loaded
<1>14. ~dirty' => recipe' = recipe
  <2>1. ~dirty' => recipe'["entries"] = recipe["entries"]
    <3>1. ~dirty' => n = 0
      <4>1. dirty' = (n > 0)
        BY <1>1
      <4>2. n > 0 \/ n = 0
        OBVIOUS
      <4> QED  BY <4>1, <4>2
    <3> HIDE DEF old
    <3>2. ~dirty' => recipe'["entries"] = old
      BY <1>7, <1>9, <3>1 DEF new
    <3> QED  BY <3>2 DEF old
  <2>2. /\ recipe = [u \in Pages |-> recipe[u]]
        /\ recipe' = [u \in Pages |-> recipe'[u]]
    BY <1>9 DEF DamosInv, RecipeTyped
  <2>3. ~dirty' => \A u \in Pages : recipe'[u] = recipe[u]
    BY <1>9, <2>1
  <2> QED  BY <2>2, <2>3, Zenon
<1>15. RecipeMarked'
  BY <1>1, <1>2, <1>14 DEF DamosInv, RecipeMarked
<1> QED  BY <1>10, <1>12, <1>13, <1>15 DEF DamosInv, FormInStep

LEMMA DamosStep == ASSUME DamosInv, [DamosNext]_damosVars PROVE DamosInv'
<1>0. /\ OneStep => recipeSteps' \in 0..MaxRecipeSteps
      /\ \A t \in Pages : recipe[t] \in Seq(RowOn(t)) /\ Len(recipe[t]) <= MaxRows
      /\ \A t \in Pages : picked[t] \in 0..Len(recipe[t])
  BY StepsCounted DEF DamosInv, RecipeTyped, FormsTyped, RowsOn
<1>1. CASE SaveRecipe
  BY <1>0, <1>1, SaveRecipeKeeps DEF SaveRecipe, DamosInv, RecipeTyped
<1>2. CASE SaveRecipeAs
  BY <1>0, <1>2, SaveRecipeKeeps DEF SaveRecipeAs
<1>3. CASE OnEcuChanged
  BY <1>0, <1>3
  DEF OnEcuChanged, Kept, DamosInv, RecipeTyped, FormsTyped, FormInStep, RecipeMarked
<1>4. CASE OnSelectionChanged
  <2>1. PICK t \in Pages : \E k \in DOMAIN recipe[t] : SetRows(t, recipe[t], k)
    BY <1>4 DEF OnSelectionChanged
  <2>2. PICK k \in DOMAIN recipe[t] : SetRows(t, recipe[t], k)
    BY <2>1
  <2>3. k \in 0..Len(recipe[t]) /\ recipe[t] \in RowsOn(t)
    BY <1>0 DEF RowsOn
  <2>4. UNCHANGED <<recipeFiles, path, trusted, dirty, recipeSteps>>
    BY <1>4 DEF OnSelectionChanged, Kept
  <2>5. dirty' \in BOOLEAN /\ recipeSteps' \in 0..MaxRecipeSteps
    BY <2>4 DEF DamosInv, RecipeTyped
  <2> QED  BY <2>2, <2>3, <2>4, <2>5, MarkedKeeps
<1>5. CASE OnFormChanged
  <2>1. PICK t \in Pages, f \in [field : Fields \cup {Blank}, type : RowTypes] :
          f.type \in TypesOf(t) /\ EditForm(t, f)
    BY <1>5 DEF OnFormChanged
  <2>2. f \in FormOn(t)
    BY <2>1 DEF FormOn
  <2> QED  BY <1>0, <1>5, <2>1, <2>2, EditFormKeeps DEF OnFormChanged
<1>6. CASE CaptureFingerprintHere
  <2>1. PICK v \in Fields : EditForm("entries", [form["entries"] EXCEPT !.field = v])
    BY <1>6 DEF CaptureFingerprintHere
  <2>2. "entries" \in Pages /\ form["entries"] \in FormOn("entries")
    BY DEF DamosInv, FormsTyped, Pages
  <2>3. [form["entries"] EXCEPT !.field = v] \in FormOn("entries")
    BY <2>2 DEF FormOn
  <2> QED  BY <1>0, <1>6, <2>1, <2>2, <2>3, EditFormKeeps DEF CaptureFingerprintHere
<1>7. ASSUME NEW t \in Pages, NEW line \in RowOn(t), Len(recipe[t]) < MaxRows,
             SetRows(t, Append(recipe[t], line), Len(recipe[t]) + 1),
             dirty' = TRUE, Kept, UNCHANGED trusted, OneStep
      PROVE  DamosInv'
  <2> DEFINE rows == Append(recipe[t], line)
  <2>1. rows \in Seq(RowOn(t)) /\ Len(rows) = Len(recipe[t]) + 1
    BY <1>0
  <2>2. rows \in RowsOn(t) /\ Len(recipe[t]) + 1 \in 0..Len(rows)
    <3> HIDE DEF rows
    <3>1. Len(recipe[t]) \in Nat /\ MaxRows \in Nat
      BY <1>0, RecipeAssumption
    <3>2. Len(rows) <= MaxRows /\ Len(recipe[t]) + 1 \in 0..Len(rows)
      BY <1>7, <2>1, <3>1
    <3> QED  BY <2>1, <3>2 DEF RowsOn
  <2> HIDE DEF rows
  <2>3. UNCHANGED <<recipeFiles, path, trusted>>
    BY <1>7 DEF Kept
  <2> QED  BY <1>0, <1>7, <2>2, <2>3, MarkedKeeps DEF rows
<1>8. CASE OnAdd
  <2>1. PICK t \in Pages : /\ Len(recipe[t]) < MaxRows
                           /\ SetRows(t, Append(recipe[t], NewRow(t)), Len(recipe[t]) + 1)
    BY <1>8 DEF OnAdd
  <2>2. NewRow(t) \in RowOn(t)
    BY RecipeAssumption, TypesApart DEF NewRow, RowOn
  <2> QED  BY <1>7, <1>8, <2>1, <2>2 DEF OnAdd
<1>9. CASE OnDuplicate
  <2>1. PICK t \in Pages : /\ picked[t] # 0 /\ Len(recipe[t]) < MaxRows
                           /\ SetRows(t, Append(recipe[t], recipe[t][picked[t]]), Len(recipe[t]) + 1)
    BY <1>9 DEF OnDuplicate
  <2>2. recipe[t][picked[t]] \in RowOn(t)
    BY <1>0, <2>1
  <2> QED  BY <1>7, <1>9, <2>1, <2>2 DEF OnDuplicate
<1>10. CASE OnDelete
  <2>1. PICK t \in Pages :
          /\ picked[t] # 0
          /\ SetRows(t, RemoveAt(recipe[t], picked[t]),
                     IF picked[t] > Len(RemoveAt(recipe[t], picked[t]))
                     THEN Len(RemoveAt(recipe[t], picked[t])) ELSE picked[t])
    BY <1>10 DEF OnDelete
  <2> DEFINE rows == RemoveAt(recipe[t], picked[t])
  <2>2. rows \in Seq(RowOn(t)) /\ Len(rows) = Len(recipe[t]) - 1
    <3>1. /\ SubSeq(recipe[t], 1, picked[t] - 1) \in Seq(RowOn(t))
          /\ Len(SubSeq(recipe[t], 1, picked[t] - 1)) = picked[t] - 1
          /\ SubSeq(recipe[t], picked[t] + 1, Len(recipe[t])) \in Seq(RowOn(t))
          /\ Len(SubSeq(recipe[t], picked[t] + 1, Len(recipe[t]))) = Len(recipe[t]) - picked[t]
      BY <1>0, <2>1
    <3>2. Len(recipe[t]) \in Nat /\ picked[t] \in 1..Len(recipe[t])
      BY <1>0, <2>1
    <3> DEFINE before == SubSeq(recipe[t], 1, picked[t] - 1)
               after == SubSeq(recipe[t], picked[t] + 1, Len(recipe[t]))
    <3>3. rows = before \o after
      BY DEF RemoveAt
    <3> HIDE DEF before, after, rows
    <3>4. before \o after \in Seq(RowOn(t)) /\ Len(before \o after) = Len(before) + Len(after)
      BY <3>1 DEF before, after
    <3>5. Len(before) + Len(after) = Len(recipe[t]) - 1
      BY <3>1, <3>2 DEF before, after
    <3> QED  BY <3>3, <3>4, <3>5
  <2>3. rows \in RowsOn(t)
    <3> HIDE DEF rows
    <3>1. Len(recipe[t]) \in Nat /\ MaxRows \in Nat /\ Len(recipe[t]) <= MaxRows
      BY <1>0, RecipeAssumption
    <3>2. Len(rows) <= MaxRows
      BY <2>2, <3>1
    <3> QED  BY <2>2, <3>2 DEF RowsOn
  <2> HIDE DEF rows
  <2>4. UNCHANGED <<recipeFiles, path, trusted>> /\ dirty' = TRUE
    BY <1>10 DEF OnDelete, Kept
  <2>5. PICK k \in 0..Len(rows) : SetRows(t, rows, k)
    BY <1>0, <2>1, <2>2 DEF rows
  <2> QED  BY <1>0, <1>10, <2>3, <2>4, <2>5, MarkedKeeps DEF OnDelete
<1>11. CASE UNCHANGED damosVars
  BY <1>11 DEF damosVars, DamosInv, RecipeTyped, FormsTyped, FormInStep, RecipeMarked
<1> QED
  BY <1>1, <1>2, <1>3, <1>4, <1>5, <1>6, <1>8, <1>9, <1>10, <1>11, NewRecipeKeeps, OpenRecipeKeeps,
     DetectKeeps
  DEF DamosNext

LEMMA DamosBegins == DamosInit => DamosInv
<1> SUFFICES ASSUME DamosInit PROVE DamosInv
  OBVIOUS
<1>1. \A p \in DOMAIN RecipeFiles, t \in Pages : RecipeFiles[p][t] \in RowsOn(t)
  <2> SUFFICES ASSUME NEW p \in DOMAIN RecipeFiles, NEW t \in Pages
               PROVE  RecipeFiles[p][t] \in RowsOn(t)
    OBVIOUS
  <2> DEFINE Given0 == [field : Fields, type : TypesOf(t) \cup {"unknown"}, apart : BOOLEAN]
  <2>1. RecipeFiles[p][t] \in Seq(Given0) /\ Len(RecipeFiles[p][t]) <= MaxRows
    BY RecipeAssumption
  <2>2. Given0 \subseteq RowOn(t)
    BY DEF RowOn
  <2> HIDE DEF Given0
  <2> QED  BY <2>1, <2>2 DEF RowsOn
<1>2. \A t \in Pages : <<>> \in RowsOn(t)
  BY RecipeAssumption DEF RowsOn
<1>3. RecipeTyped
  <2>1. recipe = [t \in Pages |-> <<>>] /\ recipeFiles = RecipeFiles /\ path = NoPath
        /\ dirty = FALSE /\ trusted = TRUE /\ recipeSteps = 0
    BY DEF DamosInit
  <2>2. recipe = [u \in Pages |-> recipe[u]] /\ \A t \in Pages : recipe[t] \in RowsOn(t)
    BY <1>2, <2>1
  <2>3. recipeSteps \in 0..MaxRecipeSteps
    BY <2>1, RecipeAssumption
  <2> QED  BY <1>1, <2>1, <2>2, <2>3 DEF RecipeTyped
<1>4. FormsTyped
  BY TypesApart DEF DamosInit, FormsTyped, FormOn
<1>5. FormInStep /\ RecipeMarked
  BY DEF DamosInit, FormInStep, RecipeMarked
<1> QED  BY <1>3, <1>4, <1>5 DEF DamosInv

LEMMA DamosTyped == DamosInv => DamosTypeOK
BY DEF DamosInv, RecipeTyped, FormsTyped, RowsOn, FormOn, DamosTypeOK

\* A table falls behind only when rows are taken away under its selection.
LEMMA BehindArises ==
  ASSUME DamosInv, DamosNext
  PROVE  behind' \subseteq behind \/ OnDelete \/ OpenRecipeFile
<1>1. ASSUME NEW t \in Pages, NEW rows, NEW k, SetRows(t, rows, k), k # picked[t]
      PROVE  behind' \subseteq behind
  BY <1>1 DEF SetRows, StaysBehind
<1>2. ASSUME NEW t \in Pages PROVE picked[t] # Len(recipe[t]) + 1
  BY <1>2 DEF DamosInv, RowsOn, FormOn, FormsTyped
<1>3. CASE NewEmptyRecipe
  BY <1>3 DEF NewEmptyRecipe, SetRecipe, StaysBehind
<1>4. CASE SaveRecipe \/ SaveRecipeAs \/ OnEcuChanged \/ DetectFromRom
  BY <1>4 DEF SaveRecipe, SaveRecipeAs, SaveTo, OnEcuChanged, DetectFromRom
<1>5. CASE OnSelectionChanged
  BY <1>1, <1>5 DEF OnSelectionChanged
<1>6. CASE OnFormChanged \/ CaptureFingerprintHere
  BY <1>6 DEF OnFormChanged, CaptureFingerprintHere, EditForm
<1>7. CASE OnAdd \/ OnDuplicate
  BY <1>1, <1>2, <1>7 DEF OnAdd, OnDuplicate
<1> QED  BY <1>3, <1>4, <1>5, <1>6, <1>7 DEF DamosNext

\* Only a search or a save makes the mark untrue.
LEMMA TrustKept ==
  ASSUME DamosNext, trusted
  PROVE  trusted' \/ DetectFromRom \/ SaveRecipe \/ SaveRecipeAs
BY DEF DamosNext, NewEmptyRecipe, OpenRecipeFile, SetRecipe, OnEcuChanged, OnSelectionChanged,
       OnFormChanged, CaptureFingerprintHere, EditForm, OnAdd, OnDuplicate, OnDelete, Kept

\* Every operation of the recipe editor, on either page, leaves the form on the row that the next
\* change of a field writes, but on a page in `behind`, whose table kept its selection over other
\* rows (damos_editor_panel.cpp:607); and a recipe that is not marked as changed is the one of its
\* file, but after a save that failed or a search in vain, until the next save or opening
\* (`trusted`).  Both exceptions come from the operations that ExceptionsArise names alone.
THEOREM FormIsOfItsRow ==
  DamosInit /\ [][DamosNext]_damosVars =>
    []DamosTypeOK /\ []FormInStep /\ []RecipeMarked /\ ExceptionsArise
<1>1. DamosInv /\ [DamosNext]_damosVars => DamosInv'
  BY DamosStep
<1>2. DamosInv => FormInStep /\ RecipeMarked
  BY DEF DamosInv
<1>3. DamosInv /\ [DamosNext]_damosVars =>
        [/\ behind' \subseteq behind \/ OnDelete \/ OpenRecipeFile
         /\ trusted => trusted' \/ DetectFromRom \/ SaveRecipe \/ SaveRecipeAs]_damosVars
  BY BehindArises, TrustKept
<1> QED  BY DamosBegins, DamosTyped, <1>1, <1>2, <1>3, PTL DEF ExceptionsArise

-----------------------------------------------------------------------------
(* Arithmetic of the checksums.                                            *)

LEMMA ProductAtLeast ==
  ASSUME NEW s \in Nat \ {0}, NEW d \in Nat \ {0}
  PROVE  s * d >= s
OBVIOUS

LEMMA ProductOfDifference ==
  ASSUME NEW s \in Nat, NEW a \in Int, NEW b \in Int
  PROVE  s * (a - b) = s * a - s * b /\ s * a \in Int /\ s * b \in Int
OBVIOUS

\* Quotient and remainder are the only ones.
LEMMA RemainderUnique ==
  ASSUME NEW s \in Nat \ {0}, NEW a \in Nat, NEW b \in Nat,
         NEW q \in 0..(s - 1), NEW r \in 0..(s - 1), s * a + q = s * b + r
  PROVE  q = r
<1>1. CASE a > b
  <2>1. s * (a - b) >= s
    BY <1>1, ProductAtLeast
  <2> QED
    BY <2>1, ProductOfDifference
<1>2. CASE b > a
  <2>1. s * (b - a) >= s
    BY <1>2, ProductAtLeast
  <2> QED
    BY <2>1, ProductOfDifference
<1> QED
  BY <1>1, <1>2

LEMMA Division ==
  ASSUME NEW n \in Nat, NEW s \in Nat \ {0}
  PROVE  n \div s \in Nat /\ n % s \in 0..(s - 1) /\ n = s * (n \div s) + (n % s)
<1> DEFINE d == n \div s
<1>1. d \in Int /\ n % s \in 0..(s - 1) /\ n = s * d + (n % s)
  OBVIOUS
<1> HIDE DEF d
<1>2. ASSUME d < 0 PROVE FALSE
  <2>1. 0 - d \in Nat \ {0}
    BY <1>1, <1>2
  <2>2. s * (0 - d) >= s /\ s * (0 - d) = 0 - s * d /\ s * d \in Int
    BY <1>1, <2>1, ProductAtLeast
  <2> QED
    BY <1>1, <2>2
<1> QED
  BY <1>1, <1>2 DEF d

\* One failure more: the remainder grows by one or starts again.
LEMMA RemainderIs ==
  ASSUME NEW s \in Nat \ {0}, NEW q \in Nat, NEW r \in 0..(s - 1)
  PROVE  (s * q + r) % s = r
<1> DEFINE n == s * q + r
<1>1. s * q \in Nat
  OBVIOUS
<1>2. n \in Nat
  BY <1>1
<1>3. n \div s \in Nat /\ n % s \in 0..(s - 1) /\ n = s * (n \div s) + (n % s)
  <2> HIDE DEF n
  <2> QED  BY <1>2, Division
<1> DEFINE d == n \div s
           m == n % s
<1>4. d \in Nat /\ m \in 0..(s - 1) /\ s * q + r = s * d + m
  BY <1>3
<1> HIDE DEF d, m
<1>5. r = m
  BY <1>4, RemainderUnique
<1> QED  BY <1>5 DEF m

\* Some word takes a sum to any remainder.
LEMMA Reachable ==
  ASSUME NEW s \in Nat \ {0}, NEW k \in Nat, NEW e \in 0..(s - 1)
  PROVE  \E w \in 0..(s - 1) : (k + w) % s = e
<1> DEFINE a == k \div s
           m == k % s
<1>1. a \in Nat /\ m \in 0..(s - 1) /\ k = s * a + m
  BY Division
<1> HIDE DEF a, m
<1>2. s * a \in Nat /\ s * (a + 1) = s * a + s /\ a + 1 \in Nat
  BY <1>1
<1>3. CASE e >= m
  <2>1. k + (e - m) = s * a + e /\ e - m \in 0..(s - 1)
    BY <1>1, <1>2, <1>3
  <2>2. (s * a + e) % s = e
    BY <1>1, RemainderIs
  <2> QED  BY <2>1, <2>2
<1>4. CASE e < m
  <2>1. k + (e - m + s) = s * (a + 1) + e /\ e - m + s \in 0..(s - 1)
    BY <1>1, <1>2, <1>4
  <2>2. (s * (a + 1) + e) % s = e
    BY <1>2, RemainderIs
  <2> QED  BY <2>1, <2>2
<1> QED  BY <1>1, <1>3, <1>4

-----------------------------------------------------------------------------
(* The checksum panel. *)

LEMMA BaseIs == Base \in Nat \ {0} /\ 0 \in Words0 /\ Words0 \subseteq Nat
BY SumAssumption DEF Words0

LEMMA WordIs == ASSUME NEW n \in Nat PROVE n % Base \in Words0
BY BaseIs DEF Words0

\* The CRC and the sum go through the words.
CrcRun(run, words, init) ==
  /\ run \in [0..Len(words) -> Words0]
  /\ run[0] = init /\ run[Len(words)] = Crc(words, init)
  /\ \A i \in 1..Len(words) : run[i] = (2 * run[i - 1] + words[i] + 1) % Base

LEMMA CrcRuns ==
  ASSUME NEW words \in Seq(Words0), NEW init \in Words0
  PROVE  \E run : CrcRun(run, words, init)
<1> DEFINE n == Len(words)
           S == DOMAIN words
           Step == [x \in (1..n) \X Words0 |-> (2 * x[2] + words[x[1]] + 1) % Base]
           It(f) == [s \in SUBSET S |->
                       IF s = {} THEN init ELSE (2 * f[s \ {Max(s)}] + words[Max(s)] + 1) % Base]
           iter == CHOOSE f : f = It(f)
<1>1. Crc(words, init) = iter[S]
  BY DEF Crc, FoldLeft, MapThenFoldSet
<1>2. S = 1..n /\ n \in Nat /\ \A i \in 1..n : words[i] \in Nat
  <2>1. S = 1..n /\ n \in Nat /\ \A i \in 1..n : words[i] \in Words0
    OBVIOUS
  <2> QED  BY <2>1, BaseIs
<1>3. IsStep(Step, n, Words0)
  <2> SUFFICES ASSUME NEW i \in 1..n, NEW c \in Words0
               PROVE  (2 * c + words[i] + 1) % Base \in Words0
    BY DEF IsStep
  <2>1. 2 * c + words[i] + 1 \in Nat
    BY <1>2, BaseIs
  <2> QED  BY <2>1, WordIs
<1>4. PICK f : IsFold(f, n, Words0, init, Step)
  <2> HIDE DEF n, Step
  <2> QED  BY <1>2, <1>3, FoldExists
<1>5. \A s \in SUBSET (1..n) : s # {} => Max(s) \in 1..n /\ s \ {Max(s)} \in SUBSET (1..n)
  <2> HIDE DEF n
  <2> QED  BY <1>2, MaxIsIn
<1>6. f = It(f)
  <2>1. \A s \in SUBSET S : f[s] = It(f)[s]
    BY <1>2, <1>4, <1>5 DEF IsFold
  <2>2. f \in [SUBSET S -> Words0]
    BY <1>2, <1>4 DEF IsFold
  <2>3. It(f) = [s \in SUBSET S |-> It(f)[s]]
    OBVIOUS
  <2> HIDE DEF It, S
  <2> QED  BY <2>1, <2>2, <2>3
<1> HIDE DEF It
<1>7. iter = It(iter)
  BY <1>6
<1> HIDE DEF iter
<1>8. GoesOn(iter, n, Words0, init, Step)
  BY <1>2, <1>5, <1>7 DEF It, GoesOn
<1> HIDE DEF n, Step
<1>9. PICK run : Runs(run, n, Words0, init, Step) /\ run[n] = iter[1..n]
  <2>1. n \in Nat
    BY <1>2
  <2>2. init \in Words0
    OBVIOUS
  <2>3. Through(iter, n, Words0, init, Step)
    BY <1>3, <1>8, <2>1, <2>2, FoldRun
  <2> QED  BY <2>3 DEF Through
<1>10. \A i \in 1..n : run[i] = (2 * run[i - 1] + words[i] + 1) % Base
  <2> SUFFICES ASSUME NEW i \in 1..n PROVE run[i] = (2 * run[i - 1] + words[i] + 1) % Base
    OBVIOUS
  <2>1. run \in [0..n -> Words0] /\ run[i] = Step[<<i, run[i - 1]>>] /\ i - 1 \in 0..n
    BY <1>2, <1>9 DEF Runs
  <2>2. run[i - 1] \in Words0
    BY <2>1
  <2>3. Step[<<i, run[i - 1]>>] = (2 * run[i - 1] + words[i] + 1) % Base
    BY <2>2 DEF Step
  <2> QED  BY <2>1, <2>3
<1> QED  BY <1>1, <1>2, <1>9, <1>10 DEF Runs, n, CrcRun

SumRun(run, words, init) ==
  /\ run \in [0..Len(words) -> Words0]
  /\ run[0] = init /\ run[Len(words)] = Sum32(words, init)
  /\ \A i \in 1..Len(words) : run[i] = (run[i - 1] + words[i]) % Base

LEMMA SumRuns ==
  ASSUME NEW words \in Seq(Words0), NEW init \in Words0
  PROVE  \E run : SumRun(run, words, init)
<1> DEFINE n == Len(words)
           S == DOMAIN words
           Step == [x \in (1..n) \X Words0 |-> (x[2] + words[x[1]]) % Base]
           It(f) == [s \in SUBSET S |->
                       IF s = {} THEN init ELSE (f[s \ {Max(s)}] + words[Max(s)]) % Base]
           iter == CHOOSE f : f = It(f)
<1>1. Sum32(words, init) = iter[S]
  BY DEF Sum32, FoldLeft, MapThenFoldSet
<1>2. S = 1..n /\ n \in Nat /\ \A i \in 1..n : words[i] \in Nat
  <2>1. S = 1..n /\ n \in Nat /\ \A i \in 1..n : words[i] \in Words0
    OBVIOUS
  <2> QED  BY <2>1, BaseIs
<1>3. IsStep(Step, n, Words0)
  <2> SUFFICES ASSUME NEW i \in 1..n, NEW c \in Words0
               PROVE  (c + words[i]) % Base \in Words0
    BY DEF IsStep
  <2>1. c + words[i] \in Nat
    BY <1>2, BaseIs
  <2> QED  BY <2>1, WordIs
<1>4. PICK f : IsFold(f, n, Words0, init, Step)
  <2> HIDE DEF n, Step
  <2> QED  BY <1>2, <1>3, FoldExists
<1>5. \A s \in SUBSET (1..n) : s # {} => Max(s) \in 1..n /\ s \ {Max(s)} \in SUBSET (1..n)
  <2> HIDE DEF n
  <2> QED  BY <1>2, MaxIsIn
<1>6. f = It(f)
  <2>1. \A s \in SUBSET S : f[s] = It(f)[s]
    BY <1>2, <1>4, <1>5 DEF IsFold
  <2>2. f \in [SUBSET S -> Words0]
    BY <1>2, <1>4 DEF IsFold
  <2>3. It(f) = [s \in SUBSET S |-> It(f)[s]]
    OBVIOUS
  <2> HIDE DEF It, S
  <2> QED  BY <2>1, <2>2, <2>3
<1> HIDE DEF It
<1>7. iter = It(iter)
  BY <1>6
<1> HIDE DEF iter
<1>8. GoesOn(iter, n, Words0, init, Step)
  BY <1>2, <1>5, <1>7 DEF It, GoesOn
<1> HIDE DEF n, Step
<1>9. PICK run : Runs(run, n, Words0, init, Step) /\ run[n] = iter[1..n]
  <2>1. n \in Nat
    BY <1>2
  <2>2. init \in Words0
    OBVIOUS
  <2>3. Through(iter, n, Words0, init, Step)
    BY <1>3, <1>8, <2>1, <2>2, FoldRun
  <2> QED  BY <2>3 DEF Through
<1>10. \A i \in 1..n : run[i] = (run[i - 1] + words[i]) % Base
  <2> SUFFICES ASSUME NEW i \in 1..n PROVE run[i] = (run[i - 1] + words[i]) % Base
    OBVIOUS
  <2>1. run \in [0..n -> Words0] /\ run[i] = Step[<<i, run[i - 1]>>] /\ i - 1 \in 0..n
    BY <1>2, <1>9 DEF Runs
  <2>2. run[i - 1] \in Words0
    BY <2>1
  <2>3. Step[<<i, run[i - 1]>>] = (run[i - 1] + words[i]) % Base
    BY <2>2 DEF Step
  <2> QED  BY <2>1, <2>3
<1> QED  BY <1>1, <1>2, <1>9, <1>10 DEF Runs, n, SumRun

\* Words that are the same but for the last one: what the last one is added to is the same.
SameStart(words, others) == \A i \in 1..(Len(words) - 1) : words[i] = others[i]
CrcLast(c, words, init) ==
  \A others \in Seq(Words0) : Len(others) = Len(words) /\ SameStart(words, others) =>
    Crc(others, init) = (2 * c + others[Len(words)] + 1) % Base
SumLast(c, words, init) ==
  \A others \in Seq(Words0) : Len(others) = Len(words) /\ SameStart(words, others) =>
    Sum32(others, init) = (c + others[Len(words)]) % Base

LEMMA LastWord ==
  ASSUME NEW words \in Seq(Words0), NEW init \in Words0, words # <<>>
  PROVE  (\E c \in Words0 : CrcLast(c, words, init)) /\ (\E c \in Words0 : SumLast(c, words, init))
<1> DEFINE n == Len(words)
<1>0. n \in Nat \ {0}
  BY EmptySeq
<1>9. n - 1 \in 0..n
  BY <1>0
<1> USE <1>0
<1>1. PICK run : CrcRun(run, words, init)
  BY CrcRuns
<1>2. ASSUME NEW others \in Seq(Words0), Len(others) = n, SameStart(words, others)
      PROVE  Crc(others, init) = (2 * run[n - 1] + others[n] + 1) % Base
  <2>1. PICK other : CrcRun(other, others, init)
    BY CrcRuns
  <2> USE <1>2 DEF CrcRun, SameStart
  <2> DEFINE T == {i \in 0..(n - 1) : run[i] = other[i]}
  <2>3. 0 \in T
    BY <1>1, <2>1
  <2>4. ASSUME NEW i \in 1..(n - 1), i - 1 \in T PROVE i \in T
    <3>1. run[i - 1] = other[i - 1] /\ words[i] = others[i] /\ i \in 1..n /\ i \in 0..(n - 1)
      BY <2>4
    <3> QED  BY <1>1, <2>1, <3>1
  <2>5. n - 1 \in Nat
    OBVIOUS
  <2>6. \A i \in 0..(n - 1) : i \in T
    <3> HIDE DEF T
    <3> QED  BY <2>3, <2>4, <2>5, Upward
  <2>7. n - 1 \in 0..(n - 1) /\ n \in 1..n
    OBVIOUS
  <2>8. run[n - 1] = other[n - 1]
    BY <2>6, <2>7
  <2> QED  BY <2>1, <2>7, <2>8
<1>3. PICK sums : SumRun(sums, words, init)
  BY SumRuns
<1>4. ASSUME NEW others \in Seq(Words0), Len(others) = n, SameStart(words, others)
      PROVE  Sum32(others, init) = (sums[n - 1] + others[n]) % Base
  <2>1. PICK other : SumRun(other, others, init)
    BY SumRuns
  <2> USE <1>4 DEF SumRun, SameStart
  <2> DEFINE T == {i \in 0..(n - 1) : sums[i] = other[i]}
  <2>3. 0 \in T
    BY <1>3, <2>1
  <2>4. ASSUME NEW i \in 1..(n - 1), i - 1 \in T PROVE i \in T
    <3>1. sums[i - 1] = other[i - 1] /\ words[i] = others[i] /\ i \in 1..n /\ i \in 0..(n - 1)
      BY <2>4
    <3> QED  BY <1>3, <2>1, <3>1
  <2>5. n - 1 \in Nat
    OBVIOUS
  <2>6. \A i \in 0..(n - 1) : i \in T
    <3> HIDE DEF T
    <3> QED  BY <2>3, <2>4, <2>5, Upward
  <2>7. n - 1 \in 0..(n - 1) /\ n \in 1..n
    OBVIOUS
  <2>8. sums[n - 1] = other[n - 1]
    BY <2>6, <2>7
  <2> QED  BY <2>1, <2>7, <2>8
<1>5. \E c \in Words0 : CrcLast(c, words, init)
  BY <1>1, <1>2, <1>9 DEF CrcLast, CrcRun
<1>6. \E c \in Words0 : SumLast(c, words, init)
  BY <1>3, <1>4, <1>9 DEF SumLast, SumRun
<1> QED  BY <1>5, <1>6

LEMMA SumsAreWords ==
  ASSUME NEW words \in Seq(Words0), NEW init \in Words0
  PROVE  Crc(words, init) \in Words0 /\ Sum32(words, init) \in Words0
<1>1. Len(words) \in 0..Len(words)
  OBVIOUS
<1>2. PICK run : CrcRun(run, words, init)
  BY CrcRuns
<1>3. PICK other : SumRun(other, words, init)
  BY SumRuns
<1> QED  BY <1>1, <1>2, <1>3 DEF CrcRun, SumRun

\* The words of a region of a ROM.
LEMMA Region ==
  ASSUME NEW N \in Nat, NEW rom \in [1..N -> Words0], NEW f \in Nat \ {0}, NEW t \in Nat, t <= N
  PROVE  /\ SubSeq(rom, f, t) \in Seq(Words0)
         /\ f <= t => Len(SubSeq(rom, f, t)) = t - f + 1 /\ t - f + 1 \in Nat \ {0}
         /\ \A i \in 1..(t - f + 1) : SubSeq(rom, f, t)[i] = rom[f + i - 1]
<1>1. \A i \in f..t : rom[i] \in Words0
  OBVIOUS
<1>2. f \in Int /\ t \in Int
  OBVIOUS
<1>3. /\ SubSeq(rom, f, t) \in Seq(Words0)
      /\ Len(SubSeq(rom, f, t)) = IF f <= t THEN t - f + 1 ELSE 0
      /\ \A i \in 1..(t - f + 1) : SubSeq(rom, f, t)[i] = rom[f + i - 1]
  BY <1>1, <1>2, SubSeqProperties
<1>4. f <= t => t - f + 1 \in Nat \ {0}
  OBVIOUS
<1> QED  BY <1>3, <1>4

LEMMA SameRegion ==
  ASSUME NEW N \in Nat, NEW rom \in [1..N -> Words0], NEW other \in [1..N -> Words0],
         NEW f \in Nat \ {0}, NEW t \in Nat, t <= N, \A i \in f..t : rom[i] = other[i]
  PROVE  SubSeq(rom, f, t) = SubSeq(other, f, t)
<1>1. CASE f <= t
  <2> DEFINE a == SubSeq(rom, f, t)
             b == SubSeq(other, f, t)
             n == t - f + 1
  <2>1. /\ a \in Seq(Words0) /\ Len(a) = n /\ \A i \in 1..n : a[i] = rom[f + i - 1]
        /\ b \in Seq(Words0) /\ Len(b) = n /\ \A i \in 1..n : b[i] = other[f + i - 1]
    BY <1>1, Region
  <2>2. \A i \in 1..n : f + i - 1 \in f..t
    BY <1>1
  <2> HIDE DEF a, b, n
  <2>3. \A i \in 1..n : a[i] = b[i]
    BY <2>1, <2>2
  <2>4. a = [i \in 1..n |-> a[i]] /\ b = [i \in 1..n |-> b[i]]
    BY <2>1
  <2> QED  BY <2>3, <2>4 DEF a, b
<1>2. CASE f > t
  BY <1>2, SubSeqEmpty
<1> QED  BY <1>1, <1>2

\* A sum is right or wrong by the words of its area.
LEMMA ValidThere ==
  ASSUME NEW N \in Nat, NEW rom \in [1..N -> Words0], NEW other \in [1..N -> Words0],
         NEW a \in Areas, \A i \in a.from..a.to : rom[i] = other[i]
  PROVE  /\ InBounds(rom, a) <=> InBounds(other, a)
         /\ Valid(rom, a) <=> Valid(other, a)
<1>1. Len(rom) = N /\ Len(other) = N
  OBVIOUS
<1>2. a.from \in Nat \ {0} /\ a.to \in Nat
  BY DEF Areas
<1>3. a.to <= N => SubSeq(rom, a.from, a.to) = SubSeq(other, a.from, a.to)
  BY <1>2, SameRegion, SMTT(30)
<1> QED  BY <1>1, <1>3 DEF InBounds, Valid

\* correctCs finds the word that it looks for.
LEMMA Solvable ==
  ASSUME NEW N \in Nat, NEW rom \in [1..N -> Words0], NEW a \in Areas,
         InBounds(rom, a), Correctable(a)
  PROVE  \E w \in Words0 : Valid([rom EXCEPT ![a.to] = w], a)
<1> DEFINE with(w) == [rom EXCEPT ![a.to] = w]
           n == a.to - a.from + 1
           words(r) == SubSeq(r, a.from, a.to)
<1>1. /\ a.from \in Nat \ {0} /\ a.to \in Nat /\ a.from <= a.to /\ a.to <= N /\ a.to \in 1..N
      /\ a.init \in Words0 /\ a.expected \in Words0 /\ n \in Nat \ {0}
  BY DEF Areas, InBounds
<1>2. \A w \in Words0 : /\ with(w) \in [1..N -> Words0] /\ with(w)[a.to] = w
                        /\ \A i \in 1..N : i # a.to => with(w)[i] = rom[i]
  BY <1>1
<1> HIDE DEF with
<1>3. ASSUME NEW r \in [1..N -> Words0]
      PROVE  /\ words(r) \in Seq(Words0) /\ Len(words(r)) = n
             /\ \A i \in 1..n : words(r)[i] = r[a.from + i - 1]
  BY <1>1, <1>3, Region, SMTT(30)
<1> HIDE DEF words
<1>4. a.from + n - 1 = a.to /\ n \in 1..n
      /\ \A i \in 1..(n - 1) : i \in 1..n /\ a.from + i - 1 \in 1..N /\ a.from + i - 1 # a.to
  BY <1>1
<1> HIDE DEF n
<1>5. ASSUME NEW w \in Words0
      PROVE  /\ words(with(w)) \in Seq(Words0) /\ Len(words(with(w))) = n
             /\ words(with(w))[n] = w
             /\ \A i \in 1..(n - 1) : words(with(w))[i] = rom[a.from + i - 1]
  <2>1. with(w) \in [1..N -> Words0] /\ with(w)[a.to] = w
    BY <1>2
  <2>2. /\ words(with(w)) \in Seq(Words0) /\ Len(words(with(w))) = n
        /\ \A i \in 1..n : words(with(w))[i] = with(w)[a.from + i - 1]
    BY <1>3, <2>1
  <2>3. words(with(w))[n] = w
    BY <1>4, <2>1, <2>2
  <2>4. \A i \in 1..(n - 1) : words(with(w))[i] = rom[a.from + i - 1]
    BY <1>2, <1>4, <2>2
  <2> QED  BY <2>2, <2>3, <2>4
<1>6. Base \in Nat \ {0} /\ 0 \in Words0 /\ Words0 \subseteq Nat /\ Words0 = 0..(Base - 1)
  BY BaseIs DEF Words0
<1> DEFINE base == words(with(0))
<1>7. base \in Seq(Words0) /\ Len(base) = n /\ base # <<>> /\ a.init \in Words0
  BY <1>1, <1>5, <1>6
<1>8. ASSUME NEW w \in Words0 PROVE SameStart(base, words(with(w)))
  <2>1. \A i \in 1..(n - 1) : base[i] = rom[a.from + i - 1]
    BY <1>5, <1>6
  <2>2. \A i \in 1..(n - 1) : words(with(w))[i] = rom[a.from + i - 1]
    BY <1>5, <1>8
  <2> HIDE DEF base
  <2> QED  BY <1>7, <2>1, <2>2 DEF SameStart
<1>9. InBounds(rom, a) /\ \A w \in Words0 : InBounds(with(w), a)
  <2>1. \A w \in Words0 : Len(with(w)) = N
    BY <1>2
  <2> QED  BY <1>1, <2>1 DEF InBounds
<1> HIDE DEF base
<1>10. CASE a.algo = "crc"
  <2>1. PICK c \in Words0 : CrcLast(c, base, a.init)
    BY <1>7, LastWord
  <2>2. \A w \in Words0 : Crc(words(with(w)), a.init) = (2 * c + w + 1) % Base
    BY <1>5, <1>7, <1>8, <2>1 DEF CrcLast
  <2>3. 2 * c + 1 \in Nat /\ 0 \in 0..(Base - 1)
    BY <1>6
  <2>4. PICK w \in 0..(Base - 1) : (2 * c + 1 + w) % Base = 0
    BY <1>6, <2>3, Reachable
  <2>5. 2 * c + 1 + w = 2 * c + w + 1 /\ w \in Words0
    BY <1>6
  <2>6. Crc(words(with(w)), a.init) = Expect
    BY <2>2, <2>4, <2>5 DEF Expect
  <2> QED  BY <1>9, <1>10, <2>5, <2>6 DEF Valid, with, words
<1>11. CASE a.algo = "add"
  <2>1. PICK c \in Words0 : SumLast(c, base, a.init)
    BY <1>7, LastWord
  <2>2. \A w \in Words0 : Sum32(words(with(w)), a.init) = (c + w) % Base
    BY <1>5, <1>7, <1>8, <2>1 DEF SumLast
  <2>3. c \in Nat /\ a.expected \in 0..(Base - 1)
    BY <1>1, <1>6
  <2>4. PICK w \in 0..(Base - 1) : (c + w) % Base = a.expected
    BY <1>6, <2>3, Reachable
  <2>5. w \in Words0
    BY <1>6
  <2>6. Sum32(words(with(w)), a.init) = a.expected
    BY <2>2, <2>4, <2>5
  <2> QED  BY <1>9, <1>11, <2>5, <2>6 DEF Valid, with, words
<1> QED  BY <1>10, <1>11 DEF Correctable, with

Roms0(N) == [1..N -> Words0]

\* correctCs leaves the sum of its area right, if it is of a kind that it corrects, and writes
\* no other word.
LEMMA CorrectCsDoes ==
  ASSUME NEW N \in Nat, NEW rom \in Roms0(N), NEW a \in Areas
  PROVE  /\ CorrectCs(rom, a) \in Roms0(N)
         /\ \A i \in 1..N : i # a.to => CorrectCs(rom, a)[i] = rom[i]
         /\ InBounds(rom, a) /\ Correctable(a) => Valid(CorrectCs(rom, a), a)
         /\ ~Correctable(a) => CorrectCs(rom, a) = rom
<1> USE DEF Roms0
<1>1. CASE InBounds(rom, a) /\ Correctable(a)
  <2> DEFINE with(w) == [rom EXCEPT ![a.to] = w]
             word == CHOOSE w \in Words0 : Valid(with(w), a)
  <2>1. word \in Words0 /\ Valid(with(word), a)
    BY <1>1, Solvable
  <2>2. CorrectCs(rom, a) = with(word)
    BY <1>1 DEF CorrectCs
  <2> HIDE DEF word
  <2>3. with(word) \in [1..N -> Words0] /\ \A i \in 1..N : i # a.to => with(word)[i] = rom[i]
    BY <2>1
  <2> QED  BY <1>1, <2>1, <2>2, <2>3
<1>2. CASE ~(InBounds(rom, a) /\ Correctable(a))
  BY <1>2 DEF CorrectCs
<1> QED  BY <1>1, <1>2

\* edc17Correct goes through the areas in their order.
Edc17Run(run, rom, areas, p, N) ==
  /\ run \in [0..Len(areas) -> Roms0(N)]
  /\ run[0] = rom /\ run[Len(areas)] = Edc17Correct(rom, areas, p)
  /\ \A i \in 1..Len(areas) :
       run[i] = IF p[i] \in Wrong(rom, areas) THEN CorrectCs(run[i - 1], areas[p[i]]) ELSE run[i - 1]

LEMMA Edc17Runs ==
  ASSUME NEW N \in Nat, NEW rom \in Roms0(N), NEW areas \in Seq(Areas), NEW p
  PROVE  \E run : Edc17Run(run, rom, areas, p, N)
<1> DEFINE n == Len(areas)
           S == DOMAIN [i \in DOMAIN areas |-> i]
           Next1(r, i) == IF p[i] \in Wrong(rom, areas) THEN CorrectCs(r, areas[p[i]]) ELSE r
           D == Roms0(N)
           Step == [x \in (1..n) \X D |-> Next1(x[2], x[1])]
           It(f) == [s \in SUBSET S |->
                       IF s = {} THEN rom ELSE Next1(f[s \ {Max(s)}], [i \in DOMAIN areas |-> i][Max(s)])]
           iter == CHOOSE f : f = It(f)
<1>1. Edc17Correct(rom, areas, p) = iter[S]
  BY DEF Edc17Correct, FoldLeft, MapThenFoldSet
<1>2. S = 1..n /\ n \in Nat /\ \A i \in 1..n : [j \in DOMAIN areas |-> j][i] = i
  OBVIOUS
<1>2a. \A i \in DOMAIN areas : areas[i] \in Areas
  OBVIOUS
<1>3. IsStep(Step, n, D)
  <2> SUFFICES ASSUME NEW i \in 1..n, NEW r \in D PROVE Next1(r, i) \in D
    BY DEF IsStep
  <2>1. CASE p[i] \in Wrong(rom, areas)
    <3>1. areas[p[i]] \in Areas
      BY <1>2a, <2>1 DEF Wrong
    <3> QED  BY <2>1, <3>1, CorrectCsDoes
  <2>2. CASE p[i] \notin Wrong(rom, areas)
    BY <2>2
  <2> QED  BY <2>1, <2>2
<1> HIDE DEF Next1
<1>4. PICK f : IsFold(f, n, D, rom, Step)
  <2> HIDE DEF n, Step, D
  <2>1. rom \in D
    BY DEF D
  <2> QED  BY <1>2, <1>3, <2>1, FoldExists
<1>5. \A s \in SUBSET (1..n) : s # {} => Max(s) \in 1..n /\ s \ {Max(s)} \in SUBSET (1..n)
  <2> HIDE DEF n
  <2> QED  BY <1>2, MaxIsIn
<1>6. f = It(f)
  <2>1. \A s \in SUBSET S : f[s] = It(f)[s]
    BY <1>2, <1>4, <1>5 DEF IsFold
  <2>2. f \in [SUBSET S -> D]
    BY <1>2, <1>4 DEF IsFold
  <2>3. It(f) = [s \in SUBSET S |-> It(f)[s]]
    OBVIOUS
  <2> HIDE DEF It, S
  <2> QED  BY <2>1, <2>2, <2>3
<1> HIDE DEF It
<1>7. iter = It(iter)
  BY <1>6
<1> HIDE DEF iter
<1>8. GoesOn(iter, n, D, rom, Step)
  BY <1>2, <1>5, <1>7 DEF It, GoesOn
<1> HIDE DEF n, Step, D
<1>9. PICK run : Runs(run, n, D, rom, Step) /\ run[n] = iter[1..n]
  <2>1. n \in Nat /\ rom \in D
    BY <1>2 DEF D
  <2>3. Through(iter, n, D, rom, Step)
    BY <1>3, <1>8, <2>1, FoldRun
  <2> QED  BY <2>3 DEF Through
<1>10. \A i \in 1..n : run[i] = Next1(run[i - 1], i)
  <2> SUFFICES ASSUME NEW i \in 1..n PROVE run[i] = Next1(run[i - 1], i)
    OBVIOUS
  <2>1. run \in [0..n -> D] /\ run[i] = Step[<<i, run[i - 1]>>] /\ i - 1 \in 0..n
    BY <1>2, <1>9 DEF Runs
  <2>2. run[i - 1] \in D
    BY <2>1
  <2>3. Step[<<i, run[i - 1]>>] = Next1(run[i - 1], i)
    BY <2>2 DEF Step
  <2> QED  BY <2>1, <2>3
<1> QED  BY <1>1, <1>2, <1>9, <1>10 DEF Runs, n, D, Next1, Edc17Run

LEMMA WholeCorrection ==
  ASSUME NEW N \in Nat, NEW rom \in Roms0(N), NEW areas \in Seq(Areas), NEW p
  PROVE  /\ Edc17Correct(rom, areas, p) \in Roms0(N)
         /\ Fixed(rom, areas) = {} => Edc17Correct(rom, areas, p) = rom
<1>1. PICK run : Edc17Run(run, rom, areas, p, N)
  BY Edc17Runs
<1> DEFINE n == Len(areas)
<1>2. n \in Nat /\ n \in 0..n
  OBVIOUS
<1>3. run \in [0..n -> Roms0(N)] /\ run[n] = Edc17Correct(rom, areas, p) /\ run[0] = rom
  BY <1>1 DEF Edc17Run
<1>4. ASSUME Fixed(rom, areas) = {} PROVE run[n] = rom
  <2> DEFINE T == {i \in 0..n : run[i] = rom}
  <2>1. 0 \in T
    BY <1>2, <1>3
  <2>2. ASSUME NEW i \in 1..n, i - 1 \in T PROVE i \in T
    <3>1. run[i - 1] = rom /\ i \in 0..n
      BY <2>2
    <3>2. p[i] \in Wrong(rom, areas) => CorrectCs(rom, areas[p[i]]) = rom
      <4> SUFFICES ASSUME p[i] \in Wrong(rom, areas) PROVE CorrectCs(rom, areas[p[i]]) = rom
        OBVIOUS
      <4>1. p[i] \in DOMAIN areas /\ ~Correctable(areas[p[i]])
        BY <1>4 DEF Fixed, Wrong
      <4>2. areas[p[i]] \in Areas
        BY <4>1
      <4> QED  BY <4>1, <4>2, CorrectCsDoes
    <3> QED  BY <1>1, <3>1, <3>2 DEF Edc17Run
  <2>3. \A i \in 0..n : i \in T
    <3> HIDE DEF T, n
    <3> QED  BY <1>2, <2>1, <2>2, Upward
  <2> QED  BY <1>2, <2>3
<1> QED  BY <1>2, <1>3, <1>4

\* Correcting an area leaves right the ones that are done or were right.
LEMMA OneInside ==
  ASSUME NEW N \in Nat, NEW rom \in Roms0(N), NEW areas \in Seq(Areas),
         Orderly(rom, areas), NEW i \in Fixed(rom, areas), NEW j \in DOMAIN areas, i # j,
         Extent(areas[j]) <= Extent(areas[i]) \/ j \notin Wrong(rom, areas)
  PROVE  areas[i].to \notin areas[j].from..areas[j].to
<1> DEFINE a == areas[i]
           b == areas[j]
<1>1. i \in DOMAIN areas /\ InBounds(rom, a)
  BY DEF Fixed, Wrong
<1>2. a \in Areas /\ b \in Areas
  BY <1>1
<1>3. /\ \/ b.from <= a.from /\ a.to < b.to
         \/ a.from <= b.from /\ b.to < a.to
         \/ a.to < b.from \/ b.to < a.from
      /\ b.from <= a.from /\ a.to < b.to => j \in Wrong(rom, areas)
  BY <1>1 DEF Orderly
<1>4. a.from <= a.to /\ Extent(a) = a.to - a.from /\ Extent(b) = b.to - b.from
  BY <1>1 DEF InBounds, Extent
<1>5. a.from \in Int /\ a.to \in Int /\ b.from \in Int /\ b.to \in Int
  BY <1>2 DEF Areas
<1>6. Extent(b) <= Extent(a) \/ j \notin Wrong(rom, areas)
  OBVIOUS
<1> HIDE DEF a, b
<1>7. a.to \notin b.from..b.to
  BY <1>3, <1>4, <1>5, <1>6
<1> QED  BY <1>7 DEF a, b

\* From the smallest area to the largest, the correction leaves every area right.
LEMMA SmallestFirstHolds ==
  ASSUME NEW N \in Nat, NEW rom \in Roms0(N), NEW areas \in Seq(Areas), Orderly(rom, areas),
         \A i \in DOMAIN areas : Correctable(areas[i]), NEW p \in SmallestFirst(areas),
         NEW j \in DOMAIN areas, InBounds(rom, areas[j])
  PROVE  Valid(Edc17Correct(rom, areas, p), areas[j])
<1> DEFINE n == Len(areas)
           W == Wrong(rom, areas)
<1>1. PICK run : Edc17Run(run, rom, areas, p, N)
  BY Edc17Runs
<1>2. /\ run \in [0..n -> Roms0(N)] /\ run[n] = Edc17Correct(rom, areas, p) /\ run[0] = rom
      /\ \A k \in 1..n : run[k] = IF p[k] \in W THEN CorrectCs(run[k - 1], areas[p[k]]) ELSE run[k - 1]
  BY <1>1 DEF Edc17Run
<1>3. n \in Nat /\ n \in 0..n /\ DOMAIN areas = 1..n /\ \A i \in 1..n : areas[i] \in Areas
  OBVIOUS
<1>4. /\ p \in [1..n -> 1..n] /\ \E q \in 1..n : p[q] = j
      /\ \A k, q \in 1..n : k < q => Extent(areas[p[k]]) <= Extent(areas[p[q]])
  BY <1>3 DEF SmallestFirst, Bijection, Surjection, Injection
<1>5. \A r \in Roms0(N), a \in Areas : InBounds(r, a) <=> InBounds(rom, a)
  <2>1. \A r \in Roms0(N) : Len(r) = N
    BY DEF Roms0
  <2> QED  BY <2>1 DEF InBounds
<1> DEFINE Done(k, q) == q <= k \/ p[q] \notin W
           T == {k \in 0..n : \A q \in 1..n : InBounds(rom, areas[p[q]]) /\ Done(k, q) =>
                                Valid(run[k], areas[p[q]])}
<1>6. 0 \in T
  <2>1. \A q \in 1..n : p[q] \notin W /\ InBounds(rom, areas[p[q]]) => Valid(rom, areas[p[q]])
    BY <1>3, <1>4 DEF Wrong
  <2> QED  BY <1>2, <1>3, <2>1
<1>7. ASSUME NEW k \in 1..n, k - 1 \in T PROVE k \in T
  <2> SUFFICES ASSUME NEW q \in 1..n, InBounds(rom, areas[p[q]]), Done(k, q)
               PROVE  Valid(run[k], areas[p[q]])
    OBVIOUS
  <2> DEFINE b == areas[p[k]]
             a == areas[p[q]]
  <2>1. a \in Areas /\ b \in Areas /\ p[k] \in 1..n /\ p[q] \in 1..n
    BY <1>3, <1>4
  <2>2. run[k - 1] \in Roms0(N) /\ run[k] \in Roms0(N)
    <3>1. k - 1 \in 0..n /\ k \in 0..n
      OBVIOUS
    <3> QED  BY <1>2, <3>1
  <2>3. Done(k - 1, q) => Valid(run[k - 1], a)
    BY <1>7
  <2>4. CASE p[k] \notin W
    <3>1. run[k] = run[k - 1]
      BY <1>2, <2>4
    <3>2. Done(k - 1, q)
      BY <2>4
    <3> QED  BY <2>3, <3>1, <3>2
  <2>5. CASE p[k] \in W
    <3>1. run[k] = CorrectCs(run[k - 1], b)
      BY <1>2, <2>5
    <3>2. InBounds(run[k - 1], b) /\ Correctable(b)
      BY <1>3, <1>5, <2>1, <2>2, <2>5 DEF Wrong
    <3>3. Valid(run[k], b) /\ \A i \in 1..N : i # b.to => run[k][i] = run[k - 1][i]
      <4> DEFINE r == run[k - 1]
      <4>1. r \in Roms0(N) /\ b \in Areas
        BY <2>1, <2>2
      <4>3. InBounds(r, b) /\ Correctable(b)
        BY <3>2
      <4> HIDE DEF r, b
      <4>2. /\ Valid(CorrectCs(r, b), b)
            /\ \A i \in 1..N : i # b.to => CorrectCs(r, b)[i] = r[i]
        BY <4>1, <4>3, CorrectCsDoes
      <4> QED  BY <3>1, <4>2 DEF r
    <3>4. CASE p[q] = p[k]
      BY <3>3, <3>4
    <3>5. CASE p[q] # p[k]
      <4>1. q # k
        BY <3>5
      <4>2. Done(k - 1, q) /\ Valid(run[k - 1], a)
        BY <2>3, <4>1
      <4>3. Extent(a) <= Extent(b) \/ p[q] \notin W
        BY <1>4, <4>1
      <4>4. p[k] \in Fixed(rom, areas)
        BY <1>3, <2>1, <2>5 DEF Fixed
      <4>5. b.to \notin a.from..a.to
        BY <1>3, <2>1, <3>5, <4>3, <4>4, OneInside
      <4>6. a.from \in Nat \ {0} /\ a.to \in Nat /\ a.to <= N
        <5>1. Len(rom) = N
          BY DEF Roms0
        <5> QED  BY <2>1, <5>1 DEF Areas, InBounds
      <4>7. \A i \in a.from..a.to : run[k - 1][i] = run[k][i]
        <5>1. ASSUME NEW i \in a.from..a.to PROVE i \in 1..N /\ i # b.to
          <6> HIDE DEF a, b
          <6>1. i \in Nat /\ 1 <= i /\ i <= N
            BY <4>6
          <6> QED  BY <4>5, <6>1
        <5> HIDE DEF a, b
        <5> QED  BY <3>3, <5>1
      <4> QED  BY <2>1, <2>2, <4>2, <4>7, ValidThere DEF Roms0
    <3> QED  BY <3>4, <3>5
  <2> QED  BY <2>4, <2>5
<1>8. \A k \in 0..n : k \in T
  <2> HIDE DEF T, n
  <2> QED  BY <1>3, <1>6, <1>7, Upward
<1>9. PICK q \in 1..n : p[q] = j
  BY <1>4
<1>10. n \in T /\ Done(n, q)
  BY <1>3, <1>8
<1> QED  BY <1>2, <1>9, <1>10

-----------------------------------------------------------------------------
(* Steps of the checksum panel. *)

SumInv == SumTypeOK /\ SumsMarked /\ CorrectionHolds

\* The engine of the small images.
LEMMA MppsHolds ==
  ASSUME NEW N \in Nat \ {0}, NEW rom \in Roms0(N)
  PROVE  /\ CorrectMpps(rom) \in Roms0(N) /\ MppsRight(CorrectMpps(rom))
         /\ MppsRight(rom) => CorrectMpps(rom) = rom
<1> USE DEF Roms0
<1> DEFINE sum == Crc(SubSeq(rom, 2, N - 1), 0)
           other == [rom EXCEPT ![N] = sum]
<1>1. Len(rom) = N /\ Len(other) = N /\ N \in 1..N /\ N - 1 \in Nat /\ N - 1 <= N /\ 2 \in Nat \ {0}
  OBVIOUS
<1>2. sum \in Words0
  BY <1>1, BaseIs, Region, SumsAreWords
<1>3. CorrectMpps(rom) = other /\ (MppsRight(rom) <=> rom[N] = sum)
  BY <1>1 DEF CorrectMpps, MppsRight
<1> HIDE DEF sum
<1>4. other \in [1..N -> Words0] /\ other[N] = sum /\ \A i \in 2..(N - 1) : rom[i] = other[i]
  BY <1>1, <1>2
<1>5. SubSeq(rom, 2, N - 1) = SubSeq(other, 2, N - 1)
  BY <1>1, <1>4, SameRegion
<1>6. MppsRight(other)
  BY <1>1, <1>4, <1>5 DEF sum, MppsRight
<1>7. rom[N] = sum => other = rom
  OBVIOUS
<1> QED  BY <1>3, <1>4, <1>6, <1>7

LEMMA ImageIs ==
  ASSUME SumTypeOK
  PROVE  /\ image.size \in Nat \ {0} /\ image.areas \in Seq(Areas)
         /\ sumRom \in Roms0(image.size)
BY SumAssumption DEF SumTypeOK, Roms0

\* A table says nothing else than right, wrong, out or info.
Tables == {"right", "wrong", "out", "info"}
LEMMA TablesTyped ==
  ASSUME NEW rom, NEW r
  PROVE  /\ Range(MppsTable(rom)) \subseteq Tables
         /\ Range(Edc17Table(rom)) \subseteq Tables
         /\ Range(GenericTable(rom, r)) \subseteq Tables
<1>1. \A t : t = <<>> \/ t = <<"right">> \/ t = <<"wrong">> => Range(t) \subseteq Tables
  BY DEF Range, Tables
<1>2. \A t : t = <<"right", "info">> \/ t = <<"wrong", "info">> => Range(t) \subseteq Tables
  BY DEF Range, Tables
<1>3. MppsTable(rom) \in {<<>>, <<"right">>, <<"wrong">>}
  BY DEF MppsTable
<1>4. GenericTable(rom, r) \in {<<"right", "info">>, <<"wrong", "info">>}
  BY DEF GenericTable
<1>5. Range(Edc17Table(rom)) \subseteq Tables
  BY DEF Edc17Table, Range, Tables
<1> QED  BY <1>1, <1>2, <1>3, <1>4, <1>5

\* A correction: the ROM stays one of the words, and is marked when it is another one.
LEMMA Corrects ==
  ASSUME SumInv, NEW N \in Nat \ {0}, image.size = N, sumRom' \in Roms0(N),
         UNCHANGED <<image, sumFile, algo>>, Count,
         sumUnsaved' \in BOOLEAN, corrected' \in BOOLEAN, Range(table') \subseteq Tables,
         sumUnsaved => sumUnsaved', sumRom' # sumRom => sumUnsaved',
         corrected' => "wrong" \notin Range(table')
  PROVE  SumInv'
<1>1. sumSteps' \in 0..MaxSums
  BY SumAssumption DEF SumInv, SumTypeOK, Count
<1>2. SumTypeOK'
  BY <1>1 DEF SumInv, SumTypeOK, Roms0, Tables
<1>3. SumsMarked' /\ CorrectionHolds'
  BY DEF SumInv, SumsMarked, CorrectionHolds
<1> QED  BY <1>2, <1>3 DEF SumInv

LEMMA MppsCorrects == ASSUME SumInv, RunCorrectionMpps PROVE SumInv'
<1> DEFINE N == image.size
<1>1. N \in Nat \ {0} /\ sumRom \in Roms0(N)
  BY ImageIs DEF SumInv
<1>2. /\ sumRom' = CorrectMpps(sumRom) /\ sumUnsaved' = (sumUnsaved \/ ~MppsRight(sumRom))
      /\ UNCHANGED <<image, sumFile, algo>> /\ Count /\ corrected' = TRUE
      /\ table' = <<IF MppsRight(sumRom') THEN "right" ELSE "wrong">>
  BY DEF RunCorrectionMpps, MppsTable
<1>3. sumRom' \in Roms0(N) /\ MppsRight(sumRom') /\ (MppsRight(sumRom) => sumRom' = sumRom)
  BY <1>1, <1>2, MppsHolds
<1>4. table' = <<"right">>
  BY <1>2, <1>3
<1>5. Range(table') = {"right"}
  BY <1>4 DEF Range
<1>6. sumUnsaved' \in BOOLEAN
  BY <1>2 DEF SumInv, SumTypeOK
<1> QED  BY <1>1, <1>2, <1>3, <1>5, <1>6, Corrects DEF Tables

LEMMA Edc17Corrects == ASSUME SumInv, RunCorrectionEdc17 PROVE SumInv'
<1> DEFINE N == image.size
           areas == image.areas
<1>1. N \in Nat \ {0} /\ sumRom \in Roms0(N) /\ areas \in Seq(Areas) /\ N \in Nat
  BY ImageIs DEF SumInv
<1>2. PICK p \in SmallestFirst(areas) : sumRom' = Edc17Correct(sumRom, areas, p)
  BY DEF RunCorrectionEdc17
<1>3. /\ sumUnsaved' = (sumUnsaved \/ Fixed(sumRom, areas) # {})
      /\ UNCHANGED <<image, sumFile, algo>> /\ Count
      /\ table' = Edc17Table(sumRom')
      /\ corrected' = (Orderly(sumRom, areas) /\ \A i \in DOMAIN areas : Correctable(areas[i]))
  BY DEF RunCorrectionEdc17
<1>4. sumRom' \in Roms0(N) /\ (Fixed(sumRom, areas) = {} => sumRom' = sumRom)
  BY <1>1, <1>2, WholeCorrection
<1>5. /\ table' = [i \in DOMAIN areas |-> IF ~InBounds(sumRom', areas[i]) THEN "out"
                                          ELSE IF Valid(sumRom', areas[i]) THEN "right" ELSE "wrong"]
  BY <1>3 DEF Edc17Table
<1>6. Range(table') \subseteq Tables
  BY <1>5 DEF Range, Tables
<1>7. ASSUME corrected' PROVE "wrong" \notin Range(table')
  <2>1. ASSUME NEW i \in DOMAIN areas, InBounds(sumRom', areas[i]) PROVE Valid(sumRom', areas[i])
    <3>1. InBounds(sumRom, areas[i])
      <4>1. Len(sumRom) = N /\ Len(sumRom') = N
        BY <1>1, <1>4 DEF Roms0
      <4> QED  BY <2>1, <4>1 DEF InBounds
    <3>2. Orderly(sumRom, areas) /\ \A k \in DOMAIN areas : Correctable(areas[k])
      BY <1>3, <1>7
    <3> HIDE DEF N, areas
    <3> QED  BY <1>1, <1>2, <3>1, <3>2, SmallestFirstHolds
  <2> HIDE DEF areas
  <2>2. \A i \in DOMAIN areas : table'[i] # "wrong"
    BY <1>5, <2>1
  <2>3. DOMAIN table' = DOMAIN areas
    BY <1>5
  <2> QED  BY <2>2, <2>3 DEF Range
<1>8. sumUnsaved' \in BOOLEAN /\ corrected' \in BOOLEAN
  BY <1>3 DEF SumInv, SumTypeOK
<1> QED  BY <1>1, <1>3, <1>4, <1>6, <1>7, <1>8, Corrects

LEMMA GenericCorrects == ASSUME SumInv, RunCorrectionGeneric PROVE SumInv'
<1> DEFINE N == image.size
<1>1. N \in Nat \ {0} /\ sumRom \in Roms0(N) /\ N \in Nat
  BY ImageIs DEF SumInv
<1>2. PICK r \in Regions :
       /\ sumRom' = [sumRom EXCEPT ![r.store] = Computed(sumRom, r)]
       /\ sumUnsaved' = (sumUnsaved \/ Computed(sumRom, r) # sumRom[r.store])
       /\ table' = GenericTable(sumRom', r)
       /\ corrected' = (r.store \notin r.from..r.to)
  BY DEF RunCorrectionGeneric
<1>3. /\ r.from \in Nat \ {0} /\ r.to \in Nat /\ r.to <= N /\ r.store \in 1..N
  BY <1>1 DEF Regions
<1>4. Computed(sumRom, r) \in Words0
  <2>1. sumRom \in [1..N -> Words0]
    BY <1>1 DEF Roms0
  <2>2. SubSeq(sumRom, r.from, r.to) \in Seq(Words0)
    BY <1>1, <1>3, <2>1, Region
  <2> QED  BY <2>2, BaseIs, SumsAreWords DEF Computed
<1>5. /\ sumRom' \in Roms0(N) /\ sumRom'[r.store] = Computed(sumRom, r)
      /\ \A i \in 1..N : i # r.store => sumRom'[i] = sumRom[i]
      /\ Computed(sumRom, r) = sumRom[r.store] => sumRom' = sumRom
  BY <1>1, <1>2, <1>3, <1>4 DEF Roms0
<1>6. r.store \notin r.from..r.to => Computed(sumRom', r) = Computed(sumRom, r)
  <2> SUFFICES ASSUME r.store \notin r.from..r.to PROVE Computed(sumRom', r) = Computed(sumRom, r)
    OBVIOUS
  <2>1. \A i \in r.from..r.to : sumRom[i] = sumRom'[i]
    <3> SUFFICES ASSUME NEW i \in r.from..r.to PROVE sumRom[i] = sumRom'[i]
      OBVIOUS
    <3>1. i \in 1..N /\ i # r.store
      <4> HIDE DEF N
      <4> QED  BY <1>1, <1>3
    <3> QED  BY <1>5, <3>1
  <2> DEFINE old == sumRom
             new == sumRom'
             f == r.from
             t == r.to
  <2>3. /\ old \in [1..N -> Words0] /\ new \in [1..N -> Words0]
        /\ f \in Nat \ {0} /\ t \in Nat /\ t <= N
    BY <1>1, <1>3, <1>5 DEF Roms0
  <2>4. \A i \in f..t : old[i] = new[i]
    BY <2>1
  <2> HIDE DEF N, old, new, f, t
  <2>5. SubSeq(old, f, t) = SubSeq(new, f, t)
    BY <1>1, <2>3, <2>4, SameRegion
  <2>2. SubSeq(sumRom, r.from, r.to) = SubSeq(sumRom', r.from, r.to)
    BY <2>5 DEF old, new, f, t
  <2> QED  BY <2>2 DEF Computed
<1>7. Range(table') \subseteq Tables
  BY <1>2, TablesTyped
<1>8. r.store \notin r.from..r.to => "wrong" \notin Range(table')
  <2> SUFFICES ASSUME r.store \notin r.from..r.to PROVE "wrong" \notin Range(table')
    OBVIOUS
  <2>1. table' = <<"right", "info">>
    BY <1>2, <1>5, <1>6 DEF GenericTable
  <2> QED  BY <2>1 DEF Range
<1>9. UNCHANGED <<image, sumFile, algo>> /\ Count
  BY DEF RunCorrectionGeneric
<1>10. sumUnsaved' \in BOOLEAN /\ corrected' \in BOOLEAN
  BY <1>2 DEF SumInv, SumTypeOK
<1>11. /\ sumUnsaved => sumUnsaved'
       /\ corrected' => "wrong" \notin Range(table')
       /\ sumRom' # sumRom => sumUnsaved'
  BY <1>2, <1>5, <1>8
<1> QED  BY <1>1, <1>5, <1>7, <1>9, <1>10, <1>11, Corrects

LEMMA SumStep ==
  ASSUME SumInv, [SumNext]_sumVars
  PROVE  SumInv'
<1> USE DEF SumInv
<1>0. Count => sumSteps' \in 0..MaxSums
  BY SumAssumption DEF SumTypeOK, Count
<1>1. CASE OnSumRomLoaded
  <2>1. /\ image' \in Images /\ sumRom' = [i \in 1..image'.size |-> 0] /\ sumFile' = sumRom'
        /\ sumUnsaved' = FALSE /\ algo' \in {"mpps", "edc17", "generic"}
        /\ corrected' = FALSE /\ table' = table
    BY <1>1 DEF OnSumRomLoaded, SumTypeOK
  <2>2. sumRom' \in [1..image'.size -> Words0]
    BY <2>1, BaseIs
  <2> QED  BY <1>0, <1>1, <2>1, <2>2 DEF OnSumRomLoaded, SumTypeOK, SumsMarked, CorrectionHolds
<1>2. CASE OnAlgoChanged
  BY <1>2 DEF OnAlgoChanged, SumTypeOK, SumsMarked, CorrectionHolds
<1>3. CASE EditWord
  <2>1. sumRom' \in [1..image'.size -> Words0]
    BY <1>3 DEF EditWord, SumTypeOK
  <2> QED  BY <1>0, <1>3, <2>1 DEF EditWord, SumTypeOK, SumsMarked, CorrectionHolds
<1>4. CASE SaveSumRom
  BY <1>0, <1>4 DEF SaveSumRom, SumTypeOK, SumsMarked, CorrectionHolds
<1>5. CASE Verify
  <2>1. Range(table') \subseteq {"right", "wrong", "out", "info"}
    BY <1>5, TablesTyped DEF Verify, Tables
  <2> QED  BY <1>5, <2>1 DEF Verify, SumTypeOK, SumsMarked, CorrectionHolds
<1>6. CASE UNCHANGED sumVars
  BY <1>6 DEF sumVars, SumTypeOK, SumsMarked, CorrectionHolds
<1> QED
  BY <1>1, <1>2, <1>3, <1>4, <1>5, <1>6, MppsCorrects, Edc17Corrects, GenericCorrects
  DEF SumNext, SumInv

LEMMA SumBegins == SumInit => SumInv
<1> SUFFICES ASSUME SumInit PROVE SumInv
  OBVIOUS
<1>1. Range(table) = {}
  BY DEF SumInit, Range
<1>2. algo \in {"mpps", "edc17", "generic"} /\ sumSteps \in 0..MaxSums
  BY SumAssumption DEF SumInit
<1>3. SumTypeOK
  BY <1>1, <1>2 DEF SumInit, SumTypeOK
<1> QED
  BY <1>3 DEF SumInit, SumInv, SumsMarked, CorrectionHolds

\* For any words and any areas that the engines know, runCorrection leaves no sum wrong, areas
\* inside others being corrected before those around them (when `Orderly`, which `corrected` asks),
\* and marks the ROM that it changed.
THEOREM CorrectionsHold ==
  SumInit /\ [][SumNext]_sumVars => []SumTypeOK /\ []CorrectionHolds /\ []SumsMarked
<1>1. SumInv /\ [SumNext]_sumVars => SumInv'
  BY SumStep
<1>2. SumInv => SumTypeOK /\ CorrectionHolds /\ SumsMarked
  BY DEF SumInv
<1> QED  BY SumBegins, <1>1, <1>2, PTL

-----------------------------------------------------------------------------
(* Modifications.                                                          *)

\* What a modification may do to a ROM: told as no change, it leaves it alone.
Outcomes(rom) == {d \in [rom : RomType, changed : BOOLEAN] : ~d.changed => d.rom = rom}

\* Modifications one after the other do what one may do.
LEMMA EachApplied ==
  ASSUME NEW rom \in RomType, NEW seq, seq \in Seq(Range(seq)),
         \A r \in RomType, i \in 1..Len(seq) : Apply(r, seq[i]) \in Outcomes(r)
  PROVE  Each(rom, seq, Apply) \in Outcomes(rom)
<1> DEFINE n == Len(seq)
           S == DOMAIN seq
           D == Outcomes(rom)
           Do(r, x) == Apply(r, x)
           One(d, x) == [rom |-> Do(d.rom, x).rom, changed |-> d.changed \/ Do(d.rom, x).changed]
           Step == [x \in (1..n) \X D |-> One(x[2], seq[x[1]])]
           then(d, x) == Given(Do(d.rom, x), LAMBDA e : [rom |-> e.rom, changed |-> d.changed \/ e.changed])
           It(f) == [s \in SUBSET S |->
                       IF s = {} THEN Unchanged(rom) ELSE then(f[s \ {Max(s)}], seq[Max(s)])]
           iter == CHOOSE f : f = It(f)
<1>1. Each(rom, seq, Apply) = iter[S]
  BY DEF Each, FoldLeft, MapThenFoldSet
<1>2. S = 1..n /\ n \in Nat
  OBVIOUS
<1>3. ASSUME NEW i \in 1..n, NEW r \in RomType PROVE Do(r, seq[i]) \in Outcomes(r)
  OBVIOUS
<1> HIDE DEF Do
<1>4. \A d, x : then(d, x) = One(d, x)
  BY DEF Given
<1> HIDE DEF then
<1>5. IsStep(Step, n, D) /\ Unchanged(rom) \in D
  <2>1. \A i \in 1..n, d \in D : One(d, seq[i]) \in D
    BY <1>3 DEF Outcomes
  <2> HIDE DEF One, D
  <2>2. IsStep(Step, n, D)
    BY <2>1 DEF IsStep
  <2> QED  BY <2>2 DEF D, Outcomes, Unchanged
<1> HIDE DEF One, D
<1>6. PICK f : IsFold(f, n, D, Unchanged(rom), Step)
  <2> HIDE DEF n, Step
  <2> QED  BY <1>2, <1>5, FoldExists
<1>7. \A s \in SUBSET (1..n) : s # {} => Max(s) \in 1..n /\ s \ {Max(s)} \in SUBSET (1..n)
  <2> HIDE DEF n
  <2> QED  BY <1>2, MaxIsIn
<1>8. f = It(f)
  <2>1. \A s \in SUBSET S : f[s] = It(f)[s]
    BY <1>2, <1>4, <1>6, <1>7 DEF IsFold
  <2>2. f \in [SUBSET S -> D]
    BY <1>2, <1>6 DEF IsFold
  <2>3. It(f) = [s \in SUBSET S |-> It(f)[s]]
    OBVIOUS
  <2> HIDE DEF It, S
  <2> QED  BY <2>1, <2>2, <2>3
<1> HIDE DEF It
<1>9. iter = It(iter)
  BY <1>8
<1> HIDE DEF iter
<1>10. GoesOn(iter, n, D, Unchanged(rom), Step)
  BY <1>2, <1>4, <1>7, <1>9 DEF It, GoesOn
<1> HIDE DEF n, Step
<1>11. Through(iter, n, D, Unchanged(rom), Step)
  BY <1>2, <1>5, <1>10, FoldRun
<1>12. iter[1..n] \in D
  BY <1>2, <1>11 DEF Through, Runs
<1> QED  BY <1>1, <1>2, <1>12 DEF D

LEMMA EachRestored ==
  ASSUME NEW rom \in RomType, NEW seq, seq \in Seq(Range(seq)),
         \A r \in RomType, i \in 1..Len(seq) : Restore(r, seq[i]) \in Outcomes(r)
  PROVE  Each(rom, seq, Restore) \in Outcomes(rom)
<1> DEFINE n == Len(seq)
           S == DOMAIN seq
           D == Outcomes(rom)
           Do(r, x) == Restore(r, x)
           One(d, x) == [rom |-> Do(d.rom, x).rom, changed |-> d.changed \/ Do(d.rom, x).changed]
           Step == [x \in (1..n) \X D |-> One(x[2], seq[x[1]])]
           then(d, x) == Given(Do(d.rom, x), LAMBDA e : [rom |-> e.rom, changed |-> d.changed \/ e.changed])
           It(f) == [s \in SUBSET S |->
                       IF s = {} THEN Unchanged(rom) ELSE then(f[s \ {Max(s)}], seq[Max(s)])]
           iter == CHOOSE f : f = It(f)
<1>1. Each(rom, seq, Restore) = iter[S]
  BY DEF Each, FoldLeft, MapThenFoldSet
<1>2. S = 1..n /\ n \in Nat
  OBVIOUS
<1>3. ASSUME NEW i \in 1..n, NEW r \in RomType PROVE Do(r, seq[i]) \in Outcomes(r)
  OBVIOUS
<1> HIDE DEF Do
<1>4. \A d, x : then(d, x) = One(d, x)
  BY DEF Given
<1> HIDE DEF then
<1>5. IsStep(Step, n, D) /\ Unchanged(rom) \in D
  <2>1. \A i \in 1..n, d \in D : One(d, seq[i]) \in D
    BY <1>3 DEF Outcomes
  <2> HIDE DEF One, D
  <2>2. IsStep(Step, n, D)
    BY <2>1 DEF IsStep
  <2> QED  BY <2>2 DEF D, Outcomes, Unchanged
<1> HIDE DEF One, D
<1>6. PICK f : IsFold(f, n, D, Unchanged(rom), Step)
  <2> HIDE DEF n, Step
  <2> QED  BY <1>2, <1>5, FoldExists
<1>7. \A s \in SUBSET (1..n) : s # {} => Max(s) \in 1..n /\ s \ {Max(s)} \in SUBSET (1..n)
  <2> HIDE DEF n
  <2> QED  BY <1>2, MaxIsIn
<1>8. f = It(f)
  <2>1. \A s \in SUBSET S : f[s] = It(f)[s]
    BY <1>2, <1>4, <1>6, <1>7 DEF IsFold
  <2>2. f \in [SUBSET S -> D]
    BY <1>2, <1>6 DEF IsFold
  <2>3. It(f) = [s \in SUBSET S |-> It(f)[s]]
    OBVIOUS
  <2> HIDE DEF It, S
  <2> QED  BY <2>1, <2>2, <2>3
<1> HIDE DEF It
<1>9. iter = It(iter)
  BY <1>8
<1> HIDE DEF iter
<1>10. GoesOn(iter, n, D, Unchanged(rom), Step)
  BY <1>2, <1>4, <1>7, <1>9 DEF It, GoesOn
<1> HIDE DEF n, Step
<1>11. Through(iter, n, D, Unchanged(rom), Step)
  BY <1>2, <1>5, <1>10, FoldRun
<1>12. iter[1..n] \in D
  BY <1>2, <1>11 DEF Through, Runs
<1> QED  BY <1>1, <1>2, <1>12 DEF D

-----------------------------------------------------------------------------
(* Bytes. *)

LEMMA FoundInside ==
  ASSUME NEW rom, NEW words, FindPattern(rom, words) # 0
  PROVE  FindPattern(rom, words) \in 1..Size
<1> DEFINE places == {a \in 1..Size : Inside(a, Len(words)) /\ Words(rom, a, Len(words)) = words}
<1>1. FindPattern(rom, words) = IF places = {} THEN 0 ELSE CHOOSE a \in places : \A b \in places : a <= b
  BY DEF FindPattern
<1>2. places \in SUBSET (1..Size) /\ Size \in Nat
  BY RelocationAssumption
<1> HIDE DEF places
<1>3. places # {}
  BY <1>1
<1>4. \E a \in places : \A b \in places : a <= b
  BY <1>2, <1>3, MinIsIn
<1> QED  BY <1>1, <1>2, <1>3, <1>4

LEMMA WrittenTyped ==
  ASSUME NEW rom \in RomType, NEW at \in Int, NEW words \in SomeWords
  PROVE  Written(rom, at, words) \in RomType
<1>1. ASSUME NEW i \in 1..Size, i \in at..(at + Len(words) - 1)
      PROVE  words[i - at + 1] \in 0..Padding
  <2> DEFINE W == 0..Padding
  <2>1. Len(words) \in Nat /\ \A k \in 1..Len(words) : words[k] \in W
    <3>1. words \in Seq(W)
      BY DEF SomeWords
    <3> HIDE DEF W
    <3> QED  BY <3>1
  <2>2. i \in Int /\ Size \in Nat
    BY RelocationAssumption
  <2>3. i - at + 1 \in 1..Len(words)
    BY <1>1, <2>1, <2>2
  <2> QED  BY <2>1, <2>3
<1> QED  BY <1>1 DEF Written, RomType

LEMMA UnchangedMay == ASSUME NEW rom \in RomType PROVE Unchanged(rom) \in Outcomes(rom)
BY DEF Unchanged, Outcomes

LEMMA WriteMay ==
  ASSUME NEW rom \in RomType, NEW at \in Int, NEW words \in SomeWords
  PROVE  /\ [rom |-> Written(rom, at, words), changed |-> TRUE] \in Outcomes(rom)
         /\ [rom |-> Written(rom, at, words), changed |-> Written(rom, at, words) # rom] \in Outcomes(rom)
<1> DEFINE new == Written(rom, at, words)
<1>1. new \in RomType
  BY WrittenTyped
<1> HIDE DEF new
<1>2. [rom |-> new, changed |-> TRUE] \in Outcomes(rom)
  BY <1>1 DEF Outcomes
<1>3. [rom |-> new, changed |-> new # rom] \in Outcomes(rom)
  BY <1>1 DEF Outcomes
<1> QED  BY <1>2, <1>3 DEF new

LEMMA InsideIsAddress ==
  ASSUME NEW a, NEW n \in Int, Inside(a, n)
  PROVE  a \in Int
BY RelocationAssumption DEF Inside

\* A pattern and bytes at an address.
LEMMA PatternMay ==
  ASSUME NEW rom \in RomType, NEW item, ModTyped(item)
  PROVE  ApplyPattern(rom, item) \in Outcomes(rom) /\ RestorePattern(rom, item) \in Outcomes(rom)
<1>1. ApplyPattern(rom, item) \in Outcomes(rom)
  <2> DEFINE a == FindPattern(rom, item.search)
  <2>1. CASE a = 0 \/ ~Inside(a, Len(item.bytes))
    BY <2>1, UnchangedMay DEF ApplyPattern
  <2>2. CASE ~(a = 0 \/ ~Inside(a, Len(item.bytes)))
    <3>1. a \in Int
      BY <2>2, FoundInside
    <3> HIDE DEF a
    <3>2. [rom |-> Written(rom, a, item.bytes), changed |-> TRUE] \in Outcomes(rom)
      BY <3>1, WriteMay DEF ModTyped
    <3> QED  BY <2>2, <3>2 DEF ApplyPattern, a
  <2> QED  BY <2>1, <2>2
<1>2. RestorePattern(rom, item) \in Outcomes(rom)
  <2> DEFINE a == FindPattern(rom, item.bytes)
  <2>1. CASE item.restore = <<>> \/ a = 0
    BY <2>1, UnchangedMay DEF RestorePattern
  <2>2. CASE ~(item.restore = <<>> \/ a = 0)
    <3>1. a \in Int
      BY <2>2, FoundInside
    <3> HIDE DEF a
    <3>2. [rom |-> Written(rom, a, item.restore), changed |-> TRUE] \in Outcomes(rom)
      BY <3>1, WriteMay DEF ModTyped
    <3> QED  BY <2>2, <3>2 DEF RestorePattern, a
  <2> QED  BY <2>1, <2>2
<1> QED  BY <1>1, <1>2

LEMMA AddressMay ==
  ASSUME NEW rom \in RomType, NEW item, ModTyped(item)
  PROVE  ApplyAddress(rom, item) \in Outcomes(rom) /\ RestoreAddress(rom, item) \in Outcomes(rom)
<1> DEFINE relocated == RelocatedAddressFor(rom, item.at)
           a == IF relocated = 0 THEN item.at ELSE relocated
           n == Len(item.bytes)
           m == Len(item.restore)
           expected == item.restore = <<>> \/ Words(rom, a, n) \in {item.restore, item.bytes}
<1>1. ApplyAddress(rom, item) = IF ~Inside(a, n) \/ (relocated = 0 /\ ~expected) THEN Unchanged(rom)
                                ELSE [rom |-> Written(rom, a, item.bytes), changed |-> TRUE]
  <2> HIDE DEF relocated
  <2> QED  BY DEF ApplyAddress, Given, relocated
<1>2. RestoreAddress(rom, item) = IF item.restore = <<>> \/ ~Inside(a, m) THEN Unchanged(rom)
                                  ELSE [rom |-> Written(rom, a, item.restore), changed |-> TRUE]
  BY DEF RestoreAddress, Given
<1>3. n \in Int /\ m \in Int
  BY DEF ModTyped, SomeWords
<1> HIDE DEF a, n, m, expected, relocated
<1>4. Inside(a, n) \/ Inside(a, m) => a \in Int
  BY <1>3, InsideIsAddress
<1>5. a \in Int => /\ [rom |-> Written(rom, a, item.bytes), changed |-> TRUE] \in Outcomes(rom)
                   /\ [rom |-> Written(rom, a, item.restore), changed |-> TRUE] \in Outcomes(rom)
  BY WriteMay DEF ModTyped
<1> QED  BY <1>1, <1>2, <1>4, <1>5, UnchangedMay

LEMMA DamosMay ==
  ASSUME NEW rom \in RomType, NEW item, ModTyped(item)
  PROVE  ApplyDamos(rom, item) \in Outcomes(rom) /\ RestoreDamos(rom, item) \in Outcomes(rom)
<1>1. ASSUME NEW a, NEW words \in SomeWords PROVE WriteBytes(rom, a, words) \in Outcomes(rom)
  <2>1. CASE a = 0 \/ ~Inside(a, Len(words))
    BY <2>1, UnchangedMay DEF WriteBytes
  <2>2. CASE ~(a = 0 \/ ~Inside(a, Len(words)))
    <3>1. Len(words) \in Int
      BY DEF SomeWords
    <3>2. a \in Int
      BY <2>2, <3>1, InsideIsAddress
    <3>3. [rom |-> Written(rom, a, words), changed |-> Written(rom, a, words) # rom] \in Outcomes(rom)
      BY <3>2, WriteMay
    <3> QED  BY <2>2, <3>3 DEF WriteBytes
  <2> QED  BY <2>1, <2>2
<1>2. item.bytes \in SomeWords /\ item.restore \in SomeWords
  BY DEF ModTyped
<1> DEFINE at == IF item.at = 0 THEN FindPattern(rom, item.search) ELSE item.at
           back == IF item.at = 0 THEN FindPattern(rom, item.bytes) ELSE item.at
<1>3. /\ ApplyDamos(rom, item) = WriteBytes(rom, at, item.bytes)
      /\ RestoreDamos(rom, item) = IF item.restore = <<>> THEN Unchanged(rom)
                                   ELSE WriteBytes(rom, back, item.restore)
  BY DEF ApplyDamos, RestoreDamos
<1> HIDE DEF at, back
<1> QED  BY <1>1, <1>2, <1>3, UnchangedMay

-----------------------------------------------------------------------------
(* Operations on characteristics. *)

LEMMA ChangedMay ==
  ASSUME NEW rom \in RomType, NEW new \in RomType
  PROVE  Changed(rom, new) \in Outcomes(rom)
BY DEF Changed, Outcomes

LEMMA SetAllMay ==
  ASSUME NEW rom \in RomType, NEW cells, NEW v \in 0..Padding
  PROVE  SetAll(rom, cells, v) \in Outcomes(rom)
<1>1. [i \in 1..Size |-> IF i \in cells THEN v ELSE rom[i]] \in RomType
  BY DEF RomType
<1> QED  BY <1>1, ChangedMay DEF SetAll

LEMMA AddPctMay ==
  ASSUME NEW rom \in RomType, NEW type, NEW a
  PROVE  AddPct(rom, type, a) \in Outcomes(rom)
<1> DEFINE cells == Range(Data(rom, type, a, IF type = "map" THEN 1 ELSE 2))
           new == [i \in 1..Size |-> IF i \in cells THEN Scaled(rom[i]) ELSE rom[i]]
<1> HIDE DEF cells
<1>1. \A v \in 0..Padding : Scaled(v) \in 0..Padding
  BY RelocationAssumption DEF Scaled, Least
<1>2. new \in RomType
  BY <1>1 DEF RomType
<1> HIDE DEF new
<1> QED  BY <1>2, ChangedMay DEF AddPct, new, cells

LEMMA SetCellsMay ==
  ASSUME NEW rom \in RomType, NEW type, NEW a, NEW points, points \in Seq(Range(points)),
         \A p \in Range(points) : p.raw \in 0..Padding
  PROVE  SetCells(rom, type, a, points) \in Outcomes(rom)
<1> DEFINE data == Data(rom, type, a, 1)
           dims == Dims(rom, type, a)
           on(p, i) == {k \in 1..dims[i] : rom[AxisAt(dims, a, i) + k - 1] = p.at[i]}
           index(p, i) == CHOOSE k \in on(p, i) : \A l \in on(p, i) : k <= l
           flat(p) == IF type = "map" THEN (index(p, 1) - 1) * dims[2] + index(p, 2) ELSE index(p, 1)
           known == {m \in 0..Len(points) : \A j \in 1..m, i \in 1..Len(dims) : on(points[j], i) # {}}
           done == CHOOSE m \in known : \A j \in known : j <= m
           some == SubSeq(points, 1, done)
<1>a. SetCells(rom, type, a, points) =
        IF data = <<>> THEN Unchanged(rom)
        ELSE Each(rom, some, LAMBDA r, p : SetAll(r, {data[flat(p)]}, p.raw))
  BY DEF SetCells
<1> HIDE DEF data, flat
<1>b. done \in 0..Len(points)
  <2> HIDE DEF dims, on
  <2>1. Len(points) \in Nat
    OBVIOUS
  <2>2. 0 \in known
    BY <2>1
  <2>3. \E m \in known : \A j \in known : j <= m
    <3> DEFINE s == {j \in 1..Len(points) : j \in known}
    <3>1. s \in SUBSET (1..Len(points))
      OBVIOUS
    <3>2. \A j \in known : j = 0 \/ j \in s
      BY <2>1
    <3>3. s \subseteq known /\ \A j \in s : j \in Int /\ j > 0
      BY <2>1
    <3> HIDE DEF s, known
    <3>4. CASE s = {}
      BY <2>2, <3>2, <3>4
    <3>5. CASE s # {}
      <4>1. Max(s) \in s /\ \A j \in s : Max(s) >= j
        BY <2>1, <3>1, <3>5, MaxIsIn
      <4>2. Max(s) \in known /\ \A j \in known : j <= Max(s)
        BY <3>2, <3>3, <4>1
      <4> QED  BY <4>2
    <3> QED  BY <3>4, <3>5
  <2>4. known \subseteq 0..Len(points)
    OBVIOUS
  <2> HIDE DEF known
  <2> QED  BY <2>3, <2>4
<1> HIDE DEF done
<1>c. /\ some \in Seq(Range(points)) /\ Len(some) \in Nat /\ DOMAIN some = 1..Len(some)
      /\ \A i \in 1..Len(some) : some[i] \in Range(points)
  <2>1. Len(points) \in Nat /\ \A i \in 1..done : points[i] \in Range(points)
    BY <1>b
  <2>2. done \in Int
    BY <1>b, <2>1
  <2>3. some \in Seq(Range(points))
    BY <2>1, <2>2, SubSeqProperties
  <2> HIDE DEF some
  <2> QED  BY <2>3
<1> HIDE DEF some
<1>d. Each(rom, some, LAMBDA r, p : SetAll(r, {data[flat(p)]}, p.raw)) \in Outcomes(rom)
  <2> DEFINE n == Len(some)
             S == DOMAIN some
             D == Outcomes(rom)
             Do(r, x) == SetAll(r, {data[flat(x)]}, x.raw)
             One(d, x) == [rom |-> Do(d.rom, x).rom, changed |-> d.changed \/ Do(d.rom, x).changed]
             Step == [x \in (1..n) \X D |-> One(x[2], some[x[1]])]
             then(d, x) == Given(Do(d.rom, x), LAMBDA e : [rom |-> e.rom, changed |-> d.changed \/ e.changed])
             It(f) == [s \in SUBSET S |->
                         IF s = {} THEN Unchanged(rom) ELSE then(f[s \ {Max(s)}], some[Max(s)])]
             iter == CHOOSE f : f = It(f)
  <2>1. Each(rom, some, LAMBDA r, p : SetAll(r, {data[flat(p)]}, p.raw)) = iter[S]
    BY DEF Each, FoldLeft, MapThenFoldSet
  <2>2. S = 1..n /\ n \in Nat
    BY <1>c
  <2>3. ASSUME NEW i \in 1..n, NEW r \in RomType PROVE Do(r, some[i]) \in Outcomes(r)
    BY <1>c, SetAllMay
  <2> HIDE DEF Do
  <2>4. \A d, x : then(d, x) = One(d, x)
    BY DEF Given
  <2> HIDE DEF then
  <2>5. IsStep(Step, n, D) /\ Unchanged(rom) \in D
    <3>1. \A i \in 1..n, d \in D : One(d, some[i]) \in D
      BY <2>3 DEF Outcomes
    <3> HIDE DEF One, D
    <3>2. IsStep(Step, n, D)
      BY <3>1 DEF IsStep
    <3> QED  BY <3>2 DEF D, Outcomes, Unchanged
  <2> HIDE DEF One, D
  <2>6. PICK f : IsFold(f, n, D, Unchanged(rom), Step)
    <3> HIDE DEF n, Step
    <3> QED  BY <2>2, <2>5, FoldExists
  <2>7. \A s \in SUBSET (1..n) : s # {} => Max(s) \in 1..n /\ s \ {Max(s)} \in SUBSET (1..n)
    <3> HIDE DEF n
    <3> QED  BY <2>2, MaxIsIn
  <2>8. f = It(f)
    <3>1. \A s \in SUBSET S : f[s] = It(f)[s]
      BY <2>2, <2>4, <2>6, <2>7 DEF IsFold
    <3>2. f \in [SUBSET S -> D]
      BY <2>2, <2>6 DEF IsFold
    <3>3. It(f) = [s \in SUBSET S |-> It(f)[s]]
      OBVIOUS
    <3> HIDE DEF It, S
    <3> QED  BY <3>1, <3>2, <3>3
  <2> HIDE DEF It
  <2>9. iter = It(iter)
    BY <2>8
  <2> HIDE DEF iter
  <2>10. GoesOn(iter, n, D, Unchanged(rom), Step)
    BY <2>2, <2>4, <2>7, <2>9 DEF It, GoesOn
  <2> HIDE DEF n, Step
  <2>11. Through(iter, n, D, Unchanged(rom), Step)
    BY <2>2, <2>5, <2>10, FoldRun
  <2>12. iter[1..n] \in D
    BY <2>2, <2>11 DEF Through, Runs
  <2> QED  BY <2>1, <2>2, <2>12 DEF D
<1> QED  BY <1>a, <1>d, UnchangedMay

-----------------------------------------------------------------------------
(* Recipes and templates. *)

LEMMA OperateMay ==
  ASSUME NEW rom \in RomType, NEW op, OpTyped(op), NEW place
  PROVE  Operate(rom, op, place) \in Outcomes(rom)
<1> DEFINE e == Entry(op.entry)
<1>1. CASE ~Relocated(place)
  BY <1>1, UnchangedMay DEF Operate
<1>2. CASE Relocated(place) /\ e.type = "value"
  <2>1. Operate(rom, op, place) =
          IF op.op = "set" THEN SetAll(rom, {place.address}, op.raw) ELSE Unchanged(rom)
    BY <1>2 DEF Operate
  <2>2. op.op = "set" => op.raw \in 0..Padding
    BY DEF OpTyped
  <2> QED  BY <2>1, <2>2, SetAllMay, UnchangedMay
<1>3. CASE Relocated(place) /\ e.type # "value"
  <2> DEFINE cells == AllCells(rom, e.type, place.address)
             type == e.type
             at == place.address
  <2>1. Operate(rom, op, place) =
          CASE op.op = "addPct" -> AddPct(rom, type, at)
            [] op.op = "setMapAll" -> SetAll(rom, cells, op.raw)
            [] op.op = "setCells" -> SetCells(rom, type, at, op.points)
            [] OTHER -> Unchanged(rom)
    BY <1>3 DEF Operate
  <2>2. /\ op.op = "setMapAll" => op.raw \in 0..Padding
        /\ op.op = "setCells" => /\ op.points \in Seq(Range(op.points))
                                 /\ \A p \in Range(op.points) : p.raw \in 0..Padding
    BY DEF OpTyped
  <2> HIDE DEF cells, type, at
  <2>3. op.op = "addPct" \/ op.op = "setMapAll" \/ op.op = "setCells"
          \/ op.op \notin {"addPct", "setMapAll", "setCells"}
    OBVIOUS
  <2>4. CASE op.op = "addPct"
    BY <2>1, <2>4, AddPctMay
  <2>5. CASE op.op = "setMapAll"
    <3>1. Operate(rom, op, place) = SetAll(rom, cells, op.raw)
      BY <2>1, <2>5
    <3> QED  BY <2>2, <2>5, <3>1, SetAllMay
  <2>6. CASE op.op = "setCells"
    <3>1. Operate(rom, op, place) = SetCells(rom, type, at, op.points)
      BY <2>1, <2>6
    <3> QED  BY <2>2, <2>6, <3>1, SetCellsMay
  <2>7. CASE op.op \notin {"addPct", "setMapAll", "setCells"}
    BY <2>1, <2>7, UnchangedMay
  <2> QED  BY <2>4, <2>5, <2>6, <2>7
<1> QED  BY <1>1, <1>2, <1>3

LEMMA RecipeMay ==
  ASSUME NEW rom \in RomType, NEW item, item.ops \in Seq(Range(item.ops)),
         \A op \in Range(item.ops) : OpTyped(op)
  PROVE  ApplyRecipe(rom, item) \in Outcomes(rom)
<1> DEFINE places == Relocate(rom)
           ops == item.ops
<1>a. ApplyRecipe(rom, item) = Each(rom, ops, LAMBDA r, op : Operate(r, op, places[op.entry]))
  BY DEF ApplyRecipe
<1>b. /\ Len(ops) \in Nat /\ DOMAIN ops = 1..Len(ops) /\ \A i \in 1..Len(ops) : OpTyped(ops[i])
  BY DEF Range
<1> HIDE DEF places, ops
<1>c. Each(rom, ops, LAMBDA r, op : Operate(r, op, places[op.entry])) \in Outcomes(rom)
  <2> DEFINE n == Len(ops)
             S == DOMAIN ops
             D == Outcomes(rom)
             Do(r, x) == Operate(r, x, places[x.entry])
             One(d, x) == [rom |-> Do(d.rom, x).rom, changed |-> d.changed \/ Do(d.rom, x).changed]
             Step == [x \in (1..n) \X D |-> One(x[2], ops[x[1]])]
             then(d, x) == Given(Do(d.rom, x), LAMBDA e : [rom |-> e.rom, changed |-> d.changed \/ e.changed])
             It(f) == [s \in SUBSET S |->
                         IF s = {} THEN Unchanged(rom) ELSE then(f[s \ {Max(s)}], ops[Max(s)])]
             iter == CHOOSE f : f = It(f)
  <2>1. Each(rom, ops, LAMBDA r, op : Operate(r, op, places[op.entry])) = iter[S]
    BY DEF Each, FoldLeft, MapThenFoldSet
  <2>2. S = 1..n /\ n \in Nat
    BY <1>b
  <2>3. ASSUME NEW i \in 1..n, NEW r \in RomType PROVE Do(r, ops[i]) \in Outcomes(r)
    BY <1>b, OperateMay
  <2> HIDE DEF Do
  <2>4. \A d, x : then(d, x) = One(d, x)
    BY DEF Given
  <2> HIDE DEF then
  <2>5. IsStep(Step, n, D) /\ Unchanged(rom) \in D
    <3>1. \A i \in 1..n, d \in D : One(d, ops[i]) \in D
      BY <2>3 DEF Outcomes
    <3> HIDE DEF One, D
    <3>2. IsStep(Step, n, D)
      BY <3>1 DEF IsStep
    <3> QED  BY <3>2 DEF D, Outcomes, Unchanged
  <2> HIDE DEF One, D
  <2>6. PICK f : IsFold(f, n, D, Unchanged(rom), Step)
    <3> HIDE DEF n, Step
    <3> QED  BY <2>2, <2>5, FoldExists
  <2>7. \A s \in SUBSET (1..n) : s # {} => Max(s) \in 1..n /\ s \ {Max(s)} \in SUBSET (1..n)
    <3> HIDE DEF n
    <3> QED  BY <2>2, MaxIsIn
  <2>8. f = It(f)
    <3>1. \A s \in SUBSET S : f[s] = It(f)[s]
      BY <2>2, <2>4, <2>6, <2>7 DEF IsFold
    <3>2. f \in [SUBSET S -> D]
      BY <2>2, <2>6 DEF IsFold
    <3>3. It(f) = [s \in SUBSET S |-> It(f)[s]]
      OBVIOUS
    <3> HIDE DEF It, S
    <3> QED  BY <3>1, <3>2, <3>3
  <2> HIDE DEF It
  <2>9. iter = It(iter)
    BY <2>8
  <2> HIDE DEF iter
  <2>10. GoesOn(iter, n, D, Unchanged(rom), Step)
    BY <2>2, <2>4, <2>7, <2>9 DEF It, GoesOn
  <2> HIDE DEF n, Step
  <2>11. Through(iter, n, D, Unchanged(rom), Step)
    BY <2>2, <2>5, <2>10, FoldRun
  <2>12. iter[1..n] \in D
    BY <2>2, <2>11 DEF Through, Runs
  <2> QED  BY <2>1, <2>2, <2>12 DEF D
<1> QED  BY <1>a, <1>c

LEMMA ModsMay ==
  ASSUME NEW rom \in RomType, NEW mods, mods \in Seq(Range(mods)),
         \A m \in Range(mods) : ModTyped(m)
  PROVE  ApplyMods(rom, mods) \in Outcomes(rom)
<1> DEFINE one(r, m) == IF m.kind = "pattern" THEN ApplyPattern(r, m) ELSE ApplyAddress(r, m)
<1>a. ApplyMods(rom, mods) = Each(rom, mods, LAMBDA r, m : one(r, m))
  BY DEF ApplyMods
<1>b. /\ Len(mods) \in Nat /\ DOMAIN mods = 1..Len(mods) /\ \A i \in 1..Len(mods) : ModTyped(mods[i])
  BY DEF Range
<1>c. \A r \in RomType, i \in 1..Len(mods) : one(r, mods[i]) \in Outcomes(r)
  BY <1>b, PatternMay, AddressMay
<1> HIDE DEF one
<1>d. Each(rom, mods, LAMBDA r, m : one(r, m)) \in Outcomes(rom)
  <2> DEFINE n == Len(mods)
             S == DOMAIN mods
             D == Outcomes(rom)
             Do(r, x) == one(r, x)
             One(d, x) == [rom |-> Do(d.rom, x).rom, changed |-> d.changed \/ Do(d.rom, x).changed]
             Step == [x \in (1..n) \X D |-> One(x[2], mods[x[1]])]
             then(d, x) == Given(Do(d.rom, x), LAMBDA e : [rom |-> e.rom, changed |-> d.changed \/ e.changed])
             It(f) == [s \in SUBSET S |->
                         IF s = {} THEN Unchanged(rom) ELSE then(f[s \ {Max(s)}], mods[Max(s)])]
             iter == CHOOSE f : f = It(f)
  <2>1. Each(rom, mods, LAMBDA r, m : one(r, m)) = iter[S]
    BY DEF Each, FoldLeft, MapThenFoldSet
  <2>2. S = 1..n /\ n \in Nat
    BY <1>b
  <2>3. ASSUME NEW i \in 1..n, NEW r \in RomType PROVE Do(r, mods[i]) \in Outcomes(r)
    BY <1>c
  <2> HIDE DEF Do
  <2>4. \A d, x : then(d, x) = One(d, x)
    BY DEF Given
  <2> HIDE DEF then
  <2>5. IsStep(Step, n, D) /\ Unchanged(rom) \in D
    <3>1. \A i \in 1..n, d \in D : One(d, mods[i]) \in D
      BY <2>3 DEF Outcomes
    <3> HIDE DEF One, D
    <3>2. IsStep(Step, n, D)
      BY <3>1 DEF IsStep
    <3> QED  BY <3>2 DEF D, Outcomes, Unchanged
  <2> HIDE DEF One, D
  <2>6. PICK f : IsFold(f, n, D, Unchanged(rom), Step)
    <3> HIDE DEF n, Step
    <3> QED  BY <2>2, <2>5, FoldExists
  <2>7. \A s \in SUBSET (1..n) : s # {} => Max(s) \in 1..n /\ s \ {Max(s)} \in SUBSET (1..n)
    <3> HIDE DEF n
    <3> QED  BY <2>2, MaxIsIn
  <2>8. f = It(f)
    <3>1. \A s \in SUBSET S : f[s] = It(f)[s]
      BY <2>2, <2>4, <2>6, <2>7 DEF IsFold
    <3>2. f \in [SUBSET S -> D]
      BY <2>2, <2>6 DEF IsFold
    <3>3. It(f) = [s \in SUBSET S |-> It(f)[s]]
      OBVIOUS
    <3> HIDE DEF It, S
    <3> QED  BY <3>1, <3>2, <3>3
  <2> HIDE DEF It
  <2>9. iter = It(iter)
    BY <2>8
  <2> HIDE DEF iter
  <2>10. GoesOn(iter, n, D, Unchanged(rom), Step)
    BY <2>2, <2>4, <2>7, <2>9 DEF It, GoesOn
  <2> HIDE DEF n, Step
  <2>11. Through(iter, n, D, Unchanged(rom), Step)
    BY <2>2, <2>5, <2>10, FoldRun
  <2>12. iter[1..n] \in D
    BY <2>2, <2>11 DEF Through, Runs
  <2> QED  BY <2>1, <2>2, <2>12 DEF D
<1> QED  BY <1>a, <1>d

LEMMA StageMay ==
  ASSUME NEW rom \in RomType, NEW maps, maps \in Seq(Range(maps))
  PROVE  StageOne(rom, maps) \in Outcomes(rom)
<1> DEFINE places == Relocate(rom)
           one(r, m) == IF Relocated(places[m]) THEN AddPct(r, "map", places[m].address)
                        ELSE Unchanged(r)
<1>a. StageOne(rom, maps) = Each(rom, maps, LAMBDA r, m : one(r, m))
  BY DEF StageOne
<1>b. Len(maps) \in Nat /\ DOMAIN maps = 1..Len(maps)
  OBVIOUS
<1>c. \A r \in RomType : \A m : one(r, m) \in Outcomes(r)
  <2> HIDE DEF places
  <2> QED  BY AddPctMay, UnchangedMay
<1> HIDE DEF one
<1>d. Each(rom, maps, LAMBDA r, m : one(r, m)) \in Outcomes(rom)
  <2> DEFINE n == Len(maps)
             S == DOMAIN maps
             D == Outcomes(rom)
             Do(r, x) == one(r, x)
             One(d, x) == [rom |-> Do(d.rom, x).rom, changed |-> d.changed \/ Do(d.rom, x).changed]
             Step == [x \in (1..n) \X D |-> One(x[2], maps[x[1]])]
             then(d, x) == Given(Do(d.rom, x), LAMBDA e : [rom |-> e.rom, changed |-> d.changed \/ e.changed])
             It(f) == [s \in SUBSET S |->
                         IF s = {} THEN Unchanged(rom) ELSE then(f[s \ {Max(s)}], maps[Max(s)])]
             iter == CHOOSE f : f = It(f)
  <2>1. Each(rom, maps, LAMBDA r, m : one(r, m)) = iter[S]
    BY DEF Each, FoldLeft, MapThenFoldSet
  <2>2. S = 1..n /\ n \in Nat
    BY <1>b
  <2>3. ASSUME NEW i \in 1..n, NEW r \in RomType PROVE Do(r, maps[i]) \in Outcomes(r)
    BY <1>c
  <2> HIDE DEF Do
  <2>4. \A d, x : then(d, x) = One(d, x)
    BY DEF Given
  <2> HIDE DEF then
  <2>5. IsStep(Step, n, D) /\ Unchanged(rom) \in D
    <3>1. \A i \in 1..n, d \in D : One(d, maps[i]) \in D
      BY <2>3 DEF Outcomes
    <3> HIDE DEF One, D
    <3>2. IsStep(Step, n, D)
      BY <3>1 DEF IsStep
    <3> QED  BY <3>2 DEF D, Outcomes, Unchanged
  <2> HIDE DEF One, D
  <2>6. PICK f : IsFold(f, n, D, Unchanged(rom), Step)
    <3> HIDE DEF n, Step
    <3> QED  BY <2>2, <2>5, FoldExists
  <2>7. \A s \in SUBSET (1..n) : s # {} => Max(s) \in 1..n /\ s \ {Max(s)} \in SUBSET (1..n)
    <3> HIDE DEF n
    <3> QED  BY <2>2, MaxIsIn
  <2>8. f = It(f)
    <3>1. \A s \in SUBSET S : f[s] = It(f)[s]
      BY <2>2, <2>4, <2>6, <2>7 DEF IsFold
    <3>2. f \in [SUBSET S -> D]
      BY <2>2, <2>6 DEF IsFold
    <3>3. It(f) = [s \in SUBSET S |-> It(f)[s]]
      OBVIOUS
    <3> HIDE DEF It, S
    <3> QED  BY <3>1, <3>2, <3>3
  <2> HIDE DEF It
  <2>9. iter = It(iter)
    BY <2>8
  <2> HIDE DEF iter
  <2>10. GoesOn(iter, n, D, Unchanged(rom), Step)
    BY <2>2, <2>4, <2>7, <2>9 DEF It, GoesOn
  <2> HIDE DEF n, Step
  <2>11. Through(iter, n, D, Unchanged(rom), Step)
    BY <2>2, <2>5, <2>10, FoldRun
  <2>12. iter[1..n] \in D
    BY <2>2, <2>11 DEF Through, Runs
  <2> QED  BY <2>1, <2>2, <2>12 DEF D
<1> QED  BY <1>a, <1>d

LEMMA TemplateMay ==
  ASSUME NEW rom \in RomType, NEW item, item.maps \in Seq(Range(item.maps)),
         item.mods \in Seq(Range(item.mods)), \A m \in Range(item.mods) : ModTyped(m)
  PROVE  ApplyTemplate(rom, item) \in Outcomes(rom)
<1> DEFINE stage1 == StageOne(rom, item.maps)
           mods == ApplyMods(stage1.rom, item.mods)
<1>1. ApplyTemplate(rom, item) = [rom |-> mods.rom, changed |-> stage1.changed \/ mods.changed]
  BY DEF ApplyTemplate, Given
<1>2. stage1 \in Outcomes(rom)
  BY StageMay
<1>3. stage1.rom \in RomType
  BY <1>2 DEF Outcomes
<1> HIDE DEF stage1
<1>4. mods \in Outcomes(stage1.rom)
  BY <1>3, ModsMay
<1> HIDE DEF mods
<1> QED  BY <1>1, <1>2, <1>4 DEF Outcomes

LEMMA ItemMay ==
  ASSUME NEW rom \in RomType, NEW item, ItemTyped(item)
  PROVE  Apply(rom, item) \in Outcomes(rom) /\ Restore(rom, item) \in Outcomes(rom)
<1>1. CASE item.kind = "pattern" /\ ModTyped(item)
  BY <1>1, PatternMay DEF Apply, Restore
<1>2. CASE item.kind = "address" /\ ModTyped(item)
  BY <1>2, AddressMay DEF Apply, Restore
<1>3. CASE item.kind = "damos" /\ ModTyped(item)
  BY <1>3, DamosMay DEF Apply, Restore
<1>4. CASE /\ item.kind = "template" /\ item.maps \in Seq(Range(item.maps))
           /\ item.mods \in Seq(Range(item.mods)) /\ \A m \in Range(item.mods) : ModTyped(m)
  BY <1>4, TemplateMay, UnchangedMay DEF Apply, Restore
<1>5. CASE /\ item.kind = "recipe" /\ item.ops \in Seq(Range(item.ops))
           /\ \A op \in Range(item.ops) : OpTyped(op)
  BY <1>5, RecipeMay, UnchangedMay DEF Apply, Restore
<1> QED  BY <1>1, <1>2, <1>3, <1>4, <1>5 DEF ItemTyped

-----------------------------------------------------------------------------
(* Steps of the panel of modifications. *)

ModsInv == ModsTypeOK /\ ChangeMarked

LEMMA SelectionTyped ==
  ASSUME NEW s \in Selections
  PROVE  s \in Seq(Range(s)) /\ \A i \in 1..Len(s) : ItemTyped(s[i])
<1>1. /\ \A i \in 1..Len(Catalogue) : Catalogue[i] \in Range(Catalogue)
      /\ \A i \in Range(Catalogue) : ItemTyped(i)
  BY ModsAssumption DEF Range
<1>2. CASE \E i \in 1..Len(Catalogue) : s = <<Catalogue[i]>>
  <2>1. PICK x : s = <<x>> /\ ItemTyped(x)
    BY <1>1, <1>2
  <2> QED  BY <2>1 DEF Range
<1>3. CASE \E i, j \in 1..Len(Catalogue) : s = <<Catalogue[i], Catalogue[j]>>
  <2>1. PICK x, y : s = <<x, y>> /\ ItemTyped(x) /\ ItemTyped(y)
    BY <1>1, <1>3
  <2>2. Len(s) = 2 /\ s[1] = x /\ s[2] = y /\ s \in Seq({x, y}) /\ DOMAIN s = 1..2
    BY <2>1
  <2>3. \A i \in 1..2 : i = 1 \/ i = 2
    OBVIOUS
  <2>4. {x, y} \subseteq Range(s)
    BY <2>2 DEF Range
  <2> QED  BY <2>1, <2>2, <2>3, <2>4
<1> QED  BY <1>2, <1>3 DEF Selections

LEMMA ModsStep ==
  ASSUME ModsInv, [ModsNext]_modsVars
  PROVE  ModsInv'
<1>0. bytes \in RomType /\ saved \in RomType /\ modified \in BOOLEAN /\ ChangeMarked
  BY DEF ModsInv, ModsTypeOK
<1>1. ASSUME NEW done \in Outcomes(bytes), bytes' = done.rom,
             modified' = (modified \/ done.changed), saved' = saved
      PROVE  bytes' \in RomType /\ saved' \in RomType /\ modified' \in BOOLEAN /\ ChangeMarked'
  BY <1>0, <1>1 DEF Outcomes, ChangeMarked
<1>2. Command => commands' \in 0..MaxCommands
  BY ModsAssumption DEF Command, ModsInv, ModsTypeOK
<1>3. CASE ApplySelection
  <2>1. PICK s \in Selections : \E done \in {Each(bytes, s, Apply)} :
            bytes' = done.rom /\ modified' = (modified \/ done.changed)
    BY <1>3 DEF ApplySelection
  <2>2. Each(bytes, s, Apply) \in Outcomes(bytes)
    BY <1>0, SelectionTyped, ItemMay, EachApplied
  <2>3. PICK done \in Outcomes(bytes) : bytes' = done.rom /\ modified' = (modified \/ done.changed)
    BY <2>1, <2>2
  <2>4. saved' = saved /\ Command
    BY <1>3 DEF ApplySelection
  <2>5. bytes' \in RomType /\ saved' \in RomType /\ modified' \in BOOLEAN /\ ChangeMarked'
    BY <1>1, <2>3, <2>4
  <2> QED  BY <1>2, <2>4, <2>5 DEF ModsInv, ModsTypeOK
<1>4. CASE RestoreSelection
  <2>1. PICK s \in Selections : \E done \in {Each(bytes, s, Restore)} :
            bytes' = done.rom /\ modified' = (modified \/ done.changed)
    BY <1>4 DEF RestoreSelection
  <2>2. Each(bytes, s, Restore) \in Outcomes(bytes)
    BY <1>0, SelectionTyped, ItemMay, EachRestored
  <2>3. PICK done \in Outcomes(bytes) : bytes' = done.rom /\ modified' = (modified \/ done.changed)
    BY <2>1, <2>2
  <2>4. saved' = saved /\ Command
    BY <1>4 DEF RestoreSelection
  <2>5. bytes' \in RomType /\ saved' \in RomType /\ modified' \in BOOLEAN /\ ChangeMarked'
    BY <1>1, <2>3, <2>4
  <2> QED  BY <1>2, <2>4, <2>5 DEF ModsInv, ModsTypeOK
<1>5. CASE Save
  BY <1>0, <1>2, <1>5 DEF Save, ModsInv, ModsTypeOK, ChangeMarked
<1>6. CASE UNCHANGED modsVars
  BY <1>6 DEF modsVars, ModsInv, ModsTypeOK, ChangeMarked
<1> QED  BY <1>3, <1>4, <1>5, <1>6 DEF ModsNext

LEMMA ModsBegin == ModsInit => ModsInv
<1> SUFFICES ASSUME ModsInit PROVE ModsInv
  OBVIOUS
<1>1. bytes \in RomType /\ saved \in RomType /\ 0 \in 0..MaxCommands
  BY ModsAssumption DEF ModsInit
<1> QED  BY <1>1 DEF ModsInit, ModsInv, ModsTypeOK, ChangeMarked

\* For any ROM and any catalogue, modifications that were applied and taken back, one by one or
\* through templates and recipes, leave a ROM that is not the one of its file marked.
THEOREM ModsAreMarked == ModsSpec => []ModsTypeOK /\ []ChangeMarked
<1>1. ModsInv /\ [ModsNext]_modsVars => ModsInv'
  BY ModsStep
<1>2. ModsInv => ModsTypeOK /\ ChangeMarked
  BY DEF ModsInv
<1> QED  BY ModsBegin, <1>1, <1>2, PTL DEF ModsSpec

-----------------------------------------------------------------------------
(* The map editor.                                                         *)

MapRomType == [1..MapSize -> MapWords]
Shapes == [off : Nat, nx : Nat, ny : Nat]

EditorInv ==
  /\ mapRom \in MapRomType /\ baseline \in MapRomType /\ fileRom \in MapRomType \cup {<<>>}
  /\ {unsaved, ghost, inStep, crashed} \subseteq BOOLEAN
  /\ entries \in MapEntries /\ row \in 0..Len(entries) /\ edits \in 0..MaxEdits
  /\ shownAt \in 0..MapSize /\ (shownAt = 0 => shape.nx = 0) /\ shape \in Shapes
  /\ grid \in [MapCells(shape) -> Int] /\ typedAt \subseteq MapCells(shape)
  /\ GhostInStep /\ EditsKept

-----------------------------------------------------------------------------
(* Words and shapes. *)

LEMMA ClampTyped == ASSUME NEW v \in Int PROVE Clamp(v) \in MapWords /\ Clamp(v) \in Int
BY EditorAssumption DEF Clamp, MapWords

LEMMA RoundedTyped == ASSUME NEW n \in Int, NEW d \in Nat \ {0} PROVE Rounded(n, d) \in Int
<1>1. 2 * d \in Nat \ {0} /\ 2 * n + d \in Int /\ d - 2 * n \in Int
  OBVIOUS
<1>2. \A m \in Int, k \in Nat \ {0} : m \div k \in Int
  OBVIOUS
<1> QED  BY <1>1, <1>2 DEF Rounded

LEMMA CellsAre == ASSUME NEW s \in Shapes
  PROVE  /\ s.nx * s.ny \in Nat /\ MapCells(s) = 1..(s.nx * s.ny) /\ MapCells(s) \subseteq Nat \ {0}
         /\ s.nx = 0 => MapCells(s) = {}
BY DEF Shapes, MapCells

LEMMA ReadMapIs ==
  ASSUME NEW rom \in MapRomType, NEW a \in Nat \ {0}
  PROVE  /\ ReadMap(rom, a) \in Shapes
         /\ \A k \in MapCells(ReadMap(rom, a)) : ReadMap(rom, a).off + k - 1 \in 1..MapSize
         /\ ReadMap(rom, a) # NoShape => a \in 1..MapSize /\ ReadMap(rom, a).nx > 0
<1> DEFINE s == ReadMap(rom, a)
<1>1. Len(rom) = MapSize /\ MapSize \in Nat
  BY EditorAssumption DEF MapRomType
<1>2. CASE s = NoShape
  BY <1>2 DEF NoShape, Shapes, MapCells
<1>3. CASE s # NoShape
  <2>1. /\ a + 1 <= MapSize /\ rom[a] > 0 /\ rom[a + 1] > 0
        /\ a + 1 + rom[a] * rom[a + 1] <= MapSize
        /\ s = [off |-> a + 2, nx |-> rom[a], ny |-> rom[a + 1]]
    BY <1>1, <1>3 DEF ReadMap
  <2>2. rom[a] \in Int /\ rom[a + 1] \in Int
    <3>1. a \in 1..MapSize /\ a + 1 \in 1..MapSize
      BY <1>1, <2>1
    <3> QED  BY <3>1, EditorAssumption DEF MapRomType, MapWords
  <2>3. s \in Shapes /\ s.nx > 0 /\ s.off = a + 2 /\ s.nx = rom[a] /\ s.ny = rom[a + 1]
    BY <2>1, <2>2 DEF Shapes
  <2> DEFINE m == rom[a] * rom[a + 1]
  <2>4. m \in Nat /\ a + 1 + m <= MapSize /\ MapCells(s) = 1..m
    BY <2>1, <2>2, <2>3 DEF MapCells
  <2> HIDE DEF m, s
  <2>5. \A k \in 1..m : a + 2 + k - 1 \in 1..MapSize
    BY <1>1, <2>4
  <2>6. a \in 1..MapSize
    BY <1>1, <2>4
  <2> QED  BY <2>3, <2>4, <2>5, <2>6 DEF s
<1> QED  BY <1>2, <1>3

LEMMA TextsAre ==
  ASSUME NEW rom \in MapRomType, NEW a \in Nat \ {0}
  PROVE  Texts(rom, ReadMap(rom, a)) \in [MapCells(ReadMap(rom, a)) -> Int]
<1>1. \A i \in 1..MapSize : rom[i] \in Int
  BY EditorAssumption DEF MapRomType, MapWords
<1>2. \A k \in MapCells(ReadMap(rom, a)) : ReadMap(rom, a).off + k - 1 \in 1..MapSize
  BY ReadMapIs
<1> QED  BY <1>1, <1>2 DEF Texts

LEMMA PercentTyped ==
  ASSUME NEW rom \in MapRomType, NEW a
  PROVE  Percent(rom, a) \in MapRomType
<1> DEFINE s == ReadMap(rom, a)
<1> HIDE DEF s
<1>1. \A i \in 1..MapSize : rom[i] \in MapWords /\ Clamp(2 * rom[i]) \in MapWords
  <2>1. \A i \in 1..MapSize : rom[i] \in MapWords /\ 2 * rom[i] \in Int
    BY EditorAssumption DEF MapRomType, MapWords
  <2> QED  BY <2>1, ClampTyped
<1>2. DOMAIN rom = 1..MapSize
  BY DEF MapRomType
<1>3. Percent(rom, a) = [i \in 1..MapSize |->
        IF i - s.off + 1 \in MapCells(s) /\ rom[i] > 0 THEN Clamp(2 * rom[i]) ELSE rom[i]]
  BY <1>2 DEF Percent, s
<1> QED  BY <1>1, <1>3 DEF MapRomType

\* loadGrid: the grid, the shape and the texts of the reference.
LEMMA LoadKeeps ==
  ASSUME NEW a \in Nat \ {0}, NEW r, LoadGrid(a, r),
         mapRom' \in MapRomType, baseline' \in MapRomType,
         shape \in Shapes, shownAt \in 0..MapSize, crashed \in BOOLEAN
  PROVE  /\ grid' \in [MapCells(shape)' -> Int] /\ typedAt' = {} /\ inStep' = TRUE
         /\ shape' \in Shapes /\ shownAt' \in 0..MapSize /\ (shownAt' = 0 => shape'.nx = 0)
         /\ crashed' \in BOOLEAN /\ GhostInStep'
<1> DEFINE s == ReadMap(mapRom', a)
           sb == ReadMap(baseline', a)
<1>1. CASE s = NoShape
  <2>1. /\ shape' = [shape EXCEPT !.nx = 0, !.ny = 0]
        /\ grid' = <<>> /\ typedAt' = {} /\ inStep' = TRUE /\ shownAt' = shownAt /\ crashed' = crashed
    BY <1>1 DEF LoadGrid
  <2>2. shape' \in Shapes /\ shape'.nx = 0
    BY <2>1 DEF Shapes
  <2>3. MapCells(shape') = {}
    BY <2>2, CellsAre
  <2>4. <<>> \in [{} -> Int]
    OBVIOUS
  <2>5. GhostInStep'
    BY <2>2 DEF GhostInStep
  <2> QED  BY <2>1, <2>2, <2>3, <2>4, <2>5
<1>2. CASE s # NoShape
  <2> DEFINE b == Texts(baseline', sb)
  <2>1. /\ shownAt' = a /\ shape' = s /\ grid' = Texts(mapRom', s)
        /\ reference' = IF ghost' THEN [k \in MapCells(s) \cap DOMAIN b |-> b[k]] ELSE <<>>
        /\ inStep' = TRUE /\ typedAt' = {} /\ crashed' = (r = 0)
    BY <1>2 DEF LoadGrid
  <2>2. s \in Shapes /\ a \in 1..MapSize /\ Texts(mapRom', s) \in [MapCells(s) -> Int]
    BY <1>2, ReadMapIs, TextsAre
  <2>3. [k \in MapCells(s) \cap DOMAIN b |-> b[k]]
          = [k \in MapCells(s) \cap MapCells(sb) |-> baseline'[sb.off + k - 1]]
    <3> HIDE DEF s, sb
    <3> QED  BY DEF Texts
  <2>4. GhostInStep'
    <3> SUFFICES ASSUME Running', ghost', shape'.nx > 0
                 PROVE  reference' = [k \in MapCells(shape') \cap MapCells(sb) |-> baseline'[sb.off + k - 1]]
      BY <2>1 DEF GhostInStep, MapCells
    <3> QED  BY <2>1, <2>3
  <2>5. a # 0 /\ a \in 0..MapSize
    BY <2>2
  <2> HIDE DEF s, b, sb
  <2> QED  BY <2>1, <2>2, <2>4, <2>5
<1> QED  BY <1>1, <1>2

-----------------------------------------------------------------------------
(* Folds of the map editor. *)

LEMMA Stage1Typed ==
  ASSUME NEW rom \in MapRomType
  PROVE  FoldLeft(Percent, rom, Stage1) \in MapRomType
<1> DEFINE n == Len(Stage1)
           S == DOMAIN Stage1
           D == MapRomType
           One(r, x) == Percent(r, x)
           Step == [x \in (1..n) \X D |-> One(x[2], Stage1[x[1]])]
           It(f) == [s \in SUBSET S |->
                       IF s = {} THEN rom ELSE One(f[s \ {Max(s)}], Stage1[Max(s)])]
           iter == CHOOSE f : f = It(f)
<1>1. FoldLeft(Percent, rom, Stage1) = iter[S]
  BY DEF FoldLeft, MapThenFoldSet
<1>2. S = 1..n /\ n \in Nat /\ rom \in D
  BY EditorAssumption
<1>3. \A i \in 1..n, r \in D : One(r, Stage1[i]) \in D
  BY PercentTyped
<1> HIDE DEF One, D
<1>4. IsStep(Step, n, D)
  BY <1>3 DEF IsStep
<1>5. PICK f : IsFold(f, n, D, rom, Step)
  <2> HIDE DEF n, Step
  <2> QED  BY <1>2, <1>4, FoldExists
<1>6. \A s \in SUBSET (1..n) : s # {} => Max(s) \in 1..n /\ s \ {Max(s)} \in SUBSET (1..n)
  <2> HIDE DEF n
  <2> QED  BY <1>2, MaxIsIn
<1>7. f = It(f)
  <2>1. \A s \in SUBSET S : f[s] = It(f)[s]
    BY <1>2, <1>5, <1>6 DEF IsFold
  <2>2. f \in [SUBSET S -> D]
    BY <1>2, <1>5 DEF IsFold
  <2>3. It(f) = [s \in SUBSET S |-> It(f)[s]]
    OBVIOUS
  <2> HIDE DEF It, S
  <2> QED  BY <2>1, <2>2, <2>3
<1> HIDE DEF It
<1>8. iter = It(iter)
  BY <1>7
<1> HIDE DEF iter
<1>9. GoesOn(iter, n, D, rom, Step)
  BY <1>2, <1>6, <1>8 DEF It, GoesOn
<1> HIDE DEF n, Step
<1>10. Through(iter, n, D, rom, Step)
  BY <1>2, <1>4, <1>9, FoldRun
<1>11. iter[1..n] \in D
  BY <1>2, <1>10 DEF Through, Runs
<1> QED  BY <1>1, <1>2, <1>11 DEF D

LEMMA KeptTyped ==
  ASSUME NEW list \in MapEntries
  PROVE  Stage1Only(list) \in MapEntries
<1> DEFINE n == Len(list)
           S == DOMAIN list
           D == MapEntries
           One(r, x) == IF x.stage1 THEN Append(r, x) ELSE r
           Step == [x \in (1..n) \X D |-> One(x[2], list[x[1]])]
           It(f) == [s \in SUBSET S |->
                       IF s = {} THEN <<>> ELSE One(f[s \ {Max(s)}], list[Max(s)])]
           iter == CHOOSE f : f = It(f)
<1>1. Stage1Only(list) = iter[S]
  BY DEF Stage1Only, FoldLeft, MapThenFoldSet
<1>2. S = 1..n /\ n \in Nat /\ <<>> \in D
  BY DEF MapEntries
<1>3. \A i \in 1..n, r \in D : One(r, list[i]) \in D
  <2> DEFINE E == [at : Nat \ {0}, stage1 : BOOLEAN]
  <2>1. list \in Seq(E) /\ D = Seq(E)
    BY DEF MapEntries
  <2> HIDE DEF E, D
  <2>2. \A i \in 1..n : list[i] \in E
    BY <2>1
  <2> QED  BY <2>1, <2>2
<1> HIDE DEF One, D
<1>4. IsStep(Step, n, D)
  BY <1>3 DEF IsStep
<1>5. PICK f : IsFold(f, n, D, <<>>, Step)
  <2> HIDE DEF n, Step
  <2> QED  BY <1>2, <1>4, FoldExists
<1>6. \A s \in SUBSET (1..n) : s # {} => Max(s) \in 1..n /\ s \ {Max(s)} \in SUBSET (1..n)
  <2> HIDE DEF n
  <2> QED  BY <1>2, MaxIsIn
<1>7. f = It(f)
  <2>1. \A s \in SUBSET S : f[s] = It(f)[s]
    BY <1>2, <1>5, <1>6 DEF IsFold
  <2>2. f \in [SUBSET S -> D]
    BY <1>2, <1>5 DEF IsFold
  <2>3. It(f) = [s \in SUBSET S |-> It(f)[s]]
    OBVIOUS
  <2> HIDE DEF It, S
  <2> QED  BY <2>1, <2>2, <2>3
<1> HIDE DEF It
<1>8. iter = It(iter)
  BY <1>7
<1> HIDE DEF iter
<1>9. GoesOn(iter, n, D, <<>>, Step)
  BY <1>2, <1>6, <1>8 DEF It, GoesOn
<1> HIDE DEF n, Step
<1>10. Through(iter, n, D, <<>>, Step)
  BY <1>2, <1>4, <1>9, FoldRun
<1>11. iter[1..n] \in D
  BY <1>2, <1>10 DEF Through, Runs
<1> QED  BY <1>1, <1>2, <1>11 DEF D

LEMMA SumTyped ==
  ASSUME grid \in [MapCells(shape) -> Int], NEW cells, IsFiniteSet(cells), cells \subseteq MapCells(shape)
  PROVE  SumOf(cells) \in Int
<1> DEFINE pick == [s \in SUBSET cells |-> CHOOSE x \in s : TRUE]
           One(v, l) == v + Number(grid[l])
           Step == [x \in cells \X Int |-> One(x[2], x[1])]
           It(f) == [s \in SUBSET cells |->
                       IF s = {} THEN 0
                       ELSE f[s \ {CHOOSE x \in s : TRUE}] + Number(grid[CHOOSE x \in s : TRUE])]
           iter == CHOOSE f : f = It(f)
<1>1. SumOf(cells) = iter[cells]
  BY DEF SumOf, FoldSet, MapThenFoldSet
<1>2. \A s \in SUBSET cells : s # {} => pick[s] \in s /\ pick[s] = CHOOSE x \in s : TRUE
  OBVIOUS
<1>3. Step \in [cells \X Int -> Int]
  <2>1. \A l \in cells : Number(grid[l]) \in Int
    BY DEF Number
  <2> QED  BY <2>1
<1>4. PICK f \in [SUBSET cells -> Int] : FoldOf(f, cells, 0, pick, Step)
  <2>1. 0 \in Int /\ \A s \in SUBSET cells : s # {} => pick[s] \in s
    BY <1>2
  <2> HIDE DEF pick, Step
  <2> QED  BY <1>3, <2>1, FoldThere
<1>5. \A s \in SUBSET cells :
        f[s] = IF s = {} THEN 0 ELSE Step[<<pick[s], f[s \ {pick[s]}]>>]
  BY <1>4 DEF FoldOf
<1> HIDE DEF pick
<1>6. f = It(f)
  <2>1. \A s \in SUBSET cells : f[s] = It(f)[s]
    <3> SUFFICES ASSUME NEW s \in SUBSET cells PROVE f[s] = It(f)[s]
      OBVIOUS
    <3>1. CASE s = {}
      BY <1>5, <3>1
    <3>2. CASE s # {}
      <4>1. pick[s] \in cells /\ s \ {pick[s]} \in SUBSET cells /\ f[s \ {pick[s]}] \in Int
        BY <1>2, <1>4, <3>2
      <4>2. f[s] = f[s \ {pick[s]}] + Number(grid[pick[s]])
        BY <1>5, <3>2, <4>1
      <4> QED  BY <1>2, <3>2, <4>2
    <3> QED  BY <3>1, <3>2
  <2> HIDE DEF It
  <2>2. It(f) = [s \in SUBSET cells |-> It(f)[s]]
    BY DEF It
  <2> QED  BY <1>4, <2>1, <2>2
<1> HIDE DEF It
<1>7. iter = It(iter)
  BY <1>6
<1> HIDE DEF iter
<1> DEFINE Out == {s \in SUBSET cells : iter[s] \notin Int}
<1>8. Out = {}
  <2> SUFFICES ASSUME Out # {} PROVE FALSE
    OBVIOUS
  <2>1. PICK s \in Out : \A x \in s : s \ {x} \notin Out
    <3>1. Out \subseteq SUBSET cells
      OBVIOUS
    <3> HIDE DEF Out
    <3> QED  BY <3>1, Minimal
  <2>2. CASE s = {}
    BY <1>7, <2>1, <2>2 DEF It
  <2>3. CASE s # {}
    <3> DEFINE x == CHOOSE x \in s : TRUE
    <3>1. x \in s /\ x \in cells /\ Number(grid[x]) \in Int
      BY <2>1, <2>3 DEF Number
    <3>2. iter[s \ {x}] \in Int
      BY <2>1, <3>1
    <3>3. iter[s] = iter[s \ {x}] + Number(grid[x])
      BY <1>7, <2>1, <2>3 DEF It
    <3> QED  BY <2>1, <3>1, <3>2, <3>3
  <2> QED  BY <2>2, <2>3
<1> QED  BY <1>1, <1>8
-----------------------------------------------------------------------------
(* Steps of the map editor. *)

LEMMA GhostStays ==
  ASSUME GhostInStep, UNCHANGED <<crashed, ghost, shape, baseline, shownAt, reference>>
  PROVE  GhostInStep'
BY DEF GhostInStep, Running, MapCells, ReadMap

LEMMA EditTyped == ASSUME EditorInv, Edit PROVE edits' \in 0..MaxEdits
BY EditorAssumption DEF EditorInv, Edit

\* Cells written to the ROM and read again.
LEMMA WriteKeeps ==
  ASSUME EditorInv, Edit, NEW want, DOMAIN want \subseteq MapCells(shape),
         \A k \in DOMAIN want : want[k] \in Int, WriteCells(want)
  PROVE  EditorInv'
<1> DEFINE done == {k \in DOMAIN want : shape.off + k - 1 <= Len(mapRom)}
<1>1. /\ mapRom' = [i \in DOMAIN mapRom |->
            IF i - shape.off + 1 \in done THEN Clamp(want[i - shape.off + 1]) ELSE mapRom[i]]
      /\ grid' = [k \in DOMAIN grid |-> IF k \in done THEN Clamp(want[k]) ELSE grid[k]]
      /\ unsaved' = (unsaved \/ done # {}) /\ typedAt' = typedAt \ done
      /\ UNCHANGED <<baseline, fileRom, listVars, shownAt, shape, reference, inStep, crashed, ghost>>
  BY DEF WriteCells
<1>2. \A k \in done : Clamp(want[k]) \in MapWords /\ Clamp(want[k]) \in Int
  BY ClampTyped
<1>3. done = {} => mapRom' = mapRom
  BY <1>1 DEF EditorInv, MapRomType
<1> HIDE DEF done
<1>4. mapRom' \in MapRomType /\ grid' \in [MapCells(shape') -> Int]
  <2>1. /\ mapRom \in MapRomType /\ DOMAIN mapRom = 1..MapSize
        /\ grid \in [MapCells(shape) -> Int] /\ DOMAIN grid = MapCells(shape) /\ shape' = shape
    BY <1>1 DEF EditorInv, MapRomType
  <2>2. mapRom' \in MapRomType
    BY <1>1, <1>2, <2>1 DEF MapRomType
  <2>3. grid' \in [MapCells(shape) -> Int]
    BY <1>1, <1>2, <2>1
  <2> QED  BY <2>1, <2>2, <2>3
<1>5. GhostInStep'
  BY <1>1, GhostStays DEF EditorInv
<1>6. EditsKept'
  BY <1>1, <1>3 DEF EditorInv, EditsKept
<1>7. unsaved' \in BOOLEAN
  BY <1>1 DEF EditorInv
<1>8. typedAt' \subseteq MapCells(shape')
  BY <1>1 DEF EditorInv
<1> QED
  BY <1>1, <1>4, <1>5, <1>6, <1>7, <1>8, EditTyped DEF EditorInv, listVars

\* A grid that was read again.
LEMMA Reloaded ==
  ASSUME EditorInv, NEW a \in Nat \ {0}, NEW r, LoadGrid(a, r),
         mapRom' \in MapRomType, baseline' \in MapRomType, fileRom' \in MapRomType \cup {<<>>},
         unsaved' \in BOOLEAN, ghost' \in BOOLEAN, entries' \in MapEntries,
         row' \in 0..Len(entries'), edits' \in 0..MaxEdits, EditsKept'
  PROVE  EditorInv'
<1>1. shape \in Shapes /\ shownAt \in 0..MapSize /\ crashed \in BOOLEAN
  BY DEF EditorInv
<1>2. /\ grid' \in [MapCells(shape)' -> Int] /\ typedAt' = {} /\ inStep' = TRUE
      /\ shape' \in Shapes /\ shownAt' \in 0..MapSize /\ (shownAt' = 0 => shape'.nx = 0)
      /\ crashed' \in BOOLEAN /\ GhostInStep'
  BY <1>1, LoadKeeps
<1> QED  BY <1>2 DEF EditorInv

\* A grid that was not.
LEMMA Unread ==
  ASSUME EditorInv, UNCHANGED <<shownAt, shape, grid, reference, typedAt, crashed>>,
         mapRom' \in MapRomType, baseline' \in MapRomType, fileRom' \in MapRomType \cup {<<>>},
         unsaved' \in BOOLEAN, ghost' \in BOOLEAN, inStep' \in BOOLEAN, entries' \in MapEntries,
         row' \in 0..Len(entries'), edits' \in 0..MaxEdits, EditsKept',
         UNCHANGED <<ghost, baseline>> \/ shownAt = 0 \/ ~ghost'
  PROVE  EditorInv'
<1>1. GhostInStep'
  <2>1. CASE UNCHANGED <<ghost, baseline>>
    BY <2>1, GhostStays DEF EditorInv
  <2>2. CASE shownAt = 0 \/ ~ghost'
    <3>1. ~ghost' \/ ~(shape'.nx > 0)
      BY <2>2 DEF EditorInv
    <3> QED  BY <3>1 DEF GhostInStep
  <2> QED  BY <2>1, <2>2
<1> QED  BY <1>1 DEF EditorInv, MapCells

LEMMA EntryAt ==
  ASSUME EditorInv, NEW r \in 1..Len(entries)
  PROVE  entries[r].at \in Nat \ {0}
<1> DEFINE E == [at : Nat \ {0}, stage1 : BOOLEAN]
<1>1. entries \in Seq(E)
  BY DEF EditorInv, MapEntries
<1>2. entries[r] \in E
  <2> HIDE DEF E
  <2> QED  BY <1>1
<1> QED  BY <1>2

LEMMA ShownAtTyped == ASSUME EditorInv, shownAt # 0 PROVE shownAt \in Nat \ {0}
BY EditorAssumption DEF EditorInv

LEMMA ListTyped == ASSUME NEW l \in Lists PROVE l \in MapEntries /\ 0 \in 0..Len(l)
<1>1. l \in MapEntries
  BY EditorAssumption
<1>2. Len(l) \in Nat
  BY <1>1 DEF MapEntries
<1> QED  BY <1>1, <1>2

LEMMA OpenKeeps == ASSUME EditorInv, OpenMapRom PROVE EditorInv'
<1>1. /\ mapRom' \in MapRomType /\ baseline' = mapRom' /\ unsaved' = FALSE
      /\ fileRom' \in {mapRom', <<>>} /\ ghost' = ghost /\ entries' \in Lists /\ row' = 0 /\ Edit
  BY EditorAssumption DEF OpenMapRom, MapRomType
<1>2. /\ baseline' \in MapRomType /\ fileRom' \in MapRomType \cup {<<>>} /\ unsaved' \in BOOLEAN
      /\ ghost' \in BOOLEAN /\ entries' \in MapEntries /\ row' \in 0..Len(entries')
      /\ edits' \in 0..MaxEdits /\ EditsKept'
  BY <1>1, ListTyped, EditTyped DEF EditorInv, EditsKept
<1>3. CASE shownAt # 0 /\ ghost
  <2>1. LoadGrid(shownAt, row) /\ shownAt \in Nat \ {0}
    BY <1>3, ShownAtTyped DEF OpenMapRom
  <2> QED  BY <1>1, <1>2, <2>1, Reloaded
<1>4. CASE ~(shownAt # 0 /\ ghost)
  <2>1. inStep' = FALSE /\ UNCHANGED <<shownAt, shape, grid, reference, typedAt, crashed>>
    BY <1>4 DEF OpenMapRom
  <2>2. shownAt = 0 \/ ~ghost'
    BY <1>1, <1>4
  <2> QED  BY <1>1, <1>2, <2>1, <2>2, Unread
<1> QED  BY <1>3, <1>4

LEMMA BaselineKeeps == ASSUME EditorInv, PickBaseline PROVE EditorInv'
<1>1. /\ baseline' \in MapRoms \cup {IF fileRom = <<>> THEN mapRom ELSE fileRom}
      /\ UNCHANGED <<mapRom, fileRom, unsaved, entries, row, ghost>> /\ Edit
  BY DEF PickBaseline, listVars
<1>2. /\ baseline' \in MapRomType /\ mapRom' \in MapRomType /\ fileRom' \in MapRomType \cup {<<>>}
      /\ unsaved' \in BOOLEAN
      /\ ghost' \in BOOLEAN /\ entries' \in MapEntries /\ row' \in 0..Len(entries')
      /\ edits' \in 0..MaxEdits /\ EditsKept'
  BY <1>1, EditorAssumption, EditTyped DEF EditorInv, EditsKept, MapRomType
<1>3. CASE shownAt # 0 /\ ghost
  <2>1. LoadGrid(shownAt, row) /\ shownAt \in Nat \ {0}
    BY <1>3, ShownAtTyped DEF PickBaseline
  <2> QED  BY <1>2, <2>1, Reloaded
<1>4. CASE ~(shownAt # 0 /\ ghost)
  <2>1. UNCHANGED gridVars
    BY <1>4 DEF PickBaseline
  <2>2. /\ UNCHANGED <<shownAt, shape, grid, reference, typedAt, crashed>>
        /\ inStep' \in BOOLEAN /\ (shownAt = 0 \/ ~ghost')
    BY <1>1, <1>4, <2>1 DEF gridVars, EditorInv
  <2> QED  BY <1>2, <2>2, Unread
<1> QED  BY <1>3, <1>4

LEMMA GhostKeeps == ASSUME EditorInv, ToggleGhost PROVE EditorInv'
<1>1. /\ UNCHANGED <<mapRom, baseline, fileRom, unsaved, entries, row, edits>> /\ ghost' = ~ghost
  BY DEF ToggleGhost, docVars, listVars
<1>2. /\ baseline' \in MapRomType /\ mapRom' \in MapRomType /\ fileRom' \in MapRomType \cup {<<>>}
      /\ unsaved' \in BOOLEAN
      /\ ghost' \in BOOLEAN /\ entries' \in MapEntries /\ row' \in 0..Len(entries')
      /\ edits' \in 0..MaxEdits /\ EditsKept'
  BY <1>1 DEF EditorInv, EditsKept
<1>3. CASE shownAt # 0
  <2>1. LoadGrid(shownAt, row) /\ shownAt \in Nat \ {0}
    BY <1>3, ShownAtTyped DEF ToggleGhost
  <2> QED  BY <1>2, <2>1, Reloaded
<1>4. CASE shownAt = 0
  <2>1. UNCHANGED gridVars
    BY <1>4 DEF ToggleGhost
  <2>2. /\ UNCHANGED <<shownAt, shape, grid, reference, typedAt, crashed>>
        /\ inStep' \in BOOLEAN
    BY <2>1 DEF gridVars, EditorInv
  <2> QED  BY <1>2, <1>4, <2>2, Unread
<1> QED  BY <1>3, <1>4

LEMMA SelectKeeps == ASSUME EditorInv, SelectMap PROVE EditorInv'
<1>1. PICK r \in 1..Len(entries) : row' = r /\ LoadGrid(entries[r].at, r)
  BY DEF SelectMap
<1>2. UNCHANGED <<mapRom, baseline, fileRom, unsaved, entries, ghost, edits>>
  BY DEF SelectMap, docVars
<1>3. /\ baseline' \in MapRomType /\ mapRom' \in MapRomType /\ fileRom' \in MapRomType \cup {<<>>}
      /\ unsaved' \in BOOLEAN
      /\ ghost' \in BOOLEAN /\ entries' \in MapEntries
      /\ edits' \in 0..MaxEdits /\ EditsKept'
  BY <1>2 DEF EditorInv, EditsKept
<1>4. row' \in 0..Len(entries')
  BY <1>1, <1>2
<1>5. entries[r].at \in Nat \ {0}
  BY EntryAt
<1> QED  BY <1>1, <1>3, <1>4, <1>5, Reloaded

LEMMA ListKeeps == ASSUME EditorInv, RefreshMaps \/ SearchMaps PROVE EditorInv'
<1>1. /\ UNCHANGED <<mapRom, baseline, fileRom, unsaved, ghost, edits>> /\ UNCHANGED gridVars
      /\ row' = 0
  BY DEF RefreshMaps, SearchMaps, docVars
<1>2. entries' \in MapEntries
  <2>1. CASE RefreshMaps
    BY <2>1, ListTyped DEF RefreshMaps
  <2>2. CASE SearchMaps
    <3>1. PICK l \in Lists : entries' = Stage1Only(entries) \o l
      BY <2>2 DEF SearchMaps
    <3>2. l \in MapEntries /\ Stage1Only(entries) \in MapEntries
      BY ListTyped, KeptTyped DEF EditorInv
    <3> QED  BY <3>1, <3>2 DEF MapEntries
  <2> QED  BY <2>1, <2>2
<1>3. row' \in 0..Len(entries')
  <2>1. Len(entries') \in Nat
    BY <1>2 DEF MapEntries
  <2> QED  BY <1>1, <2>1
<1>4. /\ baseline' \in MapRomType /\ mapRom' \in MapRomType /\ fileRom' \in MapRomType \cup {<<>>}
      /\ unsaved' \in BOOLEAN /\ ghost' \in BOOLEAN /\ edits' \in 0..MaxEdits /\ EditsKept'
  BY <1>1 DEF EditorInv, EditsKept
<1>5. /\ UNCHANGED <<shownAt, shape, grid, reference, typedAt, crashed, ghost, baseline>>
      /\ inStep' \in BOOLEAN
  BY <1>1 DEF gridVars, EditorInv
<1> QED  BY <1>2, <1>3, <1>4, <1>5, Unread

\* Another panel writes a word, or the document is saved.
LEMMA OutsideKeeps == ASSUME EditorInv, OtherPanel \/ SaveMapRom PROVE EditorInv'
<1>1. /\ UNCHANGED <<baseline, entries, row, shownAt, shape, grid, reference, typedAt, crashed, ghost>>
      /\ Edit /\ inStep' \in BOOLEAN
  BY DEF OtherPanel, SaveMapRom, listVars, gridVars, EditorInv
<1>2. mapRom' \in MapRomType /\ unsaved' \in BOOLEAN /\ fileRom' \in MapRomType \cup {<<>>} /\ EditsKept'
  <2>1. CASE OtherPanel
    <3>1. PICK i \in DOMAIN mapRom, v \in Typed \ {Bad} : mapRom' = [mapRom EXCEPT ![i] = Clamp(v)]
      BY <2>1 DEF OtherPanel
    <3>2. Clamp(v) \in MapWords
      BY EditorAssumption, ClampTyped
    <3>3. mapRom' \in MapRomType
      BY <3>1, <3>2 DEF EditorInv, MapRomType
    <3> QED  BY <2>1, <3>3 DEF OtherPanel, EditorInv, EditsKept
  <2>2. CASE SaveMapRom
    BY <2>2 DEF SaveMapRom, EditorInv, EditsKept
  <2> QED  BY <2>1, <2>2
<1>3. edits' \in 0..MaxEdits
  BY <1>1, EditTyped
<1>4. baseline' \in MapRomType /\ ghost' \in BOOLEAN /\ entries' \in MapEntries /\ row' \in 0..Len(entries')
  BY <1>1 DEF EditorInv
<1> QED  BY <1>1, <1>2, <1>3, <1>4, Unread

\* onCellChanged
LEMMA CellKeeps == ASSUME EditorInv, OnCellChanged PROVE EditorInv'
<1>1. PICK k \in MapCells(shape), v \in Typed :
       LET at == shape.off + k - 1
           written == v # Bad /\ at <= Len(mapRom)
           again == written /\ Clamp(v) # Wrap(v)
       IN /\ mapRom' = IF written THEN [mapRom EXCEPT ![at] = Clamp(v)] ELSE mapRom
          /\ grid' = [grid EXCEPT ![k] = IF again THEN Clamp(v) ELSE v]
          /\ typedAt' = IF again THEN typedAt \ {k} ELSE typedAt \cup {k}
          /\ unsaved' = (unsaved \/ written)
  BY DEF OnCellChanged
<1>2. v \in Int /\ Clamp(v) \in MapWords /\ Clamp(v) \in Int
  BY EditorAssumption, ClampTyped
<1>3. /\ UNCHANGED <<baseline, fileRom, entries, row, shownAt, shape, reference, inStep, crashed, ghost>>
      /\ Edit
  BY DEF OnCellChanged, listVars
<1>4. mapRom' \in MapRomType
  BY <1>1, <1>2 DEF EditorInv, MapRomType
<1>5. grid' \in [MapCells(shape') -> Int]
  <2>1. grid \in [MapCells(shape) -> Int] /\ shape' = shape
    BY <1>3 DEF EditorInv
  <2> QED  BY <1>1, <1>2, <2>1
<1>6. typedAt' \subseteq MapCells(shape')
  BY <1>1, <1>3 DEF EditorInv
<1>7. unsaved' \in BOOLEAN /\ EditsKept'
  BY <1>1, <1>3 DEF EditorInv, EditsKept
<1>8. GhostInStep'
  BY <1>3, GhostStays DEF EditorInv
<1> QED  BY <1>3, <1>4, <1>5, <1>6, <1>7, <1>8, EditTyped DEF EditorInv

-----------------------------------------------------------------------------
(* Operations on a selection. *)

LEMMA SelectionKeeps == ASSUME EditorInv, OpSet \/ OpAdd \/ OpMultiply PROVE EditorInv'
<1>0. Edit /\ \A k \in MapCells(shape) : grid[k] \in Int
  BY DEF OpSet, OpAdd, OpMultiply, EditorInv
<1>1. CASE OpSet
  <2>1. PICK s \in Selected, v \in Typed \ {Bad} : WriteCells([k \in {k \in s : grid[k] # Bad} |-> Clamp(v)])
    BY <1>1 DEF OpSet
  <2> DEFINE want == [k \in {k \in s : grid[k] # Bad} |-> Clamp(v)]
  <2>2. DOMAIN want \subseteq MapCells(shape) /\ \A k \in DOMAIN want : want[k] \in Int
    BY EditorAssumption, ClampTyped DEF Selected
  <2> HIDE DEF want
  <2>3. WriteCells(want)
    BY <2>1 DEF want
  <2> QED  BY <1>0, <2>2, <2>3, WriteKeeps
<1>2. CASE OpAdd
  <2>1. PICK s \in Selected, d \in Typed \ {Bad} :
          WriteCells([k \in {k \in s : grid[k] # Bad} |-> grid[k] + d])
    BY <1>2 DEF OpAdd
  <2> DEFINE want == [k \in {k \in s : grid[k] # Bad} |-> grid[k] + d]
  <2>2. DOMAIN want \subseteq MapCells(shape) /\ \A k \in DOMAIN want : want[k] \in Int
    BY <1>0, EditorAssumption DEF Selected
  <2> HIDE DEF want
  <2>3. WriteCells(want)
    BY <2>1 DEF want
  <2> QED  BY <1>0, <2>2, <2>3, WriteKeeps
<1>3. CASE OpMultiply
  <2>1. PICK s \in Selected : WriteCells([k \in {k \in s : grid[k] # Bad} |-> 2 * grid[k]])
    BY <1>3 DEF OpMultiply
  <2> DEFINE want == [k \in {k \in s : grid[k] # Bad} |-> 2 * grid[k]]
  <2>2. DOMAIN want \subseteq MapCells(shape) /\ \A k \in DOMAIN want : want[k] \in Int
    BY <1>0 DEF Selected
  <2> HIDE DEF want
  <2>3. WriteCells(want)
    BY <2>1 DEF want
  <2> QED  BY <1>0, <2>2, <2>3, WriteKeeps
<1> QED  BY <1>1, <1>2, <1>3

\* Three cells or more have a first and a last one.
LEMMA Spread ==
  ASSUME NEW m \in Nat, NEW p \in SUBSET (1..m), Cardinality(p) >= 3
  PROVE  Min(p) \in p /\ Max(p) \in p /\ Max(p) - Min(p) \in Nat \ {0}
<1>1. p # {}
  BY FS_EmptySet
<1>2. /\ Min(p) \in p /\ \A y \in p : Min(p) <= y
      /\ Max(p) \in p /\ \A y \in p : Max(p) >= y
  BY <1>1, MinIsIn, MaxIsIn
<1>3. ASSUME Max(p) = Min(p) PROVE FALSE
  <2> DEFINE x == Min(p)
  <2>1. \A y \in p : y = x
    <3>1. \A y \in p : y \in 1..m /\ Min(p) \in 1..m /\ Min(p) <= y /\ y <= Min(p)
      BY <1>2, <1>3
    <3>2. ASSUME NEW y \in p PROVE y = Min(p)
      <4>1. y \in Int /\ Min(p) \in Int /\ Min(p) <= y /\ y <= Min(p)
        BY <3>1
      <4> HIDE DEF x
      <4> QED  BY <4>1
    <3> QED  BY <3>2
  <2> HIDE DEF x
  <2>2. p = {x}
    BY <1>1, <2>1
  <2>3. Cardinality({x}) = 1
    BY FS_Singleton
  <2> QED  BY <2>2, <2>3
<1>4. Max(p) \in Nat /\ Min(p) \in Nat /\ Max(p) >= Min(p)
  <2>1. \A y \in p : y \in Nat
    OBVIOUS
  <2>2. Max(p) >= Min(p)
    BY <1>2
  <2>3. Max(p) \in Nat
    BY <1>2, <2>1
  <2>4. Min(p) \in Nat
    BY <1>2, <2>1
  <2> QED  BY <2>2, <2>3, <2>4
<1> QED  BY <1>2, <1>3, <1>4

LEMMA InterpolateKeeps == ASSUME EditorInv, OpInterpolate PROVE EditorInv'
<1> DEFINE peers(s, k) == {l \in s : CellRow(l) = CellRow(k)}
           first(s, k) == Min(peers(s, k))
           last(s, k) == Max(peers(s, k))
           n(s, k) == last(s, k) - first(s, k)
           want(s, k) == Rounded(Number(grid[first(s, k)]) * n(s, k)
                           + (Number(grid[last(s, k)]) - Number(grid[first(s, k)])) * (k - first(s, k)),
                         n(s, k))
           wanted(s) == [k \in {k \in s : Cardinality(peers(s, k)) >= 3} |-> want(s, k)]
<1>1. PICK s \in Selected : WriteCells(wanted(s))
  BY DEF OpInterpolate
<1>2. DOMAIN wanted(s) \subseteq MapCells(shape)
  BY DEF Selected
<1>3. ASSUME NEW k \in s, Cardinality(peers(s, k)) >= 3 PROVE want(s, k) \in Int
  <2> DEFINE m == shape.nx * shape.ny
             p == peers(s, k)
  <2>1. m \in Nat /\ MapCells(shape) = 1..m
    BY CellsAre DEF EditorInv
  <2>2. p \in SUBSET (1..m) /\ Cardinality(p) >= 3 /\ k \in 1..m
    BY <1>3, <2>1 DEF Selected
  <2> HIDE DEF p, m
  <2>3. Min(p) \in p /\ Max(p) \in p /\ Max(p) - Min(p) \in Nat \ {0}
    BY <2>1, <2>2, Spread
  <2>4. \A l \in 1..m : Number(grid[l]) \in Int
    BY <2>1 DEF EditorInv, Number
  <2>5. /\ Number(grid[Min(p)]) \in Int /\ Number(grid[Max(p)]) \in Int
        /\ k - Min(p) \in Int
    <3>1. Min(p) \in 1..m /\ Max(p) \in 1..m
      BY <2>2, <2>3
    <3>2. \A a, b \in 1..m : a - b \in Int
      BY <2>1
    <3>3. k - Min(p) \in Int
      BY <3>1, <3>2, <2>2
    <3> QED  BY <3>1, <3>3, <2>4
  <2>6. \A v0, v1, d \in Int, c \in Nat \ {0} : Rounded(v0 * c + (v1 - v0) * d, c) \in Int
    <3> SUFFICES ASSUME NEW v0 \in Int, NEW v1 \in Int, NEW d \in Int, NEW c \in Nat \ {0}
                 PROVE  Rounded(v0 * c + (v1 - v0) * d, c) \in Int
      OBVIOUS
    <3>1. v0 * c + (v1 - v0) * d \in Int
      OBVIOUS
    <3> QED  BY <3>1, RoundedTyped
  <2> QED  BY <2>3, <2>5, <2>6 DEF p
<1>4. \A k \in DOMAIN wanted(s) : wanted(s)[k] \in Int
  <2> HIDE DEF want, peers
  <2> QED  BY <1>3
<1>5. Edit
  BY DEF OpInterpolate
<1> HIDE DEF wanted
<1> QED  BY <1>1, <1>2, <1>4, <1>5, WriteKeeps

LEMMA SmoothKeeps == ASSUME EditorInv, OpSmooth PROVE EditorInv'
<1> DEFINE want(s) == [k \in s |-> Rounded(SumOf(Near(k)), Cardinality(Near(k)))]
<1>1. PICK s \in Selected : WriteCells(want(s))
  BY DEF OpSmooth
<1>2. DOMAIN want(s) \subseteq MapCells(shape)
  BY DEF Selected
<1>3. ASSUME NEW k \in s PROVE Rounded(SumOf(Near(k)), Cardinality(Near(k))) \in Int
  <2> DEFINE m == shape.nx * shape.ny
  <2>1. m \in Nat /\ MapCells(shape) = 1..m
    BY CellsAre DEF EditorInv
  <2> HIDE DEF m
  <2>2. IsFiniteSet(MapCells(shape)) /\ k \in MapCells(shape) /\ s \subseteq MapCells(shape)
    BY <2>1, FS_Interval DEF Selected
  <2>3. Near(k) \subseteq MapCells(shape)
    BY DEF Near
  <2>4. IsFiniteSet(Near(k))
    BY <2>2, <2>3, FS_Subset
  <2>5. k \in Near(k)
    <3>1. k \in Nat \ {0} /\ shape.nx \in Nat \ {0}
      <4>1. shape.nx \in Nat /\ (shape.nx = 0 => MapCells(shape) = {})
        BY CellsAre DEF EditorInv, Shapes
      <4> QED  BY <2>1, <2>2, <4>1
    <3>2. CellRow(k) \in Int /\ CellColumn(k) \in Int
      BY <3>1 DEF CellRow, CellColumn
    <3>3. \A r \in Int : r - r \in -1..1
      OBVIOUS
    <3> QED  BY <2>2, <3>2, <3>3 DEF Near
  <2>6. Cardinality(Near(k)) \in Nat \ {0}
    BY <2>4, <2>5, FS_CardinalityType, FS_EmptySet
  <2>7. SumOf(Near(k)) \in Int
    BY <2>3, <2>4, SumTyped DEF EditorInv
  <2> QED  BY <2>6, <2>7, RoundedTyped
<1>4. \A k \in DOMAIN want(s) : want(s)[k] \in Int
  BY <1>3
<1>5. Edit
  BY DEF OpSmooth
<1> HIDE DEF want
<1> QED  BY <1>1, <1>2, <1>4, <1>5, WriteKeeps

LEMMA PasteKeeps == ASSUME EditorInv, PasteRegionTsv PROVE EditorInv'
<1>1. PICK k \in MapCells(shape), clip \in UNION {[1..n -> Typed] : n \in 1..2} :
        WriteCells([l \in {l \in MapCells(shape) :
                            /\ CellRow(l) = CellRow(k)
                            /\ l - k + 1 \in DOMAIN clip /\ clip[l - k + 1] # Bad} |-> clip[l - k + 1]])
  BY DEF PasteRegionTsv
<1> DEFINE to == {l \in MapCells(shape) : /\ CellRow(l) = CellRow(k)
                                          /\ l - k + 1 \in DOMAIN clip /\ clip[l - k + 1] # Bad}
           want == [l \in to |-> clip[l - k + 1]]
<1>2. \A i \in DOMAIN clip : clip[i] \in Int
  <2>1. PICK n \in 1..2 : clip \in [1..n -> Typed]
    OBVIOUS
  <2>2. \A i \in DOMAIN clip : clip[i] \in Typed
    BY <2>1
  <2>3. Typed \subseteq Int
    BY EditorAssumption
  <2> QED  BY <2>2, <2>3
<1>3. DOMAIN want \subseteq MapCells(shape) /\ \A l \in DOMAIN want : want[l] \in Int
  BY <1>2
<1>4. Edit /\ WriteCells(want)
  BY <1>1 DEF PasteRegionTsv
<1> HIDE DEF want
<1> QED  BY <1>3, <1>4, WriteKeeps

\* Percentages on whole maps.
LEMMA PercentKeeps == ASSUME EditorInv, ApplyPercent \/ ApplyFullStage1 PROVE EditorInv'
<1>1. /\ mapRom' \in MapRomType /\ unsaved' = (unsaved \/ mapRom' # mapRom)
      /\ UNCHANGED <<baseline, fileRom, entries, row, ghost>> /\ Edit
  <2>1. CASE ApplyPercent
    BY <2>1, PercentTyped DEF ApplyPercent, EditorInv, listVars
  <2>2. CASE ApplyFullStage1
    <3>1. mapRom' = FoldLeft(Percent, mapRom, Stage1) /\ mapRom \in MapRomType
      BY <2>2 DEF ApplyFullStage1, EditorInv
    <3>2. \A rom : rom \in MapRomType => FoldLeft(Percent, rom, Stage1) \in MapRomType
      BY Stage1Typed
    <3>3. mapRom' \in MapRomType
      BY <3>1, <3>2
    <3> QED  BY <2>2, <3>3 DEF ApplyFullStage1, listVars
  <2> QED  BY <2>1, <2>2
<1>2. /\ baseline' \in MapRomType /\ fileRom' \in MapRomType \cup {<<>>} /\ unsaved' \in BOOLEAN
      /\ ghost' \in BOOLEAN /\ entries' \in MapEntries /\ row' \in 0..Len(entries')
      /\ edits' \in 0..MaxEdits /\ EditsKept'
  BY <1>1, EditTyped DEF EditorInv, EditsKept
<1>3. \/ shownAt # 0 /\ LoadGrid(shownAt, row)
      \/ UNCHANGED gridVars
  <2>1. CASE ApplyPercent
    <3>1. /\ row # 0
          /\ IF entries[row].at = shownAt THEN LoadGrid(entries[row].at, row) ELSE UNCHANGED gridVars
      BY <2>1 DEF ApplyPercent
    <3>2. row \in 1..Len(entries)
      <4>1. Len(entries) \in Nat /\ row \in 0..Len(entries)
        BY DEF EditorInv, MapEntries
      <4> QED  BY <3>1, <4>1
    <3>3. entries[row].at # 0
      BY <3>2, EntryAt
    <3> QED  BY <3>1, <3>3
  <2>2. CASE ApplyFullStage1
    BY <2>2 DEF ApplyFullStage1
  <2> QED  BY <2>1, <2>2
<1>4. CASE shownAt # 0 /\ LoadGrid(shownAt, row)
  BY <1>1, <1>2, <1>4, ShownAtTyped, Reloaded
<1>5. CASE UNCHANGED gridVars
  <2>1. /\ UNCHANGED <<shownAt, shape, grid, reference, typedAt, crashed>>
        /\ inStep' \in BOOLEAN
    BY <1>5 DEF gridVars, EditorInv
  <2> QED  BY <1>1, <1>2, <2>1, Unread
<1> QED  BY <1>3, <1>4, <1>5

LEMMA EditorStep ==
  ASSUME EditorInv, [EditorNext]_editorVars
  PROVE  EditorInv'
<1>1. CASE UNCHANGED editorVars
  <2>1. UNCHANGED <<mapRom, baseline, fileRom, unsaved, entries, row, shownAt, shape, grid, reference,
                    inStep, typedAt, crashed, ghost, edits>>
    BY <1>1 DEF editorVars, docVars, listVars, gridVars
  <2>2. /\ mapRom' \in MapRomType /\ baseline' \in MapRomType /\ fileRom' \in MapRomType \cup {<<>>}
        /\ unsaved' \in BOOLEAN /\ ghost' \in BOOLEAN /\ inStep' \in BOOLEAN /\ entries' \in MapEntries
        /\ row' \in 0..Len(entries') /\ edits' \in 0..MaxEdits /\ EditsKept'
    BY <2>1 DEF EditorInv, EditsKept
  <2> QED  BY <2>1, <2>2, Unread
<1> QED
  BY <1>1, OpenKeeps, BaselineKeeps, GhostKeeps, SelectKeeps, ListKeeps, OutsideKeeps, CellKeeps,
     SelectionKeeps, InterpolateKeeps, SmoothKeeps, PasteKeeps, PercentKeeps
  DEF EditorNext

LEMMA EditorBegins == EditorInit => EditorInv
<1> SUFFICES ASSUME EditorInit PROVE EditorInv
  OBVIOUS
<1>1. mapRom \in MapRomType /\ baseline = mapRom /\ fileRom = mapRom
  BY EditorAssumption DEF EditorInit, MapRomType
<1>2. shape \in Shapes /\ shape.nx = 0 /\ shape = NoShape
  BY DEF EditorInit, NoShape, Shapes
<1>3. MapCells(shape) = {}
  BY <1>2, CellsAre
<1>4. grid \in [{} -> Int] /\ typedAt = {}
  BY DEF EditorInit
<1>5. entries \in MapEntries /\ row \in 0..Len(entries)
  BY ListTyped DEF EditorInit
<1>6. shownAt \in 0..MapSize /\ edits \in 0..MaxEdits
  BY EditorAssumption DEF EditorInit
<1>7. GhostInStep /\ EditsKept
  BY <1>1, <1>2 DEF EditorInit, GhostInStep, EditsKept
<1> QED  BY <1>1, <1>2, <1>3, <1>4, <1>5, <1>6, <1>7 DEF EditorInit, EditorInv

LEMMA EditorTyped == EditorInv => EditorTypeOK
<1> SUFFICES ASSUME EditorInv PROVE EditorTypeOK
  OBVIOUS
<1>1. Len(mapRom) = MapSize /\ MapSize > 0
  BY EditorAssumption DEF EditorInv, MapRomType
<1>2. \A rom \in MapRomType \cup {<<>>} : RomWords(rom)
  <2>1. \A rom \in MapRomType : RomWords(rom)
    BY DEF RomWords, MapRomType
  <2>2. DOMAIN << >> = {}
    OBVIOUS
  <2>3. RomWords(<< >>)
    BY <2>2 DEF RomWords
  <2> QED  BY <2>1, <2>3
<1> QED  BY <1>1, <1>2 DEF EditorInv, EditorTypeOK

\* For any ROMs and lists of maps, the map editor never leaves the ROM or a map, marks the ROM that
\* differs from its file, and shows in ghost mode the values of the baseline that was chosen last.
THEOREM GhostStaysInStep == EditorSpec => []EditorTypeOK /\ []EditsKept /\ []GhostInStep
<1>1. EditorInv /\ [EditorNext]_editorVars => EditorInv'
  BY EditorStep
<1>2. EditorInv => EditsKept /\ GhostInStep
  BY DEF EditorInv
<1> QED  BY EditorBegins, EditorTyped, <1>1, <1>2, PTL DEF EditorSpec

-----------------------------------------------------------------------------
(* The grid of the map editor, step by step. *)

\* What the theorems on the grid suppose: the map of the row selected can be read, is the one that
\* is shown, or has no cell in the one that is.
RowReads == row # 0 => ReadMap(mapRom, entries[row].at) # NoShape
RowShown == row # 0 => entries[row].at = shownAt
ShownArea == shownAt..(shape.off + shape.nx * shape.ny - 1)
RowApart ==
  Running /\ inStep /\ shape.nx > 0 /\ row # 0 /\ entries[row].at # shownAt =>
    LET s == ReadMap(mapRom, entries[row].at)
    IN \A i \in ShownArea : i - s.off + 1 \notin MapCells(s)

LEMMA ReadAgain ==
  ASSUME NEW rom \in MapRomType, NEW other \in MapRomType, NEW a \in Nat \ {0},
         ReadMap(rom, a) # NoShape, other[a] = rom[a], other[a + 1] = rom[a + 1]
  PROVE  ReadMap(other, a) = ReadMap(rom, a) /\ ReadMap(rom, a).off = a + 2
<1>1. Len(rom) = MapSize /\ Len(other) = MapSize
  BY EditorAssumption DEF MapRomType
<1>2. ReadMap(rom, a) = [off |-> a + 2, nx |-> rom[a], ny |-> rom[a + 1]]
  BY DEF ReadMap
<1>3. ReadMap(other, a) = ReadMap(rom, a)
  BY <1>1 DEF ReadMap
<1> QED  BY <1>2, <1>3

LEMMA LoadShows ==
  ASSUME NEW a, NEW r, LoadGrid(a, r)
  PROVE  /\ shownAt' \in {a, shownAt}
         /\ ReadMap(mapRom', a) # NoShape => shownAt' = a
BY DEF LoadGrid

\* A grid that was read again is in step.
LEMMA LoadedInStep ==
  ASSUME EditorInv, NEW a \in Nat \ {0}, NEW r, LoadGrid(a, r), mapRom' \in MapRomType
  PROVE  GridInStep'
<1> DEFINE s == ReadMap(mapRom', a)
<1>1. CASE s = NoShape
  <2>1. shape' = [shape EXCEPT !.nx = 0, !.ny = 0] /\ shape \in Shapes
    BY <1>1 DEF LoadGrid, EditorInv
  <2>2. shape'.nx = 0
    BY <2>1 DEF Shapes
  <2> QED  BY <2>2 DEF GridInStep
<1>2. CASE s # NoShape
  <2>1. shownAt' = a /\ shape' = s /\ grid' = Texts(mapRom', s)
    BY <1>2 DEF LoadGrid
  <2> HIDE DEF s
  <2>2. \A k \in DOMAIN grid' : grid'[k] = mapRom'[s.off + k - 1]
    BY <2>1 DEF Texts
  <2>3. shape' = ReadMap(mapRom', shownAt')
    BY <2>1 DEF s
  <2> QED  BY <2>1, <2>2, <2>3 DEF GridInStep
<1> QED  BY <1>1, <1>2

\* A grid whose cells were written stays in step: the two dimensions are in none of them.
LEMMA WrittenInStep ==
  ASSUME EditorInv, GridInStep, UNCHANGED <<shownAt, shape, inStep, crashed>>,
         mapRom' \in MapRomType,
         \A i \in 1..MapSize : i < shape.off => mapRom'[i] = mapRom[i],
         inStep /\ Running => \A k \in DOMAIN grid' \ typedAt' : grid'[k] = mapRom'[shape.off + k - 1]
  PROVE  GridInStep'
<1> SUFFICES ASSUME Running, inStep, shape.nx > 0
             PROVE  shape = ReadMap(mapRom', shownAt)
  BY DEF GridInStep, Running
<1>1. shape = ReadMap(mapRom, shownAt) /\ shownAt \in Nat \ {0} /\ shape # NoShape
  BY EditorAssumption DEF GridInStep, EditorInv, NoShape
<1>2. /\ mapRom \in MapRomType /\ Len(mapRom) = MapSize /\ MapSize \in Nat
      /\ shownAt + 1 <= Len(mapRom) /\ shape.off = shownAt + 2
  BY <1>1, EditorAssumption DEF EditorInv, MapRomType, ReadMap
<1>3. shownAt \in 1..MapSize /\ shownAt + 1 \in 1..MapSize
      /\ shownAt < shape.off /\ shownAt + 1 < shape.off
  BY <1>1, <1>2
<1>4. mapRom'[shownAt] = mapRom[shownAt] /\ mapRom'[shownAt + 1] = mapRom[shownAt + 1]
  BY <1>3
<1> QED  BY <1>1, <1>2, <1>4, ReadAgain

\* A grid that nothing touched.
LEMMA UntouchedInStep ==
  ASSUME GridInStep, UNCHANGED <<mapRom, shownAt, shape, grid, typedAt, inStep, crashed>>
  PROVE  GridInStep'
BY DEF GridInStep, Running, ReadMap

LEMMA WriteInStep ==
  ASSUME EditorInv, EditorInv', GridInStep, NEW want, DOMAIN want \subseteq MapCells(shape),
         WriteCells(want)
  PROVE  GridInStep'
<1> DEFINE done == {k \in DOMAIN want : shape.off + k - 1 <= Len(mapRom)}
<1>1. /\ mapRom' = [i \in DOMAIN mapRom |->
            IF i - shape.off + 1 \in done THEN Clamp(want[i - shape.off + 1]) ELSE mapRom[i]]
      /\ grid' = [k \in DOMAIN grid |-> IF k \in done THEN Clamp(want[k]) ELSE grid[k]]
      /\ typedAt' = typedAt \ done
      /\ UNCHANGED <<shownAt, shape, inStep, crashed>>
  BY DEF WriteCells
<1>2. /\ mapRom' \in MapRomType /\ DOMAIN mapRom = 1..MapSize /\ Len(mapRom) = MapSize
      /\ shape.off \in Nat /\ MapCells(shape) \subseteq Nat \ {0} /\ DOMAIN grid = MapCells(shape)
  <2>1. /\ mapRom' \in MapRomType /\ mapRom \in MapRomType /\ shape \in Shapes
        /\ DOMAIN grid = MapCells(shape)
    BY DEF EditorInv
  <2>2. shape.off \in Nat /\ MapCells(shape) \subseteq Nat \ {0}
    BY <2>1, CellsAre DEF Shapes
  <2> QED  BY <2>1, <2>2, EditorAssumption DEF MapRomType
<1>3. done \subseteq MapCells(shape) /\ \A k \in done : shape.off + k - 1 <= MapSize
  BY <1>2
<1> HIDE DEF done
<1>4. \A i \in 1..MapSize : i < shape.off => mapRom'[i] = mapRom[i]
  <2>1. ASSUME NEW i \in 1..MapSize, i < shape.off PROVE i - shape.off + 1 \notin done
    BY <1>2, <1>3, <2>1
  <2> QED  BY <1>1, <1>2, <2>1
<1>5. ASSUME inStep, Running, NEW k \in DOMAIN grid' \ typedAt'
      PROVE  grid'[k] = mapRom'[shape.off + k - 1]
  <2> DEFINE at == shape.off + k - 1
  <2>1. k \in MapCells(shape) /\ k \in Nat \ {0} /\ shape.nx > 0
    <3>1. k \in MapCells(shape)
      BY <1>1, <1>2, <1>5
    <3>2. shape \in Shapes /\ shape.nx \in Nat
      BY DEF EditorInv, Shapes
    <3>3. shape.nx # 0
      BY <3>1, <3>2, CellsAre
    <3> QED  BY <1>2, <3>1, <3>2, <3>3
  <2>2. shape = ReadMap(mapRom, shownAt) /\ at \in 1..MapSize
    <3>1. shape = ReadMap(mapRom, shownAt) /\ mapRom \in MapRomType /\ shownAt \in Nat \ {0}
      BY <1>5, <2>1, EditorAssumption DEF GridInStep, EditorInv
    <3> QED  BY <2>1, <3>1, ReadMapIs
  <2>3. at - shape.off + 1 = k
    BY <1>2, <2>1
  <2>4. CASE k \in done
    BY <1>1, <1>2, <2>1, <2>2, <2>3, <2>4
  <2>5. CASE k \notin done
    <3>1. k \notin typedAt
      BY <1>1, <1>5, <2>5
    <3>2. grid[k] = mapRom[at]
      BY <1>2, <1>5, <2>1, <3>1 DEF GridInStep
    <3> QED  BY <1>1, <1>2, <2>1, <2>2, <2>3, <2>5, <3>2
  <2> QED  BY <2>4, <2>5
<1> QED  BY <1>1, <1>2, <1>4, <1>5, WrittenInStep

LEMMA CellInStep == ASSUME EditorInv, EditorInv', GridInStep, OnCellChanged PROVE GridInStep'
<1>1. PICK k \in MapCells(shape), v \in Typed :
       LET at == shape.off + k - 1
           written == v # Bad /\ at <= Len(mapRom)
           again == written /\ Clamp(v) # Wrap(v)
       IN /\ mapRom' = IF written THEN [mapRom EXCEPT ![at] = Clamp(v)] ELSE mapRom
          /\ grid' = [grid EXCEPT ![k] = IF again THEN Clamp(v) ELSE v]
          /\ typedAt' = IF again THEN typedAt \ {k} ELSE typedAt \cup {k}
          /\ unsaved' = (unsaved \/ written)
  BY DEF OnCellChanged
<1> DEFINE at == shape.off + k - 1
<1>2. UNCHANGED <<shownAt, shape, inStep, crashed>>
  BY DEF OnCellChanged
<1>3. /\ mapRom' \in MapRomType /\ mapRom \in MapRomType /\ shape \in Shapes /\ shape.off \in Nat
      /\ MapCells(shape) \subseteq Nat \ {0} /\ DOMAIN grid = MapCells(shape)
  BY CellsAre DEF EditorInv, Shapes
<1>4. \A i \in 1..MapSize : i # at => mapRom'[i] = mapRom[i]
  BY <1>1
<1>5. \A l \in MapCells(shape) : l # k => grid'[l] = grid[l] /\ shape.off + l - 1 # at
  BY <1>1, <1>3
<1>6. at >= shape.off /\ at \in Nat
  BY <1>3
<1> HIDE DEF at
<1>7. ASSUME inStep, Running, NEW l \in DOMAIN grid' \ typedAt'
      PROVE  grid'[l] = mapRom'[shape.off + l - 1]
  <2>1. l \in MapCells(shape) /\ DOMAIN grid' = DOMAIN grid
    BY <1>1, <1>3, <1>7
  <2>2. shape.nx # 0 /\ shape.nx \in Nat
    BY <1>3, <2>1, CellsAre DEF Shapes
  <2>3. shape = ReadMap(mapRom, shownAt) /\ shownAt \in Nat \ {0}
    BY <1>7, <2>2, EditorAssumption DEF GridInStep, EditorInv
  <2>4. shape.off + l - 1 \in 1..MapSize
    BY <1>3, <2>1, <2>3, ReadMapIs
  <2>5. CASE l = k
    <3>1. /\ at <= Len(mapRom) /\ v # Bad /\ Clamp(v) # Wrap(v)
          /\ mapRom' = [mapRom EXCEPT ![at] = Clamp(v)] /\ grid' = [grid EXCEPT ![k] = Clamp(v)]
      BY <1>1, <1>7, <2>5 DEF at
    <3>2. DOMAIN mapRom = 1..MapSize
      BY <1>3 DEF MapRomType
    <3>3. shape.off + l - 1 = at
      BY <2>5 DEF at
    <3> QED  BY <1>3, <2>1, <2>4, <2>5, <3>1, <3>2, <3>3
  <2>6. CASE l # k
    <3>1. l \notin typedAt
      BY <1>1, <1>7, <2>6
    <3>2. grid[l] = mapRom[shape.off + l - 1]
      BY <1>3, <1>7, <2>1, <2>2, <3>1 DEF GridInStep
    <3> QED  BY <1>4, <1>5, <2>1, <2>4, <2>6, <3>2
  <2> QED  BY <2>5, <2>6
<1>8. \A i \in 1..MapSize : i < shape.off => mapRom'[i] = mapRom[i]
  BY <1>3, <1>4, <1>6
<1> QED  BY <1>2, <1>3, <1>7, <1>8, WrittenInStep

\* A percentage on a map that has no cell in the one shown leaves it as it is.
LEMMA PercentInStep ==
  ASSUME EditorInv, EditorInv', GridInStep, RowApart, row # 0, entries[row].at # shownAt,
         mapRom' = Percent(mapRom, entries[row].at), UNCHANGED gridVars
  PROVE  GridInStep'
<1> USE EditorAssumption
<1> DEFINE s == ReadMap(mapRom, entries[row].at)
           area == ShownArea
<1>1. SUFFICES ASSUME Running, inStep, shape.nx > 0 PROVE GridInStep'
  BY DEF GridInStep, Running, gridVars
<1>2. \A i \in area : i - s.off + 1 \notin MapCells(s)
  BY <1>1 DEF RowApart
<1>3. mapRom' = [i \in DOMAIN mapRom |->
                   IF i - s.off + 1 \in MapCells(s) /\ mapRom[i] > 0 THEN Clamp(2 * mapRom[i])
                   ELSE mapRom[i]]
  BY DEF Percent
<1>4. /\ mapRom \in MapRomType /\ mapRom' \in MapRomType /\ shape = ReadMap(mapRom, shownAt)
      /\ shownAt \in Nat \ {0} /\ shape # NoShape
      /\ \A k \in DOMAIN grid \ typedAt : grid[k] = mapRom[shape.off + k - 1]
      /\ DOMAIN grid = MapCells(shape) /\ shape \in Shapes
  <2>1. shape # NoShape
    BY <1>1 DEF NoShape
  <2> QED  BY <1>1, <2>1 DEF GridInStep, EditorInv
<1> HIDE DEF s
<1>5. DOMAIN mapRom = 1..MapSize /\ Len(mapRom) = MapSize /\ MapSize \in Nat
  BY <1>4 DEF MapRomType
<1>6. \A i \in area \cap 1..MapSize : mapRom'[i] = mapRom[i]
  BY <1>2, <1>3, <1>5
<1>7. shape.off = shownAt + 2 /\ shownAt + 1 + shape.nx * shape.ny <= MapSize
      /\ shape.nx * shape.ny \in Nat
  <2>1. /\ shape = [off |-> shownAt + 2, nx |-> mapRom[shownAt], ny |-> mapRom[shownAt + 1]]
        /\ shownAt + 1 + mapRom[shownAt] * mapRom[shownAt + 1] <= Len(mapRom)
    BY <1>4 DEF ReadMap
  <2> QED  BY <1>4, <1>5, <2>1, CellsAre
<1>8. area = shownAt..(shape.off + shape.nx * shape.ny - 1)
  BY DEF ShownArea
<1> DEFINE m == shape.nx * shape.ny
<1>9. MapCells(shape) = 1..m /\ m \in Nat /\ shownAt + 1 + m <= MapSize
  BY <1>7 DEF MapCells
<1>10. area = shownAt..(shownAt + 1 + m)
  BY <1>7, <1>8, <1>9, <1>4
<1> HIDE DEF m, area
<1>11. mapRom'[shownAt] = mapRom[shownAt] /\ mapRom'[shownAt + 1] = mapRom[shownAt + 1]
  <2>1. {shownAt, shownAt + 1} \subseteq area \cap 1..MapSize
    BY <1>4, <1>5, <1>9, <1>10
  <2> QED  BY <1>6, <2>1
<1>12. shape' = ReadMap(mapRom', shownAt')
  <2>1. ReadMap(mapRom', shownAt) = ReadMap(mapRom, shownAt)
    BY <1>4, <1>11, ReadAgain
  <2> QED  BY <1>4, <2>1 DEF gridVars
<1>13. ASSUME NEW k \in MapCells(shape) PROVE mapRom'[shape.off + k - 1] = mapRom[shape.off + k - 1]
  <2>1. k \in 1..m
    BY <1>9
  <2>2. shape.off + k - 1 \in area \cap 1..MapSize
    BY <1>4, <1>5, <1>7, <1>9, <1>10, <2>1
  <2> QED  BY <1>6, <2>2
<1>14. grid' = grid /\ typedAt' = typedAt /\ shape' = shape /\ shownAt' = shownAt
  BY DEF gridVars
<1> QED  BY <1>4, <1>12, <1>13, <1>14 DEF GridInStep

\* A panel whose row is apart changes no map shown but with its cells.
LEMMA GridStep ==
  ASSUME EditorInv, EditorInv', GridInStep, RowApart, [EditorNext]_editorVars
  PROVE  GridInStep'
<1> USE EditorAssumption
<1>1. mapRom' \in MapRomType /\ (shownAt # 0 => shownAt \in Nat \ {0})
  BY DEF EditorInv
<1>2. CASE OpenMapRom
  <2>1. CASE shownAt # 0 /\ ghost
    BY <1>1, <1>2, <2>1, LoadedInStep DEF OpenMapRom
  <2>2. CASE ~(shownAt # 0 /\ ghost)
    BY <1>2, <2>2 DEF OpenMapRom, GridInStep
  <2> QED  BY <2>1, <2>2
<1>3. CASE SaveMapRom
  BY <1>3, UntouchedInStep DEF SaveMapRom, gridVars
<1>4. CASE RefreshMaps
  BY <1>4, UntouchedInStep DEF RefreshMaps, gridVars, docVars
<1>5. CASE SearchMaps
  BY <1>5, UntouchedInStep DEF SearchMaps, gridVars, docVars
<1>6. CASE SelectMap
  <2>1. PICK r \in 1..Len(entries) : row' = r /\ LoadGrid(entries[r].at, r)
    BY <1>6 DEF SelectMap
  <2>2. entries[r].at \in Nat \ {0}
    BY <2>1, EntryAt
  <2> QED  BY <1>1, <2>1, <2>2, LoadedInStep
<1>7. CASE ToggleGhost
  <2>1. CASE shownAt # 0
    BY <1>1, <1>7, <2>1, LoadedInStep DEF ToggleGhost
  <2>2. CASE shownAt = 0
    BY <1>7, <2>2, UntouchedInStep DEF ToggleGhost, gridVars, docVars
  <2> QED  BY <2>1, <2>2
<1>8. CASE PickBaseline
  <2>1. CASE shownAt # 0 /\ ghost
    BY <1>1, <1>8, <2>1, LoadedInStep DEF PickBaseline
  <2>2. CASE ~(shownAt # 0 /\ ghost)
    BY <1>8, <2>2, UntouchedInStep DEF PickBaseline, gridVars
  <2> QED  BY <2>1, <2>2
<1>9. CASE OtherPanel
  BY <1>9 DEF OtherPanel, GridInStep
<1>10. CASE OnCellChanged
  BY <1>10, CellInStep
<1>11. CASE OpSet
  <2>1. PICK s \in Selected, v \in Typed \ {Bad} :
          WriteCells([k \in {k \in s : grid[k] # Bad} |-> Clamp(v)])
    BY <1>11 DEF OpSet
  <2>2. DOMAIN [k \in {k \in s : grid[k] # Bad} |-> Clamp(v)] \subseteq MapCells(shape)
    BY <2>1 DEF Selected
  <2> QED  BY <2>1, <2>2, WriteInStep
<1>12. CASE OpAdd
  <2>1. PICK s \in Selected, d \in Typed \ {Bad} :
          WriteCells([k \in {k \in s : grid[k] # Bad} |-> grid[k] + d])
    BY <1>12 DEF OpAdd
  <2>2. DOMAIN [k \in {k \in s : grid[k] # Bad} |-> grid[k] + d] \subseteq MapCells(shape)
    BY <2>1 DEF Selected
  <2> QED  BY <2>1, <2>2, WriteInStep
<1>13. CASE OpMultiply
  <2>1. PICK s \in Selected : WriteCells([k \in {k \in s : grid[k] # Bad} |-> 2 * grid[k]])
    BY <1>13 DEF OpMultiply
  <2>2. DOMAIN [k \in {k \in s : grid[k] # Bad} |-> 2 * grid[k]] \subseteq MapCells(shape)
    BY <2>1 DEF Selected
  <2> QED  BY <2>1, <2>2, WriteInStep
<1>14. CASE OpInterpolate
  <2> DEFINE peers(s, k) == {l \in s : CellRow(l) = CellRow(k)}
             first(s, k) == Min(peers(s, k))
             last(s, k) == Max(peers(s, k))
             n(s, k) == last(s, k) - first(s, k)
             want(s, k) == Rounded(Number(grid[first(s, k)]) * n(s, k)
                             + (Number(grid[last(s, k)]) - Number(grid[first(s, k)]))
                                 * (k - first(s, k)), n(s, k))
             wanted(s) == [k \in {k \in s : Cardinality(peers(s, k)) >= 3} |-> want(s, k)]
  <2>1. PICK s \in Selected : WriteCells(wanted(s))
    BY <1>14 DEF OpInterpolate
  <2>2. DOMAIN wanted(s) \subseteq MapCells(shape)
    BY <2>1 DEF Selected
  <2> HIDE DEF wanted
  <2> QED  BY <2>1, <2>2, WriteInStep
<1>15. CASE OpSmooth
  <2>1. PICK want : WriteCells(want) /\ DOMAIN want \subseteq MapCells(shape)
    BY <1>15 DEF OpSmooth, Selected
  <2> QED  BY <2>1, WriteInStep
<1>16. CASE PasteRegionTsv
  <2>1. PICK want : WriteCells(want) /\ DOMAIN want \subseteq MapCells(shape)
    BY <1>16 DEF PasteRegionTsv
  <2> QED  BY <2>1, WriteInStep
<1>17. CASE ApplyPercent
  <2>1. row # 0 /\ mapRom' = Percent(mapRom, entries[row].at)
    BY <1>17 DEF ApplyPercent
  <2>2. CASE entries[row].at = shownAt
    <3>1. Len(entries) \in Nat /\ row \in 0..Len(entries)
      BY DEF EditorInv, MapEntries
    <3>2. row \in 1..Len(entries)
      BY <2>1, <3>1
    <3>3. shownAt # 0 /\ LoadGrid(shownAt, row)
      BY <1>17, <2>2, <3>2, EntryAt DEF ApplyPercent
    <3> QED  BY <1>1, <3>3, LoadedInStep
  <2>3. CASE entries[row].at # shownAt
    <3>1. UNCHANGED gridVars
      BY <1>17, <2>3 DEF ApplyPercent
    <3> QED  BY <2>1, <2>3, <3>1, PercentInStep
  <2> QED  BY <2>2, <2>3
<1>18. CASE ApplyFullStage1
  <2>1. CASE shownAt # 0 /\ shape.nx > 0
    BY <1>1, <1>18, <2>1, LoadedInStep DEF ApplyFullStage1
  <2>2. CASE ~(shownAt # 0 /\ shape.nx > 0)
    <3>1. shape' = shape /\ shownAt' = shownAt
      BY <1>18, <2>2 DEF ApplyFullStage1, gridVars
    <3>2. ~(shape.nx > 0 /\ inStep /\ Running)
      BY <2>2 DEF GridInStep, EditorInv, ReadMap, NoShape
    <3>3. inStep' = inStep /\ crashed' = crashed
      BY <1>18, <2>2 DEF ApplyFullStage1, gridVars
    <3> QED  BY <3>1, <3>2, <3>3 DEF GridInStep, Running
  <2> QED  BY <2>1, <2>2
<1>19. CASE UNCHANGED editorVars
  BY <1>19, UntouchedInStep DEF editorVars, gridVars, docVars
<1> QED
  BY <1>2, <1>3, <1>4, <1>5, <1>6, <1>7, <1>8, <1>9, <1>10, <1>11, <1>12, <1>13, <1>14, <1>15,
     <1>16, <1>17, <1>18, <1>19 DEF EditorNext

\* Selecting a map that can be read shows it, and nothing else shows another.
LEMMA RowStep ==
  ASSUME EditorInv, RowShown, RowReads', [EditorNext]_editorVars
  PROVE  RowShown'
<1>1. CASE OpenMapRom \/ RefreshMaps \/ SearchMaps
  BY <1>1 DEF OpenMapRom, RefreshMaps, SearchMaps, RowShown
<1>2. CASE SelectMap
  <2>1. PICK r \in 1..Len(entries) : row' = r /\ LoadGrid(entries[r].at, r)
    BY <1>2 DEF SelectMap
  <2>2. entries' = entries /\ r # 0
    BY <1>2, <2>1 DEF SelectMap, EditorInv
  <2>3. ReadMap(mapRom', entries[r].at) # NoShape
    BY <2>1, <2>2 DEF RowReads
  <2> QED  BY <2>1, <2>2, <2>3, LoadShows DEF RowShown
<1>3. ASSUME UNCHANGED listVars, shownAt' = shownAt PROVE RowShown'
  BY <1>3 DEF listVars, RowShown
<1>4. CASE ToggleGhost \/ PickBaseline \/ ApplyFullStage1
  BY <1>3, <1>4, LoadShows DEF ToggleGhost, PickBaseline, ApplyFullStage1, gridVars
<1>5. CASE ApplyPercent
  <2>1. UNCHANGED listVars /\ (LoadGrid(shownAt, row) \/ shownAt' = shownAt)
    BY <1>5 DEF ApplyPercent, gridVars
  <2> QED  BY <1>3, <2>1, LoadShows
<1>6. CASE \/ SaveMapRom \/ OtherPanel \/ OnCellChanged \/ OpSet \/ OpAdd \/ OpMultiply
           \/ OpInterpolate \/ OpSmooth \/ PasteRegionTsv \/ UNCHANGED editorVars
  BY <1>3, <1>6 DEF SaveMapRom, OtherPanel, OnCellChanged, OpSet, OpAdd, OpMultiply,
     OpInterpolate, OpSmooth, PasteRegionTsv, WriteCells, gridVars, listVars, editorVars
<1> QED  BY <1>1, <1>2, <1>4, <1>5, <1>6 DEF EditorNext

\* A grid of no cells is in step, and no row is selected before the first one is.
LEMMA GridBegins == EditorInit => GridInStep /\ RowShown
BY DEF EditorInit, GridInStep, RowShown, NoShape

\* As long as the map of the row is the one that is shown, or has no cell in it, every operation
\* of the panel that writes cells or whole maps leaves the grid with what the ROM holds, and
\* where the ROM holds it.
THEOREM GridStaysInStep == EditorSpec /\ []RowApart => []GridInStep
<1>1. EditorInv /\ [EditorNext]_editorVars => EditorInv'
  BY EditorStep
<1>2. EditorInv /\ EditorInv' /\ GridInStep /\ RowApart /\ [EditorNext]_editorVars => GridInStep'
  BY GridStep
<1> QED  BY EditorBegins, GridBegins, <1>1, <1>2, PTL DEF EditorSpec

\* A panel whose user selects maps that can be read shows the map of its row, and is in step
\* whatever maps overlap.
THEOREM ReadableInStep == EditorSpec /\ []RowReads => []GridInStep
<1>1. EditorInv /\ [EditorNext]_editorVars => EditorInv'
  BY EditorStep
<1>2. EditorInv /\ RowShown /\ RowReads' /\ [EditorNext]_editorVars => RowShown'
  BY RowStep
<1>3. RowShown => RowApart
  BY DEF RowShown, RowApart
<1> QED  BY EditorBegins, GridBegins, GridStaysInStep, <1>1, <1>2, <1>3, PTL DEF EditorSpec

-----------------------------------------------------------------------------
(* The projects.                                                           *)

(* The projects of ECU Studio: the original of a project, its slots and the copies beside files
   are never written over, whatever write fails, is cut, or is the last before the end of the
   program.  An operation changes at most one project: what it may do to it is `Fair`. *)

Project == [given : BOOLEAN, ecu : Ecus \cup {Missing, Cut}, hasRom : BOOLEAN,
            rom : Files, original : Files, roms : [Slugs -> Files]]
FileOutside == [rom : Files, orig : Files]
Document == [rom : Files, home : Projects0 \cup DiskFiles \cup {Nowhere},
             managed : BOOLEAN, edited : BOOLEAN]
WriteEnd(n) == [at : 1..(n + 1), how : {"refused", "full", "ended", "whole"}]

\* What its metadata says of a project's ROM is so.
HasItsRom(d) == d.ecu \in Ecus /\ d.hasRom => d.rom # Missing /\ d.original # Missing

\* No file of project d that is kept as it was is another in r, unless the project is gone.
KeepsDumps(d, r) ==
  r.ecu # Missing =>
    /\ d.original # Missing => r.original = d.original
    /\ \A s \in Slugs : d.roms[s] # Missing => r.roms[s] = d.roms[s]

Fair(d, r) == r \in Project /\ KeepsDumps(d, r) /\ (HasItsRom(d) => HasItsRom(r))

ProjectsInv ==
  /\ projects \in [Projects0 -> Project] /\ elsewhere \in [DiskFiles -> FileOutside]
  /\ doc \in Document /\ fileSteps \in 0..MaxFileSteps
  /\ \A p \in Projects0 : HasItsRom(projects[p])
  /\ listed = {p \in Projects0 : Readable(p)} /\ chosen \in listed \cup {Nowhere}

-----------------------------------------------------------------------------
(* Operators on projects. *)

LEMMA Distinct ==
  /\ Missing # Cut /\ Missing \notin Ecus /\ Cut \notin Ecus /\ Missing \notin ProjectRoms
  /\ ProjectRoms \subseteq Files /\ Missing \in Files /\ Cut \in Files
  /\ Nowhere \notin Projects0 /\ Nowhere \notin DiskFiles
BY ProjectAssumption DEF Missing, Cut, Nowhere, Files

LEMMA EndTyped ==
  ASSUME NEW n \in Nat, NEW end \in WriteEnds(n)
  PROVE  end \in WriteEnd(n) /\ (end.how = "whole" <=> end.at = n + 1)
BY DEF WriteEnds, WriteEnd

LEMMA OnDiskIs ==
  ASSUME NEW end, NEW k, NEW new, NEW old
  PROVE  /\ WrittenBy(end, k, new, old) \in {new, old, Cut}
         /\ end.at > k /\ end.at \in Nat /\ k \in Nat => WrittenBy(end, k, new, old) = new
         /\ end.how # "full" /\ end.at < k /\ end.at \in Nat /\ k \in Nat
            => WrittenBy(end, k, new, old) = old
BY DEF WrittenBy

LEMMA AbsentIsProject == Absent \in Project /\ Absent.ecu = Missing /\ HasItsRom(Absent)
BY Distinct DEF Absent, Project, HasItsRom

LEMMA ImportedFair ==
  ASSUME NEW d \in Project, NEW rom \in Files, rom # Missing, NEW end,
         end.at \in Nat
  PROVE  Fair(d, Imported(d, rom, end)) /\ Imported(d, rom, end).roms = d.roms
<1> DEFINE i == Imported(d, rom, end)
<1>1. /\ i.rom = WrittenBy(end, 1, rom, d.rom)
      /\ i.original = IF d.original = Missing THEN WrittenBy(end, 2, rom, d.original)
                      ELSE d.original
      /\ i.ecu = WrittenBy(end, 3, d.ecu, d.ecu)
      /\ i.hasRom = (d.hasRom \/ (d.ecu \in Ecus /\ end.at > 3))
      /\ i.roms = d.roms /\ i.given = d.given
  BY DEF Imported, Project
<1>2. i.rom \in {rom, d.rom, Cut} /\ (end.at > 3 => i.rom = rom)
  BY <1>1, OnDiskIs
<1>3. i.original \in {rom, d.original, Cut} /\ (d.original # Missing => i.original = d.original)
  BY <1>1, OnDiskIs
<1>4. end.at > 3 => i.original # Missing
  BY <1>1, OnDiskIs
<1>5. i.ecu \in {d.ecu, Cut} /\ (i.ecu \in Ecus => d.ecu = i.ecu)
  BY <1>1, OnDiskIs, Distinct
<1>6. i \in Project
  BY <1>1, <1>2, <1>3, <1>5, Distinct DEF Imported, Project
<1>7. KeepsDumps(d, i)
  BY <1>1, <1>3 DEF KeepsDumps
<1>8. HasItsRom(d) => HasItsRom(i)
  BY <1>1, <1>2, <1>3, <1>4, <1>5, Distinct DEF HasItsRom
<1> QED  BY <1>1, <1>6, <1>7, <1>8 DEF Fair

LEMMA SlotFair ==
  ASSUME NEW d \in Project, NEW s \in Slugs, NEW c \in Files
  PROVE  Fair(d, WithSlot(d, s, c)) /\ WithSlot(d, s, c).ecu = d.ecu
<1> DEFINE free == {t \in Slugs : t >= s /\ d.roms[t] = Missing}
           first == {t \in free : \A v \in free : t <= v}
           u == CHOOSE t \in first : TRUE
           w == [d EXCEPT !.roms[u] = c]
<1>1. CASE first = {}
  BY <1>1 DEF WithSlot, Fair, KeepsDumps
<1>2. CASE first # {}
  <2>1. u \in first
    BY <1>2
  <2>2. WithSlot(d, s, c) = w
    BY <1>2 DEF WithSlot
  <2>3. /\ w \in Project /\ w.ecu = d.ecu /\ w.hasRom = d.hasRom
        /\ w.rom = d.rom /\ w.original = d.original
        /\ \A t \in Slugs : t # u => w.roms[t] = d.roms[t]
    BY DEF Project
  <2>4. \A t \in Slugs : d.roms[t] # Missing => w.roms[t] = d.roms[t]
    BY <2>1, <2>3
  <2> QED  BY <2>2, <2>3, <2>4 DEF Fair, KeepsDumps, HasItsRom
<1> QED  BY <1>1, <1>2

-----------------------------------------------------------------------------
(* Steps of the panel of projects. *)

\* An operation that changes one project fairly keeps them all.
LEMMA OneProject ==
  ASSUME projects \in [Projects0 -> Project], NEW p \in Projects0, NEW r, Fair(projects[p], r),
         \A q \in Projects0 : HasItsRom(projects[q]),
         projects' = [projects EXCEPT ![p] = r]
  PROVE  /\ projects' \in [Projects0 -> Project] /\ projects'[p] = r
         /\ \A q \in Projects0 : q # p => projects'[q] = projects[q]
         /\ \A q \in Projects0 : KeepsDumps(projects[q], projects'[q])
         /\ \A q \in Projects0 : HasItsRom(projects'[q])
<1>1. /\ projects' \in [Projects0 -> Project] /\ projects'[p] = r
      /\ \A q \in Projects0 : q # p => projects'[q] = projects[q]
  BY DEF Fair
<1>2. \A q \in Projects0 : KeepsDumps(projects[q], projects[q])
  BY DEF KeepsDumps
<1> QED  BY <1>1, <1>2 DEF Fair

\* The list after refreshList.
LEMMA Refreshed ==
  ASSUME NEW p, RefreshList(p)
  PROVE  /\ listed' = {q \in Projects0 : Readable(q)'} /\ chosen' \in listed' \cup {Nowhere}
BY DEF RefreshList, OnDisk, Readable

\* The list when it is not made again.
LEMMA Unrefreshed ==
  ASSUME ProjectsInv, NoRefresh,
         \A q \in Projects0 : projects'[q].ecu \in Ecus <=> projects[q].ecu \in Ecus
  PROVE  listed' = {q \in Projects0 : Readable(q)'} /\ chosen' \in listed' \cup {Nowhere}
BY DEF ProjectsInv, NoRefresh, Readable

LEMMA StartsAgainTyped ==
  ASSUME StartsAgain
  PROVE  doc' \in Document /\ RefreshList(Nowhere)
BY Distinct DEF StartsAgain, Document

LEMMA CountTyped == ASSUME ProjectsInv, OneMore PROVE fileSteps' \in 0..MaxFileSteps
BY ProjectAssumption DEF ProjectsInv, OneMore


DumpsAction ==
  /\ \A p \in Projects0 : KeepsDumps(projects[p], projects'[p])
  /\ \A f \in DiskFiles : elsewhere[f].orig # Missing => elsewhere'[f].orig = elsewhere[f].orig

\* An operation on the project p of the panel.
LEMMA OfOneProject ==
  ASSUME ProjectsInv, NEW p \in Projects0, NEW r, Fair(projects[p], r),
         projects' = [projects EXCEPT ![p] = r],
         elsewhere' = elsewhere, fileSteps' \in 0..MaxFileSteps,
         doc' \in Document,
         \/ \E q : RefreshList(q)
         \/ NoRefresh /\ (r.ecu \in Ecus <=> projects[p].ecu \in Ecus)
  PROVE  ProjectsInv' /\ DumpsAction
<1>1. /\ projects' \in [Projects0 -> Project] /\ projects'[p] = r
      /\ \A q \in Projects0 : q # p => projects'[q] = projects[q]
      /\ \A q \in Projects0 : KeepsDumps(projects[q], projects'[q])
      /\ \A q \in Projects0 : HasItsRom(projects'[q])
  BY OneProject DEF ProjectsInv
<1>2. listed' = {q \in Projects0 : Readable(q)'} /\ chosen' \in listed' \cup {Nowhere}
  <2>1. CASE \E q : RefreshList(q)
    BY <2>1, Refreshed
  <2>2. CASE NoRefresh /\ (r.ecu \in Ecus <=> projects[p].ecu \in Ecus)
    <3>1. \A q \in Projects0 : projects'[q].ecu \in Ecus <=> projects[q].ecu \in Ecus
      BY <1>1, <2>2
    <3> QED  BY <2>2, <3>1, Unrefreshed
  <2> QED  BY <2>1, <2>2
<1>3. elsewhere' \in [DiskFiles -> FileOutside] /\ elsewhere' = elsewhere
  BY DEF ProjectsInv
<1>4. ProjectsInv'
  BY <1>1, <1>2, <1>3 DEF ProjectsInv
<1> QED  BY <1>1, <1>3, <1>4 DEF DumpsAction

\* How an operation that makes the list again when it succeeds leaves document and list.
LEMMA EndsWell ==
  ASSUME ProjectsInv, NEW how, NEW done, NEW q,
         IF how = "ended" THEN StartsAgain
         ELSE UNCHANGED doc /\ (IF done THEN RefreshList(q) ELSE NoRefresh)
  PROVE  /\ doc' \in Document
         /\ (\E z : RefreshList(z)) \/ (NoRefresh /\ how # "ended" /\ ~done)
BY StartsAgainTyped DEF ProjectsInv

LEMMA SubmitFormKeeps == ASSUME ProjectsInv, SubmitForm PROVE ProjectsInv' /\ DumpsAction
<1>1. PICK p \in Projects0, e \in Ecus, end \in WriteEnds(1) :
        /\ projects[p] = Absent
        /\ projects' = [projects EXCEPT ![p] = [Absent EXCEPT
             !.given = TRUE, !.ecu = WrittenBy(end, 1, e, Missing)]]
        /\ IF end.how = "ended" THEN StartsAgain
           ELSE UNCHANGED doc /\ (IF Succeeds(end) THEN RefreshList(p) ELSE NoRefresh)
  BY DEF SubmitForm
<1> DEFINE r == [Absent EXCEPT !.given = TRUE, !.ecu = WrittenBy(end, 1, e, Missing)]
<1>2. end \in WriteEnd(1) /\ (end.how = "whole" <=> end.at = 2)
  BY EndTyped
<1>3. r \in Project /\ r.ecu = WrittenBy(end, 1, e, Missing) /\ r.hasRom = FALSE
  BY <1>2, OnDiskIs, Distinct DEF Absent, Project
<1>4. Absent.original = Missing /\ \A s \in Slugs : Absent.roms[s] = Missing
  BY DEF Absent
<1>5. Fair(projects[p], r)
  BY <1>1, <1>3, <1>4 DEF Fair, KeepsDumps, HasItsRom
<1>6. end.how = "refused" => r.ecu = Missing
  BY <1>2, <1>3 DEF WriteEnd, WrittenBy
<1>7. /\ doc' \in Document
      /\ (\E z : RefreshList(z)) \/ (NoRefresh /\ end.how # "ended" /\ ~Succeeds(end))
  BY <1>1, EndsWell
<1>8. end.how # "ended" /\ ~Succeeds(end) => r.ecu \notin Ecus
  BY <1>2, <1>6, Distinct DEF Succeeds, WriteEnd
<1>9. projects[p].ecu \notin Ecus
  BY <1>1, AbsentIsProject, Distinct
<1> QED
  BY <1>1, <1>5, <1>7, <1>8, <1>9, CountTyped, OfOneProject DEF SubmitForm

LEMMA ImportKeeps == ASSUME ProjectsInv, ImportRomFor PROVE ProjectsInv' /\ DumpsAction
<1>1. PICK rom \in ProjectRoms, end \in WriteEnds(3) :
        /\ projects' = [projects EXCEPT ![chosen] = Imported(@, rom, end)]
        /\ IF end.how = "ended" THEN StartsAgain
           ELSE UNCHANGED doc /\ (IF Succeeds(end) THEN RefreshList(chosen) ELSE NoRefresh)
  BY DEF ImportRomFor
<1> DEFINE d == projects[chosen]
           r == Imported(d, rom, end)
<1>2. end \in WriteEnd(3) /\ (end.how = "whole" <=> end.at = 4)
  BY EndTyped
<1>3. d \in Project /\ chosen \in Projects0 /\ rom \in Files /\ rom # Missing
  BY Distinct DEF ImportRomFor, ProjectsInv
<1>4. Fair(d, r)
  BY <1>2, <1>3, ImportedFair DEF WriteEnd
<1>5. r.ecu = WrittenBy(end, 3, d.ecu, d.ecu)
  BY <1>3 DEF Imported, Project
<1>6. end.how = "refused" => r.ecu = d.ecu
  BY <1>2, <1>5 DEF WriteEnd, WrittenBy
<1>7. /\ doc' \in Document
      /\ (\E z : RefreshList(z)) \/ (NoRefresh /\ end.how # "ended" /\ ~Succeeds(end))
  BY <1>1, EndsWell
<1>8. end.how # "ended" /\ ~Succeeds(end) => r.ecu = d.ecu
  BY <1>2, <1>6 DEF Succeeds, WriteEnd
<1>9. projects' = [projects EXCEPT ![chosen] = r]
  BY <1>1
<1> QED
  BY <1>3, <1>4, <1>7, <1>8, <1>9, CountTyped, OfOneProject DEF ImportRomFor

LEMMA SlotKeeps == ASSUME ProjectsInv, AddRomSlotFor PROVE ProjectsInv' /\ DumpsAction
<1>1. PICK rom \in ProjectRoms, s \in Slugs, end \in WriteEnds(1) :
        /\ projects' = [projects EXCEPT ![chosen] =
                          IF end.how = "refused" THEN [@ EXCEPT !.given = TRUE]
                          ELSE [WithSlot(@, s, WrittenBy(end, 1, rom, Missing)) EXCEPT !.given = TRUE]]
        /\ IF end.how = "ended" THEN StartsAgain ELSE UNCHANGED doc /\ NoRefresh
  BY DEF AddRomSlotFor
<1> DEFINE d == projects[chosen]
           w == WithSlot(d, s, WrittenBy(end, 1, rom, Missing))
           r == IF end.how = "refused" THEN [d EXCEPT !.given = TRUE] ELSE [w EXCEPT !.given = TRUE]
<1>2. d \in Project /\ chosen \in Projects0
  BY DEF AddRomSlotFor, ProjectsInv
<1>3. WrittenBy(end, 1, rom, Missing) \in Files
  BY OnDiskIs, Distinct
<1>4. Fair(d, w) /\ w.ecu = d.ecu
  BY <1>2, <1>3, SlotFair
<1>5. Fair(d, d)
  BY <1>2 DEF Fair, KeepsDumps
<1>6. ASSUME NEW x, Fair(d, x), x.ecu = d.ecu
      PROVE  Fair(d, [x EXCEPT !.given = TRUE]) /\ [x EXCEPT !.given = TRUE].ecu = d.ecu
  BY <1>6 DEF Fair, KeepsDumps, HasItsRom, Project
<1>7. Fair(d, r) /\ r.ecu = d.ecu
  BY <1>4, <1>5, <1>6
<1>8. projects' = [projects EXCEPT ![chosen] = r]
  BY <1>1
<1>9. doc' \in Document /\ ((\E z : RefreshList(z)) \/ NoRefresh)
  BY <1>1, StartsAgainTyped DEF ProjectsInv
<1> QED
  BY <1>2, <1>7, <1>8, <1>9, CountTyped, OfOneProject DEF AddRomSlotFor

LEMMA EditKeeps == ASSUME ProjectsInv, EditProject PROVE ProjectsInv' /\ DumpsAction
<1>1. PICK e \in Ecus, end \in WriteEnds(1) :
        /\ projects' = [projects EXCEPT ![chosen].ecu = WrittenBy(end, 1, e, @)]
        /\ IF end.how = "ended" THEN StartsAgain
           ELSE UNCHANGED doc /\ (IF Succeeds(end) THEN RefreshList(chosen) ELSE NoRefresh)
  BY DEF EditProject
<1> DEFINE d == projects[chosen]
           r == [d EXCEPT !.ecu = WrittenBy(end, 1, e, d.ecu)]
<1>2. end \in WriteEnd(1) /\ (end.how = "whole" <=> end.at = 2)
  BY EndTyped
<1>3. d \in Project /\ chosen \in Projects0 /\ d.ecu \in Ecus
  BY DEF EditProject, ProjectsInv, Readable
<1>4. WrittenBy(end, 1, e, d.ecu) \in {e, d.ecu, Cut}
  BY OnDiskIs
<1>5. /\ r \in Project /\ r.ecu = WrittenBy(end, 1, e, d.ecu) /\ r.hasRom = d.hasRom
      /\ r.rom = d.rom /\ r.original = d.original /\ r.roms = d.roms
  BY <1>3, <1>4 DEF Project
<1>6. Fair(d, r)
  BY <1>3, <1>5 DEF Fair, KeepsDumps, HasItsRom
<1>7. end.how = "refused" => r.ecu = d.ecu
  BY <1>2, <1>5 DEF WriteEnd, WrittenBy
<1>8. /\ doc' \in Document
      /\ (\E z : RefreshList(z)) \/ (NoRefresh /\ end.how # "ended" /\ ~Succeeds(end))
  BY <1>1, EndsWell
<1>9. end.how # "ended" /\ ~Succeeds(end) => r.ecu = d.ecu
  BY <1>2, <1>7 DEF Succeeds, WriteEnd
<1>10. projects' = [projects EXCEPT ![chosen] = r]
  BY <1>1, <1>3 DEF ProjectsInv
<1> QED
  BY <1>3, <1>6, <1>8, <1>9, <1>10, CountTyped, OfOneProject DEF EditProject

LEMMA DuplicateKeeps == ASSUME ProjectsInv, DuplicateProject PROVE ProjectsInv' /\ DumpsAction
<1> DEFINE d == projects[chosen]
           new(end) == [Absent EXCEPT !.given = TRUE, !.ecu = WrittenBy(end, 1, d.ecu, Missing)]
           rom(end) == IF d.rom = Missing THEN new(end)
                       ELSE Imported(new(end), d.rom, [end EXCEPT !.at = @ - 1])
           slot(end, s) == IF d.roms[s] = Missing \/ (end.how = "refused" /\ end.at < 5) THEN d.roms[s]
                           ELSE WrittenBy(end, 5, d.roms[s], Missing)
           created(end) == end.at > 1 \/ end.how = "full"
           full(end) == [rom(end) EXCEPT !.roms = [s \in Slugs |-> slot(end, s)]]
           dup(end) == IF created(end) THEN full(end) ELSE new(end)
<1>1. PICK p \in Projects0, end \in WriteEnds(5) :
        /\ projects[p] = Absent
        /\ projects' = [projects EXCEPT ![p] = dup(end)]
        /\ IF end.how = "ended" THEN StartsAgain
           ELSE UNCHANGED doc /\ (IF created(end) THEN RefreshList(p) ELSE NoRefresh)
  BY DEF DuplicateProject
<1>2. end \in WriteEnd(5) /\ (end.how = "whole" <=> end.at = 6)
  BY EndTyped
<1>3. d \in Project /\ d.ecu \in Ecus
  BY DEF DuplicateProject, ProjectsInv, Readable
<1>4. WrittenBy(end, 1, d.ecu, Missing) \in {d.ecu, Missing, Cut}
  BY OnDiskIs
<1>5. /\ new(end) \in Project /\ new(end).ecu = WrittenBy(end, 1, d.ecu, Missing)
      /\ new(end).hasRom = FALSE
  BY <1>3, <1>4, Distinct DEF Absent, Project
<1>6. rom(end) \in Project /\ HasItsRom(rom(end))
  <2>1. CASE d.rom = Missing
    BY <1>5, <2>1 DEF HasItsRom
  <2>2. CASE d.rom # Missing
    <3> DEFINE earlier == [end EXCEPT !.at = @ - 1]
    <3>1. earlier.at \in Nat
      BY <1>2 DEF WriteEnd
    <3>2. d.rom \in Files /\ HasItsRom(new(end))
      BY <1>3, <1>5 DEF Project, HasItsRom
    <3>3. Fair(new(end), Imported(new(end), d.rom, earlier))
      <4> HIDE DEF new, earlier
      <4> QED  BY <1>5, <2>2, <3>1, <3>2, ImportedFair
    <3> QED  BY <2>2, <3>2, <3>3 DEF Fair
  <2> QED  BY <2>1, <2>2
<1>7. \A s \in Slugs : slot(end, s) \in Files
  <2>1. \A s \in Slugs : d.roms[s] \in Files
    BY <1>3 DEF Project
  <2> QED  BY <2>1, OnDiskIs, Distinct
<1>8. full(end) \in Project /\ HasItsRom(full(end))
  <2>1. [s \in Slugs |-> slot(end, s)] \in [Slugs -> Files]
    BY <1>7
  <2> HIDE DEF rom, slot
  <2> QED  BY <1>6, <2>1 DEF Project, HasItsRom
<1>9. dup(end) \in Project /\ HasItsRom(dup(end))
  <2>1. HasItsRom(new(end))
    BY <1>5 DEF HasItsRom
  <2> HIDE DEF full, new
  <2> QED  BY <1>5, <1>8, <2>1
<1>10. Fair(projects[p], dup(end))
  <2>1. Absent.original = Missing /\ \A s \in Slugs : Absent.roms[s] = Missing
    BY DEF Absent
  <2> HIDE DEF dup
  <2> QED  BY <1>1, <1>9, <2>1 DEF Fair, KeepsDumps
<1>11. ~created(end) /\ end.how # "ended" => dup(end).ecu = Missing
  <2>1. ~created(end) /\ end.how # "ended" => new(end).ecu = Missing
    BY <1>2, <1>5 DEF WriteEnd, WrittenBy
  <2> HIDE DEF new, full, created
  <2> QED  BY <2>1
<1>12. /\ doc' \in Document
       /\ (\E z : RefreshList(z)) \/ (NoRefresh /\ end.how # "ended" /\ ~created(end))
  <2> HIDE DEF created
  <2> QED  BY <1>1, EndsWell
<1>13. projects[p].ecu \notin Ecus
  BY <1>1, AbsentIsProject, Distinct
<1> HIDE DEF dup, created
<1> QED
  BY <1>1, <1>10, <1>11, <1>12, <1>13, Distinct, CountTyped, OfOneProject DEF DuplicateProject

LEMMA DeleteKeeps == ASSUME ProjectsInv, DeleteProject PROVE ProjectsInv' /\ DumpsAction
<1> DEFINE r == [Absent EXCEPT !.given = TRUE]
<1>1. r \in Project /\ r.ecu = Missing
  BY Distinct DEF Absent, Project
<1>2. Fair(projects[chosen], r)
  BY <1>1, Distinct DEF Fair, KeepsDumps, HasItsRom
<1>3. chosen \in Projects0 /\ projects' = [projects EXCEPT ![chosen] = r]
      /\ RefreshList(Nowhere) /\ elsewhere' = elsewhere /\ doc' \in Document
  BY DEF DeleteProject, ProjectsInv
<1> QED  BY <1>1, <1>2, <1>3, CountTyped, OfOneProject DEF DeleteProject

-----------------------------------------------------------------------------
(* The document. *)

\* A step that leaves projects and files alone.
LEMMA FilesUntouched ==
  ASSUME ProjectsInv, UNCHANGED <<projects, elsewhere, listed>>, chosen' \in listed \cup {Nowhere},
         doc' \in Document, fileSteps' \in 0..MaxFileSteps
  PROVE  ProjectsInv' /\ DumpsAction
BY DEF ProjectsInv, DumpsAction, KeepsDumps, Readable

\* saveToFile writes the ROM of a project, or a file outside, and no copy.
LEMMA SaveKeeps ==
  ASSUME ProjectsInv, NEW where, SaveAt(where), doc.rom # Missing,
         doc' \in Document, fileSteps' \in 0..MaxFileSteps
  PROVE  ProjectsInv' /\ DumpsAction
<1>1. PICK w \in {doc.rom, Cut} :
        \/ /\ where \in Projects0 /\ projects[where].ecu # Missing
           /\ projects' = [projects EXCEPT ![where].rom = w] /\ UNCHANGED elsewhere
        \/ /\ where \in DiskFiles
           /\ elsewhere' = [elsewhere EXCEPT ![where].rom = w] /\ UNCHANGED projects
  BY DEF SaveAt
<1>2. w \in Files /\ w # Missing
  BY <1>1, Distinct DEF ProjectsInv, Document
<1>3. CASE where \in Projects0 /\ projects' = [projects EXCEPT ![where].rom = w] /\ UNCHANGED elsewhere
  <2> DEFINE d == projects[where]
             r == [d EXCEPT !.rom = w]
  <2>1. d \in Project
    BY <1>3 DEF ProjectsInv
  <2>2. /\ r \in Project /\ r.ecu = d.ecu /\ r.hasRom = d.hasRom
        /\ r.rom = w /\ r.original = d.original /\ r.roms = d.roms
    BY <1>2, <2>1 DEF Project
  <2>3. Fair(d, r)
    BY <1>2, <2>2 DEF Fair, KeepsDumps, HasItsRom
  <2>4. projects' = [projects EXCEPT ![where] = r]
    BY <1>3 DEF ProjectsInv
  <2>5. NoRefresh
    BY DEF SaveAt, NoRefresh
  <2> QED  BY <1>3, <2>2, <2>3, <2>4, <2>5, OfOneProject
<1>4. CASE where \in DiskFiles /\ elsewhere' = [elsewhere EXCEPT ![where].rom = w] /\ UNCHANGED projects
  <2>1. /\ elsewhere' \in [DiskFiles -> FileOutside]
        /\ \A f \in DiskFiles : elsewhere'[f].orig = elsewhere[f].orig
    BY <1>2, <1>4 DEF ProjectsInv, FileOutside
  <2>2. UNCHANGED <<listed, chosen, projects>>
    BY <1>4 DEF SaveAt
  <2> QED  BY <2>1, <2>2 DEF ProjectsInv, DumpsAction, KeepsDumps, Readable
<1> QED  BY <1>1, <1>3, <1>4

LEMMA OpenRomKeeps == ASSUME ProjectsInv, OpenRom PROVE ProjectsInv' /\ DumpsAction
<1> DEFINE o(f) == elsewhere[f]
           copy(f, end) == IF o(f).orig # Missing THEN o(f).orig
                           ELSE IF end.how = "full" THEN Missing
                           ELSE WrittenBy(end, 1, o(f).rom, Missing)
<1>1. PICK f \in DiskFiles, end \in WriteEnds(1) :
        /\ elsewhere' = [elsewhere EXCEPT ![f].orig = copy(f, end)]
        /\ IF end.how = "ended" /\ o(f).orig = Missing THEN UNCHANGED projects /\ StartsAgain
           ELSE /\ doc' = [rom |-> o(f).rom, home |-> f, managed |-> FALSE, edited |-> FALSE]
                /\ UNCHANGED projects /\ NoRefresh
  BY DEF OpenRom
<1>2. o(f) \in FileOutside
  BY DEF ProjectsInv
<1>3. copy(f, end) \in Files /\ (o(f).orig # Missing => copy(f, end) = o(f).orig)
  BY <1>2, OnDiskIs, Distinct DEF FileOutside
<1>4. /\ elsewhere' \in [DiskFiles -> FileOutside]
      /\ \A g \in DiskFiles : elsewhere[g].orig # Missing => elsewhere'[g].orig = elsewhere[g].orig
  <2> HIDE DEF copy
  <2> QED  BY <1>1, <1>3 DEF ProjectsInv, FileOutside
<1>5. projects' = projects /\ doc' \in Document
  <2>1. CASE end.how = "ended" /\ o(f).orig = Missing
    BY <1>1, <2>1, StartsAgainTyped
  <2>2. CASE ~(end.how = "ended" /\ o(f).orig = Missing)
    <3>1. /\ doc' = [rom |-> o(f).rom, home |-> f, managed |-> FALSE, edited |-> FALSE]
          /\ projects' = projects
      BY <1>1, <2>2
    <3>2. o(f).rom \in Files /\ f \in Projects0 \cup DiskFiles \cup {Nowhere}
      BY <1>2 DEF FileOutside
    <3> HIDE DEF o
    <3> QED  BY <3>1, <3>2 DEF Document
  <2> QED  BY <2>1, <2>2
<1>6. listed' = {q \in Projects0 : Readable(q)'} /\ chosen' \in listed' \cup {Nowhere}
  <2>1. CASE end.how = "ended" /\ o(f).orig = Missing
    BY <1>1, <2>1, StartsAgainTyped, Refreshed
  <2>2. CASE ~(end.how = "ended" /\ o(f).orig = Missing)
    BY <1>1, <1>5, <2>2, Unrefreshed
  <2> QED  BY <2>1, <2>2
<1>7. fileSteps' \in 0..MaxFileSteps
  BY CountTyped DEF OpenRom
<1> QED  BY <1>4, <1>5, <1>6, <1>7 DEF ProjectsInv, DumpsAction, KeepsDumps

LEMMA StepKeepsDumps ==
  ASSUME ProjectsInv, [ProjectsNext]_projectVars
  PROVE  ProjectsInv' /\ DumpsAction
<1>1. CASE SelectProject
  <2>1. UNCHANGED <<projects, elsewhere, listed, doc, fileSteps>> /\ chosen' \in listed
    BY <1>1 DEF SelectProject
  <2> QED  BY <2>1, FilesUntouched DEF ProjectsInv
<1>2. CASE OpenProjectById
  <2>1. PICK p \in listed : doc' = [rom |-> projects[p].rom, home |-> p, managed |-> TRUE, edited |-> FALSE]
    BY <1>2 DEF OpenProjectById
  <2>2. doc' \in Document
    BY <2>1 DEF ProjectsInv, Document, Project
  <2> QED  BY <1>2, <2>2, FilesUntouched DEF OpenProjectById, ProjectsInv
<1>3. CASE EditRom
  <2>1. PICK rom \in ProjectRoms : doc' = [doc EXCEPT !.rom = rom, !.edited = TRUE]
    BY <1>3 DEF EditRom
  <2>2. doc' \in Document
    BY <2>1, Distinct DEF ProjectsInv, Document
  <2> QED  BY <1>3, <2>2, CountTyped, FilesUntouched DEF EditRom, ProjectsInv
<1>4. CASE AutoSave
  <2>1. doc' = [doc EXCEPT !.edited = FALSE] /\ SaveAt(doc.home) /\ doc.rom # Missing
    BY <1>4 DEF AutoSave
  <2>2. doc' \in Document
    BY <2>1 DEF ProjectsInv, Document
  <2> QED  BY <1>4, <2>1, <2>2, CountTyped, SaveKeeps DEF AutoSave
<1>5. CASE SaveRomAs
  <2>1. PICK where \in DiskFiles \cup {doc.home} :
          SaveAt(where) /\ doc' = [doc EXCEPT !.home = where, !.edited = FALSE]
    BY <1>5 DEF SaveRomAs
  <2>3. where \in Projects0 \cup DiskFiles \cup {Nowhere}
    BY DEF ProjectsInv, Document
  <2>2. doc' \in Document
    BY <2>1, <2>3 DEF ProjectsInv, Document
  <2> QED  BY <1>5, <2>1, <2>2, CountTyped, SaveKeeps DEF SaveRomAs
<1>6. CASE UNCHANGED projectVars
  BY <1>6, FilesUntouched DEF projectVars, ProjectsInv
<1> QED
  BY <1>1, <1>2, <1>3, <1>4, <1>5, <1>6, SubmitFormKeeps, ImportKeeps, SlotKeeps, EditKeeps,
     DuplicateKeeps, DeleteKeeps, OpenRomKeeps
  DEF ProjectsNext

-----------------------------------------------------------------------------
(* The theorems on projects. *)

LEMMA ProjectsBegin == ProjectsInit => ProjectsInv
<1> SUFFICES ASSUME ProjectsInit PROVE ProjectsInv
  OBVIOUS
<1>1. projects \in [Projects0 -> Project] /\ \A p \in Projects0 : projects[p] = Absent
  BY AbsentIsProject DEF ProjectsInit
<1>2. elsewhere \in [DiskFiles -> FileOutside]
  BY Distinct DEF ProjectsInit, FileOutside
<1>3. doc \in Document
  BY Distinct DEF ProjectsInit, Document
<1>4. \A p \in Projects0 : HasItsRom(projects[p]) /\ ~Readable(p)
  BY <1>1, AbsentIsProject, Distinct DEF Readable
<1>5. fileSteps \in 0..MaxFileSteps
  BY ProjectAssumption DEF ProjectsInit
<1> QED  BY <1>1, <1>2, <1>3, <1>4, <1>5 DEF ProjectsInit, ProjectsInv

LEMMA ProjectsInductive == ProjectsSpec => []ProjectsInv
<1>1. ProjectsInv /\ [ProjectsNext]_projectVars => ProjectsInv'
  BY StepKeepsDumps
<1> QED  BY ProjectsBegin, <1>1, PTL DEF ProjectsSpec

\* Every operation of the panel and of the document keeps metadata, files and list in their
\* ranges: a file is a ROM, a part of one or missing, and what is selected is listed.
THEOREM ProjectsTyped == ProjectsSpec => []ProjectsTypeOK
<1>1. ProjectsInv => ProjectsTypeOK
  <2> SUFFICES ASSUME ProjectsInv PROVE ProjectsTypeOK
    OBVIOUS
  <2>1. ASSUME NEW p \in Projects0
        PROVE  /\ projects[p].ecu \in Ecus \cup {Missing, Cut}
               /\ {projects[p].given, projects[p].hasRom} \subseteq BOOLEAN
               /\ {projects[p].rom, projects[p].original} \cup Range(projects[p].roms) \subseteq Files
    <3>1. projects[p] \in Project
      BY DEF ProjectsInv
    <3> QED  BY <3>1 DEF Project, Range
  <2>2. \A f \in DiskFiles : elsewhere[f].rom \in Files /\ elsewhere[f].orig \in Files
    BY DEF ProjectsInv, FileOutside
  <2> QED  BY <2>1, <2>2 DEF ProjectsInv, ProjectsTypeOK, Document
<1> QED  BY ProjectsInductive, <1>1, PTL

\* ProjectManager::list as the panel shows it: exactly the projects whose metadata can be
\* read, after every operation, whichever of its writes failed, was cut or was the last.
THEOREM ListIsOfDisk == ProjectsSpec => []ListAgrees
<1>1. ProjectsInv => ListAgrees
  BY DEF ProjectsInv, ListAgrees
<1> QED  BY ProjectsInductive, <1>1, PTL

\* importRom and duplicateProject write the metadata last: a project that says it has a ROM
\* has one, and the copy of its original, wherever they were stopped.
THEOREM RomIsThere == ProjectsSpec => []RomOfMeta
<1>1. ProjectsInv => RomOfMeta
  BY DEF ProjectsInv, RomOfMeta, HasItsRom, Readable
<1> QED  BY ProjectsInductive, <1>1, PTL

\* No operation of ProjectManager or of the document writes over the original of a project,
\* over a slot, or over the copy beside a file outside.
THEOREM DumpsAreKept == ProjectsSpec => DumpsKept
<1>1. ProjectsInv /\ [ProjectsNext]_projectVars => [DumpsAction]_projectVars
  BY StepKeepsDumps
<1>2. DumpsAction =>
        /\ \A p \in Projects0 : projects'[p].ecu # Missing =>
             /\ projects[p].original # Missing => projects'[p].original = projects[p].original
             /\ \A s \in Slugs : projects[p].roms[s] # Missing => projects'[p].roms[s] = projects[p].roms[s]
        /\ \A f \in DiskFiles : elsewhere[f].orig # Missing => elsewhere'[f].orig = elsewhere[f].orig
  BY DEF DumpsAction, KeepsDumps
<1> QED  BY ProjectsInductive, <1>1, <1>2, PTL DEF ProjectsSpec, DumpsKept

-----------------------------------------------------------------------------
(* Relocation.                                                             *)

\* A total goes through its numbers.
LEMMA TotalRuns ==
  ASSUME NEW s \in Seq(Nat)
  PROVE  \E run \in [0..Len(s) -> Nat] :
           /\ run[0] = 0 /\ run[Len(s)] = Total(s)
           /\ \A i \in 1..Len(s) : run[i] = run[i - 1] + s[i]
<1> DEFINE n == Len(s)
           S == DOMAIN s
           Step == [x \in (1..n) \X Nat |-> x[2] + s[x[1]]]
           It(f) == [t \in SUBSET S |-> IF t = {} THEN 0 ELSE f[t \ {Max(t)}] + s[Max(t)]]
           iter == CHOOSE f : f = It(f)
<1>1. Total(s) = iter[S]
  BY DEF Total, FoldLeft, MapThenFoldSet
<1>2. S = 1..n /\ n \in Nat
  OBVIOUS
<1>3. IsStep(Step, n, Nat) /\ 0 \in Nat
  <2>1. \A i \in 1..n, d \in Nat : d + s[i] \in Nat
    OBVIOUS
  <2> QED  BY <2>1 DEF IsStep
<1>4. PICK f : IsFold(f, n, Nat, 0, Step)
  <2> HIDE DEF n, Step
  <2> QED  BY <1>2, <1>3, FoldExists
<1>5. \A t \in SUBSET (1..n) : t # {} => Max(t) \in 1..n /\ t \ {Max(t)} \in SUBSET (1..n)
  <2> HIDE DEF n
  <2> QED  BY <1>2, MaxIsIn
<1>6. f = It(f)
  <2>1. \A t \in SUBSET S : f[t] = It(f)[t]
    BY <1>2, <1>4, <1>5 DEF IsFold
  <2>2. f \in [SUBSET S -> Nat]
    BY <1>2, <1>4 DEF IsFold
  <2>3. It(f) = [t \in SUBSET S |-> It(f)[t]]
    OBVIOUS
  <2> HIDE DEF It, S
  <2> QED  BY <2>1, <2>2, <2>3
<1> HIDE DEF It
<1>7. iter = It(iter)
  BY <1>6
<1> HIDE DEF iter
<1>8. GoesOn(iter, n, Nat, 0, Step)
  BY <1>2, <1>5, <1>7 DEF It, GoesOn
<1>9. \A i \in 1..n, d \in Nat : Step[<<i, d>>] = d + s[i]
  OBVIOUS
<1> HIDE DEF n, Step
<1>10. Through(iter, n, Nat, 0, Step)
  BY <1>2, <1>3, <1>8, FoldRun
<1>11. PICK run : Runs(run, n, Nat, 0, Step) /\ run[n] = iter[1..n]
  BY <1>10 DEF Through
<1>12. run \in [0..n -> Nat] /\ run[0] = 0 /\ run[n] = Total(s)
  BY <1>1, <1>2, <1>11 DEF Runs
<1>13. \A i \in 1..n : run[i] = run[i - 1] + s[i]
  <2> SUFFICES ASSUME NEW i \in 1..n PROVE run[i] = run[i - 1] + s[i]
    OBVIOUS
  <2>1. run[i - 1] \in Nat
    BY <1>2, <1>12
  <2> QED  BY <1>9, <1>11, <2>1 DEF Runs
<1> QED  BY <1>12, <1>13 DEF n

LEMMA TotalIs ==
  ASSUME NEW s \in Seq(Nat)
  PROVE  /\ Total(s) \in Nat
         /\ Len(s) = 1 => Total(s) = s[1]
         /\ Len(s) = 2 => Total(s) = s[1] + s[2]
<1>1. PICK run \in [0..Len(s) -> Nat] :
           /\ run[0] = 0 /\ run[Len(s)] = Total(s)
           /\ \A i \in 1..Len(s) : run[i] = run[i - 1] + s[i]
  BY TotalRuns
<1>2. Total(s) \in Nat
  BY <1>1
<1>3. ASSUME Len(s) = 1 PROVE Total(s) = s[1]
  <2>1. run[1] = run[0] + s[1] /\ s[1] \in Nat
    BY <1>1, <1>3
  <2> QED  BY <1>1, <1>3, <2>1
<1>4. ASSUME Len(s) = 2 PROVE Total(s) = s[1] + s[2]
  <2>0. \A i \in 1..Len(s) : s[i] \in Nat
    OBVIOUS
  <2>1. s[1] \in Nat /\ s[2] \in Nat
    BY <1>4, <2>0
  <2>2. \A i \in 1..2 : run[i] = run[i - 1] + s[i]
    BY <1>1, <1>4
  <2>3. run[1] = run[0] + s[1] /\ run[2] = run[1] + s[2]
    BY <2>2
  <2> QED  BY <1>1, <1>4, <2>1, <2>3
<1> QED  BY <1>2, <1>3, <1>4

LEMMA Quotient ==
  \A x, b, k \in Nat : b > 0 /\ x <= k * b => x \div b \in 0..k
<1> TAKE x, b, k \in Nat
<1> HAVE b > 0 /\ x <= k * b
<1> DEFINE q == x \div b
<1>1. q \in Int /\ x = b * q + (x % b) /\ 0 <= x % b /\ x % b < b /\ x % b \in Int
  OBVIOUS
<1> HIDE DEF q
<1>2. q >= 0
  <2>1. CASE q < 0
    <3>1. b * q <= b * (-1)
      BY <1>1, <2>1
    <3> QED  BY <1>1, <3>1
  <2> QED  BY <1>1, <2>1
<1>3. q <= k
  <2>1. CASE q >= k + 1
    <3>1. b * q >= b * (k + 1)
      BY <1>1, <2>1
    <3>2. b * (k + 1) = k * b + b
      OBVIOUS
    <3> QED  BY <1>1, <3>1, <3>2
  <2> QED  BY <1>1, <2>1
<1> QED  BY <1>1, <1>2, <1>3 DEF q

LEMMA CountUpTo ==
  ASSUME NEW n \in Nat, NEW T \in SUBSET (1..n)
  PROVE  Cardinality(T) \in 0..n
<1>1. IsFiniteSet(1..n) /\ Cardinality(1..n) = n
  BY FS_Interval
<1>2. Cardinality(T) <= n /\ IsFiniteSet(T)
  BY <1>1, FS_Subset
<1> QED  BY <1>2, FS_CardinalityType

\* However well an axis is found, its score is a percentage.
LEMMA AxisScored ==
  ASSUME NEW actual \in Seq(Int), NEW expected \in Seq(Int)
  PROVE  AxisScore(actual, expected).score \in 0..100
<1> DEFINE n == Len(expected)
           near(a, e) == Abs(a - e) <= Tolerance
           strict == Cardinality({i \in 1..n : near(actual[i], expected[i])})
           bag == Cardinality({i \in 1..n : \E j \in 1..n : near(actual[j], expected[i])})
           err == Total([i \in 1..n |-> Abs(actual[i] - expected[i])])
           sum == Most(1, Total([i \in 1..n |-> Abs(expected[i])]))
           inOrder == (100 * strict * (sum - Least(sum, err))) \div (n * sum)
           asBag == (80 * bag) \div n
<1>1. AxisScore(actual, expected).score \in {0, inOrder, asBag}
      /\ (n = 0 \/ Len(actual) # n => AxisScore(actual, expected).score = 0)
  BY DEF AxisScore, NoMatch
<1>2. n \in Nat
  OBVIOUS
<1>3. strict \in 0..n /\ bag \in 0..n
  BY <1>2, CountUpTo
<1>4. ASSUME n > 0, Len(actual) = n PROVE inOrder \in 0..100 /\ asBag \in 0..100
  <2>1. err \in Nat
    <3>1. [i \in 1..n |-> Abs(actual[i] - expected[i])] \in Seq(Nat)
      BY <1>4 DEF Abs
    <3> QED  BY <3>1, TotalIs
  <2>2. sum \in Nat /\ sum > 0
    <3>1. [i \in 1..n |-> Abs(expected[i])] \in Seq(Nat)
      BY DEF Abs
    <3>2. Total([i \in 1..n |-> Abs(expected[i])]) \in Nat
      BY <3>1, TotalIs
    <3> QED  BY <3>2 DEF Most
  <2> DEFINE left == sum - Least(sum, err)
  <2>3. left \in 0..sum
    BY <2>1, <2>2 DEF Least
  <2> HIDE DEF left, sum, strict, bag, n
  <2>4. strict * left <= n * sum /\ strict * left \in Nat
    <3>1. strict * left <= n * left
      BY <1>2, <1>3, <2>2, <2>3
    <3>2. n * left <= n * sum
      BY <1>2, <2>2, <2>3
    <3> QED  BY SMTT(60), <1>2, <1>3, <2>2, <2>3, <3>1, <3>2
  <2>5. n * sum \in Nat /\ n * sum > 0
    BY <1>2, <1>4, <2>2
  <2>6. 100 * strict * left \in Nat /\ 100 * strict * left <= 100 * (n * sum)
    <3>1. 100 * strict * left = 100 * (strict * left)
      BY <1>2, <1>3, <2>2, <2>3
    <3> DEFINE x == strict * left
               y == n * sum
    <3> HIDE DEF x, y
    <3>2. x \in Nat /\ y \in Nat /\ x <= y => 100 * x \in Nat /\ 100 * x <= 100 * y
      OBVIOUS
    <3> QED  BY <2>4, <2>5, <3>1, <3>2 DEF x, y
  <2>7. inOrder \in 0..100
    <3> DEFINE x == 100 * strict * left
               y == n * sum
    <3> HIDE DEF x, y
    <3>1. x \in Nat /\ y \in Nat /\ y > 0 /\ x <= 100 * y
      BY <2>5, <2>6 DEF x, y
    <3>2. x \div y \in 0..100
      BY <3>1, Quotient
    <3> QED  BY <3>2 DEF x, y, left
  <2>8. asBag \in 0..100
    <3>1. 80 * bag \in Nat /\ 80 * bag <= 80 * n
      BY <1>2, <1>3
    <3>2. asBag \in 0..80
      BY <1>2, <1>4, <3>1, Quotient
    <3> QED  BY <3>2
  <2> QED  BY <2>7, <2>8
<1>5. CASE n = 0 \/ Len(actual) # n
  BY <1>1, <1>5
<1>6. CASE n > 0 /\ Len(actual) = n
  <2>1. inOrder \in 0..100 /\ asBag \in 0..100
    BY <1>4, <1>6
  <2>2. \A x \in {0, inOrder, asBag} : x \in 0..100
    <3> HIDE DEF inOrder, asBag
    <3> QED  BY <2>1
  <2> QED  BY <1>1, <2>2
<1> HIDE DEF n
<1> QED  BY <1>2, <1>5, <1>6

Candidates == [address : Int, score : 0..100]

LEMMA WordsAreRead ==
  ASSUME NEW rom \in RomType, NEW a \in Int, NEW n \in Nat, Inside(a, n) \/ n = 0
  PROVE  Words(rom, a, n) \in Seq(Int) /\ Len(Words(rom, a, n)) = n
<1>1. \A i \in 1..n : a + i - 1 \in 1..Size
  BY RelocationAssumption DEF Inside
<1>2. \A b \in 1..Size : rom[b] \in Int
  BY RelocationAssumption DEF RomType
<1>3. \A i \in 1..n : rom[a + i - 1] \in Int
  BY <1>1, <1>2
<1>4. Words(rom, a, n) \in Seq(Int)
  BY <1>3 DEF Words
<1> QED  BY <1>4 DEF Words

\* Axes apart: what is found far from home is no better than what is there.
LEMMA ComTyped ==
  ASSUME NEW rom \in RomType, NEW e \in Maps, NEW c \in ComAxis(rom, e)
  PROVE  c \in Candidates /\ (e.type = "curve" => c.score <= 90)
<1> DEFINE score(i, d) == AxisScore(Words(rom, e.axesAt[i] + d, Len(e.axes[i])), e.axes[i]).score
           hits(i, d) == e.axesAt[i] + d \in StandaloneAxis(rom, e.axes[i])
<1>1. Shaped(e) /\ e.at \in Int
  BY LibraryAssumption DEF Maps
<1>2. PICK d \in -Size..Size :
        /\ \A i \in 1..Len(e.axes) : hits(i, d)
        /\ c = [address |-> e.at + d,
                score |-> IF e.type = "map" THEN (score(1, d) + score(2, d)) \div 2
                          ELSE (9 * score(1, d)) \div 10]
  BY DEF ComAxis
<1>3. ASSUME NEW i \in 1..Len(e.axes) PROVE score(i, d) \in 0..100
  <2>1. e.axes[i] \in Seq(Int)
    BY <1>1 DEF Shaped
  <2>2. e.axesAt[i] + d \in 1..Size /\ Inside(e.axesAt[i] + d, Len(e.axes[i]))
    BY <1>2 DEF StandaloneAxis
  <2>3. Len(e.axes[i]) \in Nat
    BY <2>1
  <2>4. Words(rom, e.axesAt[i] + d, Len(e.axes[i])) \in Seq(Int)
    BY <2>2, <2>3, RelocationAssumption, WordsAreRead
  <2> QED  BY <2>1, <2>4, AxisScored
<1>4. e.at + d \in Int
  BY <1>1, RelocationAssumption
<1> HIDE DEF score, hits
<1>5. CASE e.type = "map"
  <2>1. score(1, d) \in 0..100 /\ score(2, d) \in 0..100
    BY <1>1, <1>3, <1>5 DEF Shaped
  <2>2. (score(1, d) + score(2, d)) \div 2 \in 0..100
    BY <2>1
  <2> QED  BY <1>2, <1>4, <1>5, <2>2 DEF Candidates
<1>6. CASE e.type = "curve"
  <2>1. score(1, d) \in 0..100
    BY <1>1, <1>3, <1>6 DEF Shaped
  <2> DEFINE x == (9 * score(1, d)) \div 10
  <2>2. x \in 0..90
    BY <2>1
  <2>3. c = [address |-> e.at + d, score |-> x]
    BY <1>2, <1>6
  <2> HIDE DEF x
  <2>4. c.score = x /\ x \in 0..100 /\ x <= 90
    BY <2>2, <2>3
  <2> QED  BY <1>4, <2>3, <2>4 DEF Candidates
<1> QED  BY <1>1, <1>5, <1>6 DEF Shaped

\* The words of the axes lie after the dimensions, within what was read.
LEMMA InsideOne ==
  ASSUME NEW a, NEW x \in Nat, Inside(a, 1 + x)
  PROVE  Inside(a + 1, x) /\ a + 1 \in Int
<1>1. a \in Int /\ 1 <= a /\ a <= Size - (1 + x) + 1 /\ Size \in Int
  BY RelocationAssumption DEF Inside
<1> QED  BY <1>1 DEF Inside

LEMMA InsideTwo ==
  ASSUME NEW a, NEW x \in Nat, NEW y \in Nat, Inside(a, 2 + (x + y))
  PROVE  /\ Inside(a + 2, x) /\ a + 2 \in Int
         /\ Inside((a + 2) + x, y) /\ (a + 2) + x \in Int
<1>1. a \in Int /\ 1 <= a /\ a <= Size - (2 + (x + y)) + 1 /\ Size \in Int
  BY RelocationAssumption DEF Inside
<1> QED  BY <1>1 DEF Inside

LEMMA InlineTyped ==
  ASSUME NEW rom \in RomType, NEW e \in Maps, NEW from \in Int, NEW to \in Int,
         NEW c \in InlineAxes(rom, e, from, to)
  PROVE  c \in Candidates
<1> DEFINE n == Len(e.dims)
           axisAt(a, i) == a + n + (IF i = 1 THEN 0 ELSE e.dims[1])
           axes(a) == [i \in 1..n |-> AxisScore(Words(rom, axisAt(a, i), e.dims[i]), e.axes[i])]
           mean(a) == Total([i \in 1..n |-> axes(a)[i].score]) \div n
           read == {a \in from..to : /\ Inside(a, n + Total(e.dims)) /\ a + n - 1 <= to
                                     /\ Words(rom, a, n) = e.dims}
           match(a) == [address |-> a, axes |-> axes(a)]
           meanOf(m) == Total([i \in 1..n |-> m.axes[i].score]) \div n
           scored(m) == IF \A i \in 1..n : m.axes[i].mode = "strict"
                        THEN Least(100, meanOf(m) + 10) ELSE meanOf(m)
           good(m) == \A i \in 1..n : m.axes[i].mode # "none"
<1>1. Shaped(e)
  BY LibraryAssumption
<1>2. PICK a \in from..to :
        /\ Inside(a, n + Total(e.dims))
        /\ c.address = a /\ c.score \in {mean(a), Least(100, mean(a) + 10)}
        /\ c = [address |-> c.address, score |-> c.score]
  <2>1. c \in {[address |-> m.address, score |-> scored(m)] :
                 m \in {m \in {match(a) : a \in read} : good(m)}}
    BY DEF InlineAxes
  <2>2. \A m : scored(m) \in {meanOf(m), Least(100, meanOf(m) + 10)}
    OBVIOUS
  <2> HIDE DEF scored, good
  <2>3. PICK a \in read : c = [address |-> match(a).address, score |-> scored(match(a))]
    <3> HIDE DEF match, read
    <3> QED  BY <2>1
  <2>4. match(a).address = a /\ match(a).axes = axes(a)
    OBVIOUS
  <2>5. meanOf(match(a)) = mean(a)
    <3> HIDE DEF match, axes
    <3> QED  BY <2>4
  <2> HIDE DEF match, meanOf, mean, axes
  <2>6. a \in from..to /\ Inside(a, n + Total(e.dims))
    OBVIOUS
  <2> QED  BY <2>2, <2>3, <2>4, <2>5, <2>6
<1>3. n \in {1, 2} /\ e.dims \in Seq(Nat) /\ \A i \in 1..n : e.dims[i] \in Nat
  BY <1>1 DEF Shaped
<1>4. ASSUME NEW i \in 1..n PROVE axes(a)[i].score \in 0..100
  <2>1. Inside(axisAt(a, i), e.dims[i]) /\ axisAt(a, i) \in Int
    <3>1. CASE n = 1
      <4>1. Total(e.dims) = e.dims[1] /\ i = 1 /\ e.dims[1] \in Nat
        BY <1>3, <3>1, TotalIs
      <4>2. axisAt(a, i) = a + 1
        BY <3>1, <4>1
      <4> HIDE DEF axisAt, axes, read, match, mean, meanOf, scored, good
      <4>3. Inside(a, 1 + e.dims[1])
        BY <1>2, <3>1, <4>1
      <4>4. Inside(a + 1, e.dims[1]) /\ a + 1 \in Int
        BY <4>1, <4>3, InsideOne
      <4> QED  BY <4>1, <4>2, <4>4
    <3>2. CASE n = 2
      <4>1. Total(e.dims) = e.dims[1] + e.dims[2] /\ i \in {1, 2} /\ e.dims[1] \in Nat
            /\ e.dims[2] \in Nat
        BY <1>3, <3>2, TotalIs
      <4>2. axisAt(a, i) = (a + 2) + (IF i = 1 THEN 0 ELSE e.dims[1])
        BY <3>2
      <4> HIDE DEF axisAt, axes, read, match, mean, meanOf, scored, good
      <4>3. Inside(a, 2 + (e.dims[1] + e.dims[2]))
        BY <1>2, <3>2, <4>1
      <4>4. /\ Inside(a + 2, e.dims[1]) /\ a + 2 \in Int
            /\ Inside((a + 2) + e.dims[1], e.dims[2]) /\ (a + 2) + e.dims[1] \in Int
        BY <4>1, <4>3, InsideTwo
      <4>5. CASE i = 1
        <5>1. axisAt(a, i) = a + 2
          BY <4>2, <4>4, <4>5
        <5> QED  BY <4>4, <4>5, <5>1
      <4>6. CASE i = 2
        <5>1. axisAt(a, i) = (a + 2) + e.dims[1]
          BY <4>2, <4>6
        <5> QED  BY <4>4, <4>6, <5>1
      <4> QED  BY <4>1, <4>5, <4>6
    <3> QED  BY <1>3, <3>1, <3>2
  <2>2. Words(rom, axisAt(a, i), e.dims[i]) \in Seq(Int)
    BY <1>3, <2>1, WordsAreRead
  <2>3. e.axes[i] \in Seq(Int)
    BY <1>1 DEF Shaped
  <2>4. AxisScore(Words(rom, axisAt(a, i), e.dims[i]), e.axes[i]).score \in 0..100
    BY <2>2, <2>3, AxisScored
  <2> QED  BY <2>4
<1> HIDE DEF axes
<1>5. mean(a) \in 0..100
  <2> DEFINE s == [i \in 1..n |-> axes(a)[i].score]
  <2>1. s \in Seq(Nat) /\ Len(s) = n /\ \A i \in 1..n : s[i] \in 0..100
    <3>1. n \in Nat /\ \A i \in 1..n : axes(a)[i].score \in 0..100
      BY <1>3, <1>4
    <3> HIDE DEF n
    <3>2. s \in [1..n -> 0..100] /\ \A i \in 1..n : s[i] \in 0..100
      BY <3>1
    <3>3. s \in [1..n -> Nat]
      BY <3>1
    <3> HIDE DEF s
    <3> QED  BY <3>1, <3>2, <3>3
  <2> HIDE DEF s
  <2>2. CASE n = 1
    <3>1. Total(s) = s[1] /\ s[1] \in 0..100
      BY <2>1, <2>2, TotalIs
    <3>2. Total(s) \div n \in 0..100
      BY <2>2, <3>1
    <3> QED  BY <3>2 DEF s
  <2>3. CASE n = 2
    <3>1. Total(s) = s[1] + s[2] /\ s[1] \in 0..100 /\ s[2] \in 0..100
      BY <2>1, <2>3, TotalIs
    <3>2. Total(s) \div n \in 0..100
      BY SMTT(60), <2>3, <3>1
    <3> QED  BY <3>2 DEF s
  <2> QED  BY <1>3, <2>2, <2>3
<1> HIDE DEF mean, n
<1>6. c.score \in 0..100 /\ c.address \in Int
  BY <1>2, <1>5 DEF Least
<1> QED  BY <1>2, <1>6 DEF Candidates

\* Whatever is found for a map or a curve is an address and a score of at most what it has at
\* home.
Full(e) == IF e.com /\ e.type = "curve" THEN 90 ELSE 100

LEMMA FoundTyped ==
  ASSUME NEW rom \in RomType, NEW e \in Maps, NEW c \in FindMapByFingerprint(rom, e)
  PROVE  c \in Candidates /\ c.score <= Full(e)
<1>1. Shaped(e) /\ e.at \in Int
  BY LibraryAssumption DEF Maps
<1>2. CASE e.com
  <2>1. c \in ComAxis(rom, e)
    BY <1>2 DEF FindMapByFingerprint
  <2>2. c \in Candidates /\ (e.type = "curve" => c.score <= 90)
    BY <2>1, ComTyped
  <2>3. c.score \in 0..100
    BY <2>2 DEF Candidates
  <2>4. CASE e.type = "curve"
    BY <1>2, <2>2, <2>3, <2>4 DEF Full
  <2>5. CASE e.type # "curve"
    BY <2>2, <2>3, <2>5 DEF Full
  <2> QED  BY <2>4, <2>5
<1>3. CASE ~e.com
  <2> DEFINE near == InlineAxes(rom, e, Most(1, e.at - Window), Least(Size, e.at + Window))
             all == InlineAxes(rom, e, 1, Size)
  <2>1. FindMapByFingerprint(rom, e) \in {near, all}
    BY <1>3 DEF FindMapByFingerprint, Given
  <2>2. Most(1, e.at - Window) \in Int /\ Least(Size, e.at + Window) \in Int /\ Size \in Int
    BY <1>1, RelocationAssumption DEF Most, Least
  <2>3. c \in near => c \in Candidates
    BY <2>2, InlineTyped
  <2>4. c \in all => c \in Candidates
    BY <2>2, InlineTyped
  <2>5. c \in Candidates
    <3> HIDE DEF near, all
    <3> QED  BY <2>1, <2>3, <2>4
  <2> QED  BY <1>3, <2>5 DEF Full, Candidates
<1> QED  BY <1>2, <1>3

\* There is a best one of any candidates; at home if it is as good as any there.
LEMMA BestIsIn ==
  ASSUME NEW free \in SUBSET Candidates, free # {}, NEW at \in Int
  PROVE  /\ Best(free, at) \in free
         /\ \A home \in free :
              home.address = at /\ (\A d \in free : d.score <= home.score)
                => Best(free, at).address = at
<1> DEFINE scored == {c \in free : \A d \in free : d.score - c.score <= 1}
           far(c) == Abs(c.address - at)
           close == {c \in scored : \A d \in scored : far(c) <= far(d)}
           least(c) == \A d \in close : c.address <= d.address
<1>1. Best(free, at) = CHOOSE c \in close : least(c)
  BY DEF Best
<1>2. \A c \in free : c.score \in 0..100 /\ c.address \in Int /\ far(c) \in Nat
  BY DEF Candidates, Abs
<1>3. \A c \in free : (\A d \in free : d.score <= c.score) => c \in scored
  <2> SUFFICES ASSUME NEW c \in free, NEW d \in free, d.score <= c.score
               PROVE  d.score - c.score <= 1
    OBVIOUS
  <2>1. c.score \in Int /\ d.score \in Int
    BY <1>2
  <2> QED  BY <2>1
<1>4. scored # {}
  <2> DEFINE T == {c.score + 1 : c \in free}
  <2>1. T \in SUBSET (1..101) /\ T # {}
    BY <1>2
  <2> HIDE DEF T
  <2>2. Max(T) \in T /\ \A y \in T : Max(T) >= y
    BY <2>1, MaxIsIn
  <2>3. PICK c \in free : Max(T) = c.score + 1
    BY <2>2 DEF T
  <2>4. \A d \in free : d.score + 1 \in T
    BY DEF T
  <2>5. ASSUME NEW d \in free PROVE d.score <= c.score
    <3>1. c.score \in Int /\ d.score \in Int
      BY <1>2
    <3>2. Max(T) >= d.score + 1
      BY <2>2, <2>4
    <3> QED  BY <2>3, <3>1, <3>2
  <2> QED  BY <1>3, <2>5
<1>5. scored \subseteq free
  OBVIOUS
<1>6. close # {}
  <2>1. PICK c \in scored : TRUE
    BY <1>4
  <2> DEFINE k == far(c) + 1
             T == {far(d) + 1 : d \in scored} \cap (1..k)
  <2>2. k \in Nat /\ far(c) + 1 \in T
    BY <1>2, <1>5, <2>1
  <2>3. T \in SUBSET (1..k) /\ T # {}
    BY <2>2
  <2> HIDE DEF T, k, scored, far
  <2>4. Min(T) \in T /\ \A y \in T : Min(T) <= y
    BY <2>2, <2>3, MinIsIn
  <2>5. PICK m \in scored : Min(T) = far(m) + 1
    BY <2>4 DEF T
  <2>6. ASSUME NEW d \in scored PROVE far(m) <= far(d)
    <3>1. far(d) \in Nat /\ far(m) \in Nat /\ far(c) \in Nat
      BY <1>2, <1>5
    <3>2. CASE far(d) + 1 <= k
      <4>1. far(d) + 1 \in T
        BY <2>2, <3>1, <3>2 DEF T
      <4> QED  BY <2>4, <2>5, <3>1, <4>1
    <3>3. CASE far(d) + 1 > k
      <4>1. far(m) + 1 <= far(c) + 1
        BY <2>2, <2>4, <2>5
      <4> QED  BY <3>1, <3>3, <4>1 DEF k
    <3> QED  BY <2>2, <3>1, <3>2, <3>3
  <2> QED  BY <2>6
<1>7. \E c \in close : least(c)
  <2>1. PICK c \in close : TRUE
    BY <1>6
  <2>2. \A d \in close : far(d) = far(c)
    BY <1>2, <2>1
  <2>3. \A d \in close : d.address \in Int /\ d.address \in {at - far(c), at + far(c)}
    BY <1>2, <2>2 DEF Abs
  <2>4. CASE \E d \in close : d.address = at - far(c)
    <3>1. PICK d \in close : d.address = at - far(c)
      BY <2>4
    <3>2. \A x \in close : d.address <= x.address
      BY <1>2, <2>1, <2>3, <3>1
    <3> QED  BY <3>2
  <2>5. CASE \A d \in close : d.address # at - far(c)
    <3>1. \A x \in close : c.address = x.address
      BY <2>1, <2>3, <2>5
    <3> QED  BY <1>2, <2>1, <3>1
  <2> QED  BY <2>4, <2>5
<1>8. Best(free, at) \in close
  <2> HIDE DEF close, least
  <2> QED  BY <1>1, <1>7
<1>9. ASSUME NEW home \in free, home.address = at, \A d \in free : d.score <= home.score
      PROVE  Best(free, at).address = at
  <2>1. home \in scored
    BY <1>3, <1>9
  <2>2. far(home) = 0
    BY <1>9 DEF Abs
  <2> DEFINE b == Best(free, at)
  <2> HIDE DEF b
  <2>3. b \in free /\ far(b) <= 0
    BY <1>8, <2>1, <2>2 DEF b
  <2>4. far(b) = 0 /\ b.address \in Int
    BY <1>2, <2>3
  <2>5. b.address = at
    BY <2>4 DEF Abs
  <2> QED  BY <2>5 DEF b
<1> QED  BY <1>8, <1>9

-----------------------------------------------------------------------------
(* The attribution. *)

Names == {e.name : e \in Range(Recipe)}
Matches == [name : Names, cand : Candidates]
Free(rom, placed, e) ==
  {c \in FindMapByFingerprint(rom, e) : \A f \in placed : f.cand.address # c.address}

LEMMA Attributed ==
  ASSUME NEW rom, NEW placed, NEW e
  PROVE  Attribute(rom, placed, e) = Taken(placed, e, Free(rom, placed, e))
<1> DEFINE S == {c \in FindMapByFingerprint(rom, e) : \A f \in placed : f.cand.address # c.address}
<1>1. Attribute(rom, placed, e) = CHOOSE r \in {Taken(placed, e, x) : x \in {S}} : TRUE
  BY DEF Attribute, Given
<1>2. {Taken(placed, e, x) : x \in {S}} = {Taken(placed, e, S)}
  OBVIOUS
<1>3. S = Free(rom, placed, e)
  BY DEF Free
<1> HIDE DEF S
<1> QED  BY <1>1, <1>2, <1>3

\* The entry is given one of what is free, at home if it is found there.
LEMMA TakenIsFree ==
  ASSUME NEW rom \in RomType, NEW e \in Maps, NEW placed, Free(rom, placed, e) # {}
  PROVE  LET free == Free(rom, placed, e) IN
         /\ Best(free, e.at) \in free /\ Best(free, e.at) \in Candidates
         /\ \A home \in free : home.address = e.at /\ home.score = Full(e)
              => Best(free, e.at).address = e.at
<1> DEFINE free == Free(rom, placed, e)
<1>1. \A c \in free : c \in Candidates /\ c.score <= Full(e)
  BY FoundTyped DEF Free
<1>2. e.at \in Int
  BY LibraryAssumption DEF Maps
<1>3. free \in SUBSET Candidates /\ free # {}
  BY <1>1
<1> HIDE DEF free
<1>4. /\ Best(free, e.at) \in free
      /\ \A home \in free :
           home.address = e.at /\ (\A d \in free : d.score <= home.score)
             => Best(free, e.at).address = e.at
  BY <1>2, <1>3, BestIsIn
<1>5. Best(free, e.at) \in Candidates
  BY <1>3, <1>4
<1>6. \A home \in free : home.address = e.at /\ home.score = Full(e)
        => Best(free, e.at).address = e.at
  BY <1>1, <1>4
<1> QED  BY <1>4, <1>5, <1>6 DEF free

LEMMA MatchesRun ==
  ASSUME NEW rom \in RomType
  PROVE  \E run \in [0..Len(Recipe) -> SUBSET Matches] :
           /\ run[0] = {} /\ run[Len(Recipe)] = MapMatches(rom)
           /\ \A i \in 1..Len(Recipe) :
                run[i] = IF Recipe[i].type = "value" THEN run[i - 1]
                         ELSE Attribute(rom, run[i - 1], Recipe[i])
<1> DEFINE n == Len(Recipe)
           S == DOMAIN Recipe
           D == SUBSET Matches
           One(placed, e) == IF e.type = "value" THEN placed ELSE Attribute(rom, placed, e)
           Step == [x \in (1..n) \X D |-> One(x[2], Recipe[x[1]])]
           It(f) == [s \in SUBSET S |-> IF s = {} THEN {} ELSE One(f[s \ {Max(s)}], Recipe[Max(s)])]
           iter == CHOOSE f : f = It(f)
<1>1. MapMatches(rom) = iter[S]
  BY DEF MapMatches, FoldLeft, MapThenFoldSet
<1>2. S = 1..n /\ n \in Nat
  BY LibraryAssumption
<1>3. ASSUME NEW i \in 1..n, NEW placed \in D PROVE One(placed, Recipe[i]) \in D
  <2> DEFINE e == Recipe[i]
  <2>1. e \in Range(Recipe) /\ e.name \in Names
    BY <1>2 DEF Range, Names
  <2>2. CASE e.type = "value"
    BY <2>2
  <2>3. CASE e.type # "value"
    <3>1. e \in Maps
      BY <2>1, <2>3 DEF Maps
    <3> HIDE DEF e
    <3>2. Attribute(rom, placed, e) = Taken(placed, e, Free(rom, placed, e))
      BY Attributed
    <3>3. CASE Free(rom, placed, e) = {}
      BY <2>3, <3>2, <3>3 DEF Taken, e
    <3>4. CASE Free(rom, placed, e) # {}
      <4>1. Best(Free(rom, placed, e), e.at) \in Candidates
        BY <3>1, <3>4, TakenIsFree
      <4>2. [name |-> e.name, cand |-> Best(Free(rom, placed, e), e.at)] \in Matches
        BY <2>1, <4>1 DEF Matches
      <4>3. Taken(placed, e, Free(rom, placed, e)) \in D
        BY <3>4, <4>2 DEF Taken
      <4> QED  BY <2>3, <3>2, <4>3 DEF e
    <3> QED  BY <3>3, <3>4
  <2> QED  BY <2>2, <2>3
<1> HIDE DEF One, D
<1>4. IsStep(Step, n, D) /\ {} \in D
  <2>1. IsStep(Step, n, D)
    BY <1>3 DEF IsStep
  <2> QED  BY <2>1 DEF D
<1>5. PICK f : IsFold(f, n, D, {}, Step)
  <2> HIDE DEF n, Step
  <2> QED  BY <1>2, <1>4, FoldExists
<1>6. \A s \in SUBSET (1..n) : s # {} => Max(s) \in 1..n /\ s \ {Max(s)} \in SUBSET (1..n)
  <2> HIDE DEF n
  <2> QED  BY <1>2, MaxIsIn
<1>7. f = It(f)
  <2>1. \A s \in SUBSET S : f[s] = It(f)[s]
    BY <1>2, <1>5, <1>6 DEF IsFold
  <2>2. f \in [SUBSET S -> D]
    BY <1>2, <1>5 DEF IsFold
  <2>3. It(f) = [s \in SUBSET S |-> It(f)[s]]
    OBVIOUS
  <2> HIDE DEF It, S
  <2> QED  BY <2>1, <2>2, <2>3
<1> HIDE DEF It
<1>8. iter = It(iter)
  BY <1>7
<1> HIDE DEF iter
<1>9. GoesOn(iter, n, D, {}, Step)
  BY <1>2, <1>6, <1>8 DEF It, GoesOn
<1>10. \A i \in 1..n, placed \in D : Step[<<i, placed>>] = One(placed, Recipe[i])
  OBVIOUS
<1> HIDE DEF n, Step
<1>11. Through(iter, n, D, {}, Step)
  BY <1>2, <1>4, <1>9, FoldRun
<1>12. PICK run : Runs(run, n, D, {}, Step) /\ run[n] = iter[1..n]
  BY <1>11 DEF Through
<1>13. run \in [0..n -> D] /\ run[0] = {} /\ run[n] = MapMatches(rom)
  BY <1>1, <1>2, <1>12 DEF Runs
<1>14. \A i \in 1..n : run[i] = One(run[i - 1], Recipe[i])
  <2> SUFFICES ASSUME NEW i \in 1..n PROVE run[i] = One(run[i - 1], Recipe[i])
    OBVIOUS
  <2>1. run[i - 1] \in D
    BY <1>2, <1>13
  <2> QED  BY <1>10, <1>12, <2>1 DEF Runs
<1> QED  BY <1>13, <1>14 DEF n, D, One

\* Is the map or curve e found at its default address, as well as it can be?
Home(rom, e) == \E c \in FindMapByFingerprint(rom, e) : c.address = e.at /\ c.score = Full(e)

\* After the first i entries: one match for each of the maps that are told as found, no two of
\* them at one address; and if every map is at home, all of them found there.
Attributed1(rom, i, placed) ==
  /\ \A f \in placed : \E j \in 1..i : Recipe[j].type # "value" /\ f.name = Recipe[j].name
  /\ \A f, g \in placed : f.name = g.name \/ f.cand.address = g.cand.address => f = g
AtHome(rom, i, placed) ==
  (\A e \in Maps : Home(rom, e)) =>
    /\ \A j \in 1..i : Recipe[j].type # "value" => \E f \in placed : f.name = Recipe[j].name
    /\ \A f \in placed, j \in 1..i : f.name = Recipe[j].name => f.cand.address = Recipe[j].at

LEMMA AttributeStep ==
  ASSUME NEW rom \in RomType, NEW i \in 1..Len(Recipe), NEW placed \in SUBSET Matches,
         Attributed1(rom, i - 1, placed), AtHome(rom, i - 1, placed), Recipe[i].type # "value",
         NEW more, more = Attribute(rom, placed, Recipe[i])
  PROVE  Attributed1(rom, i, more) /\ AtHome(rom, i, more)
<1> DEFINE e == Recipe[i]
           free == Free(rom, placed, e)
           m == [name |-> e.name, cand |-> Best(free, e.at)]
<1>1. Recipe \in Seq(Range(Recipe)) /\ e \in Maps
  BY LibraryAssumption DEF Maps, Range
<1>2. \A j \in 1..Len(Recipe) : Recipe[j].name = e.name => j = i
  BY LibraryAssumption
<1>3. \A f \in placed : f.name # e.name
  <2> SUFFICES ASSUME NEW f \in placed, f.name = e.name PROVE FALSE
    OBVIOUS
  <2>1. PICK j \in 1..(i - 1) : f.name = Recipe[j].name
    BY DEF Attributed1
  <2>2. j \in 1..Len(Recipe) /\ j # i
    BY <1>1
  <2> QED  BY <1>2, <2>1, <2>2
<1>4. more = Taken(placed, e, free)
  BY Attributed
<1>5. 1..(i - 1) \subseteq 1..i /\ i \in 1..i /\ 1..i = (1..(i - 1)) \cup {i}
  BY <1>1
<1>6. (\A x \in Maps : Home(rom, x)) =>
        free # {} /\ \E home \in free : home.address = e.at /\ home.score = Full(e)
  <2> SUFFICES ASSUME \A x \in Maps : Home(rom, x)
               PROVE  \E home \in free : home.address = e.at /\ home.score = Full(e)
    OBVIOUS
  <2>1. PICK c \in FindMapByFingerprint(rom, e) : c.address = e.at /\ c.score = Full(e)
    BY <1>1 DEF Home
  <2>2. ASSUME NEW f \in placed PROVE f.cand.address # c.address
    <3>1. PICK j \in 1..(i - 1) : Recipe[j].type # "value" /\ f.name = Recipe[j].name
      BY DEF Attributed1
    <3>2. f.cand.address = Recipe[j].at
      BY <3>1 DEF AtHome
    <3>3. j \in 1..Len(Recipe) /\ j # i
      BY <1>1
    <3>4. Recipe[j] \in Maps
      BY <1>1, <3>1, <3>3 DEF Maps, Range
    <3>5. Recipe[j].at = e.at => Recipe[j] = e
      BY <1>1, <3>4, LibraryAssumption
    <3> QED  BY <1>2, <2>1, <3>2, <3>3, <3>5
  <2>3. c \in free
    BY <2>2 DEF Free
  <2> QED  BY <2>1, <2>3
<1> HIDE DEF e, free
<1>7. CASE free = {}
  <2>1. more = placed
    BY <1>4, <1>7 DEF Taken
  <2>2. Attributed1(rom, i, more)
    BY <1>5, <2>1 DEF Attributed1
  <2>3. AtHome(rom, i, more)
    BY <1>6, <1>7 DEF AtHome
  <2> QED  BY <2>2, <2>3
<1>8. CASE free # {}
  <2>1. more = placed \cup {m}
    BY <1>4, <1>8 DEF Taken
  <2>2. /\ m.cand \in free
        /\ \A home \in free : home.address = e.at /\ home.score = Full(e) => m.cand.address = e.at
    BY <1>1, <1>8, TakenIsFree DEF free
  <2>3. m.name = e.name
    OBVIOUS
  <2>4. \A f \in placed : f.cand.address # m.cand.address
    BY <2>2 DEF free, Free
  <2> HIDE DEF m
  <2>5. Attributed1(rom, i, more)
    <3>1. \A f \in more : \E j \in 1..i : Recipe[j].type # "value" /\ f.name = Recipe[j].name
      <4>1. \A f \in placed : \E j \in 1..i : Recipe[j].type # "value" /\ f.name = Recipe[j].name
        BY <1>5 DEF Attributed1
      <4>2. Recipe[i].type # "value" /\ m.name = Recipe[i].name
        BY <2>3 DEF e
      <4> QED  BY <1>5, <2>1, <4>1, <4>2
    <3>2. ASSUME NEW f \in more, NEW g \in more, f.name = g.name \/ f.cand.address = g.cand.address
          PROVE  f = g
      <4>1. CASE f \in placed /\ g \in placed
        BY <3>2, <4>1 DEF Attributed1
      <4>2. CASE f = m \/ g = m
        BY <1>3, <2>1, <2>3, <2>4, <3>2, <4>2
      <4> QED  BY <2>1, <4>1, <4>2
    <3> QED  BY <3>1, <3>2 DEF Attributed1
  <2>6. AtHome(rom, i, more)
    <3> SUFFICES ASSUME \A x \in Maps : Home(rom, x)
                 PROVE  /\ \A j \in 1..i : Recipe[j].type # "value" =>
                             \E f \in more : f.name = Recipe[j].name
                        /\ \A f \in more, j \in 1..i :
                             f.name = Recipe[j].name => f.cand.address = Recipe[j].at
      BY DEF AtHome
    <3>1. m.cand.address = e.at
      BY <1>6, <2>2
    <3>2. ASSUME NEW j \in 1..i, Recipe[j].type # "value"
          PROVE  \E f \in more : f.name = Recipe[j].name
      <4>1. CASE j = i
        BY <2>1, <2>3, <4>1 DEF e
      <4>2. CASE j \in 1..(i - 1)
        BY <2>1, <3>2, <4>2 DEF AtHome
      <4> QED  BY <1>5, <4>1, <4>2
    <3>3. ASSUME NEW f \in more, NEW j \in 1..i, f.name = Recipe[j].name
          PROVE  f.cand.address = Recipe[j].at
      <4>1. CASE f \in placed
        <5>1. j # i
          BY <1>3, <3>3, <4>1 DEF e
        <5>2. j \in 1..(i - 1)
          BY <1>5, <5>1
        <5> QED  BY <3>3, <4>1, <5>2 DEF AtHome
      <4>2. CASE f = m
        <5>1. j \in 1..Len(Recipe)
          BY <1>1
        <5>2. j = i
          BY <1>2, <2>3, <3>3, <4>2, <5>1 DEF e
        <5> QED  BY <3>1, <4>2, <5>2 DEF e
      <4> QED  BY <2>1, <4>1, <4>2
    <3> QED  BY <3>2, <3>3
  <2> QED  BY <2>5, <2>6
<1> QED  BY <1>7, <1>8

LEMMA MatchesHold ==
  ASSUME NEW rom \in RomType
  PROVE  /\ MapMatches(rom) \in SUBSET Matches
         /\ Attributed1(rom, Len(Recipe), MapMatches(rom))
         /\ AtHome(rom, Len(Recipe), MapMatches(rom))
<1> DEFINE n == Len(Recipe)
<1>1. PICK run \in [0..n -> SUBSET Matches] :
           /\ run[0] = {} /\ run[n] = MapMatches(rom)
           /\ \A i \in 1..n :
                run[i] = IF Recipe[i].type = "value" THEN run[i - 1]
                         ELSE Attribute(rom, run[i - 1], Recipe[i])
  BY MatchesRun
<1>2. n \in Nat
  BY LibraryAssumption
<1> DEFINE T == {i \in 0..n : Attributed1(rom, i, run[i]) /\ AtHome(rom, i, run[i])}
<1>3. 0 \in T
  <2>1. Attributed1(rom, 0, {}) /\ AtHome(rom, 0, {})
    BY DEF Attributed1, AtHome
  <2>2. 0 \in 0..n /\ Attributed1(rom, 0, run[0]) /\ AtHome(rom, 0, run[0])
    BY <1>1, <1>2, <2>1
  <2> HIDE DEF n
  <2> QED  BY <2>2
<1>4. ASSUME NEW i \in 1..n, i - 1 \in T PROVE i \in T
  <2>1. Attributed1(rom, i - 1, run[i - 1]) /\ AtHome(rom, i - 1, run[i - 1])
    BY <1>4
  <2>2. i - 1 \in 0..n /\ i \in 0..n /\ run[i - 1] \in SUBSET Matches
    BY <1>1, <1>2
  <2>3. CASE Recipe[i].type = "value"
    <3>1. run[i] = run[i - 1]
      BY <1>1, <2>3
    <3>2. 1..i = (1..(i - 1)) \cup {i}
      BY <1>2
    <3>3. Attributed1(rom, i, run[i])
      BY <2>1, <3>1, <3>2 DEF Attributed1
    <3>4. AtHome(rom, i, run[i])
      <4> SUFFICES ASSUME \A x \in Maps : Home(rom, x)
                 PROVE  /\ \A j \in 1..i : Recipe[j].type # "value" =>
                             \E f \in run[i] : f.name = Recipe[j].name
                        /\ \A f \in run[i], j \in 1..i :
                             f.name = Recipe[j].name => f.cand.address = Recipe[j].at
        BY DEF AtHome
      <4>1. \A f \in run[i] : f.name # Recipe[i].name
        <5> SUFFICES ASSUME NEW f \in run[i], f.name = Recipe[i].name PROVE FALSE
          OBVIOUS
        <5>1. PICK j \in 1..(i - 1) : f.name = Recipe[j].name
          BY <2>1, <3>1 DEF Attributed1
        <5>2. j \in 1..Len(Recipe) /\ i \in 1..Len(Recipe) /\ j # i
          BY <1>2
        <5> QED  BY <5>1, <5>2, LibraryAssumption
      <4>2. \A j \in 1..i : Recipe[j].type # "value" => \E f \in run[i] : f.name = Recipe[j].name
        BY <2>1, <2>3, <3>1, <3>2 DEF AtHome
      <4>3. \A f \in run[i], j \in 1..i :
              f.name = Recipe[j].name => f.cand.address = Recipe[j].at
        BY <2>1, <3>1, <3>2, <4>1 DEF AtHome
      <4> QED  BY <4>2, <4>3
    <3> QED  BY <2>2, <3>3, <3>4
  <2>4. CASE Recipe[i].type # "value"
    <3>1. run[i] = Attribute(rom, run[i - 1], Recipe[i])
      BY <1>1, <2>4
    <3>2. Attributed1(rom, i, run[i]) /\ AtHome(rom, i, run[i])
      BY <2>1, <2>2, <2>4, <3>1, AttributeStep
    <3> QED  BY <2>2, <3>2
  <2> QED  BY <2>3, <2>4
<1> HIDE DEF T
<1>5. n \in T
  <2>1. \A i \in 0..n : i \in T
    <3> HIDE DEF n
    <3> QED  BY <1>2, <1>3, <1>4, Upward
  <2> QED  BY <1>2, <2>1
<1>6. Attributed1(rom, n, run[n]) /\ AtHome(rom, n, run[n]) /\ run[n] \in SUBSET Matches
  BY <1>1, <1>2, <1>5 DEF T
<1> QED  BY <1>1, <1>6 DEF n

-----------------------------------------------------------------------------
(* What the relocation promises. *)

PlaceOf(rom, e, maps) ==
  IF e.type = "value" THEN RelocateValue(rom, e, maps)
  ELSE IF \E f \in maps : f.name = e.name
  THEN LET f == CHOOSE f \in maps : f.name = e.name
       IN [address |-> f.cand.address, source |-> "fingerprint", score |-> f.cand.score]
  ELSE NotFound(e)

LEMMA EntryIs == ASSUME NEW e \in Range(Recipe) PROVE Entry(e.name) = e
<1>1. Recipe \in Seq(Range(Recipe)) /\ DOMAIN Recipe = 1..Len(Recipe)
  BY LibraryAssumption
<1>2. \A f \in Range(Recipe) : f.name = e.name => f = e
  <2> SUFFICES ASSUME NEW f \in Range(Recipe), f.name = e.name PROVE f = e
    OBVIOUS
  <2>1. PICK i \in 1..Len(Recipe) : Recipe[i] = e
    BY <1>1 DEF Range
  <2>2. PICK j \in 1..Len(Recipe) : Recipe[j] = f
    BY <1>1 DEF Range
  <2>3. i = j
    BY <2>1, <2>2, LibraryAssumption
  <2> QED  BY <2>1, <2>2, <2>3
<1> QED  BY <1>2 DEF Entry

LEMMA RelocateIs ==
  ASSUME NEW rom \in RomType
  PROVE  \A e \in Range(Recipe) : Relocate(rom)[e.name] = PlaceOf(rom, e, MapMatches(rom))
<1> DEFINE F(maps) == [name \in Names |-> PlaceOf(rom, Entry(name), maps)]
<1>1. Relocate(rom) = CHOOSE r \in {F(maps) : maps \in {MapMatches(rom)}} : TRUE
  BY DEF Relocate, Given, PlaceOf, Names
<1> DEFINE M == MapMatches(rom)
<1>2. {F(maps) : maps \in {M}} = {F(M)}
  <2> HIDE DEF F, M
  <2> QED  OBVIOUS
<1>3. Relocate(rom) = F(M)
  <2> HIDE DEF F
  <2>1. (CHOOSE r \in {F(M)} : TRUE) = F(M)
    OBVIOUS
  <2> QED  BY <1>1, <1>2, <2>1
<1> HIDE DEF M
<1>4. \A e \in Range(Recipe) : e.name \in Names /\ Entry(e.name) = e
  BY EntryIs DEF Names
<1>5. \A e \in Range(Recipe) : F(M)[e.name] = PlaceOf(rom, e, M)
  BY <1>4
<1> HIDE DEF F
<1> QED  BY <1>3, <1>5 DEF M

\* A map that is told as found has a match of its own; one that is not has none.
LEMMA FoundPlace ==
  ASSUME NEW rom \in RomType, NEW e \in Maps
  PROVE  LET maps == MapMatches(rom)
             place == Relocate(rom)[e.name] IN
         /\ \A f \in maps : f.name = e.name =>
              place.address = f.cand.address /\ place.source = "fingerprint"
         /\ place.source = "fingerprint" => \E f \in maps : f.name = e.name
<1> DEFINE maps == MapMatches(rom)
           place == PlaceOf(rom, e, maps)
<1>1. e \in Range(Recipe) /\ e.type # "value"
  BY DEF Maps
<1>2. Relocate(rom)[e.name] = place
  BY <1>1, RelocateIs
<1>3. \A f, g \in maps : f.name = g.name => f = g
  BY MatchesHold DEF Attributed1
<1> HIDE DEF maps
<1>4. ASSUME NEW f \in maps, f.name = e.name
      PROVE  place.address = f.cand.address /\ place.source = "fingerprint"
  <2>1. (CHOOSE g \in maps : g.name = e.name) = f
    BY <1>3, <1>4
  <2>2. place = [address |-> f.cand.address, source |-> "fingerprint", score |-> f.cand.score]
    BY <1>1, <1>4, <2>1 DEF PlaceOf
  <2> HIDE DEF place
  <2> QED  BY <2>2
<1>5. ASSUME place.source = "fingerprint" PROVE \E f \in maps : f.name = e.name
  BY <1>1, <1>5 DEF PlaceOf, NotFound
<1> HIDE DEF place
<1> QED  BY <1>2, <1>4, <1>5 DEF maps

\* No two maps or curves are found at one address: each takes an address that no earlier one has.
LEMMA OneMapEachHolds == ASSUME NEW rom \in RomType PROVE OneMapEach(rom)
<1> DEFINE r == Relocate(rom)
           maps == MapMatches(rom)
<1>1. ASSUME NEW e \in Maps, NEW f \in Maps, e # f,
             r[e.name].source = "fingerprint", r[f.name].source = "fingerprint"
      PROVE  r[e.name].address # r[f.name].address
  <2>1. PICK x \in maps : x.name = e.name
    BY <1>1, FoundPlace
  <2>2. PICK y \in maps : y.name = f.name
    BY <1>1, FoundPlace
  <2>3. r[e.name].address = x.cand.address /\ r[f.name].address = y.cand.address
    BY <2>1, <2>2, FoundPlace
  <2>4. e.name # f.name
    <3>1. e \in Range(Recipe) /\ f \in Range(Recipe)
      BY DEF Maps
    <3>2. Entry(e.name) = e /\ Entry(f.name) = f
      BY <3>1, EntryIs
    <3> QED  BY <1>1, <3>2
  <2>5. x.cand.address = y.cand.address => x = y
    BY MatchesHold DEF Attributed1
  <2> QED  BY <2>1, <2>2, <2>3, <2>4, <2>5
<1> HIDE DEF r
<1> QED  BY <1>1 DEF r, OneMapEach

\* A value told as found by its anchor is as far from the anchor as in the recipe.
LEMMA ValueFollows ==
  ASSUME NEW rom \in RomType, NEW e \in Range(Recipe) \ Maps, ~e.search,
         Relocate(rom)[e.name].source = "anchor"
  PROVE  \E a \in Maps :
           /\ a.name = e.anchor /\ Relocate(rom)[a.name].address \in Int
           /\ Relocate(rom)[e.name].address = e.at + (Relocate(rom)[a.name].address - a.at)
           /\ \E f \in MapMatches(rom) : f.name = a.name
                                        /\ Relocate(rom)[a.name].address = f.cand.address
<1> DEFINE maps == MapMatches(rom)
           anchors == {f \in maps : f.name = e.anchor}
           base == e.at + (CHOOSE d \in {f.cand.address - Entry(f.name).at : f \in anchors} : TRUE)
           place == Relocate(rom)[e.name]
<1>1. e \in Range(Recipe) /\ e.type = "value"
  BY DEF Maps
<1>2. place = RelocateValue(rom, e, maps)
  BY <1>1, RelocateIs DEF PlaceOf
<1>3. anchors # {} /\ place.address = base
  <2> HIDE DEF maps, place
  <2>1. place \in {[address |-> base, source |-> "anchor", score |-> 80],
                   [NotFound(e) EXCEPT !.score = IF Inside(e.at, 1) /\ rom[e.at] = Padding THEN 0 ELSE 30]}
        /\ (anchors = {} => place.source = "default")
    BY <1>2 DEF RelocateValue, NotFound
  <2>2. place.source = "anchor"
    BY DEF place
  <2> HIDE DEF base, anchors
  <2> QED  BY <2>1, <2>2 DEF NotFound
<1>4. maps \in SUBSET Matches /\ Attributed1(rom, Len(Recipe), maps)
  BY MatchesHold
<1> HIDE DEF maps
<1>5. PICK f \in maps : f.name = e.anchor
  BY <1>3
<1>6. anchors = {f}
  BY <1>4, <1>5 DEF Attributed1
<1>7. PICK j \in 1..Len(Recipe) : Recipe[j].type # "value" /\ f.name = Recipe[j].name
  BY <1>4 DEF Attributed1
<1> DEFINE a == Recipe[j]
<1>8. a \in Maps /\ a.name = e.anchor /\ a \in Range(Recipe)
  <2>1. Recipe \in Seq(Range(Recipe))
    BY LibraryAssumption
  <2> QED  BY <1>5, <1>7, <2>1 DEF Maps, Range
<1>9. Entry(f.name) = a
  BY <1>7, <1>8, EntryIs
<1>10. base = e.at + (f.cand.address - a.at)
  <2> HIDE DEF anchors, a
  <2>1. {g.cand.address - Entry(g.name).at : g \in anchors} = {f.cand.address - a.at}
    BY <1>6, <1>9
  <2>2. (CHOOSE d \in {f.cand.address - a.at} : TRUE) = f.cand.address - a.at
    OBVIOUS
  <2> QED  BY <2>1, <2>2
<1>11. Relocate(rom)[a.name].address = f.cand.address /\ f.name = a.name
  BY <1>5, <1>8, FoundPlace DEF maps
<1>12. f.cand.address \in Int
  BY <1>4 DEF Matches, Candidates
<1> HIDE DEF a, base
<1>13. /\ a.name = e.anchor /\ Relocate(rom)[a.name].address \in Int
       /\ Relocate(rom)[e.name].address = e.at + (Relocate(rom)[a.name].address - a.at)
       /\ \E g \in MapMatches(rom) : g.name = a.name /\ Relocate(rom)[a.name].address = g.cand.address
  BY <1>3, <1>8, <1>10, <1>11, <1>12 DEF maps
<1> QED  BY <1>8, <1>13

LEMMA ValuesFollowHolds == ASSUME NEW rom \in RomType PROVE ValuesFollow(rom)
<1> DEFINE r == Relocate(rom)
<1>1. ASSUME NEW e \in Range(Recipe) \ Maps, ~e.search, r[e.name].source = "anchor"
      PROVE  r[e.name].address - e.at = r[e.anchor].address - Entry(e.anchor).at
  <2>1. PICK a \in Maps : /\ a.name = e.anchor /\ r[a.name].address \in Int
                          /\ r[e.name].address = e.at + (r[a.name].address - a.at)
    BY <1>1, ValueFollows
  <2>2. a \in Range(Recipe) /\ e \in Range(Recipe)
    BY DEF Maps
  <2>3. Entry(e.anchor) = a
    BY <2>1, <2>2, EntryIs
  <2>4. a.at \in Int /\ e.at \in Int
    BY <2>2, LibraryAssumption
  <2> HIDE DEF r
  <2> QED  BY <2>1, <2>3, <2>4
<1> HIDE DEF r
<1> QED  BY <1>1 DEF r, ValuesFollow

LEMMA StockStaysHolds == ASSUME NEW rom \in RomType PROVE StockStays(rom)
<1> DEFINE r == Relocate(rom)
           maps == MapMatches(rom)
<1> SUFFICES ASSUME \A e \in Maps : Home(rom, e)
             PROVE  /\ \A e \in Maps : r[e.name].address = e.at /\ r[e.name].source = "fingerprint"
                    /\ \A e \in Range(Recipe) \ Maps :
                         ~e.search /\ r[e.name].source = "anchor" => r[e.name].address = e.at
  BY DEF StockStays, Home, Full
<1>1. \A j \in 1..Len(Recipe) : Recipe[j].type # "value" => \E f \in maps : f.name = Recipe[j].name
  BY MatchesHold DEF AtHome
<1>2. \A f \in maps, j \in 1..Len(Recipe) : f.name = Recipe[j].name => f.cand.address = Recipe[j].at
  BY MatchesHold DEF AtHome
<1> HIDE DEF maps, r
<1>3. ASSUME NEW e \in Maps
      PROVE  r[e.name].address = e.at /\ r[e.name].source = "fingerprint"
  <2>1. PICK j \in 1..Len(Recipe) : Recipe[j] = e /\ e.type # "value"
    <3>1. Recipe \in Seq(Range(Recipe))
      BY LibraryAssumption
    <3> QED  BY <3>1 DEF Maps, Range
  <2>2. PICK f \in maps : f.name = e.name
    BY <1>1, <2>1
  <2>3. f.cand.address = e.at
    BY <1>2, <2>1, <2>2
  <2> QED  BY <2>2, <2>3, FoundPlace DEF maps, r
<1>4. ASSUME NEW e \in Range(Recipe) \ Maps, ~e.search, r[e.name].source = "anchor"
      PROVE  r[e.name].address = e.at
  <2>1. PICK a \in Maps : r[e.name].address = e.at + (r[a.name].address - a.at)
    BY <1>4, ValueFollows DEF r
  <2>2. a.at \in Int /\ e.at \in Int
    BY LibraryAssumption DEF Maps
  <2>3. r[a.name].address = a.at
    BY <1>3
  <2> QED  BY <2>1, <2>2, <2>3
<1> QED  BY <1>3, <1>4

-----------------------------------------------------------------------------
(* The package.  An archive is the files, each after a header of its own,  *)
(* then the directory of them and its end.                                 *)

FileNames == {"manifest", "rom", "recipe", "notes"}
FileCells(t) == {Word(w) : w \in PackageWords} \cup {Manifest(t)}
PackedFile(t) == [name : FileNames, data : Seq(FileCells(t))]
LocalCells(t) == FileCells(t) \cup [kind : {"local"}, name : FileNames, length : Nat]
CentralCells == [kind : {"central"}, name : FileNames, length : Nat, at : Nat \ {0}]
Outs(t) == [local : Seq(LocalCells(t)), central : Seq(CentralCells)]

LEMMA WordsTyped ==
  ASSUME NEW n \in Nat, NEW s \in WordsOf(n), NEW t
  PROVE  s \in Seq(FileCells(t)) /\ s # <<>>
<1>1. PICK k \in 1..n, f \in [1..n -> PackageWords] : s = [i \in 1..k |-> Word(f[i])]
  BY DEF WordsOf
<1>2. \A i \in 1..k : Word(f[i]) \in FileCells(t)
  BY DEF FileCells
<1>3. k \in Nat /\ k > 0
  OBVIOUS
<1> HIDE DEF FileCells
<1>4. s \in [1..k -> FileCells(t)]
  BY <1>1, <1>2
<1>5. s \in Seq(FileCells(t)) /\ Len(s) = k
  BY <1>3, <1>4
<1> QED  BY <1>3, <1>5

LEMMA PackagesTyped ==
  ASSUME NEW t \in Packages
  PROVE  /\ {t.rom, t.recipe, t.notes} \subseteq Seq(FileCells(t))
         /\ t.rom # <<>> /\ t.recipe # <<>>
<1>1. t.rom \in WordsOf(PackageLength) /\ t.recipe \in WordsOf(PackageLength)
      /\ t.notes \in WordsOf(NotesLength) \cup {<<>>}
  BY DEF Packages
<1>2. <<>> \in Seq(FileCells(t))
  OBVIOUS
<1> QED  BY <1>1, <1>2, PackageAssumption, WordsTyped

LEMMA FourInRow ==
  ASSUME NEW P, NEW a \in P, NEW b \in P, NEW c \in P, NEW d \in P
  PROVE  LET s == <<a, b, c>> \o <<d>> IN
         s \in Seq(P) /\ Len(s) = 4 /\ s[1] = a /\ s[2] = b /\ s[3] = c /\ s[4] = d
<1>1. <<a, b, c>> \in Seq(P) /\ <<d>> \in Seq(P)
  OBVIOUS
<1> DEFINE x == <<a, b, c>>
           y == <<d>>
<1>2. Len(x) = 3 /\ x[1] = a /\ x[2] = b /\ x[3] = c /\ Len(y) = 1 /\ y[1] = d
  OBVIOUS
<1> HIDE DEF x, y
<1>3. x \in Seq(P) /\ y \in Seq(P)
  BY <1>1 DEF x, y
<1>4. /\ x \o y \in Seq(P) /\ Len(x \o y) = Len(x) + Len(y)
      /\ \A i \in 1..Len(x) + Len(y) : (x \o y)[i] = IF i <= Len(x) THEN x[i] ELSE y[i - Len(x)]
  BY <1>3, ConcatProperties
<1>5. \A i \in 1..4 : (x \o y)[i] = IF i <= 3 THEN x[i] ELSE y[i - 3]
  BY <1>2, <1>4
<1>6. (x \o y)[1] = x[1] /\ (x \o y)[2] = x[2] /\ (x \o y)[3] = x[3]
  <2>1. 1 \in 1..4 /\ 2 \in 1..4 /\ 3 \in 1..4 /\ 1 <= 3 /\ 2 <= 3 /\ 3 <= 3
    OBVIOUS
  <2>2. \A i \in 1..4 : i <= 3 => (x \o y)[i] = x[i]
    BY <1>5
  <2> QED  BY <2>1, <2>2
<1>7. (x \o y)[4] = y[1]
  <2>1. 4 - 3 = 1 /\ 4 \in 1..4 /\ ~(4 <= 3)
    OBVIOUS
  <2> QED  BY <1>5, <2>1
<1>8. Len(x \o y) = 4
  BY <1>2, <1>4
<1> QED  BY <1>2, <1>4, <1>6, <1>7, <1>8 DEF x, y

LEMMA FilesAre ==
  ASSUME NEW t \in Packages
  PROVE  LET F == FilesOf(t) IN
         /\ F \in Seq(PackedFile(t)) /\ Len(F) = IF t.notes = <<>> THEN 3 ELSE 4
         /\ F[1] = [name |-> "manifest", data |-> <<Manifest(t)>>]
         /\ F[2] = [name |-> "rom", data |-> t.rom]
         /\ F[3] = [name |-> "recipe", data |-> t.recipe]
         /\ t.notes # <<>> => F[4] = [name |-> "notes", data |-> t.notes]
<1> DEFINE f1 == [name |-> "manifest", data |-> <<Manifest(t)>>]
           f2 == [name |-> "rom", data |-> t.rom]
           f3 == [name |-> "recipe", data |-> t.recipe]
           f4 == [name |-> "notes", data |-> t.notes]
           P == PackedFile(t)
<1>1. {t.rom, t.recipe, t.notes} \subseteq Seq(FileCells(t))
  BY PackagesTyped
<1>2. <<Manifest(t)>> \in Seq(FileCells(t))
  <2>1. Manifest(t) \in FileCells(t)
    BY DEF FileCells
  <2> DEFINE x == Manifest(t)
  <2> HIDE DEF x
  <2> QED  BY <2>1 DEF x
<1>3. f1 \in P /\ f2 \in P /\ f3 \in P /\ f4 \in P
  BY <1>1, <1>2 DEF PackedFile, FileNames
<1>4. FilesOf(t) = <<f1, f2, f3>> \o (IF t.notes = <<>> THEN <<>> ELSE <<f4>>)
  BY DEF FilesOf
<1> HIDE DEF f1, f2, f3, f4, P
<1>5. CASE t.notes = <<>>
  <2>1. FilesOf(t) = <<f1, f2, f3>>
    BY <1>4, <1>5
  <2>2. <<f1, f2, f3>> \in Seq(P)
    BY <1>3
  <2> QED  BY <1>5, <2>1, <2>2 DEF f1, f2, f3, P
<1>6. CASE t.notes # <<>>
  <2>1. FilesOf(t) = <<f1, f2, f3>> \o <<f4>>
    BY <1>4, <1>6
  <2> QED  BY <1>3, <1>6, <2>1, FourInRow DEF f1, f2, f3, f4, P
<1> QED  BY <1>5, <1>6

LEMMA NamesApart ==
  ASSUME NEW t \in Packages
  PROVE  \A i, j \in 1..Len(FilesOf(t)) : FilesOf(t)[i].name = FilesOf(t)[j].name => i = j
<1> DEFINE F == FilesOf(t)
<1>1. /\ Len(F) = IF t.notes = <<>> THEN 3 ELSE 4
      /\ F[1].name = "manifest" /\ F[2].name = "rom" /\ F[3].name = "recipe"
      /\ t.notes # <<>> => F[4].name = "notes"
  <2>1. \A n, d : [name |-> n, data |-> d].name = n
    OBVIOUS
  <2>2. /\ Len(F) = IF t.notes = <<>> THEN 3 ELSE 4
        /\ F[1] = [name |-> "manifest", data |-> <<Manifest(t)>>]
        /\ F[2] = [name |-> "rom", data |-> t.rom]
        /\ F[3] = [name |-> "recipe", data |-> t.recipe]
        /\ t.notes # <<>> => F[4] = [name |-> "notes", data |-> t.notes]
    BY FilesAre
  <2> HIDE DEF F
  <2> QED  BY <2>1, <2>2
<1> HIDE DEF F
<1>2. CASE t.notes = <<>>
  <2>1. \A i \in 1..Len(F) : i \in {1, 2, 3}
    BY <1>1, <1>2
  <2> QED  BY <1>1, <2>1 DEF F
<1>3. CASE t.notes # <<>>
  <2>1. \A i \in 1..Len(F) : i \in {1, 2, 3, 4}
    BY <1>1, <1>3
  <2> QED  BY <1>1, <1>3, <2>1 DEF F
<1> QED  BY <1>2, <1>3

\* One file more.
LEMMA AppendTyped ==
  ASSUME NEW t, NEW out \in Outs(t), NEW file \in PackedFile(t)
  PROVE  AppendStoreFile(out, file) \in Outs(t)
<1>1. LocalHeader(file) \in LocalCells(t)
  <2>1. Len(file.data) \in Nat /\ file.name \in FileNames
    BY DEF PackedFile
  <2> QED  BY <2>1 DEF LocalHeader, LocalCells
<1>2. file.data \in Seq(LocalCells(t))
  BY DEF PackedFile, LocalCells
<1>3. out.local \in Seq(LocalCells(t)) /\ out.central \in Seq(CentralCells)
  BY DEF Outs
<1>4. CentralHeader(file, Len(out.local) + 1) \in CentralCells
  <2>1. Len(file.data) \in Nat /\ file.name \in FileNames
    BY DEF PackedFile
  <2>2. Len(out.local) + 1 \in Nat \ {0}
    BY <1>3
  <2> QED  BY <2>1, <2>2 DEF CentralHeader, CentralCells
<1> DEFINE L == LocalCells(t)
           h == LocalHeader(file)
           c == CentralHeader(file, Len(out.local) + 1)
<1> HIDE DEF L, h, c
<1>5. out.local \o <<h>> \o file.data \in Seq(L)
  BY <1>1, <1>2, <1>3 DEF L, h
<1>6. Append(out.central, c) \in Seq(CentralCells)
  BY <1>3, <1>4 DEF c
<1> QED  BY <1>5, <1>6 DEF AppendStoreFile, Outs, L, h, c

Nothing0 == [local |-> <<>>, central |-> <<>>]
Closed(out) ==
  out.local \o out.central \o <<EndHeader(Len(out.central), Len(out.local) + 1)>>

LEMMA PackedRun ==
  ASSUME NEW t \in Packages
  PROVE  LET F == FilesOf(t) IN
         \E run \in [0..Len(F) -> Outs(t)] :
           /\ run[0] = Nothing0 /\ WriteZip(t) = Closed(run[Len(F)])
           /\ \A i \in 1..Len(F) : run[i] = AppendStoreFile(run[i - 1], F[i])
<1> DEFINE F == FilesOf(t)
           n == Len(F)
           S == DOMAIN F
           D == Outs(t)
           One(out, f) == AppendStoreFile(out, f)
           Step == [x \in (1..n) \X D |-> One(x[2], F[x[1]])]
           It(f) == [s \in SUBSET S |-> IF s = {} THEN Nothing0 ELSE One(f[s \ {Max(s)}], F[Max(s)])]
           iter == CHOOSE f : f = It(f)
<1>1. WriteZip(t) = Closed(iter[S])
  BY DEF WriteZip, FoldLeft, MapThenFoldSet, Closed, Nothing0
<1>2. S = 1..n /\ n \in Nat
  BY FilesAre
<1>3. ASSUME NEW i \in 1..n, NEW out \in D PROVE One(out, F[i]) \in D
  <2>1. F \in Seq(PackedFile(t))
    BY FilesAre
  <2>2. F[i] \in PackedFile(t)
    BY <2>1
  <2> QED  BY <2>2, AppendTyped
<1> HIDE DEF One, F
<1>4. IsStep(Step, n, D) /\ Nothing0 \in D
  <2>1. IsStep(Step, n, D)
    <3> HIDE DEF D
    <3> QED  BY <1>3 DEF IsStep
  <2>2. Nothing0 \in D
    BY DEF Outs, Nothing0
  <2> QED  BY <2>1, <2>2
<1> HIDE DEF D
<1>5. PICK f : IsFold(f, n, D, Nothing0, Step)
  <2> HIDE DEF n, Step
  <2> QED  BY <1>2, <1>4, FoldExists
<1>6. \A s \in SUBSET (1..n) : s # {} => Max(s) \in 1..n /\ s \ {Max(s)} \in SUBSET (1..n)
  <2> HIDE DEF n
  <2> QED  BY <1>2, MaxIsIn
<1>7. f = It(f)
  <2>1. \A s \in SUBSET S : f[s] = It(f)[s]
    BY <1>2, <1>5, <1>6 DEF IsFold
  <2>2. f \in [SUBSET S -> D]
    BY <1>2, <1>5 DEF IsFold
  <2>3. It(f) = [s \in SUBSET S |-> It(f)[s]]
    OBVIOUS
  <2> HIDE DEF It, S
  <2> QED  BY <2>1, <2>2, <2>3
<1> HIDE DEF It
<1>8. iter = It(iter)
  BY <1>7
<1> HIDE DEF iter
<1>9. GoesOn(iter, n, D, Nothing0, Step)
  BY <1>2, <1>6, <1>8 DEF It, GoesOn
<1>10. \A i \in 1..n, out \in D : Step[<<i, out>>] = One(out, F[i])
  OBVIOUS
<1> HIDE DEF n, Step
<1>11. Through(iter, n, D, Nothing0, Step)
  BY <1>2, <1>4, <1>9, FoldRun
<1>12. PICK run : Runs(run, n, D, Nothing0, Step) /\ run[n] = iter[1..n]
  BY <1>11 DEF Through
<1>13. run \in [0..n -> D] /\ run[0] = Nothing0 /\ WriteZip(t) = Closed(run[n])
  BY <1>1, <1>2, <1>12 DEF Runs
<1>14. \A i \in 1..n : run[i] = One(run[i - 1], F[i])
  <2> SUFFICES ASSUME NEW i \in 1..n PROVE run[i] = One(run[i - 1], F[i])
    OBVIOUS
  <2>1. run[i - 1] \in D
    BY <1>2, <1>13
  <2> QED  BY <1>10, <1>12, <2>1 DEF Runs
<1> QED  BY <1>13, <1>14 DEF n, D, One, F

\* What the directory says of a file is where it is.
PackedAs(local, c, f) ==
  /\ c.name = f.name /\ c.length = Len(f.data) /\ c.at \in Nat \ {0}
  /\ c.at + Len(f.data) <= Len(local) /\ local[c.at] = LocalHeader(f)
  /\ \A x \in 1..Len(f.data) : local[c.at + x] = f.data[x]

\* A file more, stored after those that there are.
OneMoreStored(t, out, file, more) ==
  /\ Len(more.central) = Len(out.central) + 1
  /\ PackedAs(more.local, more.central[Len(out.central) + 1], file)
  /\ \A j \in 1..Len(out.central) : more.central[j] = out.central[j]
  /\ \A c, f : f \in PackedFile(t) /\ PackedAs(out.local, c, f) => PackedAs(more.local, c, f)

LEMMA AppendStores ==
  ASSUME NEW t, NEW out \in Outs(t), NEW file \in PackedFile(t), NEW more,
         more = AppendStoreFile(out, file)
  PROVE  OneMoreStored(t, out, file, more)
<1> DEFINE L == out.local
           S == LocalCells(t)
           h == LocalHeader(file)
           c0 == CentralHeader(file, Len(L) + 1)
           d == file.data
           M == more.local
<1>1. L \in Seq(S) /\ out.central \in Seq(CentralCells)
  BY DEF Outs
<1>2. h \in S /\ d \in Seq(S)
  <2>1. Len(file.data) \in Nat /\ file.name \in FileNames /\ file.data \in Seq(FileCells(t))
    BY DEF PackedFile
  <2> QED  BY <2>1 DEF LocalHeader, LocalCells
<1>3. c0 \in CentralCells
  <2>1. Len(file.data) \in Nat /\ file.name \in FileNames
    BY DEF PackedFile
  <2>2. Len(out.local) + 1 \in Nat \ {0}
    BY <1>1
  <2> QED  BY <2>1, <2>2 DEF CentralHeader, CentralCells
<1>4. M = L \o <<h>> \o d /\ more.central = Append(out.central, c0)
  BY DEF AppendStoreFile
<1> HIDE DEF L, S, h, c0, d, M
<1>5. /\ Len(M) = Len(L) + 1 + Len(d)
      /\ \A x \in 1..Len(L) : M[x] = L[x]
      /\ M[Len(L) + 1] = h
      /\ \A x \in 1..Len(d) : M[Len(L) + 1 + x] = d[x]
  <2> DEFINE one == L \o <<h>>
  <2>1. one = Append(L, h)
    BY <1>1, <1>2
  <2>2. /\ one \in Seq(S) /\ Len(one) = Len(L) + 1 /\ one[Len(L) + 1] = h
        /\ \A x \in 1..Len(L) : one[x] = L[x]
    <3> HIDE DEF one
    <3> QED  BY <1>1, <1>2, <2>1
  <2>3. M = one \o d
    BY <1>4
  <2> HIDE DEF one
  <2>4. /\ Len(M) = Len(one) + Len(d)
        /\ \A i \in 1..Len(one) + Len(d) : M[i] = IF i <= Len(one) THEN one[i] ELSE d[i - Len(one)]
    <3>1. one \in Seq(S) /\ d \in Seq(S)
      BY <1>2, <2>2
    <3>2. /\ Len(one \o d) = Len(one) + Len(d)
          /\ \A i \in 1..Len(one) + Len(d) :
               (one \o d)[i] = IF i <= Len(one) THEN one[i] ELSE d[i - Len(one)]
      BY <3>1, ConcatProperties
    <3> QED  BY ONLY <2>3, <3>2
  <2>5. Len(L) \in Nat /\ Len(d) \in Nat
    BY <1>1, <1>2
  <2>6. \A x \in 1..Len(d) : M[Len(one) + x] = d[x]
    <3> TAKE x \in 1..Len(d)
    <3>1. Len(one) + x \in 1..Len(one) + Len(d) /\ ~(Len(one) + x <= Len(one))
          /\ (Len(one) + x) - Len(one) = x
      BY <2>2, <2>5
    <3> QED  BY <2>4, <3>1
  <2>7. \A x \in 1..Len(one) : M[x] = one[x]
    BY <2>2, <2>4, <2>5
  <2> QED  BY <2>2, <2>4, <2>5, <2>6, <2>7
<1>6. Len(L) \in Nat /\ Len(d) \in Nat
  BY <1>1, <1>2
<1>7. PackedAs(M, c0, file)
  <2>1. c0.name = file.name /\ c0.length = Len(d) /\ c0.at = Len(L) + 1
    BY DEF c0, CentralHeader, d
  <2>2. c0.at \in Nat \ {0} /\ c0.at + Len(d) <= Len(M)
    BY <1>5, <1>6, <2>1
  <2>3. M[c0.at] = LocalHeader(file)
    BY <1>5, <2>1 DEF h
  <2>4. \A x \in 1..Len(d) : M[c0.at + x] = d[x]
    BY <1>5, <2>1
  <2> QED  BY <2>1, <2>2, <2>3, <2>4 DEF PackedAs, d
<1>8. /\ Len(more.central) = Len(out.central) + 1 /\ more.central[Len(out.central) + 1] = c0
      /\ \A j \in 1..Len(out.central) : more.central[j] = out.central[j]
  BY <1>1, <1>3, <1>4
<1>9. ASSUME NEW c, NEW f \in PackedFile(t), PackedAs(L, c, f) PROVE PackedAs(M, c, f)
  <2>1. Len(f.data) \in Nat
    BY DEF PackedFile
  <2>2. c.at \in 1..Len(L) /\ \A x \in 1..Len(f.data) : c.at + x \in 1..Len(L)
    BY <1>6, <1>9, <2>1 DEF PackedAs
  <2>3. /\ c.name = f.name /\ c.length = Len(f.data) /\ c.at \in Nat \ {0}
        /\ c.at + Len(f.data) <= Len(L) /\ L[c.at] = LocalHeader(f)
        /\ \A x \in 1..Len(f.data) : L[c.at + x] = f.data[x]
    BY <1>9 DEF PackedAs
  <2>4. c.at + Len(f.data) <= Len(M)
    BY <1>5, <1>6, <2>1, <2>3
  <2>5. M[c.at] = LocalHeader(f)
    BY <1>5, <2>2, <2>3
  <2>6. \A x \in 1..Len(f.data) : M[c.at + x] = f.data[x]
    BY <1>5, <2>2, <2>3
  <2> QED  BY ONLY <2>3, <2>4, <2>5, <2>6 DEF PackedAs
<1> QED  BY <1>7, <1>8, <1>9 DEF L, M, OneMoreStored

\* The archive of a package: the cells of its files, then the directory, then the end.
Layout(t, L, C) ==
  LET F == FilesOf(t) IN
  /\ L \in Seq(LocalCells(t)) /\ C \in Seq(CentralCells) /\ Len(C) = Len(F)
  /\ \A j \in 1..Len(F) : PackedAs(L, C[j], F[j])
  /\ WriteZip(t) = L \o C \o <<EndHeader(Len(C), Len(L) + 1)>>

LEMMA LaidOut == ASSUME NEW t \in Packages PROVE \E L, C : Layout(t, L, C)
<1> DEFINE F == FilesOf(t)
           n == Len(F)
<1>1. PICK run \in [0..n -> Outs(t)] :
           /\ run[0] = Nothing0 /\ WriteZip(t) = Closed(run[n])
           /\ \A i \in 1..n : run[i] = AppendStoreFile(run[i - 1], F[i])
  BY PackedRun
<1>2. F \in Seq(PackedFile(t)) /\ n \in Nat
  BY FilesAre
<1> DEFINE Laid(i, out) == /\ Len(out.central) = i
                           /\ \A j \in 1..i : PackedAs(out.local, out.central[j], F[j])
           T == {i \in 0..n : Laid(i, run[i])}
<1> HIDE DEF F
<1>3. 0 \in T
  <2>1. Laid(0, Nothing0)
    BY DEF Nothing0
  <2>2. 0 \in 0..n /\ Laid(0, run[0])
    BY <1>1, <1>2, <2>1
  <2> HIDE DEF n, Laid
  <2> QED  BY <2>2
<1>4. ASSUME NEW i \in 1..n, i - 1 \in T PROVE i \in T
  <2> DEFINE out == run[i - 1]
             more == run[i]
  <2>1. out \in Outs(t) /\ Laid(i - 1, out) /\ F[i] \in PackedFile(t) /\ i \in 0..n
    BY <1>1, <1>2, <1>4
  <2>2. more = AppendStoreFile(out, F[i])
    BY <1>1
  <2> DEFINE file == F[i]
  <2> HIDE DEF out, more, file
  <2>3. /\ Len(more.central) = Len(out.central) + 1
        /\ PackedAs(more.local, more.central[Len(out.central) + 1], file)
        /\ \A j \in 1..Len(out.central) : more.central[j] = out.central[j]
        /\ \A c, f : f \in PackedFile(t) /\ PackedAs(out.local, c, f) => PackedAs(more.local, c, f)
    <3>1. out \in Outs(t) /\ file \in PackedFile(t) /\ more = AppendStoreFile(out, file)
      BY <2>1, <2>2 DEF file
    <3>2. OneMoreStored(t, out, file, more)
      BY <3>1, AppendStores
    <3> QED  BY <3>2 DEF OneMoreStored
  <2>4. Len(out.central) = i - 1 /\ (i - 1) + 1 = i /\ 1..i = (1..(i - 1)) \cup {i}
    BY <1>2, <2>1
  <2>5. ASSUME NEW j \in 1..(i - 1) PROVE PackedAs(more.local, more.central[j], F[j])
    <3>1. PackedAs(out.local, out.central[j], F[j]) /\ F[j] \in PackedFile(t)
      BY <1>2, <2>1
    <3> QED  BY <2>3, <2>4, <3>1
  <2>6. PackedAs(more.local, more.central[i], F[i]) /\ Len(more.central) = i
    BY <2>3, <2>4 DEF file
  <2>7. Laid(i, more)
    BY <2>4, <2>5, <2>6
  <2> QED  BY <2>1, <2>7 DEF more
<1> HIDE DEF T
<1>5. n \in T
  <2>1. \A i \in 0..n : i \in T
    <3> HIDE DEF n
    <3> QED  BY <1>2, <1>3, <1>4, Upward
  <2> QED  BY <1>2, <2>1
<1>6. Laid(n, run[n]) /\ run[n] \in Outs(t)
  BY <1>1, <1>2, <1>5 DEF T
<1>7. Layout(t, run[n].local, run[n].central)
  BY <1>1, <1>6 DEF Layout, Closed, Outs, F
<1> QED  BY <1>7

EndOf(L, C) == EndHeader(Len(C), Len(L) + 1)
CellsOf(t, L, C) == LocalCells(t) \cup CentralCells \cup {EndOf(L, C)}

\* A cell is told by its kind.
KindsApart(t, L, C) ==
  /\ EndOf(L, C).kind = "end"
  /\ \A c \in CellsOf(t, L, C) :
       /\ c.kind = "end" => c = EndOf(L, C)
       /\ c.kind = "central" => c \in CentralCells
       /\ c.kind = "manifest" => c = Manifest(t)

LEMMA Kinds ==
  ASSUME NEW t, NEW L, NEW C
  PROVE  /\ KindsApart(t, L, C)
         /\ \A c \in LocalCells(t) : c.kind \in {"word", "manifest", "local"}
         /\ \A c \in CentralCells : c.kind = "central" /\ c.at \in Nat \ {0} /\ c.length \in Nat
<1>1. \A c \in FileCells(t) : /\ c.kind \in {"word", "manifest"}
                              /\ c.kind = "manifest" => c = Manifest(t)
  <2>1. \A w : Word(w).kind = "word"
    BY DEF Word
  <2>2. Manifest(t).kind = "manifest"
    BY DEF Manifest
  <2> QED  BY <2>1, <2>2 DEF FileCells
<1>2. \A c \in [kind : {"local"}, name : FileNames, length : Nat] : c.kind = "local"
  OBVIOUS
<1>3. \A c \in CentralCells : c.kind = "central" /\ c.at \in Nat \ {0} /\ c.length \in Nat
  BY DEF CentralCells
<1>4. EndOf(L, C).kind = "end"
  BY DEF EndOf, EndHeader
<1>5. \A c \in LocalCells(t) : /\ c.kind \in {"word", "manifest", "local"}
                               /\ c.kind = "manifest" => c = Manifest(t)
  BY <1>1, <1>2 DEF LocalCells
<1>6. KindsApart(t, L, C)
  BY <1>3, <1>4, <1>5 DEF CellsOf, KindsApart
<1> QED  BY <1>3, <1>5, <1>6

Lying(t, L, C, A) ==
  /\ A \in Seq(CellsOf(t, L, C)) /\ Len(A) = Len(L) + Len(C) + 1
  /\ A[Len(L) + Len(C) + 1] = EndOf(L, C)
  /\ \A x \in 1..Len(L) : A[x] = L[x]
  /\ \A j \in 1..Len(C) : A[Len(L) + j] = C[j]

LEMMA EndKind ==
  ASSUME NEW t, NEW L, NEW C, NEW c \in CellsOf(t, L, C), c.kind = "end"
  PROVE  c = EndOf(L, C)
<1>1. KindsApart(t, L, C)
  BY Kinds
<1> QED  BY <1>1 DEF KindsApart

LEMMA CentralKind ==
  ASSUME NEW t, NEW L, NEW C, NEW c \in CellsOf(t, L, C), c.kind = "central"
  PROVE  c \in CentralCells
<1>1. KindsApart(t, L, C)
  BY Kinds
<1> QED  BY <1>1 DEF KindsApart

LEMMA ManifestKind ==
  ASSUME NEW t, NEW L, NEW C, NEW c \in CellsOf(t, L, C), c.kind = "manifest"
  PROVE  c = Manifest(t)
<1>1. KindsApart(t, L, C)
  BY Kinds
<1> QED  BY <1>1 DEF KindsApart

LEMMA CellsLie ==
  ASSUME NEW t, NEW L \in Seq(LocalCells(t)), NEW C \in Seq(CentralCells),
         NEW A, A = L \o C \o <<EndOf(L, C)>>
  PROVE  Lying(t, L, C, A)
<1> DEFINE S == CellsOf(t, L, C)
           e == EndOf(L, C)
           l == Len(L)
           m == Len(C)
           B == L \o C
<1>1. L \in Seq(S) /\ C \in Seq(S) /\ e \in S
  BY DEF CellsOf
<1> HIDE DEF S, e
<1>2. /\ B \in Seq(S) /\ Len(B) = l + m
      /\ \A i \in 1..l + m : B[i] = IF i <= l THEN L[i] ELSE C[i - l]
  BY <1>1, ConcatProperties
<1>3. A = Append(B, e)
  <2>1. A = B \o <<e>>
    BY DEF e
  <2> HIDE DEF B
  <2> QED  BY <1>1, <1>2, <2>1
<1> HIDE DEF B
<1>4. /\ A \in Seq(S) /\ Len(A) = l + m + 1 /\ A[l + m + 1] = e
      /\ \A i \in 1..l + m : A[i] = B[i]
  BY <1>1, <1>2, <1>3
<1>5. l \in Nat /\ m \in Nat
  OBVIOUS
<1> HIDE DEF l, m
<1>6. \A x \in 1..l : A[x] = L[x]
  BY <1>2, <1>4, <1>5
<1>7. \A j \in 1..m : A[l + j] = C[j]
  <2> TAKE j \in 1..m
  <2>1. l + j \in 1..l + m /\ ~(l + j <= l) /\ (l + j) - l = j
    BY <1>5
  <2> QED  BY <1>2, <1>4, <2>1
<1> QED  BY <1>4, <1>6, <1>7 DEF S, e, l, m, Lying

-----------------------------------------------------------------------------
(* What is read from any cells of the archive, wherever they are. *)

LEMMA EndFound ==
  ASSUME NEW S, NEW zip \in Seq(S)
  PROVE  /\ (\A i \in 1..Len(zip) : zip[i].kind # "end") => FindEOCD(zip) = 0
         /\ FindEOCD(zip) # 0 => FindEOCD(zip) \in 1..Len(zip) /\ zip[FindEOCD(zip)].kind = "end"
         /\ \A i \in 1..Len(zip) :
              zip[i].kind = "end" /\ (\A j \in 1..Len(zip) : zip[j].kind = "end" => j = i)
                => FindEOCD(zip) = i
<1> DEFINE ends == {i \in DOMAIN zip : zip[i].kind = "end"}
<1>1. DOMAIN zip = 1..Len(zip) /\ Len(zip) \in Nat
  OBVIOUS
<1>2. FindEOCD(zip) = IF ends = {} THEN 0 ELSE CHOOSE i \in ends : \A j \in ends : j <= i
  BY DEF FindEOCD
<1>3. (\A i \in 1..Len(zip) : zip[i].kind # "end") => FindEOCD(zip) = 0
  BY <1>1, <1>2
<1>4. ASSUME ends # {} PROVE FindEOCD(zip) \in ends
  <2>1. ends \in SUBSET (1..Len(zip))
    BY <1>1
  <2> HIDE DEF ends
  <2>2. Max(ends) \in ends /\ \A j \in ends : Max(ends) >= j
    BY <1>1, <1>4, <2>1, MaxIsIn
  <2>3. \A j \in ends : j \in Int
    BY <2>1
  <2>4. \E i \in ends : \A j \in ends : j <= i
    BY <2>2, <2>3
  <2> QED  BY <1>2, <1>4, <2>4
<1>5. FindEOCD(zip) # 0 => FindEOCD(zip) \in ends
  BY <1>2, <1>4
<1>6. \A i \in 1..Len(zip) :
        zip[i].kind = "end" /\ (\A j \in 1..Len(zip) : zip[j].kind = "end" => j = i)
          => FindEOCD(zip) = i
  BY <1>1, <1>4
<1> QED  BY <1>1, <1>3, <1>5, <1>6

\* The directory is what there is of it before the first cell that is no entry.
Listed(dir, n, zip, e, S) ==
  /\ dir \in Seq(S) /\ Len(dir) = n
  /\ \A i \in 1..n : dir[i] = zip[e.at + i - 1] /\ dir[i].kind = "central"
  /\ n < e.length => zip[e.at + n].kind # "central"
IsEnd(e, zip) ==
  /\ e.kind = "end" /\ e.at \in Nat \ {0} /\ e.length \in Nat
  /\ e.at + e.length - 1 <= Len(zip)

LEMMA DirectoryOf ==
  ASSUME NEW S, NEW zip \in Seq(S), NEW e \in S, IsEnd(e, zip)
  PROVE  \E n \in 0..e.length : Listed(Directory(zip, e), n, zip, e, S)
<1> USE DEF IsEnd
<1> DEFINE inside == SubSeq(zip, e.at, e.at + e.length - 1)
           s == inside \o <<e>>
           m == e.length
           I == {i \in 1..Len(s) : s[i].kind # "central"}
           k == Min(I)
<1>1. /\ inside \in Seq(S) /\ Len(inside) = m
      /\ \A i \in 1..m : inside[i] = zip[e.at + i - 1]
  <2> DEFINE a == e.at
  <2>1. a \in Nat \ {0} /\ m \in Nat /\ a + m - 1 <= Len(zip)
    OBVIOUS
  <2>2. inside = SubSeq(zip, a, a + m - 1)
    OBVIOUS
  <2> HIDE DEF a, m, inside
  <2>3. \A i \in 1..m : (a + i) - 1 \in 1..Len(zip) /\ (a + i) - 1 = a + (i - 1)
    BY <2>1
  <2>4. inside \in Seq(S) /\ Len(inside) = m
    BY <2>1, <2>2, <2>3
  <2>5. \A i \in 1..m : inside[i] = zip[(a + i) - 1]
    BY <2>1, <2>2, <2>3
  <2>6. \A i \in 1..m : inside[i] = zip[a + (i - 1)]
    BY <2>3, <2>5
  <2> QED  BY <2>4, <2>6 DEF a
<1> HIDE DEF inside
<1>2. /\ s \in Seq(S) /\ Len(s) = m + 1 /\ s[m + 1] = e
      /\ \A i \in 1..m : s[i] = inside[i]
  <2>1. s = Append(inside, e)
    BY <1>1
  <2> HIDE DEF s
  <2> QED  BY <1>1, <2>1
<1> HIDE DEF s
<1>3. I \in SUBSET (1..m + 1) /\ m + 1 \in I
  BY <1>2
<1>4. k \in I /\ \A i \in I : k <= i
  <2> HIDE DEF I
  <2>1. m + 1 \in Nat
    OBVIOUS
  <2> QED  BY <1>3, <2>1, MinIsIn
<1>5. Directory(zip, e) = SubSeq(inside, 1, k - 1)
  <2>1. I # {}
    BY <1>3
  <2>2. SelectInSeq(s, LAMBDA c : c.kind # "central") = k
    BY <2>1 DEF SelectInSeq
  <2> QED  BY <2>2 DEF Directory, inside, s
<1>6. k \in 1..m + 1
  BY <1>3, <1>4
<1>7. \A i \in 1..k - 1 : s[i].kind = "central"
  <2> TAKE i \in 1..k - 1
  <2>1. i \in 1..Len(s) /\ i < k /\ i \in Int /\ k \in Int
    BY <1>2, <1>6
  <2>2. i \notin I
    <3> HIDE DEF I, k
    <3> QED  BY <1>4, <2>1
  <2> QED  BY <2>1, <2>2
<1>8. k <= m => s[k].kind # "central"
  BY <1>4
<1> HIDE DEF k, I
<1> DEFINE dir == Directory(zip, e)
<1>9. dir \in Seq(S) /\ Len(dir) = k - 1 /\ \A i \in 1..k - 1 : dir[i] = inside[i]
  BY <1>1, <1>5, <1>6
<1> HIDE DEF dir
<1>10. k - 1 \in 0..m /\ \A i \in 1..k - 1 : i \in 1..m
  BY <1>6
<1>11. \A i \in 1..k - 1 : dir[i] = zip[e.at + i - 1] /\ dir[i].kind = "central"
  BY <1>1, <1>2, <1>7, <1>9, <1>10
<1>12. k - 1 < m => zip[e.at + (k - 1)].kind # "central"
  <2> HAVE k - 1 < m
  <2>1. k \in 1..m /\ e.at + (k - 1) = e.at + k - 1 /\ k <= m
    BY <1>6
  <2> QED  BY <1>1, <1>2, <1>8, <2>1
<1> QED  BY <1>9, <1>10, <1>11, <1>12 DEF dir, Listed

DirOf(zip) ==
  LET end == FindEOCD(zip)
  IN IF end = 0 \/ zip[end].at + zip[end].length - 1 > Len(zip) THEN <<>>
     ELSE Directory(zip, zip[end])
Named(zip, name) == {i \in DOMAIN DirOf(zip) : DirOf(zip)[i].name = name}

LEMMA ExtractIs ==
  ASSUME NEW zip, NEW name
  PROVE  LET entry == DirOf(zip)[Min(Named(zip, name))] IN
         ExtractNamed(zip, name) =
           IF \/ Named(zip, name) = {} \/ entry.at > Len(zip) \/ zip[entry.at].kind # "local"
              \/ entry.at + entry.length > Len(zip)
           THEN <<>> ELSE SubSeq(zip, entry.at + 1, entry.at + entry.length)
BY DEF ExtractNamed, DirOf, Named

Piece(r, zip, a, k, S) ==
  r \in Seq(S) /\ Len(r) = k /\ \A x \in 1..k : r[x] = zip[a + x]

LEMMA PieceOf ==
  ASSUME NEW S, NEW zip \in Seq(S), NEW a \in Nat, NEW k \in Nat, a + k <= Len(zip)
  PROVE  Piece(SubSeq(zip, a + 1, a + k), zip, a, k, S)
<1>1. \A x \in 1..k : a + x \in 1..Len(zip)
  OBVIOUS
<1> DEFINE r == SubSeq(zip, a + 1, a + k)
<1>2. r \in Seq(S) /\ Len(r) = k
  BY <1>1
<1>3. \A x \in 1..k : r[x] = zip[a + x]
  <2> TAKE x \in 1..k
  <2> DEFINE y == ((a + 1) + x) - 1
  <2>1. r[x] = zip[y]
    BY <1>1
  <2>2. y = a + x
    OBVIOUS
  <2> HIDE DEF r, y
  <2> QED  BY <2>1, <2>2
<1> QED  BY <1>2, <1>3 DEF Piece

\* The first cell of what is extracted is one of the archive.
LEMMA HeadIsCell ==
  ASSUME NEW t, NEW L \in Seq(LocalCells(t)), NEW C \in Seq(CentralCells),
         NEW zip \in Seq(CellsOf(t, L, C)), NEW name, ExtractNamed(zip, name) # <<>>
  PROVE  Head(ExtractNamed(zip, name)) \in CellsOf(t, L, C)
<1> DEFINE S == CellsOf(t, L, C)
           e == EndOf(L, C)
           dir == DirOf(zip)
           named == Named(zip, name)
           entry == dir[Min(named)]
           end == FindEOCD(zip)
<1>1. named # {} /\ ~(entry.at + entry.length > Len(zip))
      /\ ExtractNamed(zip, name) = SubSeq(zip, entry.at + 1, entry.at + entry.length)
  <2> HIDE DEF dir, named
  <2> QED  BY ExtractIs DEF dir, named
<1>2. dir # <<>>
  <2>1. named = {i \in DOMAIN dir : dir[i].name = name}
    BY DEF Named
  <2> HIDE DEF named, dir, entry
  <2>2. DOMAIN dir # {}
    BY <1>1, <2>1
  <2> QED  BY <2>2
<1>3. end # 0 /\ ~(zip[end].at + zip[end].length - 1 > Len(zip)) /\ dir = Directory(zip, zip[end])
  BY <1>2 DEF DirOf
<1>4. end \in 1..Len(zip) /\ zip[end].kind = "end"
  BY <1>3, EndFound
<1> HIDE DEF dir, named
<1>5. zip[end] = e /\ e \in S
  <2>1. zip[end] \in S
    BY <1>4
  <2>2. zip[end] = e
    <3> HIDE DEF end
    <3> QED  BY <1>4, <2>1, EndKind
  <2>3. e \in S
    BY DEF CellsOf
  <2> QED  BY <2>2, <2>3
<1>6. e.at \in Nat \ {0} /\ e.length \in Nat /\ e.kind = "end"
  <2>1. Len(C) \in Nat /\ Len(L) + 1 \in Nat \ {0}
    OBVIOUS
  <2>2. e.at = Len(L) + 1 /\ e.length = Len(C) /\ e.kind = "end"
    BY DEF EndOf, EndHeader
  <2> QED  BY <2>1, <2>2
<1> HIDE DEF end, e, S
<1>7. e.at + e.length - 1 <= Len(zip)
  <2>1. Len(zip) \in Nat
    OBVIOUS
  <2> QED  BY <1>3, <1>5, <1>6, <2>1
<1>8. PICK n \in 0..e.length : Listed(dir, n, zip, e, S)
  <2>1. zip \in Seq(S)
    BY DEF S
  <2>2. dir = Directory(zip, e)
    BY <1>3, <1>5
  <2>3. IsEnd(e, zip)
    BY <1>6, <1>7 DEF IsEnd
  <2> QED  BY <1>5, <2>1, <2>2, <2>3, DirectoryOf
<1>9. entry \in CentralCells
  <2>1. n \in Nat /\ DOMAIN dir = 1..n
    BY <1>6, <1>8 DEF Listed
  <2>2. named \in SUBSET (1..n)
    BY <2>1 DEF named, Named, dir
  <2>3. Min(named) \in 1..n
    BY <1>1, <2>1, <2>2, MinIsIn
  <2>4. entry \in S /\ entry.kind = "central"
    BY <1>8, <2>1, <2>3 DEF Listed
  <2> HIDE DEF entry
  <2> QED  BY <2>4, CentralKind DEF S
<1>10. entry.at \in Nat \ {0} /\ entry.length \in Nat
  BY <1>9, Kinds
<1> HIDE DEF entry
<1> DEFINE a == entry.at
           k == entry.length
           r == SubSeq(zip, a + 1, a + k)
<1>11. zip \in Seq(S) /\ Len(zip) \in Nat
  BY DEF S
<1>12. a \in Nat /\ k \in Nat /\ r = ExtractNamed(zip, name) /\ a + k <= Len(zip)
  BY <1>1, <1>10, <1>11
<1> HIDE DEF a, k
<1>13. Piece(r, zip, a, k, S)
  BY <1>11, <1>12, PieceOf
<1> HIDE DEF r
<1>14. Len(r) = k /\ r # <<>> /\ \A x \in 1..k : r[x] = zip[a + x]
  BY <1>12, <1>13 DEF Piece
<1>15. Head(r) \in S
  <2>1. r \in Seq(S)
    BY <1>13 DEF Piece
  <2> QED  BY <1>14, <2>1
<1> QED  BY <1>12, <1>15 DEF S

\* Whatever the cells, a package that is read has the ROM that was exported.
LEMMA RomIsGiven ==
  ASSUME NEW t, NEW L \in Seq(LocalCells(t)), NEW C \in Seq(CentralCells),
         NEW zip \in Seq(CellsOf(t, L, C)), ReadZip(zip).ok
  PROVE  ReadZip(zip).tune.rom = t.rom
<1> DEFINE man == ExtractNamed(zip, "manifest")
           rom == ExtractNamed(zip, "rom")
           theRecipe == ExtractNamed(zip, "recipe")
           theNotes == ExtractNamed(zip, "notes")
<1>1. ReadZip(zip) = IF \/ <<>> \in {man, rom, theRecipe}
                        \/ Head(man).kind # "manifest" \/ Head(man).sum # rom
                     THEN Refused
                     ELSE Accepted(Head(man), rom, theRecipe, theNotes)
  BY DEF ReadZip
<1> HIDE DEF man, rom, theRecipe, theNotes
<1>2. /\ man # <<>> /\ Head(man).kind = "manifest" /\ Head(man).sum = rom
      /\ ReadZip(zip) = Accepted(Head(man), rom, theRecipe, theNotes)
  BY <1>1 DEF Refused
<1>3. Head(man) = Manifest(t)
  <2>1. Head(man) \in CellsOf(t, L, C)
    BY <1>2, HeadIsCell DEF man
  <2> DEFINE c == Head(man)
  <2> HIDE DEF c
  <2>2. c \in CellsOf(t, L, C) /\ c.kind = "manifest"
    BY <1>2, <2>1 DEF c
  <2> QED  BY <2>2, ManifestKind DEF c
<1>4. rom = t.rom
  BY <1>2, <1>3 DEF Manifest
<1>5. ReadZip(zip).tune.rom = rom
  BY <1>2 DEF Accepted
<1> QED  BY <1>4, <1>5

\* Without its end, an archive is refused.
LEMMA NoEnd ==
  ASSUME NEW S, NEW zip \in Seq(S), \A i \in 1..Len(zip) : zip[i].kind # "end"
  PROVE  ~ReadZip(zip).ok
<1>1. FindEOCD(zip) = 0
  BY EndFound
<1>2. DirOf(zip) = <<>>
  BY <1>1 DEF DirOf
<1>3. \A name : Named(zip, name) = {}
  BY <1>2 DEF Named
<1>4. ExtractNamed(zip, "manifest") = <<>>
  BY <1>3, ExtractIs
<1>5. ReadZip(zip) = Refused
  BY <1>4 DEF ReadZip
<1> QED  BY <1>5 DEF Refused

\* From the archive as it was written each file is extracted, and nothing that is not there.
LEMMA FilesExtracted ==
  ASSUME NEW t \in Packages, NEW L, NEW C, Layout(t, L, C)
  PROVE  LET F == FilesOf(t) IN
         /\ \A j \in 1..Len(F) : ExtractNamed(WriteZip(t), F[j].name) = F[j].data
         /\ \A name : (\A j \in 1..Len(F) : F[j].name # name)
                     => ExtractNamed(WriteZip(t), name) = <<>>
<1> DEFINE A == WriteZip(t)
           F == FilesOf(t)
           S == CellsOf(t, L, C)
           e == EndOf(L, C)
           l == Len(L)
           m == Len(C)
<1>1. L \in Seq(LocalCells(t)) /\ C \in Seq(CentralCells) /\ m = Len(F)
      /\ A = L \o C \o <<e>> /\ \A j \in 1..m : PackedAs(L, C[j], F[j])
  BY DEF Layout, EndOf
<1>2. /\ A \in Seq(S) /\ Len(A) = l + m + 1 /\ A[l + m + 1] = e
      /\ \A x \in 1..l : A[x] = L[x]
      /\ \A j \in 1..m : A[l + j] = C[j]
  <2>1. Lying(t, L, C, A)
    <3> HIDE DEF A
    <3> QED  BY <1>1, CellsLie
  <2> HIDE DEF A
  <2> QED  BY <2>1 DEF Lying
<1>3. l \in Nat /\ m \in Nat
  BY <1>1
<1>4. /\ e \in S /\ e.kind = "end" /\ e.at = l + 1 /\ e.length = m
  BY DEF CellsOf, EndOf, EndHeader
<1>5. /\ \A x \in 1..l : A[x].kind # "end"
      /\ \A j \in 1..m : A[l + j].kind = "central" /\ C[j] \in CentralCells
  <2> HIDE DEF A, S, e, l, m
  <2>1. \A x \in 1..l : L[x] \in LocalCells(t)
    BY <1>1 DEF l
  <2>2. \A j \in 1..m : C[j] \in CentralCells
    BY <1>1 DEF m
  <2>3. \A x \in 1..l : L[x].kind # "end"
    <3>1. \A c \in LocalCells(t) : c.kind # "end"
      BY Kinds
    <3> QED  BY <2>1, <3>1
  <2> QED  BY <1>2, <2>2, <2>3, Kinds
<1> HIDE DEF A, F, S, e, l, m
<1>6. FindEOCD(A) = l + m + 1
  <2>1. ASSUME NEW i \in 1..Len(A), A[i].kind = "end" PROVE i = l + m + 1
    <3>1. CASE i \in 1..l
      BY <1>5, <2>1, <3>1
    <3>2. CASE i \in l + 1..l + m
      <4>1. i - l \in 1..m /\ l + (i - l) = i
        BY <1>3, <3>2
      <4>2. A[i].kind = "central"
        BY <1>5, <4>1
      <4> QED  BY <2>1, <4>2
    <3> QED  BY <1>2, <1>3, <3>1, <3>2
  <2>2. l + m + 1 \in 1..Len(A) /\ A[l + m + 1].kind = "end"
    BY <1>2, <1>3, <1>4
  <2> QED  BY <1>2, <2>1, <2>2, EndFound
<1>7. DirOf(A) = Directory(A, e)
  <2>1. ~(e.at + e.length - 1 > Len(A)) /\ l + m + 1 # 0
    BY <1>2, <1>3, <1>4
  <2> QED  BY <1>2, <1>6, <2>1 DEF DirOf
<1> DEFINE dir == DirOf(A)
<1>8. Len(dir) = m /\ dir \in Seq(S) /\ \A i \in 1..m : dir[i] = C[i]
  <2>1. e.at \in Nat \ {0} /\ e.length \in Nat /\ e.at + e.length - 1 <= Len(A)
    BY <1>2, <1>3, <1>4
  <2>0. PICK n \in 0..e.length : Listed(dir, n, A, e, S)
    <3> HIDE DEF dir
    <3>1. dir = Directory(A, e)
      BY <1>7 DEF dir
    <3>2. IsEnd(e, A)
      BY <1>4, <2>1 DEF IsEnd
    <3> QED  BY <1>2, <1>4, <3>1, <3>2, DirectoryOf
  <2>2. /\ dir \in Seq(S) /\ Len(dir) = n
        /\ \A i \in 1..n : dir[i] = A[e.at + i - 1] /\ dir[i].kind = "central"
        /\ n < e.length => A[e.at + n].kind # "central"
    <3> HIDE DEF dir
    <3> QED  BY <2>0 DEF Listed
  <2> HIDE DEF dir
  <2>3. n = m
    <3> SUFFICES ASSUME n < m PROVE FALSE
      BY <1>3, <1>4, <2>2
    <3>1. e.at + n = l + (n + 1) /\ n + 1 \in 1..m
      BY <1>3, <1>4, <2>2
    <3> QED  BY <1>4, <1>5, <2>2, <3>1
  <2>4. \A i \in 1..m : e.at + i - 1 = l + i
    BY <1>3, <1>4
  <2>5. \A i \in 1..m : dir[i] = A[l + i]
    BY <2>2, <2>3, <2>4
  <2>6. \A i \in 1..m : A[l + i] = C[i]
    BY <1>2
  <2> QED  BY <2>2, <2>3, <2>5, <2>6
<1>9. DOMAIN dir = 1..m
  <2> HIDE DEF dir
  <2> QED  BY <1>8
<1>10. \A i \in 1..m : C[i].name = F[i].name
  BY <1>1 DEF PackedAs
<1>11. \A name : Named(A, name) = {i \in 1..m : F[i].name = name}
  BY <1>8, <1>9, <1>10 DEF Named
<1> HIDE DEF dir
<1>12. ASSUME NEW j \in 1..m PROVE ExtractNamed(A, F[j].name) = F[j].data
  <2> DEFINE c == C[j]
             d == F[j].data
             named == Named(A, F[j].name)
  <2>1. named = {j}
    <3>1. \A i, x \in 1..Len(F) : F[i].name = F[x].name => i = x
      BY NamesApart DEF F
    <3>2. \A i \in 1..m : F[i].name = F[j].name => i = j
      BY <1>1, <3>1
    <3> QED  BY <1>11, <3>2
  <2>2. Min(named) = j
    <3>1. Min({j}) \in {j}
      BY <1>3, MinIsIn
    <3> QED  BY <2>1, <3>1
  <2>3. dir[j] = c /\ named # {}
    BY <1>8, <2>1
  <2>4. /\ c.length = Len(d) /\ c.at \in Nat \ {0} /\ c.at + Len(d) <= l
        /\ L[c.at] = LocalHeader(F[j]) /\ \A x \in 1..Len(d) : L[c.at + x] = d[x]
    BY <1>1 DEF PackedAs, l
  <2>5. d \in Seq(FileCells(t)) /\ Len(d) \in Nat
    <3>1. F \in Seq(PackedFile(t))
      BY FilesAre DEF F
    <3>2. F[j] \in PackedFile(t)
      BY <1>1, <3>1
    <3> QED  BY <3>2 DEF PackedFile
  <2> HIDE DEF c, d, named
  <2>6. c.at \in 1..l /\ \A x \in 1..Len(d) : c.at + x \in 1..l
    BY <1>3, <2>4, <2>5
  <2>7. A[c.at].kind = "local"
    <3>1. A[c.at] = LocalHeader(F[j])
      BY <1>2, <2>4, <2>6
    <3> QED  BY <3>1 DEF LocalHeader
  <2>8. ~(c.at > Len(A)) /\ ~(c.at + c.length > Len(A))
    BY <1>2, <1>3, <2>4, <2>5
  <2>9. ExtractNamed(A, F[j].name) = SubSeq(A, c.at + 1, c.at + c.length)
    BY <2>2, <2>3, <2>7, <2>8, ExtractIs DEF dir, named
  <2> DEFINE r == SubSeq(A, c.at + 1, c.at + c.length)
  <2>10. Len(r) = Len(d) /\ r \in Seq(S) /\ \A x \in 1..Len(d) : r[x] = A[c.at + x]
    <3> DEFINE a == c.at
               k == c.length
    <3>1. a \in Nat /\ k \in Nat /\ a + k <= Len(A) /\ k = Len(d)
      BY <1>2, <1>3, <2>4, <2>5
    <3> HIDE DEF a, k
    <3>2. Piece(SubSeq(A, a + 1, a + k), A, a, k, S)
      BY <1>2, <3>1, PieceOf
    <3> QED  BY <3>1, <3>2 DEF Piece, a, k
  <2> HIDE DEF r
  <2>11. \A x \in 1..Len(d) : r[x] = d[x]
    BY <1>2, <2>4, <2>6, <2>10
  <2>12. r = d
    BY <2>5, <2>10, <2>11
  <2> QED  BY <2>9, <2>12 DEF r, d
<1>13. ASSUME NEW name, \A j \in 1..m : F[j].name # name PROVE ExtractNamed(A, name) = <<>>
  <2>1. Named(A, name) = {}
    BY <1>11, <1>13
  <2> QED  BY <2>1, ExtractIs
<1> QED  BY <1>1, <1>12, <1>13 DEF A, F

\* Read whole, a package is the one that was written.
LEMMA WholeIsRead ==
  ASSUME NEW t \in Packages
  PROVE  ReadZip(WriteZip(t)).ok /\ ReadZip(WriteZip(t)).tune = t
<1> DEFINE A == WriteZip(t)
           F == FilesOf(t)
           file(name) == ExtractNamed(A, name)
<1>1. PICK L, C : Layout(t, L, C)
  BY LaidOut
<1>2. /\ \A j \in 1..Len(F) : file(F[j].name) = F[j].data
      /\ \A name : (\A j \in 1..Len(F) : F[j].name # name) => file(name) = <<>>
  BY <1>1, FilesExtracted
<1>3. /\ Len(F) = IF t.notes = <<>> THEN 3 ELSE 4
      /\ F[1] = [name |-> "manifest", data |-> <<Manifest(t)>>]
      /\ F[2] = [name |-> "rom", data |-> t.rom]
      /\ F[3] = [name |-> "recipe", data |-> t.recipe]
      /\ t.notes # <<>> => F[4] = [name |-> "notes", data |-> t.notes]
  BY FilesAre
<1>4. 1 \in 1..Len(F) /\ 2 \in 1..Len(F) /\ 3 \in 1..Len(F)
  BY <1>3
<1> HIDE DEF F, file
<1>5. file("manifest") = <<Manifest(t)>>
  <2>1. F[1].name = "manifest" /\ F[1].data = <<Manifest(t)>>
    BY <1>3
  <2> QED  BY <1>2, <1>4, <2>1
<1>6. file("rom") = t.rom
  <2>1. F[2].name = "rom" /\ F[2].data = t.rom
    BY <1>3
  <2> QED  BY <1>2, <1>4, <2>1
<1>7. file("recipe") = t.recipe
  <2>1. F[3].name = "recipe" /\ F[3].data = t.recipe
    BY <1>3
  <2> QED  BY <1>2, <1>4, <2>1
<1>8. file("notes") = t.notes
  <2>1. CASE t.notes = <<>>
    <3>1. F[1].name = "manifest" /\ F[2].name = "rom" /\ F[3].name = "recipe"
      BY <1>3
    <3>2. \A j \in 1..Len(F) : j \in {1, 2, 3}
      BY <1>3, <2>1
    <3>3. \A j \in 1..Len(F) : F[j].name # "notes"
      BY <3>1, <3>2
    <3> QED  BY <1>2, <2>1, <3>3
  <2>2. CASE t.notes # <<>>
    <3>1. F[4].name = "notes" /\ F[4].data = t.notes /\ 4 \in 1..Len(F)
      BY <1>3, <2>2
    <3> QED  BY <1>2, <3>1
  <2> QED  BY <2>1, <2>2
<1>9. Head(<<Manifest(t)>>) = Manifest(t) /\ <<Manifest(t)>> # <<>>
  <2> DEFINE x == Manifest(t)
  <2> HIDE DEF x
  <2>1. Head(<<x>>) = x /\ <<x>> # <<>>
    OBVIOUS
  <2> QED  BY <2>1 DEF x
<1>10. Manifest(t).kind = "manifest" /\ Manifest(t).sum = t.rom
       /\ Manifest(t).ecu = t.ecu /\ Manifest(t).notes = t.notes
  BY DEF Manifest
<1>11. t.rom # <<>> /\ t.recipe # <<>>
  BY PackagesTyped
<1> DEFINE man == Manifest(t)
<1> HIDE DEF man
<1>12. ReadZip(A) = IF \/ <<>> \in {file("manifest"), file("rom"), file("recipe")}
                       \/ Head(file("manifest")).kind # "manifest"
                       \/ Head(file("manifest")).sum # file("rom")
                    THEN Refused
                    ELSE Accepted(Head(file("manifest")), file("rom"), file("recipe"), file("notes"))
  BY DEF ReadZip, file
<1>13. ReadZip(A) = Accepted(man, t.rom, t.recipe, t.notes)
  <2>1. file("manifest") = <<man>> /\ Head(file("manifest")) = man /\ file("manifest") # <<>>
    BY <1>5, <1>9 DEF man
  <2>2. man.kind = "manifest" /\ man.sum = t.rom
    BY <1>10 DEF man
  <2> HIDE DEF A
  <2>3. <<>> \notin {file("manifest"), file("rom"), file("recipe")}
    BY <1>6, <1>7, <1>11, <2>1
  <2> QED  BY <1>6, <1>7, <1>8, <1>12, <2>1, <2>2, <2>3
<1>14. t = [ecu |-> t.ecu, rom |-> t.rom, recipe |-> t.recipe, notes |-> t.notes]
  BY DEF Packages
<1>15. Accepted(man, t.rom, t.recipe, t.notes).ok
       /\ Accepted(man, t.rom, t.recipe, t.notes).tune
            = [ecu |-> t.ecu, rom |-> t.rom, recipe |-> t.recipe, notes |-> t.notes]
  BY <1>10 DEF Accepted, man
<1> HIDE DEF A
<1> QED  BY <1>13, <1>14, <1>15 DEF A

\* A package that arrived whole is read as it was exported, one that was cut is refused, and one
\* that was damaged is refused or has the ROM that was exported.
LEMMA PackageRead ==
  ASSUME tune \in Packages, archive \in Received(WriteZip(tune))
  PROVE  PackageWhole
<1> DEFINE A == WriteZip(tune)
<1>1. PICK L, C : Layout(tune, L, C)
  BY LaidOut
<1> DEFINE S == CellsOf(tune, L, C)
           l == Len(L)
           m == Len(C)
<1>2. L \in Seq(LocalCells(tune)) /\ C \in Seq(CentralCells) /\ A = L \o C \o <<EndOf(L, C)>>
  BY <1>1 DEF Layout, EndOf
<1> HIDE DEF A
<1>3. Lying(tune, L, C, A)
  BY <1>2, CellsLie
<1>4. A \in Seq(S) /\ Len(A) = l + m + 1 /\ l \in Nat /\ m \in Nat
  BY <1>2, <1>3 DEF Lying
<1>5. \A w \in PackageWords : Word(w) \in S
  BY DEF CellsOf, LocalCells, FileCells
<1>6. \/ \E n \in 0..Len(A) : archive = SubSeq(A, 1, n)
      \/ \E i \in 1..Len(A), c \in S : archive = [A EXCEPT ![i] = c]
  <2>1. DOMAIN A = 1..Len(A) /\ \A i \in 1..Len(A) : A[i] \in S
    <3> HIDE DEF S
    <3> QED  BY <1>4
  <2>2. archive \in Received(A)
    BY DEF A
  <2>3. \/ \E n \in 0..Len(A) : archive = SubSeq(A, 1, n)
        \/ \E i \in DOMAIN A, c \in {Word(w) : w \in PackageWords} \cup {A[i] : i \in DOMAIN A} :
             archive = [A EXCEPT ![i] = c]
    BY <2>2 DEF Received
  <2> HIDE DEF S
  <2> QED  BY <1>5, <2>1, <2>3
<1> HIDE DEF S, l, m
<1>7. archive \in Seq(S)
  <2>1. ASSUME NEW n \in 0..Len(A) PROVE SubSeq(A, 1, n) \in Seq(S)
    BY <1>4
  <2>2. ASSUME NEW i \in 1..Len(A), NEW c \in S PROVE [A EXCEPT ![i] = c] \in Seq(S)
    BY <1>4
  <2> QED  BY <1>6, <2>1, <2>2
<1>8. archive = A => ReadZip(archive).ok /\ ReadZip(archive).tune = tune
  BY WholeIsRead DEF A
<1>9. ReadZip(archive).ok => ReadZip(archive).tune.rom = tune.rom
  BY <1>2, <1>7, RomIsGiven DEF S
<1>10. ASSUME Len(archive) < Len(A) PROVE ~ReadZip(archive).ok
  <2>1. PICK n \in 0..Len(A) : archive = SubSeq(A, 1, n)
    <3>1. ASSUME NEW i \in 1..Len(A), NEW c \in S PROVE Len([A EXCEPT ![i] = c]) = Len(A)
      BY <1>4
    <3>2. Len(A) \in Nat
      BY <1>4
    <3> QED  BY <1>6, <1>10, <3>1, <3>2
  <2>2. n < Len(A) /\ Len(archive) = n /\ \A i \in 1..n : archive[i] = A[i]
    BY <1>4, <1>10, <2>1
  <2>3. ASSUME NEW i \in 1..n PROVE A[i].kind # "end"
    <3>1. CASE i \in 1..l
      <4>1. A[i] = L[i] /\ L[i] \in LocalCells(tune)
        BY <1>2, <1>3, <3>1 DEF Lying, l
      <4>2. \A c \in LocalCells(tune) : c.kind # "end"
        BY Kinds
      <4> QED  BY <4>1, <4>2
    <3>2. CASE i \in l + 1..l + m
      <4> DEFINE j == i - l
      <4>1. j \in 1..m /\ l + j = i
        BY <1>4, <3>2
      <4> HIDE DEF j
      <4>2. A[i] = C[j] /\ C[j] \in CentralCells
        BY <1>2, <1>3, <4>1 DEF Lying, l, m
      <4>3. \A c \in CentralCells : c.kind # "end"
        BY Kinds
      <4> QED  BY <4>2, <4>3
    <3> QED  BY <1>4, <2>2, <3>1, <3>2
  <2>4. \A i \in 1..Len(archive) : archive[i].kind # "end"
    BY <2>2, <2>3
  <2> QED  BY <1>7, <2>4, NoEnd
<1> QED  BY <1>8, <1>9, <1>10 DEF PackageWhole, A

-----------------------------------------------------------------------------
(* The whole of MCFiles.                                                   *)

LEMMA FilesStep ==
  [FilesNext]_filesVars =>
    /\ [UpdaterNext]_updaterVars /\ [HubNext]_hubVars /\ [DriveUpdaterNext]_updateVars
    /\ [ModsNext]_modsVars /\ [EditorNext]_editorVars /\ [DamosNext]_damosVars
    /\ [SumNext]_sumVars /\ [ProjectsNext]_projectVars /\ [FALSE]_part
BY Zenon DEF FilesNext, filesVars, updaters, roms, exchanges

\* Every part of the whole behaves as it does alone, with the fairness that it has.
THEOREM FilePartsAreAlone ==
  FilesSpec =>
    /\ UpdaterSpec /\ HubSpec /\ DriveUpdaterSpec /\ ModsSpec /\ EditorSpec
    /\ DamosInit /\ [][DamosNext]_damosVars /\ SumInit /\ [][SumNext]_sumVars
    /\ ProjectsSpec /\ part \in Parts /\ [][FALSE]_part
<1>1. FilesInit => /\ UpdaterInit /\ HubInit /\ DriveUpdaterInit /\ ModsInit /\ EditorInit
                   /\ DamosInit /\ SumInit /\ ProjectsInit /\ part \in Parts
  BY DEF FilesInit
<1> QED
  BY <1>1, FilesStep, PTL
     DEF FilesSpec, UpdaterSpec, HubSpec, DriveUpdaterSpec, ModsSpec, EditorSpec, ProjectsSpec

\* Whatever part is at work, every part keeps its type.
THEOREM FilesTyped == FilesSpec => []FilesTypeOK
<1>1. part \in Parts /\ [FALSE]_part => (part \in Parts)'
  OBVIOUS
<1>2. part \in Parts /\ [][FALSE]_part => [](part \in Parts)
  BY <1>1, PTL
<1> QED
  BY <1>2, FilePartsAreAlone, AppImageIsWhole, HubIsTyped, ApkIsOffered, FormIsOfItsRow,
     CorrectionsHold, ModsAreMarked, GhostStaysInStep, ProjectsTyped, PTL
  DEF FilesTypeOK

\* What the two updaters install and tell: the AppImage is whole (updater.cpp:183-219), what is
\* offered of ECU Drive is there and newer, and notes are shown once.
THEOREM UpdatesAreSound == FilesSpec => []UpdatesSound
BY FilePartsAreAlone, AppImageIsWhole, ApkIsOffered, PTL DEF UpdatesSound

\* Nothing that changes a ROM or a recipe, a modification, the map editor, a correction or the
\* editor of recipes, leaves it unmarked: leaving asks, and the autosave keeps it.
THEOREM EditsAreMarked == FilesSpec => []EditsMarked
BY FilePartsAreAlone, ModsAreMarked, GhostStaysInStep, FormIsOfItsRow, CorrectionsHold, PTL
DEF EditsMarked

\* The panel lists the projects that can be read, and one that says it has a ROM has it.
THEOREM ProjectsAreSound == FilesSpec => []ProjectsSound
BY FilePartsAreAlone, ListIsOfDisk, RomIsThere, PTL DEF ProjectsSound

\* What the map editor shows is what the ROM and the baseline hold, as long as the map of its row
\* is the one shown or has no cell in it, and the form of the recipe editor shows its row.
THEOREM EditorsAreInStep == FilesSpec /\ []RowApart => []EditorInStep
BY FilePartsAreAlone, GridStaysInStep, GhostStaysInStep, FormIsOfItsRow, PTL DEF EditorInStep

\* What the package is, while it is at work: nothing of it changes.
PackageInv == part = "package" => tune \in Packages /\ archive \in Received(WriteZip(tune))

LEMMA PackageStays == PackageInv /\ [FilesNext]_filesVars => PackageInv'
<1> SUFFICES ASSUME PackageInv, [FilesNext]_filesVars, part' = "package"
             PROVE  tune' \in Packages /\ archive' \in Received(WriteZip(tune'))
  BY DEF PackageInv
<1>1. part = "package"
  BY Zenon DEF FilesNext, filesVars
<1>2. UNCHANGED <<tune, archive>>
  BY <1>1 DEF FilesNext, filesVars, exchanges, packageVars
<1> QED  BY <1>1, <1>2 DEF PackageInv

\* What works on a ROM does what it says.  For any recipe of distinct names, whose maps have
\* addresses of their own, and for any ROM: relocateFromDescriptors gives no place to two maps
\* (OpenDamosRelocate.cpp:625-657), leaves a ROM that has every map at home as it is described,
\* and lets a value follow its map.  runCorrection leaves no sum wrong.  And for packages of any
\* length: readZip (TunePackage.cpp) gives back one that arrived whole, refuses one that was cut,
\* and never gives another ROM than the one that was exported.
THEOREM RomWorkIsSound == FilesSpec => []RomWorkSound
<1>1. FilesInit => PackageInv
  BY DEF FilesInit, PackageInit, PackageInv
<1>2. FilesSpec => []PackageInv
  BY <1>1, PackageStays, PTL DEF FilesSpec
<1>3. ModsTypeOK => OneMapEach(bytes) /\ StockStays(bytes) /\ ValuesFollow(bytes)
  BY OneMapEachHolds, StockStaysHolds, ValuesFollowHolds DEF ModsTypeOK
<1>4. PackageInv /\ part = "package" => PackageWhole
  BY PackageRead DEF PackageInv
<1>5. ModsTypeOK /\ PackageInv /\ CorrectionHolds => RomWorkSound
  BY <1>3, <1>4 DEF RomWorkSound
<1> QED  BY <1>2, <1>5, FilePartsAreAlone, ModsAreMarked, CorrectionsHold, PTL
=============================================================================
