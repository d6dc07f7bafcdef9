------------------------------ MODULE Checksums -------------------------------
(***************************************************************************)
(* The checksum panel (checksum_panel.cpp) over its two engines, the CRC   *)
(* of the small EDC16 images (ChecksumEngine.cpp) and the block tables of  *)
(* EDC17 (Edc17Checksum.cpp), and its generic sums.                        *)
(*                                                                         *)
(* Abstractions.  A ROM is a sequence of words 0..Base - 1, addresses are  *)
(* from 1.  A CRC is any function that the last word takes to every value, *)
(* here 2 c + w + 1; the CRC of 16 bits and that of 32 bits are the same.  *)
(* The tables of an EDC17 are outside the areas they describe, which are   *)
(* whole words.                                                            *)
(***************************************************************************)
EXTENDS Integers, Sequences, FiniteSets, SequencesExt

CONSTANTS
  Base,         \* words are 0..Base - 1
  Images,       \* [size, areas, known]: the areas of the block tables; of a size MPPS knows
  MaxSums       \* bound: steps that change the ROM or its file

Words0 == 0..Base - 1
Areas ==
  [algo : {"add", "add16", "crc"}, from : Nat \ {0}, to : Nat, init : Words0, expected : Words0]
ASSUME SumAssumption ==
  /\ Base \in Nat /\ Base % 2 = 1 /\ MaxSums \in Nat
  /\ Images \subseteq [size : Nat \ {0}, known : BOOLEAN, areas : Seq(Areas)]

VARIABLES
  image,        \* the kind of ROM that is open
  sumRom,       \* its words
  sumFile,      \* the words of its file
  sumUnsaved,   \* m_modified
  algo,         \* m_algoCombo
  table,        \* m_table: the state of each row
  corrected,    \* a correction was the last step, and it should have been enough
  sumSteps

sumVars == <<image, sumRom, sumFile, sumUnsaved, algo, table, corrected, sumSteps>>

Expect == 0

-----------------------------------------------------------------------------
(* The engines. *)

Crc(words, init) == FoldLeft(LAMBDA c, w : (2 * c + w + 1) % Base, init, words)
Sum32(words, init) == FoldLeft(LAMBDA c, w : (c + w) % Base, init, words)

\* mppsRegionForSize: all but the first word, stored in the last one.
MppsRight(rom) == rom[Len(rom)] = Crc(SubSeq(rom, 2, Len(rom) - 1), 0)
CorrectMpps(rom) == [rom EXCEPT ![Len(rom)] = Crc(SubSeq(rom, 2, Len(rom) - 1), 0)]

InBounds(rom, a) == a.from <= a.to /\ a.to <= Len(rom)
\* computeCs
Valid(rom, a) ==
  /\ InBounds(rom, a)
  /\ \/ a.algo = "crc" /\ Crc(SubSeq(rom, a.from, a.to), a.init) = Expect
     \/ a.algo \in {"add", "add16"} /\ Sum32(SubSeq(rom, a.from, a.to), a.init) = a.expected

\* correctCs: the last word of the area, by a difference or by solving the CRC.
Correctable(a) == a.algo \in {"add", "crc"}
CorrectCs(rom, a) ==
  IF InBounds(rom, a) /\ Correctable(a)
  THEN LET with(w) == [rom EXCEPT ![a.to] = w]
       IN with(CHOOSE w \in Words0 : Valid(with(w), a))
  ELSE rom

Extent(a) == a.to - a.from
\* A slip: from the largest area to the smallest.
LargestFirst(areas) ==
  {p \in Bijection(DOMAIN areas, DOMAIN areas) :
     \A i, j \in DOMAIN areas : i < j => Extent(areas[p[i]]) >= Extent(areas[p[j]])}

\* The orders that std::sort may leave.
SmallestFirst(areas) ==
  {p \in Bijection(DOMAIN areas, DOMAIN areas) :
     \A i, j \in DOMAIN areas : i < j => Extent(areas[p[i]]) <= Extent(areas[p[j]])}

\* edc17Correct: the areas that were wrong before any was corrected.
Wrong(rom, areas) == {i \in DOMAIN areas : InBounds(rom, areas[i]) /\ ~Valid(rom, areas[i])}
Edc17Correct(rom, areas, p) ==
  FoldLeft(LAMBDA r, i : IF p[i] \in Wrong(rom, areas) THEN CorrectCs(r, areas[p[i]]) ELSE r,
           rom, [i \in DOMAIN areas |-> i])
Fixed(rom, areas) == {i \in Wrong(rom, areas) : Correctable(areas[i])}

-----------------------------------------------------------------------------
(* The panel. *)

\* verifyMpps and verifyEdc17: an image that the engine does not know empties the table.
MppsTable(rom) == IF image.known THEN <<IF MppsRight(rom) THEN "right" ELSE "wrong">> ELSE <<>>
Edc17Table(rom) ==
  [i \in DOMAIN image.areas |->
     LET a == image.areas[i]
     IN IF ~InBounds(rom, a) THEN "out" ELSE IF Valid(rom, a) THEN "right" ELSE "wrong"]

SumInit ==
  /\ image \in Images /\ sumRom \in [1..image.size -> Words0] /\ sumFile = sumRom
  /\ sumUnsaved = FALSE /\ algo = (IF image.areas # <<>> THEN "edc17" ELSE "mpps")
  /\ table = <<>> /\ corrected = FALSE /\ sumSteps = 0

Count == sumSteps < MaxSums /\ sumSteps' = sumSteps + 1

\* onRomLoaded: EDC17 is chosen for an image with tables, and nothing for another one.
OnSumRomLoaded ==
  /\ Count
  /\ image' \in Images /\ sumRom' = [i \in 1..image'.size |-> 0] /\ sumFile' = sumRom'
  /\ sumUnsaved' = FALSE
  /\ algo' = IF image'.areas # <<>> THEN "edc17" ELSE algo
  /\ corrected' = FALSE /\ UNCHANGED table

OnAlgoChanged ==
  /\ algo' \in {"mpps", "edc17", "generic"} \ {algo}
  /\ corrected' = FALSE /\ UNCHANGED <<image, sumRom, sumFile, sumUnsaved, table, sumSteps>>

\* Another panel writes a word.
EditWord ==
  /\ Count
  /\ \E i \in DOMAIN sumRom, w \in Words0 : sumRom' = [sumRom EXCEPT ![i] = w]
  /\ sumUnsaved' = TRUE /\ corrected' = FALSE
  /\ UNCHANGED <<image, sumFile, algo, table>>

SaveSumRom ==
  /\ Count /\ sumFile' = sumRom /\ sumUnsaved' = FALSE
  /\ UNCHANGED <<image, sumRom, algo, table, corrected>>

\* A generic sum: the region and the place of its sum are what the user typed (readParams).
Regions == {r \in [from : 1..image.size, to : 1..image.size, store : 1..image.size] : r.from <= r.to}
Computed(rom, r) == Sum32(SubSeq(rom, r.from, r.to), 0)
GenericTable(rom, r) == <<IF rom[r.store] = Computed(rom, r) THEN "right" ELSE "wrong", "info">>

Verify ==
  /\ \/ algo = "mpps" /\ table' = MppsTable(sumRom)
     \/ algo = "edc17" /\ table' = Edc17Table(sumRom)
     \/ algo = "generic" /\ \E r \in Regions : table' = GenericTable(sumRom, r)
  /\ corrected' = FALSE /\ UNCHANGED <<image, sumRom, sumFile, sumUnsaved, algo, sumSteps>>

\* runCorrectionMpps
RunCorrectionMpps ==
  /\ Count /\ algo = "mpps" /\ image.known
  /\ sumRom' = CorrectMpps(sumRom) /\ sumUnsaved' = (sumUnsaved \/ ~MppsRight(sumRom))
  /\ table' = MppsTable(sumRom') /\ corrected' = TRUE
  /\ UNCHANGED <<image, sumFile, algo>>

\* Areas are one inside the other or apart, no two end together, and none is right by chance
\* around one that is wrong.
Orderly(rom, areas) ==
  \A i, j \in DOMAIN areas :
    LET a == areas[i]
        b == areas[j]
        inside == b.from <= a.from /\ a.to < b.to
    IN i # j =>
         /\ inside \/ (a.from <= b.from /\ b.to < a.to) \/ a.to < b.from \/ b.to < a.from
         /\ inside /\ i \in Fixed(rom, areas) => j \in Wrong(rom, areas)

\* runCorrectionEdc17
RunCorrectionEdc17 ==
  /\ Count /\ algo = "edc17" /\ image.areas # <<>>
  /\ \E p \in SmallestFirst(image.areas) : sumRom' = Edc17Correct(sumRom, image.areas, p)
  /\ sumUnsaved' = (sumUnsaved \/ Fixed(sumRom, image.areas) # {})
  /\ table' = Edc17Table(sumRom')
  /\ corrected' = (/\ Orderly(sumRom, image.areas)
                   /\ \A i \in DOMAIN image.areas : Correctable(image.areas[i]))
  /\ UNCHANGED <<image, sumFile, algo>>

\* runCorrection for the other algorithms, once the user has agreed.
RunCorrectionGeneric ==
  /\ Count /\ algo = "generic"
  /\ \E r \in Regions :
       /\ sumRom' = [sumRom EXCEPT ![r.store] = Computed(sumRom, r)]
       /\ sumUnsaved' = (sumUnsaved \/ Computed(sumRom, r) # sumRom[r.store])
       /\ table' = GenericTable(sumRom', r)
       /\ corrected' = (r.store \notin r.from..r.to)
  /\ UNCHANGED <<image, sumFile, algo>>

SumNext ==
  \/ OnSumRomLoaded \/ OnAlgoChanged \/ EditWord \/ SaveSumRom
  \/ Verify \/ RunCorrectionMpps \/ RunCorrectionEdc17 \/ RunCorrectionGeneric

-----------------------------------------------------------------------------
(* Properties. *)

SumTypeOK ==
  /\ image \in Images /\ sumRom \in [1..image.size -> Words0] /\ sumFile \in [1..image.size -> Words0]
  /\ {sumUnsaved, corrected} \subseteq BOOLEAN /\ algo \in {"mpps", "edc17", "generic"}
  /\ Range(table) \subseteq {"right", "wrong", "out", "info"} /\ sumSteps \in 0..MaxSums

\* A correction leaves no sum wrong: areas inside others are corrected before those around
\* them, "sur le contenu deja corrige" (Edc17Checksum.cpp:258), when Orderly.
CorrectionHolds == corrected => "wrong" \notin Range(table)

\* A ROM that a correction changed is marked as modified.
SumsMarked == sumRom # sumFile => sumUnsaved
=============================================================================
