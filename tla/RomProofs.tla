----------------------------- MODULE RomProofs ------------------------------
(* No version is lost: proved for every instance of RomVersions.           *)
EXTENDS RomVersions, SequenceTheorems, TLAPS

LEMMA SeqFacts ==
  \A S : /\ <<>> \in Seq(S)
         /\ \A x \in S : <<x>> \in Seq(S)
         /\ \A s \in Seq(S), x \in S : Append(s, x) \in Seq(S)
         /\ \A s, t \in Seq(S) : s \o t \in Seq(S)
OBVIOUS

LEMMA SeqWider ==
  ASSUME NEW S, NEW T, S \subseteq T, NEW s \in Seq(S)
  PROVE  s \in Seq(T)
OBVIOUS

LEMMA ConcatFacts ==
  ASSUME NEW S, NEW s \in Seq(S), NEW t \in Seq(S)
  PROVE  /\ s \o t \in Seq(S) /\ Len(s \o t) = Len(s) + Len(t)
         /\ Len(s) \in Nat /\ Len(t) \in Nat
         /\ \A i \in 1..Len(s) : (s \o t)[i] = s[i]
         /\ \A i \in 1..Len(t) : (s \o t)[Len(s) + i] = t[i]
OBVIOUS

\* What a history holds, one by one.
LEMMA KeptDef ==
  ASSUME NEW r
  PROVE  r \in Kept <=> \E v \in Variants : \E i \in 1..Len(lines[v]) : roms[lines[v][i]] = r
BY DEF Kept

\* ROMs are only made.
Makes == made' = made \/ made' = made + 1

LEMMA RomsGrow == ASSUME made \in Nat, Makes PROVE Roms \subseteq Roms' /\ made' \in Nat
BY DEF Makes, Roms

\* The histories only grow, and keep their type.
Grows ==
  /\ Len(roms) <= Len(roms')
  /\ Kept \subseteq Kept'
  /\ roms' \in Seq(Roms') /\ index' \in Roms'
  /\ lines' \in [Variants -> Seq(1..Len(roms'))]
  /\ \A v \in Variants : lines[v] # <<>> => lines'[v] # <<>>

-----------------------------------------------------------------------------
(* The repository. *)

LEMMA SameGrows ==
  ASSUME RepoOK, made \in Nat, Makes, UNCHANGED <<roms, lines>>, index' \in Roms'
  PROVE  Grows
<1>1. roms \in Seq(Roms')
  BY RomsGrow, SeqWider DEF RepoOK
<1>2. Len(roms) \in Nat
  BY DEF RepoOK
<1> QED
  BY <1>1, <1>2 DEF RepoOK, Grows, Kept

LEMMA RecordGrows ==
  ASSUME RepoOK, made \in Nat, Makes, NEW rom \in Roms', Record(rom)
  PROVE  Grows
<1> DEFINE new == Len(roms) + 1
<1>1. roms \in Seq(Roms') /\ Len(roms) \in Nat
  BY RomsGrow, SeqWider DEF RepoOK
<1>2. /\ roms' = Append(roms, rom)
      /\ lines' = [lines EXCEPT ![head] = <<new>> \o lines[head]]
      /\ index' = rom
  BY DEF Record
<1>3. roms' \in Seq(Roms') /\ Len(roms') = new
  BY <1>1, <1>2
<1>4. \A n \in 1..Len(roms) : roms'[n] = roms[n]
  BY <1>1, <1>2
<1>5. \A v \in Variants : lines[v] \in Seq(1..Len(roms'))
  <2>1. 1..Len(roms) \subseteq 1..Len(roms')
    BY <1>1, <1>3
  <2> QED
    BY <2>1, SeqWider DEF RepoOK
<1>6. <<new>> \o lines[head] \in Seq(1..Len(roms'))
  <2>1. new \in 1..Len(roms')
    BY <1>1, <1>3
  <2>2. <<new>> \in Seq(1..Len(roms'))
    BY <2>1, SeqFacts
  <2> QED
    BY <2>2, <1>5, SeqFacts DEF RepoOK
<1>7. lines' \in [Variants -> Seq(1..Len(roms'))]
  BY <1>2, <1>5, <1>6 DEF RepoOK
<1>8. ASSUME NEW v \in Variants, NEW i \in 1..Len(lines[v])
      PROVE  \E j \in 1..Len(lines'[v]) : lines'[v][j] = lines[v][i]
  <2>1. CASE v # head
    <3>1. lines'[v] = lines[v]
      BY <2>1, <1>2 DEF RepoOK
    <3>2. i \in 1..Len(lines'[v]) /\ lines'[v][i] = lines[v][i]
      BY <3>1
    <3> QED
      BY <3>2
  <2>2. CASE v = head
    <3>1. lines[head] \in Seq(1..Len(roms)) /\ Len(lines[head]) \in Nat
      BY DEF RepoOK
    <3>2. lines'[head] = <<new>> \o lines[head]
      BY <1>2 DEF RepoOK
    <3>3. Len(lines'[head]) = Len(lines[head]) + 1 /\ lines'[head][i + 1] = lines[head][i]
      BY <2>2, <3>1, <3>2
    <3>4. i + 1 \in 1..Len(lines'[v]) /\ lines'[v][i + 1] = lines[v][i]
      BY <2>2, <3>1, <3>3
    <3> QED
      BY <3>4
  <2> QED
    BY <2>1, <2>2
<1>9. ASSUME NEW r \in Kept PROVE r \in Kept'
  <2>0. PICK v \in Variants : \E i \in 1..Len(lines[v]) : roms[lines[v][i]] = r
    BY <1>9, KeptDef
  <2>1. PICK i \in 1..Len(lines[v]) : roms[lines[v][i]] = r
    BY <2>0
  <2>2. PICK j \in 1..Len(lines'[v]) : lines'[v][j] = lines[v][i]
    BY <1>8
  <2>3. lines[v][i] \in 1..Len(roms)
    BY DEF RepoOK
  <2>4. roms'[lines'[v][j]] = r
    BY <1>4, <2>1, <2>2, <2>3
  <2> QED
    BY <2>4 DEF Kept
<1>10. ASSUME NEW v \in Variants, lines[v] # <<>> PROVE lines'[v] # <<>>
  <2>1. \E i \in 1..Len(lines[v]) : TRUE
    BY <1>10 DEF RepoOK
  <2> QED
    BY <2>1, <1>8
<1> QED
  BY <1>1, <1>2, <1>3, <1>7, <1>9, <1>10 DEF Grows

LEMMA CommitGrows ==
  ASSUME RepoOK, made \in Nat, Makes, NEW rom \in Roms', NEW fault, Commit(rom, fault)
  PROVE  Grows
<1>1. Roms \subseteq Roms'
  BY RomsGrow
<1>2. CASE Record(rom)
  BY <1>2, RecordGrows
<1>3. CASE RecordFails(rom)
  BY <1>1, <1>3, SameGrows DEF RecordFails, RepoOK
<1> QED
  BY <1>2, <1>3 DEF Commit

\* Versions made again hold the same ROMs in the same order.
LEMMA RenameGrows ==
  ASSUME TypeOK, NEW n \in 1..Len(lines[head]), RenameSelected(n)
  PROVE  Grows
<1> DEFINE line == lines[head]
           again == [i \in 1..n |-> roms[line[n + 1 - i]]]
           fresh == [i \in 1..n |-> Len(roms) + n + 1 - i]
           older == SubSeq(line, n + 1, Len(line))
<1>1. /\ line \in Seq(1..Len(roms)) /\ Len(line) \in Nat /\ Len(roms) \in Nat
      /\ n \in Nat /\ roms \in Seq(Roms) /\ Roms' = Roms /\ index' = index /\ index \in Roms
  BY DEF TypeOK, RepoOK, RenameSelected, Roms
<1>2. roms' = roms \o again
  BY DEF RenameSelected
<1>3. lines' = [lines EXCEPT ![head] = fresh \o older]
  BY DEF RenameSelected
<1>4. \A i \in 1..n : line[i] \in 1..Len(roms) /\ roms[line[i]] \in Roms
  BY <1>1
<1>5. again \in Seq(Roms) /\ Len(again) = n
  <2>1. \A i \in 1..n : n + 1 - i \in 1..n
    BY <1>1
  <2>2. again \in [1..n -> Roms]
    BY <1>4, <2>1
  <2> HIDE DEF again
  <2> QED
    BY <1>1, <2>2
<1>6. roms' \in Seq(Roms) /\ Len(roms') = Len(roms) + n
  <2> HIDE DEF again
  <2> QED
    BY <1>1, <1>2, <1>5, ConcatFacts
<1>7. \A m \in 1..Len(roms) : roms'[m] = roms[m]
  <2> HIDE DEF again
  <2> QED
    BY <1>1, <1>2, <1>5
<1>8. \A i \in 1..n : roms'[Len(roms) + n + 1 - i] = roms[line[i]]
  <2> TAKE i \in 1..n
  <2>1. n + 1 - i \in 1..n /\ Len(roms) + n + 1 - i = Len(roms) + (n + 1 - i)
    BY <1>1
  <2>2. again[n + 1 - i] = roms[line[n + 1 - (n + 1 - i)]]
    BY <2>1
  <2>3. n + 1 - (n + 1 - i) = i
    BY <1>1
  <2>4. (roms \o again)[Len(roms) + (n + 1 - i)] = again[n + 1 - i]
    <3> HIDE DEF again
    <3> QED
      BY <1>1, <1>5, <2>1
  <2> QED
    BY <1>2, <2>1, <2>2, <2>3, <2>4
<1>9. fresh \in Seq(1..Len(roms')) /\ Len(fresh) = n
  <2>1. fresh \in [1..n -> 1..Len(roms')]
    BY <1>1, <1>6
  <2> HIDE DEF fresh
  <2> QED
    BY <1>1, <2>1, SMTT(40)
<1>10. /\ older \in Seq(1..Len(roms')) /\ Len(older) = Len(line) - n
       /\ \A i \in 1..(Len(line) - n) : older[i] = line[n + i]
  BY <1>1, <1>6, SMTT(40)
<1>11. lines' \in [Variants -> Seq(1..Len(roms'))]
  <2>1. fresh \o older \in Seq(1..Len(roms'))
    <3> HIDE DEF fresh, older
    <3> QED
      BY <1>9, <1>10, SeqFacts
  <2>2. \A v \in Variants : lines[v] \in Seq(1..Len(roms'))
    <3>1. 1..Len(roms) \subseteq 1..Len(roms')
      BY <1>1, <1>6
    <3> QED
      BY <3>1, SeqWider DEF TypeOK, RepoOK
  <2> QED
    BY <1>3, <2>1, <2>2 DEF TypeOK, RepoOK
<1>12. ASSUME NEW v \in Variants, NEW i \in 1..Len(lines[v])
       PROVE  \E j \in 1..Len(lines'[v]) : roms'[lines'[v][j]] = roms[lines[v][i]]
  <2>1. CASE v # head
    <3>1. lines'[v] = lines[v] /\ lines[v] \in Seq(1..Len(roms))
      BY <2>1, <1>3 DEF TypeOK, RepoOK
    <3>2. lines[v][i] \in 1..Len(roms)
      BY <3>1
    <3> QED
      BY <1>7, <3>1, <3>2
  <2>2. CASE v = head
    <3>1. lines'[v] = fresh \o older
      BY <2>2, <1>3 DEF TypeOK, RepoOK
    <3>2. i \in 1..Len(line) /\ Len(lines'[v]) = Len(line)
      <4> HIDE DEF fresh, older
      <4>1. Len(fresh \o older) = Len(fresh) + Len(older)
        BY <1>9, <1>10, ConcatFacts
      <4> QED
        BY <2>2, <3>1, <4>1, <1>1, <1>9, <1>10
    <3>3. CASE i <= n
      <4>1. (fresh \o older)[i] = fresh[i]
        <5> HIDE DEF fresh, older
        <5> QED
          BY <1>1, <1>9, <1>10, <3>2, <3>3
      <4>2. fresh[i] = Len(roms) + n + 1 - i
        BY <1>1, <3>2, <3>3
      <4>3. i \in 1..n
        BY <1>1, <3>2, <3>3
      <4> QED
        BY <1>8, <2>2, <3>1, <3>2, <4>1, <4>2, <4>3
    <3>4. CASE ~(i <= n)
      <4>1. (fresh \o older)[i] = older[i - n]
        <5> HIDE DEF fresh, older
        <5>1. i - n \in 1..Len(older) /\ Len(fresh) + (i - n) = i
          <6>1. Len(older) = Len(line) - n /\ Len(fresh) = n
            BY <1>9, <1>10
          <6>2. Len(line) \in Nat /\ n \in Nat /\ i \in 1..Len(line) /\ i > n
            BY <1>1, <3>2, <3>4
          <6> HIDE DEF line
          <6> QED
            BY <6>1, <6>2
        <5>2. \A k \in 1..Len(older) : (fresh \o older)[Len(fresh) + k] = older[k]
          <6>1. fresh \in Seq(1..Len(roms')) /\ older \in Seq(1..Len(roms'))
            BY <1>9, <1>10
          <6> QED
            BY <6>1, ConcatFacts
        <5> QED
          BY <5>1, <5>2
      <4>2. i - n \in 1..(Len(line) - n) /\ n + (i - n) = i
        BY <1>1, <3>2, <3>4
      <4>3. older[i - n] = line[i]
        BY <1>10, <4>2
      <4>4. line[i] \in 1..Len(roms)
        BY <1>1, <3>2
      <4> QED
        BY <1>7, <2>2, <3>1, <3>2, <4>1, <4>3, <4>4
    <3> QED
      BY <3>3, <3>4
  <2> QED
    BY <2>1, <2>2
<1>13. ASSUME NEW r \in Kept PROVE r \in Kept'
  <2>1. PICK v \in Variants : \E i \in 1..Len(lines[v]) : roms[lines[v][i]] = r
    BY <1>13, KeptDef
  <2>2. PICK i \in 1..Len(lines[v]) : roms[lines[v][i]] = r
    BY <2>1
  <2>3. PICK j \in 1..Len(lines'[v]) : roms'[lines'[v][j]] = r
    BY <1>12, <2>2
  <2> QED
    BY <2>3 DEF Kept
<1>14. ASSUME NEW v \in Variants, lines[v] # <<>> PROVE lines'[v] # <<>>
  <2>1. \E i \in 1..Len(lines[v]) : TRUE
    BY <1>14 DEF TypeOK, RepoOK
  <2> QED
    BY <2>1, <1>12
<1> QED
  BY <1>1, <1>6, <1>11, <1>13, <1>14 DEF Grows

LEMMA CreateGrows ==
  ASSUME TypeOK, NEW u \in Variants, CreateVariant(u)
  PROVE  Grows
<1>1. /\ lines[u] = <<>> /\ lines' = [lines EXCEPT ![u] = lines[head]] /\ roms' = roms
      /\ index' = index /\ Roms' = Roms
  BY DEF CreateVariant, Roms
<1>2. lines' \in [Variants -> Seq(1..Len(roms'))] /\ Len(roms) <= Len(roms')
  BY <1>1 DEF TypeOK, RepoOK
<1>3. \A v \in Variants : lines[v] # <<>> => lines'[v] = lines[v]
  BY <1>1 DEF TypeOK, RepoOK
<1>4. ASSUME NEW r \in Kept PROVE r \in Kept'
  <2>1. PICK v \in Variants : \E i \in 1..Len(lines[v]) : roms[lines[v][i]] = r
    BY <1>4, KeptDef
  <2>2. lines[v] # <<>>
    BY <2>1
  <2>3. lines'[v] = lines[v]
    BY <1>3, <2>2
  <2> QED
    BY <1>1, <2>1, <2>3 DEF Kept
<1> QED
  BY <1>1, <1>2, <1>3, <1>4 DEF Grows, TypeOK, RepoOK

-----------------------------------------------------------------------------
(* Files, documents and arrows. *)

Files(R) == [project : R, outside : R]
Docs(R) ==
  [rom : R, path : {"none", "project", "outside"}, managed : BOOLEAN, modified : BOOLEAN]
Navs(R) == [chain : R, pos : Nat]

\* What the ROMs of before the step are after it.
LEMMA Before ==
  ASSUME TypeOK, Makes
  PROVE  /\ files \in Files(Roms') /\ doc \in Docs(Roms') /\ index \in Roms'
         /\ Cut \in Roms' /\ Empty \in Roms' /\ made' \in Nat
<1>1. Roms \subseteq Roms' /\ made' \in Nat
  BY RomsGrow DEF TypeOK
<1>2. Cut \in Roms' /\ Empty \in Roms'
  BY DEF Roms
<1>3. files \in Files(Roms')
  BY <1>1 DEF TypeOK, FilesOK, Files
<1>4. doc \in Docs(Roms')
  BY <1>1 DEF TypeOK, DocOK, Docs
<1> QED
  BY <1>1, <1>2, <1>3, <1>4 DEF TypeOK, RepoOK

LEMMA WriteType ==
  ASSUME NEW R, Cut \in R, NEW fs \in Files(R), NEW path \in {"project", "outside"},
         NEW rom \in R, NEW fault
  PROVE  Write(fs, path, rom, fault) \in Files(R)
BY DEF Write, Files

LEMMA FlushedType ==
  ASSUME TypeOK, Makes, NEW fault
  PROVE  Flushed(fault) \in Files(Roms') /\ FlushedDoc(fault) \in Docs(Roms')
<1>1. files \in Files(Roms') /\ doc \in Docs(Roms') /\ Cut \in Roms'
  BY Before
<1>2. CASE Unsaved
  <2>1. doc.path \in {"project", "outside"} /\ doc.rom \in Roms'
    BY <1>1, <1>2 DEF Unsaved, Docs
  <2>2. Flushed(fault) = Write(files, doc.path, doc.rom, fault)
    BY <1>2 DEF Flushed
  <2>3. [doc EXCEPT !.modified = FALSE] \in Docs(Roms')
    BY <1>1 DEF Docs
  <2>4. FlushedDoc(fault) \in Docs(Roms')
    BY <1>1, <2>3 DEF FlushedDoc
  <2> QED
    BY <1>1, <2>1, <2>2, <2>4, WriteType
<1>3. CASE ~Unsaved
  BY <1>1, <1>3 DEF Flushed, FlushedDoc
<1> QED
  BY <1>2, <1>3

LEMMA LoadedType ==
  ASSUME NEW R, NEW rom \in R, NEW path \in {"none", "project", "outside"},
         NEW managed \in BOOLEAN
  PROVE  Loaded(rom, path, managed) \in Docs(R)
BY DEF Loaded, Docs

LEMMA ReloadType ==
  ASSUME files' \in Files(Roms'), Reload
  PROVE  doc' \in Docs(Roms')
<1>1. files'.project \in Roms'
  BY DEF Files
<1> QED
  BY <1>1, LoadedType DEF Reload

LEMMA ArrowsType ==
  ASSUME NEW C, NEW chain \in C, NEW pos \in Nat
  PROVE  Arrows(chain, pos) \in Navs(C) /\ Arrows(chain, pos).chain = chain
           /\ Arrows(chain, pos).pos = pos
BY DEF Arrows, Navs

LEMMA NavSame ==
  ASSUME TypeOK, Makes, Grows, UNCHANGED nav, panelOn' => panelOn
  PROVE  NavOK'
<1>1. Len(roms) \in Nat /\ Len(roms') \in Nat /\ Len(roms) <= Len(roms')
  BY DEF Grows, TypeOK, RepoOK
<1>2. 1..Len(roms) \subseteq 1..Len(roms')
  BY <1>1
<1>3. nav \in Navs(Seq(1..Len(roms)))
  BY DEF TypeOK, NavOK, Navs
<1>4. nav.chain \in Seq(1..Len(roms'))
  BY <1>2, <1>3, SeqWider DEF Navs
<1>5. nav \in Navs(Seq(1..Len(roms')))
  BY <1>3, <1>4 DEF Navs
<1> QED
  BY <1>5 DEF TypeOK, NavOK, Navs

LEMMA NavArrows ==
  ASSUME NEW chain \in Seq(1..Len(roms')), NEW pos \in Nat, pos < Len(chain),
         nav' = Arrows(chain, pos)
  PROVE  NavOK'
<1>1. nav' \in Navs(Seq(1..Len(roms'))) /\ nav'.chain = chain /\ nav'.pos = pos
  BY ArrowsType
<1> QED
  BY <1>1 DEF NavOK, Navs

LEMMA NavRebuilt ==
  ASSUME Grows, NEW v \in Variants, lines'[v] # <<>>, nav' = Arrows(lines'[v], 0)
  PROVE  NavOK'
<1>1. lines'[v] \in Seq(1..Len(roms')) /\ 0 < Len(lines'[v])
  BY DEF Grows
<1> QED
  BY <1>1, NavArrows

\* What every step comes down to.
Preserved == TypeOK' /\ Kept \subseteq Kept'

LEMMA StepPreserves ==
  ASSUME TypeOK, Makes, Grows, head' \in Variants, lines[head'] # <<>> \/ lines'[head'] # <<>>,
         files' \in Files(Roms'), doc' \in Docs(Roms'), NavOK',
         panelOn' \in BOOLEAN, failed' \in BOOLEAN
  PROVE  Preserved
<1>1. made' \in Nat
  BY Before
<1>2. FilesOK' /\ DocOK'
  BY DEF Files, Docs, FilesOK, DocOK
<1>3. RepoOK'
  BY DEF Grows, RepoOK
<1> QED
  BY <1>1, <1>2, <1>3 DEF Preserved, TypeOK, Grows

-----------------------------------------------------------------------------
(* The steps of the document. *)

\* A step that leaves the repository and the arrows alone.
LEMMA DocumentPreserves ==
  ASSUME TypeOK, Makes, UNCHANGED <<repoVars, panelOn, nav>>, failed' \in BOOLEAN,
         files' \in Files(Roms'), doc' \in Docs(Roms')
  PROVE  Preserved
<1>1. UNCHANGED <<roms, lines, head, index, panelOn, nav>>
  BY DEF repoVars
<1>2. Grows
  BY <1>1, Before, SameGrows DEF TypeOK
<1>3. NavOK'
  BY <1>1, <1>2, NavSame
<1>4. head' \in Variants /\ lines[head'] # <<>> /\ panelOn' \in BOOLEAN
  BY <1>1 DEF TypeOK, RepoOK
<1> QED
  BY <1>2, <1>3, <1>4, StepPreserves

LEMMA NewRom == ASSUME TypeOK, made' = made + 1 PROVE Makes /\ made' \in Roms'
BY DEF Makes, TypeOK, Roms

LEMMA EditPreserves == ASSUME TypeOK, Edit PROVE Preserved
<1>1. Makes /\ made' \in Roms' /\ failed' \in BOOLEAN
  <2>1. made' = made + 1 /\ failed' = FALSE
    BY DEF Edit
  <2> QED
    BY <2>1, NewRom
<1>2. files' \in Files(Roms')
  BY <1>1, Before DEF Edit
<1>3. doc' \in Docs(Roms')
  BY <1>1, Before DEF Edit, Docs
<1> QED
  BY <1>1, <1>2, <1>3, DocumentPreserves DEF Edit

LEMMA SaveRomPreserves ==
  ASSUME TypeOK, NEW path \in {"project", "outside"}, SaveRom(path)
  PROVE  Preserved
<1>1. Makes
  BY DEF SaveRom, Makes
<1>2. PICK fault \in {"none"} \cup Faults :
        /\ May(fault, {"refused", "cut"})
        /\ files' = Write(files, path, doc.rom, fault)
        /\ doc' = IF fault = "refused" THEN doc ELSE [doc EXCEPT !.path = path, !.modified = FALSE]
  BY DEF SaveRom
<1>3. files' \in Files(Roms')
  BY <1>1, <1>2, Before, WriteType DEF Docs
<1>4. doc' \in Docs(Roms')
  BY <1>1, <1>2, Before DEF Docs
<1>5. failed' \in BOOLEAN
  BY <1>2 DEF May
<1> QED
  BY <1>1, <1>3, <1>4, <1>5, DocumentPreserves DEF SaveRom

LEMMA OpenRomPreserves == ASSUME TypeOK, OpenRom PROVE Preserved
<1>1. Makes /\ files' = files /\ failed' \in BOOLEAN
  BY DEF OpenRom, Makes
<1>2. files' \in Files(Roms') /\ files.outside \in Roms'
  BY <1>1, Before DEF Files
<1>3. doc' \in Docs(Roms')
  BY <1>2, LoadedType DEF OpenRom
<1> QED
  BY <1>1, <1>2, <1>3, DocumentPreserves DEF OpenRom

LEMMA LoadFromDataPreserves == ASSUME TypeOK, LoadFromData PROVE Preserved
<1>1. Makes /\ files' = files /\ made' \in Roms' /\ failed' \in BOOLEAN
  <2>1. made' = made + 1 /\ failed' = FALSE /\ files' = files
    BY DEF LoadFromData
  <2> QED
    BY <2>1, NewRom
<1>2. files' \in Files(Roms')
  BY <1>1, Before
<1>3. doc' \in Docs(Roms')
  BY <1>1, LoadedType DEF LoadFromData
<1> QED
  BY <1>1, <1>2, <1>3, DocumentPreserves DEF LoadFromData

-----------------------------------------------------------------------------
(* The steps that record. *)

\* Those that keep the variant.
LEMMA RecordingPreserves ==
  ASSUME TypeOK, Makes, Grows, head' = head, panelOn' \in BOOLEAN, failed' \in BOOLEAN,
         files' \in Files(Roms'), doc' \in Docs(Roms'), NavOK'
  PROVE  Preserved
BY StepPreserves DEF TypeOK, RepoOK

LEMMA OpenProjectPreserves == ASSUME TypeOK, OpenProject PROVE Preserved
<1>1. /\ Makes /\ UNCHANGED <<files, roms, lines, head, index>>
      /\ panelOn' \in BOOLEAN /\ failed' \in BOOLEAN
  BY DEF OpenProject, repoVars, Makes
<1>2. files' \in Files(Roms') /\ Grows
  BY <1>1, Before, SameGrows DEF TypeOK
<1>3. doc' \in Docs(Roms')
  BY <1>2, ReloadType DEF OpenProject
<1>4. NavOK'
  BY <1>1, <1>2, NavRebuilt DEF OpenProject, RebuildNav, TypeOK, RepoOK
<1> QED
  BY <1>1, <1>2, <1>3, <1>4, RecordingPreserves

LEMMA SaveAndCommitGrows ==
  ASSUME TypeOK, Makes, NEW fault, SaveAndCommit(fault)
  PROVE  files' \in Files(Roms') /\ failed' \in BOOLEAN /\ Grows
<1>1. files' \in Files(Roms') /\ files'.project \in Roms'
  BY FlushedType DEF SaveAndCommit, Files
<1>2. ASSUME Commit(files'.project, fault) PROVE Grows
  BY <1>1, <1>2, CommitGrows DEF TypeOK
<1>3. ASSUME UNCHANGED <<roms, lines, index>> PROVE Grows
  BY <1>3, Before, SameGrows DEF TypeOK
<1>4. failed' \in BOOLEAN
  BY DEF SaveAndCommit, May
<1> QED
  BY <1>1, <1>2, <1>3, <1>4 DEF SaveAndCommit

LEMMA AutoSavePreserves == ASSUME TypeOK, AutoSave PROVE Preserved
<1>1. Makes /\ head' = head /\ panelOn' = panelOn /\ panelOn' \in BOOLEAN
  BY DEF AutoSave, Makes, TypeOK
<1>2. PICK fault \in {"none"} \cup Faults : SaveAndCommit(fault) /\ doc' = FlushedDoc(fault)
  BY DEF AutoSave
<1>3. /\ files' \in Files(Roms') /\ doc' \in Docs(Roms') /\ failed' \in BOOLEAN
      /\ Grows
  BY <1>1, <1>2, SaveAndCommitGrows, FlushedType
<1>4. lines'[head] # <<>>
  BY <1>3 DEF Grows, TypeOK, RepoOK
<1>5. NavOK'
  BY <1>1, <1>3, <1>4, NavSame, NavRebuilt DEF AutoSave, TypeOK, RepoOK
<1> QED
  BY <1>1, <1>3, <1>5, RecordingPreserves

LEMMA CloseEventPreserves == ASSUME TypeOK, CloseEvent PROVE Preserved
<1>1. /\ Makes /\ head' = head /\ panelOn' = FALSE /\ doc' = NoDoc /\ nav' = NoNav
  BY DEF CloseEvent, Makes
<1>2. files' \in Files(Roms') /\ failed' \in BOOLEAN /\ Grows
  <2>1. CASE \E fault \in {"none"} \cup Faults : SaveAndCommit(fault)
    BY <1>1, <2>1, SaveAndCommitGrows
  <2>2. CASE failed' = FALSE /\ UNCHANGED <<files, roms, lines, index>>
    BY <1>1, <2>2, Before, SameGrows DEF TypeOK
  <2> QED
    BY <2>1, <2>2 DEF CloseEvent
<1>3. doc' \in Docs(Roms')
  BY <1>1, Before DEF NoDoc, Docs
<1>4. NavOK'
  BY <1>1, SeqFacts DEF NoNav, NavOK
<1> QED
  BY <1>1, <1>2, <1>3, <1>4, RecordingPreserves

LEMMA ImportRomPreserves == ASSUME TypeOK, ImportRom PROVE Preserved
<1>1. /\ Makes /\ made' \in Roms' /\ head' = head /\ doc' = doc /\ UNCHANGED <<panelOn, nav>>
      /\ panelOn' \in BOOLEAN
  BY DEF ImportRom, Makes, TypeOK, Roms
<1>2. PICK fault \in {"none"} \cup Faults :
        /\ May(fault, {"refused", "cut", "commit"})
        /\ files' = Write(files, "project", made', fault)
        /\ IF fault = "refused" THEN UNCHANGED <<roms, lines, index>>
           ELSE Commit(files'.project, fault)
  BY DEF ImportRom
<1>3. files' \in Files(Roms') /\ files'.project \in Roms' /\ doc' \in Docs(Roms')
  BY <1>1, <1>2, Before, WriteType DEF Files
<1>4. Grows
  BY <1>1, <1>2, <1>3, Before, SameGrows, CommitGrows DEF TypeOK
<1>5. NavOK'
  BY <1>1, <1>4, NavSame
<1>6. failed' \in BOOLEAN
  BY <1>2 DEF May
<1> QED
  BY <1>1, <1>3, <1>4, <1>5, <1>6, RecordingPreserves

-----------------------------------------------------------------------------
(* The steps of the versions panel. *)

LEMMA CommitCurrentPreserves == ASSUME TypeOK, CommitCurrent PROVE Preserved
<1>1. Makes /\ UNCHANGED <<head, panelOn, made>> /\ panelOn' \in BOOLEAN
  BY DEF CommitCurrent, Makes, TypeOK
<1>2. PICK fault \in {"none"} \cup Faults, answered \in BOOLEAN :
        /\ May(fault, SaveCalls \cup IF answered THEN {"commit"} ELSE {})
        /\ files' = Flushed(fault) /\ doc' = FlushedDoc(fault)
        /\ IF answered /\ ~(Unsaved /\ fault = "refused") THEN Commit(files'.project, fault)
           ELSE UNCHANGED <<roms, lines, index>>
  BY DEF CommitCurrent
<1>3. files' \in Files(Roms') /\ files'.project \in Roms' /\ doc' \in Docs(Roms')
  BY <1>1, <1>2, FlushedType DEF Files
<1>4. Grows
  BY <1>1, <1>2, <1>3, Before, SameGrows, CommitGrows DEF TypeOK
<1>5. lines'[head'] # <<>> /\ head' \in Variants
  BY <1>1, <1>4 DEF Grows, TypeOK, RepoOK
<1>6. NavOK'
  BY <1>1, <1>4, <1>5, NavSame, NavRebuilt DEF CommitCurrent, RebuildNav
<1>7. failed' \in BOOLEAN
  BY <1>2 DEF May
<1> QED
  BY <1>1, <1>3, <1>4, <1>6, <1>7, RecordingPreserves

LEMMA RestoreSelectedPreserves ==
  ASSUME TypeOK, NEW version \in 1..Len(roms), RestoreSelected(version)
  PROVE  Preserved
<1>1. Makes /\ UNCHANGED <<head, panelOn, made>> /\ panelOn' \in BOOLEAN
  BY DEF RestoreSelected, Makes, TypeOK
<1>2. PICK fault \in {"none"} \cup Faults :
        /\ May(fault, {"refused", "cut", "commit"})
        /\ files' = Write(files, "project", roms[version], fault)
        /\ IF fault = "refused" THEN UNCHANGED <<roms, lines, index>>
           ELSE Commit(files'.project, fault)
  BY DEF RestoreSelected
<1>3. roms[version] \in Roms'
  BY <1>1, RomsGrow DEF TypeOK, RepoOK
<1>4. files' \in Files(Roms') /\ files'.project \in Roms'
  BY <1>1, <1>2, <1>3, Before, WriteType DEF Files
<1>5. Grows
  BY <1>1, <1>2, <1>4, Before, SameGrows, CommitGrows DEF TypeOK
<1>6. lines'[head'] # <<>> /\ head' \in Variants
  BY <1>1, <1>5 DEF Grows, TypeOK, RepoOK
<1>7. doc' \in Docs(Roms')
  BY <1>1, <1>4, Before, ReloadType DEF RestoreSelected
<1>8. NavOK'
  BY <1>1, <1>5, <1>6, NavSame, NavRebuilt DEF RestoreSelected, RebuildNav
<1>9. failed' \in BOOLEAN
  BY <1>2 DEF May
<1> QED
  BY <1>1, <1>4, <1>5, <1>7, <1>8, <1>9, RecordingPreserves

LEMMA RenameSelectedPreserves ==
  ASSUME TypeOK, NEW n \in 1..Len(lines[head]), RenameSelected(n)
  PROVE  Preserved
<1>1. /\ Makes /\ failed' \in BOOLEAN /\ UNCHANGED <<files, doc, head, index, panelOn, nav, made>>
      /\ panelOn' \in BOOLEAN
  BY DEF RenameSelected, Makes, TypeOK
<1>2. Grows
  BY RenameGrows
<1>3. NavOK'
  BY <1>1, <1>2, NavSame
<1> QED
  BY <1>1, <1>2, <1>3, Before, RecordingPreserves

LEMMA CreateVariantPreserves ==
  ASSUME TypeOK, NEW v \in Variants, CreateVariant(v)
  PROVE  Preserved
<1>1. /\ Makes /\ failed' \in BOOLEAN /\ UNCHANGED <<files, roms, index, panelOn, made>>
      /\ panelOn' \in BOOLEAN /\ head' = v
  BY DEF CreateVariant, Makes, TypeOK
<1>2. Grows
  BY CreateGrows
<1>3. lines'[v] # <<>>
  BY DEF CreateVariant, TypeOK, RepoOK
<1>4. files' \in Files(Roms')
  BY <1>1, Before
<1>5. doc' \in Docs(Roms')
  BY <1>4, ReloadType DEF CreateVariant
<1>6. NavOK'
  BY <1>1, <1>2, <1>3, NavRebuilt DEF CreateVariant, RebuildNav
<1> QED
  BY <1>1, <1>2, <1>3, <1>4, <1>5, <1>6, StepPreserves

LEMMA SwitchVariantPreserves ==
  ASSUME TypeOK, NEW v \in Variants, SwitchVariant(v)
  PROVE  Preserved
<1>1. /\ Makes /\ UNCHANGED <<panelOn, made>> /\ panelOn' \in BOOLEAN /\ lines[v] # <<>>
  BY DEF SwitchVariant, Makes, TypeOK
<1> DEFINE target == roms'[lines'[v][1]]
<1>2. PICK fault \in {"none"} \cup Faults :
        LET saved == Flushed(fault)
            dirty == saved.project # Tip \/ index # Tip
        IN
        /\ May(fault, SaveCalls \cup IF dirty THEN {"commit"} ELSE {})
        /\ IF dirty THEN Commit(saved.project, fault) ELSE UNCHANGED <<roms, lines, index>>
        /\ \/ /\ fault = "commit"
              /\ files' = saved /\ doc' = FlushedDoc(fault)
              /\ UNCHANGED <<head, nav>>
           \/ /\ fault # "commit"
              /\ head' = v
              /\ files' = [saved EXCEPT !.project = CheckoutSafe(@, target, target)]
              /\ Reload /\ RebuildNav
  BY DEF SwitchVariant
<1> DEFINE saved == Flushed(fault)
<1>3. saved \in Files(Roms') /\ saved.project \in Roms' /\ FlushedDoc(fault) \in Docs(Roms')
  BY <1>1, FlushedType DEF Files
<1>4. Grows
  BY <1>1, <1>2, <1>3, Before, SameGrows, CommitGrows DEF TypeOK
<1>5. failed' \in BOOLEAN
  BY <1>2 DEF May
<1>6. lines'[v] # <<>> /\ target \in Roms'
  <2>1. lines'[v] # <<>> /\ lines'[v] \in Seq(1..Len(roms')) /\ roms' \in Seq(Roms')
    BY <1>1, <1>4 DEF Grows
  <2>2. lines'[v][1] \in 1..Len(roms')
    BY <2>1
  <2> QED
    BY <2>1, <2>2
<1>7. CASE /\ files' = saved /\ doc' = FlushedDoc(fault)
           /\ UNCHANGED <<head, nav>>
  <2>1. NavOK'
    BY <1>1, <1>4, <1>7, NavSame
  <2> QED
    BY <1>1, <1>3, <1>4, <1>5, <1>7, <2>1, RecordingPreserves
<1>8. CASE /\ head' = v
           /\ files' = [saved EXCEPT !.project = CheckoutSafe(@, target, target)]
           /\ Reload /\ RebuildNav
  <2>1. files' \in Files(Roms')
    BY <1>3, <1>6, <1>8 DEF CheckoutSafe, Files
  <2>2. doc' \in Docs(Roms')
    BY <1>8, <2>1, ReloadType
  <2>3. NavOK'
    BY <1>4, <1>6, <1>8, NavRebuilt DEF RebuildNav
  <2> QED
    BY <1>1, <1>4, <1>5, <1>6, <1>8, <2>1, <2>2, <2>3, StepPreserves
<1> QED
  BY <1>2, <1>7, <1>8

\* The version gone to is loaded, or nothing is.
LEMMA GoToType ==
  ASSUME TypeOK, Makes, Grows, NEW chain \in Seq(1..Len(roms')), NEW pos \in Nat,
         pos < Len(chain), NEW fs \in Files(Roms'), NEW d \in Docs(Roms'), NEW fault,
         GoTo(chain, pos, fs, d, fault)
  PROVE  files' \in Files(Roms') /\ doc' \in Docs(Roms') /\ NavOK'
<1> DEFINE rom == roms'[chain[pos + 1]]
<1>1. rom \in Roms'
  <2>1. chain[pos + 1] \in 1..Len(roms') /\ roms' \in Seq(Roms')
    BY DEF Grows
  <2> QED
    BY <2>1
<1>2. NavOK'
  BY NavArrows DEF GoTo
<1>3. CASE files' = fs /\ doc' = d
  BY <1>2, <1>3
<1>4. CASE /\ \E held \in IF fault = "reload" THEN {fs.project, Cut} ELSE {rom} :
                files' = [fs EXCEPT !.project = held]
           /\ Reload
  <2>1. files' \in Files(Roms')
    BY <1>1, <1>4, Before DEF Files
  <2> QED
    BY <1>2, <1>4, <2>1, ReloadType
<1> QED
  BY <1>3, <1>4 DEF GoTo

LEMMA UndoPreserves == ASSUME TypeOK, Undo PROVE Preserved
<1>1. Makes /\ UNCHANGED <<head, panelOn, made>> /\ panelOn' \in BOOLEAN /\ panelOn
  BY DEF Undo, CanUndo, Makes, TypeOK
<1>2. PICK fault \in {"none"} \cup Faults :
        LET captured == Unsaved /\ fault # "refused"
            chain == IF captured THEN lines'[head] ELSE nav.chain
            pos == IF captured THEN 0 ELSE nav.pos
            older == pos + 1 < Len(chain)
        IN
        /\ May(fault, SaveCalls \cup IF captured THEN {"commit", "reload"} ELSE {"reload"})
        /\ IF captured THEN Commit(Flushed(fault).project, fault)
           ELSE UNCHANGED <<roms, lines, index>>
        /\ fault = "reload" => older
        /\ IF older
             THEN GoTo(chain, pos + 1, Flushed(fault), FlushedDoc(fault), fault)
             ELSE /\ files' = Flushed(fault) /\ doc' = FlushedDoc(fault)
                  /\ nav' = Arrows(chain, pos)
  BY DEF Undo
<1> DEFINE captured == Unsaved /\ fault # "refused"
           chain == IF captured THEN lines'[head] ELSE nav.chain
           pos == IF captured THEN 0 ELSE nav.pos
<1>3. /\ Flushed(fault) \in Files(Roms') /\ Flushed(fault).project \in Roms'
      /\ FlushedDoc(fault) \in Docs(Roms')
  BY <1>1, FlushedType DEF Files
<1>4. Grows
  BY <1>1, <1>2, <1>3, Before, SameGrows, CommitGrows DEF TypeOK
<1>5. failed' \in BOOLEAN
  BY <1>2 DEF May
<1>6. chain \in Seq(1..Len(roms')) /\ pos \in Nat /\ pos < Len(chain)
  <2>1. CASE captured
    <3>1. lines'[head] \in Seq(1..Len(roms')) /\ lines'[head] # <<>>
      BY <1>4 DEF Grows, TypeOK, RepoOK
    <3> QED
      BY <2>1, <3>1
  <2>2. CASE ~captured
    <3>1. nav.chain \in Seq(1..Len(roms)) /\ nav.pos \in Nat /\ nav.pos < Len(nav.chain)
      BY <1>1 DEF TypeOK, NavOK
    <3>2. UNCHANGED roms
      BY <1>2, <2>2
    <3> QED
      BY <2>2, <3>1, <3>2
  <2> QED
    BY <2>1, <2>2
<1> HIDE DEF chain, pos, captured
<1>7. files' \in Files(Roms') /\ doc' \in Docs(Roms') /\ NavOK'
  <2>1. CASE /\ pos + 1 < Len(chain)
             /\ GoTo(chain, pos + 1, Flushed(fault), FlushedDoc(fault), fault)
    BY <1>1, <1>3, <1>4, <1>6, <2>1, GoToType
  <2>2. CASE /\ files' = Flushed(fault) /\ doc' = FlushedDoc(fault)
             /\ nav' = Arrows(chain, pos)
    BY <1>3, <1>6, <2>2, NavArrows
  <2> QED
    BY <1>2, <2>1, <2>2 DEF chain, pos, captured
<1> QED
  BY <1>1, <1>4, <1>5, <1>7, RecordingPreserves

LEMMA RedoPreserves == ASSUME TypeOK, Redo PROVE Preserved
<1>1. /\ Makes /\ UNCHANGED <<roms, lines, head, index, panelOn, made>>
      /\ panelOn' \in BOOLEAN /\ panelOn
  BY DEF Redo, CanRedo, Makes, TypeOK, repoVars
<1>2. PICK fault \in {"none"} \cup Faults :
        May(fault, {"reload"}) /\ GoTo(nav.chain, nav.pos - 1, files, doc, fault)
  BY DEF Redo
<1>3. files \in Files(Roms') /\ doc \in Docs(Roms') /\ Grows
  BY <1>1, Before, SameGrows DEF TypeOK
<1>4. /\ nav.chain \in Seq(1..Len(roms')) /\ nav.pos - 1 \in Nat
      /\ nav.pos - 1 < Len(nav.chain)
  BY <1>1 DEF TypeOK, NavOK, Redo, CanRedo
<1>5. files' \in Files(Roms') /\ doc' \in Docs(Roms') /\ NavOK'
  BY <1>1, <1>2, <1>3, <1>4, GoToType
<1>6. failed' \in BOOLEAN
  BY <1>2 DEF May
<1> QED
  BY <1>1, <1>3, <1>5, <1>6, RecordingPreserves

-----------------------------------------------------------------------------
(* The theorems. *)

LEMMA InitType == Init => TypeOK
<1> SUFFICES ASSUME Init PROVE TypeOK
  OBVIOUS
<1>1. made = 2 /\ Roms = {Cut, Empty} \cup 1..2
  BY DEF Init, Roms
<1>2. 1 \in Roms /\ 2 \in Roms /\ Empty \in Roms
  BY <1>1
<1>3. FilesOK
  BY <1>2 DEF Init, FilesOK
<1>4. DocOK
  BY <1>2 DEF Init, NoDoc, DocOK
<1>5. RepoOK
  <2>1. roms = <<Empty, 1>> /\ Len(roms) = 2 /\ roms \in Seq(Roms)
    BY <1>2 DEF Init
  <2>2. <<2, 1>> \in Seq(1..2) /\ <<>> \in Seq(1..2) /\ <<2, 1>> # <<>>
    OBVIOUS
  <2> QED
    BY <1>2, <2>1, <2>2, VersionsAssumption DEF Init, RepoOK
<1>6. NavOK
  BY SeqFacts DEF Init, NoNav, NavOK
<1> QED
  <2>1. panelOn = FALSE /\ failed = FALSE /\ made = 2
    BY DEF Init
  <2> QED
    BY <2>1, <1>3, <1>4, <1>5, <1>6 DEF TypeOK

LEMMA NextPreserves == TypeOK /\ [Next]_vars => Preserved
<1> SUFFICES ASSUME TypeOK, [Next]_vars PROVE Preserved
  OBVIOUS
<1>1. CASE Document
  BY <1>1, EditPreserves, SaveRomPreserves, OpenRomPreserves, LoadFromDataPreserves DEF Document
<1>2. CASE Versions
  <2>1. ASSUME NEW v \in Variants, NEW i \in 1..Len(lines[v]), RestoreSelected(lines[v][i])
        PROVE  Preserved
    <3>1. lines[v][i] \in 1..Len(roms)
      BY DEF TypeOK, RepoOK
    <3> QED
      BY <2>1, <3>1, RestoreSelectedPreserves
  <2> QED
    BY <1>2, <2>1, CommitCurrentPreserves, UndoPreserves, RedoPreserves,
       SwitchVariantPreserves, CreateVariantPreserves, RenameSelectedPreserves DEF Versions
<1>3. CASE UNCHANGED vars
  BY <1>3 DEF vars, repoVars, Preserved, TypeOK, FilesOK, DocOK, RepoOK, NavOK, Kept, Roms
<1> QED
  BY <1>1, <1>2, <1>3, OpenProjectPreserves, ImportRomPreserves, AutoSavePreserves,
     CloseEventPreserves DEF Next

\* Every state of the document, the repository and the panel has its type: the
\* versions that variants and arrows name exist, and the arrows stand on one.
THEOREM TypeCorrect == Spec => []TypeOK
<1>1. TypeOK /\ [Next]_vars => TypeOK'
  BY NextPreserves DEF Preserved
<1> QED
  BY InitType, <1>1, PTL DEF Spec

\* A ROM that the history of a variant holds is held for ever (GitManager only
\* adds versions, and makes them again with the same ROMs): for any number of
\* variants, edits and versions, and whatever call fails.
THEOREM HistoryIsKept == Spec => HistoryKept
<1>1. TypeOK /\ [Next]_vars => [Kept \subseteq Kept']_vars
  BY NextPreserves DEF Preserved
<1> QED
  BY TypeCorrect, <1>1, PTL DEF Spec, HistoryKept

-----------------------------------------------------------------------------
(* The arrows walk the lineage of the variant shown.  A step either makes  *)
(* the chain of the arrows again, or keeps it while the lineage grows at   *)
(* its new end: `LineGrows`.                                               *)

\* Chain c is what a lineage holds up to some of its versions.
EndOf(c, l) ==
  \E n \in 0..Len(l) :
    Len(c) = Len(l) - n /\ \A i \in 1..Len(c) : roms[c[i]] = roms[l[n + i]]

InLineage == panelOn => EndOf(nav.chain, lines[head])

\* The versions stay, and the lineage of the variant ends with the same ROMs.
LineGrows ==
  /\ head' = head /\ \A m \in 1..Len(roms) : roms'[m] = roms[m]
  /\ \E k \in Nat :
       /\ Len(lines'[head]) = Len(lines[head]) + k
       /\ \A i \in 1..Len(lines[head]) : roms'[lines'[head][k + i]] = roms[lines[head][i]]

-----------------------------------------------------------------------------
(* The chain. *)

LEMMA ChainKept ==
  ASSUME TypeOK, InLineage, LineGrows, nav'.chain = nav.chain, panelOn' => panelOn
  PROVE  InLineage'
<1> SUFFICES ASSUME panelOn' PROVE EndOf(nav.chain, lines[head])'
  BY DEF InLineage
<1> DEFINE c == nav.chain
           l == lines[head]
<1>1. c \in Seq(1..Len(roms)) /\ l \in Seq(1..Len(roms))
  BY DEF TypeOK, NavOK, RepoOK
<1>2. PICK n \in 0..Len(l) :
        Len(c) = Len(l) - n /\ \A i \in 1..Len(c) : roms[c[i]] = roms[l[n + i]]
  BY DEF InLineage, EndOf
<1>3. PICK k \in Nat :
        /\ Len(lines'[head]) = Len(l) + k
        /\ \A i \in 1..Len(l) : roms'[lines'[head][k + i]] = roms[l[i]]
  BY DEF LineGrows
<1>4. \A i \in 1..Len(c) : roms'[c[i]] = roms[c[i]]
  <2>1. \A i \in 1..Len(c) : c[i] \in 1..Len(roms)
    BY <1>1
  <2> HIDE DEF c
  <2> QED  BY <2>1 DEF LineGrows
<1>5. \A i \in 1..Len(c) : n + i \in 1..Len(l) /\ k + (n + i) = (n + k) + i
  BY <1>1, <1>2
<1>6. \A i \in 1..Len(c) : roms'[c[i]] = roms'[lines'[head][(n + k) + i]]
  BY <1>2, <1>3, <1>4, <1>5
<1>7. n + k \in 0..Len(lines'[head]) /\ Len(c) = Len(lines'[head]) - (n + k)
  BY <1>1, <1>2, <1>3
<1>8. nav'.chain = c /\ head' = head
  BY DEF LineGrows
<1> HIDE DEF c, l
<1> QED  BY <1>6, <1>7, <1>8 DEF EndOf

LEMMA ChainNew ==
  ASSUME TypeOK', nav'.chain = lines'[head']
  PROVE  InLineage'
<1>1. Len(lines'[head']) \in Nat
  BY DEF TypeOK, RepoOK
<1> QED  BY <1>1 DEF InLineage, EndOf

\* The property, one version at a time.
LEMMA InLineageIs == ASSUME TypeOK, InLineage PROVE NavInLineage
<1> SUFFICES ASSUME panelOn
             PROVE  \E n \in 0..Len(lines[head]) :
                      RomsOf(nav.chain) = SubSeq(RomsOf(lines[head]), n + 1, Len(lines[head]))
  BY DEF NavInLineage
<1> DEFINE c == nav.chain
           l == lines[head]
<1>1. c \in Seq(1..Len(roms)) /\ l \in Seq(1..Len(roms)) /\ roms \in Seq(Roms)
  BY DEF TypeOK, NavOK, RepoOK
<1>2. PICK n \in 0..Len(l) :
        Len(c) = Len(l) - n /\ \A i \in 1..Len(c) : roms[c[i]] = roms[l[n + i]]
  BY DEF InLineage, EndOf
<1> HIDE DEF c, l
<1>3. RomsOf(c) \in Seq(Roms) /\ Len(RomsOf(c)) = Len(c)
      /\ \A i \in 1..Len(c) : RomsOf(c)[i] = roms[c[i]]
  <2>1. \A i \in 1..Len(c) : roms[c[i]] \in Roms
    BY <1>1
  <2>2. RomsOf(c) \in [1..Len(c) -> Roms] /\ Len(c) \in Nat
    BY <1>1, <2>1 DEF RomsOf
  <2> QED  BY <2>2 DEF RomsOf
<1>4. RomsOf(l) \in Seq(Roms) /\ Len(RomsOf(l)) = Len(l)
      /\ \A i \in 1..Len(l) : RomsOf(l)[i] = roms[l[i]]
  <2>1. \A i \in 1..Len(l) : roms[l[i]] \in Roms
    BY <1>1
  <2>2. RomsOf(l) \in [1..Len(l) -> Roms] /\ Len(l) \in Nat
    BY <1>1, <2>1 DEF RomsOf
  <2> QED  BY <2>2 DEF RomsOf
<1> DEFINE s == RomsOf(c)
           t == RomsOf(l)
           u == SubSeq(t, n + 1, Len(l))
<1> HIDE DEF s, t
<1>5. s \in Seq(Roms) /\ t \in Seq(Roms) /\ Len(s) = Len(c) /\ Len(t) = Len(l)
      /\ Len(l) \in Nat /\ Len(c) \in Nat
  BY <1>1, <1>3, <1>4 DEF s, t
<1>6. /\ u \in Seq(Roms) /\ Len(u) = Len(l) - n
      /\ \A i \in 1..(Len(l) - n) : u[i] = t[n + i]
  BY <1>5
<1>7. \A i \in 1..Len(c) : s[i] = u[i]
  <2> TAKE i \in 1..Len(c)
  <2>1. i \in 1..(Len(l) - n) /\ n + i \in 1..Len(l)
    BY <1>2, <1>5
  <2> QED  BY <1>2, <1>3, <1>4, <1>6, <2>1 DEF s, t
<1>8. s = u
  <2> HIDE DEF u
  <2> QED  BY <1>2, <1>5, <1>6, <1>7, SeqEqual
<1> QED  BY <1>8 DEF s, t, c, l

-----------------------------------------------------------------------------
(* The lineage. *)

LEMMA SameLine ==
  ASSUME TypeOK, UNCHANGED <<roms, lines, head>>
  PROVE  LineGrows
<1>1. \A i \in 1..Len(lines[head]) : 0 + i = i
  BY DEF TypeOK, RepoOK
<1>2. Len(lines[head]) = Len(lines[head]) + 0
  BY DEF TypeOK, RepoOK
<1> QED  BY <1>1, <1>2 DEF LineGrows

LEMMA RecordLine ==
  ASSUME TypeOK, NEW rom, Record(rom), head' = head
  PROVE  LineGrows
<1> DEFINE new == Len(roms) + 1
           l == lines[head]
<1>1. /\ roms' = Append(roms, rom) /\ lines'[head] = <<new>> \o l
      /\ l \in Seq(1..Len(roms)) /\ roms \in Seq(Roms) /\ Len(l) \in Nat
  BY DEF Record, TypeOK, RepoOK
<1>2. \A m \in 1..Len(roms) : roms'[m] = roms[m]
  BY <1>1
<1>3. /\ Len(<<new>> \o l) = Len(l) + 1
      /\ \A i \in 1..Len(l) : (<<new>> \o l)[1 + i] = l[i] /\ l[i] \in 1..Len(roms)
  BY <1>1
<1>4. \A i \in 1..Len(l) : roms'[lines'[head][1 + i]] = roms[l[i]]
  <2> HIDE DEF l
  <2> QED  BY <1>1, <1>2, <1>3
<1> QED  BY <1>1, <1>2, <1>3, <1>4, SMTT(40) DEF LineGrows

LEMMA CommitLine ==
  ASSUME TypeOK, NEW rom, NEW fault, Commit(rom, fault), head' = head
  PROVE  LineGrows
BY SameLine, RecordLine DEF Commit, RecordFails

LEMMA RenameLine ==
  ASSUME TypeOK, NEW n \in 1..Len(lines[head]), RenameSelected(n)
  PROVE  LineGrows
<1> DEFINE line == lines[head]
           again == [i \in 1..n |-> roms[line[n + 1 - i]]]
           fresh == [i \in 1..n |-> Len(roms) + n + 1 - i]
           older == SubSeq(line, n + 1, Len(line))
<1>1. /\ line \in Seq(1..Len(roms)) /\ Len(line) \in Nat /\ Len(roms) \in Nat
      /\ n \in Nat /\ n <= Len(line) /\ roms \in Seq(Roms) /\ head' = head
  BY DEF TypeOK, RepoOK, RenameSelected
<1>2. roms' = roms \o again /\ lines'[head] = fresh \o older
  BY DEF RenameSelected, TypeOK, RepoOK
<1>3. again \in Seq(Roms) /\ Len(again) = n
  <2>1. \A i \in 1..n : line[n + 1 - i] \in 1..Len(roms)
    BY <1>1
  <2>2. again \in [1..n -> Roms]
    BY <1>1, <2>1
  <2> HIDE DEF again
  <2> QED  BY <1>1, <2>2
<1>4. fresh \in Seq(Nat) /\ Len(fresh) = n
  <2>1. fresh \in [1..n -> Nat]
    BY <1>1
  <2> HIDE DEF fresh
  <2> QED  BY <1>1, <2>1
<1>5. /\ older \in Seq(Nat) /\ Len(older) = Len(line) - n
      /\ \A i \in 1..(Len(line) - n) : older[i] = line[n + i]
  BY <1>1
<1>6. /\ \A m \in 1..Len(roms) : (roms \o again)[m] = roms[m]
      /\ \A m \in 1..n : (roms \o again)[Len(roms) + m] = again[m]
  <2> HIDE DEF again
  <2> QED  BY <1>1, <1>3, ConcatFacts
<1>7. /\ Len(fresh \o older) = n + (Len(line) - n)
      /\ \A i \in 1..n : (fresh \o older)[i] = fresh[i]
      /\ \A i \in 1..(Len(line) - n) : (fresh \o older)[n + i] = older[i]
  <2> HIDE DEF fresh, older, line
  <2>1. /\ Len(fresh \o older) = Len(fresh) + Len(older)
        /\ \A i \in 1..Len(fresh) : (fresh \o older)[i] = fresh[i]
        /\ \A i \in 1..Len(older) : (fresh \o older)[Len(fresh) + i] = older[i]
    <3>1. fresh \in Seq(Nat) /\ older \in Seq(Nat)
      BY <1>4, <1>5
    <3> QED  BY ONLY <3>1, ConcatFacts
  <2>2. Len(fresh) = n /\ Len(older) = Len(line) - n
    BY <1>4, <1>5
  <2> HIDE DEF older, fresh
  <2> QED  BY <2>1, <2>2
<1>8. ASSUME NEW i \in 1..Len(line) PROVE roms'[lines'[head][i]] = roms[line[i]]
  <2>1. CASE i <= n
    <3>1. i \in 1..n /\ n + 1 - i \in 1..n
      BY <1>1, <2>1
    <3>2. (fresh \o older)[i] = Len(roms) + (n + 1 - i)
      <4>1. fresh[i] = Len(roms) + n + 1 - i
        BY <3>1
      <4>2. Len(roms) + n + 1 - i = Len(roms) + (n + 1 - i)
        BY <1>1, <3>1
      <4> QED  BY <1>7, <3>1, <4>1, <4>2
    <3>3. again[n + 1 - i] = roms[line[i]]
      <4>1. again[n + 1 - i] = roms[line[n + 1 - (n + 1 - i)]]
        BY <3>1
      <4>2. n + 1 - (n + 1 - i) = i
        BY <1>1, <3>1
      <4> QED  BY <4>1, <4>2
    <3> HIDE DEF again, fresh, older, line
    <3> QED  BY <1>2, <1>6, <3>1, <3>2, <3>3, ZenonT(60)
  <2>2. CASE ~(i <= n)
    <3>1. i - n \in 1..(Len(line) - n) /\ n + (i - n) = i
      BY <1>1, <2>2
    <3>2. (fresh \o older)[i] = line[i] /\ line[i] \in 1..Len(roms)
      <4>1. (fresh \o older)[n + (i - n)] = older[i - n] /\ older[i - n] = line[n + (i - n)]
        BY <1>5, <1>7, <3>1
      <4>2. line[i] \in 1..Len(roms)
        BY <1>1
      <4> QED  BY <3>1, <4>1, <4>2
    <3> HIDE DEF again, fresh, older
    <3> QED  BY <1>2, <1>6, <3>2
  <2> QED  BY <2>1, <2>2
<1>9. Len(lines'[head]) = Len(line) + 0
  <2> HIDE DEF fresh, older
  <2> QED  BY <1>1, <1>2, <1>7
<1>10. \A i \in 1..Len(line) : 0 + i = i
  BY <1>1
<1>11. \A m \in 1..Len(roms) : roms'[m] = roms[m]
  <2> HIDE DEF again
  <2> QED  BY <1>2, <1>6
<1>12. \A i \in 1..Len(line) : roms'[lines'[head][0 + i]] = roms[line[i]]
  BY <1>8, <1>10
<1> QED  BY <1>1, <1>9, <1>11, <1>12 DEF LineGrows

-----------------------------------------------------------------------------
(* Each step makes the chain again, keeps it, or closes the project. *)

Follows ==
  \/ nav'.chain = lines'[head']
  \/ LineGrows /\ nav'.chain = nav.chain /\ (panelOn' => panelOn)
  \/ panelOn' = FALSE

LEMMA Rebuilt == ASSUME NEW v, NEW n, nav' = Arrows(lines'[v], n), head' = v PROVE Follows
BY DEF Arrows, Follows

LEMMA SaveAndCommitLine ==
  ASSUME TypeOK, NEW fault, SaveAndCommit(fault), head' = head
  PROVE  LineGrows
BY SameLine, CommitLine DEF SaveAndCommit

LEMMA AutoSaveFollows == ASSUME TypeOK, AutoSave PROVE Follows
<1>1. head' = head /\ panelOn' = panelOn
  BY DEF AutoSave
<1>2. LineGrows
  BY <1>1, SaveAndCommitLine DEF AutoSave
<1>3. CASE nav' = Arrows(lines'[head], 0)
  BY <1>1, <1>3, Rebuilt
<1>4. CASE UNCHANGED nav
  BY <1>1, <1>2, <1>4 DEF Follows
<1> QED  BY <1>3, <1>4 DEF AutoSave

LEMMA ImportRomFollows == ASSUME TypeOK, ImportRom PROVE Follows
<1>1. UNCHANGED <<head, panelOn, nav>>
  BY DEF ImportRom
<1>2. LineGrows
  BY <1>1, SameLine, CommitLine DEF ImportRom
<1> QED  BY <1>1, <1>2 DEF Follows

LEMMA CommitCurrentFollows == ASSUME TypeOK, CommitCurrent PROVE Follows
<1>1. UNCHANGED <<head, panelOn>>
  BY DEF CommitCurrent
<1>2. LineGrows
  BY <1>1, SameLine, CommitLine DEF CommitCurrent
<1>3. CASE RebuildNav
  BY <1>3, Rebuilt DEF RebuildNav
<1>4. CASE UNCHANGED nav
  BY <1>1, <1>2, <1>4 DEF Follows
<1> QED  BY <1>3, <1>4 DEF CommitCurrent

LEMMA RestoreSelectedFollows ==
  ASSUME TypeOK, NEW version, RestoreSelected(version)
  PROVE  Follows
<1>1. UNCHANGED <<head, panelOn>>
  BY DEF RestoreSelected
<1>2. LineGrows
  BY <1>1, SameLine, CommitLine DEF RestoreSelected
<1>3. CASE RebuildNav
  BY <1>3, Rebuilt DEF RebuildNav
<1>4. CASE UNCHANGED nav
  BY <1>1, <1>2, <1>4 DEF Follows
<1> QED  BY <1>3, <1>4 DEF RestoreSelected

LEMMA SwitchVariantFollows ==
  ASSUME TypeOK, NEW v, SwitchVariant(v)
  PROVE  Follows
<1>1. panelOn' = panelOn
  BY DEF SwitchVariant
<1>2. head' = head => LineGrows
  BY SameLine, CommitLine DEF SwitchVariant
<1>3. CASE RebuildNav
  BY <1>3, Rebuilt DEF RebuildNav
<1>4. CASE UNCHANGED <<head, nav>>
  BY <1>1, <1>2, <1>4 DEF Follows
<1> QED  BY <1>3, <1>4 DEF SwitchVariant

LEMMA UndoFollows == ASSUME TypeOK, Undo PROVE Follows
<1>1. UNCHANGED <<head, panelOn>>
  BY DEF Undo
<1>2. PICK fault \in {"none"} \cup Faults :
        LET captured == Unsaved /\ fault # "refused"
            chain == IF captured THEN lines'[head] ELSE nav.chain
            pos == IF captured THEN 0 ELSE nav.pos
            older == pos + 1 < Len(chain)
        IN
        /\ IF captured THEN Commit(Flushed(fault).project, fault)
           ELSE UNCHANGED <<roms, lines, index>>
        /\ IF older
             THEN GoTo(chain, pos + 1, Flushed(fault), FlushedDoc(fault), fault)
             ELSE nav' = Arrows(chain, pos)
  BY DEF Undo
<1> DEFINE captured == Unsaved /\ fault # "refused"
           chain == IF captured THEN lines'[head] ELSE nav.chain
<1>3. nav'.chain = chain
  BY <1>2 DEF GoTo, Arrows
<1>4. CASE captured
  BY <1>1, <1>3, <1>4 DEF Follows
<1>5. CASE ~captured
  <2>1. LineGrows
    BY <1>1, <1>2, <1>5, SameLine
  <2> QED  BY <1>1, <1>3, <1>5, <2>1 DEF Follows
<1> QED  BY <1>4, <1>5

LEMMA RedoFollows == ASSUME TypeOK, Redo PROVE Follows
<1>1. UNCHANGED <<roms, lines, head, panelOn>>
  BY DEF Redo, repoVars
<1>2. nav'.chain = nav.chain
  BY DEF Redo, GoTo, Arrows
<1>3. LineGrows
  BY <1>1, SameLine
<1> QED  BY <1>1, <1>2, <1>3 DEF Follows

LEMMA NextFollows ==
  ASSUME TypeOK, [Next]_vars
  PROVE  Follows
<1>1. CASE Document \/ UNCHANGED vars
  <2>1. UNCHANGED <<roms, lines, head, panelOn, nav>>
    BY <1>1 DEF Document, Edit, SaveRom, OpenRom, LoadFromData, vars, repoVars
  <2> QED  BY <2>1, SameLine DEF Follows
<1>2. CASE OpenProject
  BY <1>2, Rebuilt DEF OpenProject, RebuildNav
<1>3. CASE CloseEvent
  BY <1>3 DEF CloseEvent, Follows
<1>4. CASE Versions
  <2>1. ASSUME NEW v \in Variants, CreateVariant(v) PROVE Follows
    BY <2>1, Rebuilt DEF CreateVariant, RebuildNav
  <2>2. ASSUME NEW n \in 1..Len(lines[head]), RenameSelected(n) PROVE Follows
    <3>1. UNCHANGED <<panelOn, nav>>
      BY <2>2 DEF RenameSelected
    <3> QED  BY <2>2, <3>1, RenameLine DEF Follows
  <2> QED
    BY <1>4, <2>1, <2>2, CommitCurrentFollows, UndoFollows, RedoFollows, SwitchVariantFollows,
       RestoreSelectedFollows DEF Versions
<1> QED
  BY <1>1, <1>2, <1>3, <1>4, AutoSaveFollows, ImportRomFollows DEF Next

-----------------------------------------------------------------------------
(* The theorem. *)

\* GitPanel's arrows never leave the history of the variant shown: whatever is recorded,
\* renamed, restored or switched to under them, and whatever call fails, their chain is
\* that history up to versions they were not told of.
THEOREM ArrowsFollow == Spec => []NavInLineage
<1>1. Init => InLineage
  BY DEF Init, InLineage
<1>2. TypeOK /\ TypeOK' /\ InLineage /\ [Next]_vars => InLineage'
  <2> SUFFICES ASSUME TypeOK, TypeOK', InLineage, [Next]_vars PROVE InLineage'
    OBVIOUS
  <2>1. Follows
    BY NextFollows
  <2>2. CASE panelOn' = FALSE
    BY <2>2 DEF InLineage
  <2> QED  BY <2>1, <2>2, ChainNew, ChainKept DEF Follows
<1>3. TypeOK /\ InLineage => NavInLineage
  BY InLineageIs
<1> QED  BY <1>1, <1>2, <1>3, TypeCorrect, PTL DEF Spec

-----------------------------------------------------------------------------
\* A step that fails in nothing had no fault.
LEMMA NoFault ==
  ASSUME NEW fault, NEW calls, May(fault, calls), ~failed'
  PROVE  fault = "none"
BY DEF May

\* What is not saved of a ROM of the project is in its file once it was saved.
LEMMA SavedRom ==
  ASSUME TypeOK, Unsaved, doc.path = "project"
  PROVE  Flushed("none").project = doc.rom
BY DEF Flushed, Write, TypeOK, FilesOK

\* A version that was recorded is the newest of the variant shown.
LEMMA Recorded ==
  ASSUME TypeOK, NEW rom, Record(rom)
  PROVE  /\ lines'[head] = <<Len(roms) + 1>> \o lines[head] /\ roms'[Len(roms) + 1] = rom
         /\ Len(lines'[head]) > 1 /\ lines'[head][1] = Len(roms) + 1
         /\ rom \in Kept'
<1>1. /\ roms' = Append(roms, rom) /\ roms \in Seq(Roms)
      /\ lines'[head] = <<Len(roms) + 1>> \o lines[head]
      /\ head \in Variants /\ lines[head] \in Seq(1..Len(roms)) /\ lines[head] # <<>>
  BY DEF Record, TypeOK, RepoOK
<1>2. Len(roms) \in Nat /\ roms'[Len(roms) + 1] = rom
  BY <1>1
<1>3. Len(lines'[head]) > 1 /\ lines'[head][1] = Len(roms) + 1
  <2>1. Len(lines[head]) \in Nat \ {0}
    BY <1>1
  <2> QED  BY <1>1, <1>2, <2>1
<1>4. 1 \in 1..Len(lines'[head])
  <2>1. Len(lines'[head]) = 1 + Len(lines[head]) /\ Len(lines[head]) \in Nat
    BY <1>1
  <2> QED  BY <2>1
<1> QED  BY <1>1, <1>2, <1>3, <1>4 DEF Kept

LEMMA SaveIsRecorded ==
  ASSUME TypeOK, Unsaved, doc.path = "project", panelOn, NEW fault, SaveAndCommit(fault), ~failed'
  PROVE  doc.rom \in Kept'
<1>1. fault = "none"
  BY NoFault DEF SaveAndCommit
<1>2. Record(doc.rom)
  BY <1>1, SavedRom DEF SaveAndCommit, Commit
<1> QED  BY <1>2, Recorded

LEMMA SwitchRecords ==
  ASSUME TypeOK, Unsaved, doc.path = "project", NEW v, SwitchVariant(v), ~failed'
  PROVE  doc.rom \in Kept'
<1> DEFINE saved == Flushed("none")
           dirty == saved.project # Tip \/ index # Tip
<1>1. IF dirty THEN Commit(saved.project, "none") ELSE UNCHANGED <<roms, lines, index>>
  BY NoFault DEF SwitchVariant
<1>2. saved.project = doc.rom
  BY SavedRom
<1>3. CASE dirty
  BY <1>1, <1>2, <1>3, Recorded DEF Commit
<1>4. CASE ~dirty
  <2>1. doc.rom = roms[lines[head][1]] /\ UNCHANGED <<roms, lines>>
    BY <1>1, <1>2, <1>4 DEF Tip
  <2>2. head \in Variants /\ 1 \in 1..Len(lines[head])
    <3>1. head \in Variants /\ lines[head] \in Seq(1..Len(roms)) /\ lines[head] # <<>>
      BY DEF TypeOK, RepoOK
    <3> QED  BY <3>1
  <2> QED  BY <2>1, <2>2 DEF Kept
<1> QED  BY <1>3, <1>4

\* Whatever the history, edits of the project are in it once the autosave, the closing of the
\* application or a change of variant has passed, if nothing failed.
THEOREM EditsAreCaptured == Spec => EditsCaptured
<1>1. ASSUME TypeOK, ~failed', OnProject, Unsaved, panelOn,
             AutoSave \/ CloseEvent \/ \E v \in Variants : SwitchVariant(v)
      PROVE  doc.rom \in Kept'
  <2>1. doc.path = "project" /\ doc.managed
    BY <1>1 DEF OnProject
  <2>2. CASE AutoSave
    BY <1>1, <2>1, <2>2, SaveIsRecorded DEF AutoSave
  <2>3. CASE CloseEvent
    BY <1>1, <2>1, <2>3, SaveIsRecorded DEF CloseEvent
  <2>4. CASE \E v \in Variants : SwitchVariant(v)
    BY <1>1, <2>1, <2>4, SwitchRecords
  <2> QED  BY <1>1, <2>2, <2>3, <2>4
<1> QED  BY TypeCorrect, <1>1, PTL DEF EditsCaptured

\* GitPanel::undo captures edits of the project as a version first, and the redo arrow is then
\* enabled and stands on that version.
THEOREM RedoIsGiven == Spec => RedoGivesBack
<1>1. ASSUME TypeOK, ~failed', doc.path = "project", Unsaved, Undo
      PROVE  CanRedo' /\ roms'[nav'.chain[nav'.pos]] = doc.rom
  <2> DEFINE chain == lines'[head]
  <2>1. PICK fault :
          /\ fault = "none"
          /\ Commit(Flushed(fault).project, fault)
          /\ IF 0 + 1 < Len(chain)
             THEN GoTo(chain, 0 + 1, Flushed(fault), FlushedDoc(fault), fault)
             ELSE nav' = Arrows(chain, 0)
    BY <1>1, NoFault DEF Undo
  <2>2. Record(doc.rom)
    BY <1>1, <2>1, SavedRom DEF Commit
  <2>3. /\ Len(chain) > 1 /\ chain[1] = Len(roms) + 1 /\ roms'[Len(roms) + 1] = doc.rom
    BY <1>1, <2>2, Recorded
  <2>4. nav' = Arrows(chain, 1)
    BY <2>1, <2>3 DEF GoTo
  <2>5. nav'.chain = chain /\ nav'.pos = 1
    BY <2>4, Zenon DEF Arrows
  <2> HIDE DEF chain
  <2>6. CanRedo'
    <3>1. panelOn'
      BY <1>1 DEF Undo, CanUndo
    <3> QED  BY <2>5, <3>1 DEF CanRedo
  <2>7. nav'.chain[nav'.pos] = Len(roms) + 1
    BY <2>3, <2>5
  <2> QED  BY <2>3, <2>6, <2>7
<1> QED  BY TypeCorrect, <1>1, PTL DEF RedoGivesBack
=============================================================================
