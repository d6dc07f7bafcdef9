---------------------------- MODULE ElmLinkProofs ----------------------------
(***************************************************************************)
(* The ELM327 driver implements ElmLink: proved for every instance without *)
(* Bluetooth and without prompts a dongle sends unasked, late answers and  *)
(* the CAN monitor included.  An unasked prompt that comes once ready,     *)
(* while m_current is still the last command of the initialisation, makes  *)
(* the driver say connected again; over Bluetooth an attempt may cross the *)
(* next one and leave such an answer behind.                               *)
(*                                                                         *)
(* First what signals tell of the link.  Then `Straight`: the              *)
(* initialisation is gone through once per opening, and each step that     *)
(* keeps it so is a step of ElmLink (`Refined`).                           *)
(***************************************************************************)
EXTENDS Elm327Proofs, SequenceTheorems

-----------------------------------------------------------------------------
(* What signals tell of the link.                                          *)

\* The link signals among those of s, as LinkTold has them for `signals`.
Told(s, i) ==
  IF i \in 1..Len(s) /\ s[i].name \in LinkNames THEN <<s[i].name>> ELSE <<>>
Tells(s) == Told(s, 1) \o Told(s, 2) \o Told(s, 3)

\* Signals that say nothing of the link.
Silent(s) == s \in Seq(Signals) /\ Len(s) <= 3 /\ \A i \in 1..Len(s) : s[i].name \notin LinkNames

LEMMA LinkTells == LinkTold = Tells(signals) /\ LinkTold' = Tells(signals')
BY DEF LinkTold, Tells, Told

LEMMA SilentTells == ASSUME NEW s, Silent(s) PROVE Tells(s) = <<>> /\ Len(s) <= 3
BY DEF Silent, Tells, Told

LEMMA EmptyTells == Tells(<<>>) = <<>> /\ Silent(<<>>)
BY DEF Tells, Told, Silent

LEMMA StatusSilent ==
  \A text \in StatusTexts : Silent(<<Status(text)>>) /\ Status(text).name = "status"
BY StatusType, SeqFacts DEF Silent, Status, Sig, LinkNames

\* What one signal tells, and the concatenations of what few signals tell.
One(sig) == IF sig.name \in LinkNames THEN <<sig.name>> ELSE <<>>

LEMMA Concat ==
  ASSUME NEW S
  PROVE  /\ \A s \in Seq(S) : s \o <<>> = s /\ <<>> \o s = s
         /\ \A s, t \in Seq(S) : s \o t \in Seq(S) /\ Len(s \o t) = Len(s) + Len(t)
         /\ \A s, t, u \in Seq(S) : (s \o t) \o u = s \o (t \o u)
         /\ \A x \in S, t \in Seq(S) : <<x>> \o t # <<>> /\ Tail(<<x>> \o t) = t
         /\ \A s \in Seq(S), x \in S : Append(s, x) = s \o <<x>>
         /\ \A x \in S : <<x>> \in Seq(S)
         /\ <<>> \in Seq(S)
<1>1. \A s \in Seq(S) : s \o <<>> = s /\ <<>> \o s = s
  OBVIOUS
<1>2. \A s, t \in Seq(S) : s \o t \in Seq(S) /\ Len(s \o t) = Len(s) + Len(t)
  OBVIOUS
<1>3. \A s, t, u \in Seq(S) : (s \o t) \o u = s \o (t \o u)
  OBVIOUS
<1>4. \A x \in S, t \in Seq(S) : <<x>> \o t # <<>> /\ Tail(<<x>> \o t) = t
  OBVIOUS
<1>5. \A s \in Seq(S), x \in S : Append(s, x) = s \o <<x>>
  OBVIOUS
<1> QED
  BY <1>1, <1>2, <1>3, <1>4, <1>5, SeqFacts

LEMMA OneType == \A sig : One(sig) \in Seq(LinkNames)
BY SeqFacts DEF One

LEMMA ToldOne ==
  ASSUME NEW s, NEW i \in Nat
  PROVE  /\ i \in 1..Len(s) => Told(s, i) = One(s[i])
         /\ i \notin 1..Len(s) => Told(s, i) = <<>>
BY DEF Told, One

LEMMA FewTell ==
  ASSUME NEW s \in Seq(Signals)
  PROVE  /\ Len(s) = 1 => Tells(s) = One(s[1])
         /\ Len(s) = 2 => Tells(s) = One(s[1]) \o One(s[2])
         /\ Len(s) = 3 => Tells(s) = One(s[1]) \o One(s[2]) \o One(s[3])
<1>0. \A i \in 1..3 : One(s[i]) \in Seq(LinkNames)
  BY OneType
<1>1. CASE Len(s) = 1
  <2>1. 1 \in 1..Len(s) /\ 2 \notin 1..Len(s) /\ 3 \notin 1..Len(s)
    BY <1>1
  <2>2. Told(s, 1) = One(s[1]) /\ Told(s, 2) = <<>> /\ Told(s, 3) = <<>>
    BY <2>1, ToldOne
  <2>3. Tells(s) = (One(s[1]) \o <<>>) \o <<>>
    BY <2>2 DEF Tells
  <2> QED
    BY <1>0, <1>1, <2>3, Concat
<1>2. CASE Len(s) = 2
  <2>1. 1 \in 1..Len(s) /\ 2 \in 1..Len(s) /\ 3 \notin 1..Len(s)
    BY <1>2
  <2>2. Told(s, 1) = One(s[1]) /\ Told(s, 2) = One(s[2]) /\ Told(s, 3) = <<>>
    BY <2>1, ToldOne
  <2>3. Tells(s) = (One(s[1]) \o One(s[2])) \o <<>>
    BY <2>2 DEF Tells
  <2>4. One(s[1]) \o One(s[2]) \in Seq(LinkNames)
    BY <1>0, Concat
  <2> QED
    BY <1>2, <2>3, <2>4, Concat
<1>3. CASE Len(s) = 3
  <2>1. 1 \in 1..Len(s) /\ 2 \in 1..Len(s) /\ 3 \in 1..Len(s)
    BY <1>3
  <2>2. Told(s, 1) = One(s[1]) /\ Told(s, 2) = One(s[2]) /\ Told(s, 3) = One(s[3])
    BY <2>1, ToldOne
  <2> QED
    BY <1>3, <2>2 DEF Tells
<1> QED
  BY <1>1, <1>2, <1>3

\* Sequences put together from few signals.
LEMMA AppendedTells ==
  ASSUME NEW s \in Seq(Signals), NEW x \in Signals
  PROVE  /\ s = <<>> => Tells(Append(s, x)) = One(x) /\ Len(Append(s, x)) = 1
         /\ Len(s) = 1 => Tells(Append(s, x)) = One(s[1]) \o One(x) /\ Len(Append(s, x)) = 2
<1>1. /\ Append(s, x) \in Seq(Signals) /\ Len(Append(s, x)) = Len(s) + 1 /\ Len(s) \in Nat
      /\ Append(s, x)[Len(s) + 1] = x /\ \A i \in 1..Len(s) : Append(s, x)[i] = s[i]
  BY AppendProperties
<1>2. CASE s = <<>>
  <2>1. Len(Append(s, x)) = 1 /\ Append(s, x)[1] = x
    BY <1>1, <1>2
  <2>2. Tells(Append(s, x)) = One(Append(s, x)[1])
    BY <1>1, <2>1, FewTell
  <2>3. Len(s) # 1
    BY <1>2
  <2> QED
    BY <2>1, <2>2, <2>3
<1>3. CASE Len(s) = 1
  <2>1. Len(Append(s, x)) = 2 /\ Append(s, x)[1] = s[1] /\ Append(s, x)[2] = x
    BY <1>1, <1>3
  <2>2. Tells(Append(s, x)) = One(Append(s, x)[1]) \o One(Append(s, x)[2])
    BY <1>1, <2>1, FewTell
  <2>3. s # <<>>
    BY <1>3
  <2> QED
    BY <2>1, <2>2, <2>3
<1>4. CASE s # <<>> /\ Len(s) # 1
  BY <1>4
<1> QED
  BY <1>2, <1>3, <1>4

\* The names of one signal.
Connected == <<"connected">>
Disconnected == <<"disconnected">>
Failed == <<"errorOccurred">>

LEMMA NamesFacts ==
  /\ Connected \in Seq(LinkNames) /\ Disconnected \in Seq(LinkNames) /\ Failed \in Seq(LinkNames)
  /\ Append(Disconnected, "errorOccurred") = Disconnected \o Failed
  /\ Append(<<>>, "errorOccurred") = Failed
<1>1. "connected" \in LinkNames /\ "disconnected" \in LinkNames /\ "errorOccurred" \in LinkNames
  BY DEF LinkNames
<1>2. /\ Connected \in Seq(LinkNames) /\ Disconnected \in Seq(LinkNames)
      /\ Failed \in Seq(LinkNames)
  BY <1>1, SeqFacts DEF Connected, Disconnected, Failed
<1>3. Append(Disconnected, "errorOccurred") = Disconnected \o Failed
  BY <1>1, <1>2, Concat DEF Failed
<1>4. Append(<<>>, "errorOccurred") = <<>> \o Failed
  BY <1>1, Concat DEF Failed
<1> QED
  BY <1>2, <1>3, <1>4, Concat

LEMMA OneFacts ==
  /\ One(Sig("connected", "")) = Connected /\ One(Sig("disconnected", "")) = Disconnected
  /\ One(ErrorOccurred) = Failed /\ One(Status("info")) = <<>>
BY DEF One, Sig, Status, ErrorOccurred, LinkNames, Connected, Disconnected, Failed

LEMMA Single ==
  ASSUME NEW S, NEW x \in S
  PROVE  <<x>> \in Seq(S) /\ Len(<<x>>) = 1 /\ <<x>>[1] = x
OBVIOUS

LEMMA SentTypes ==
  /\ Sig("connected", "") \in Signals /\ Sig("disconnected", "") \in Signals
  /\ ErrorOccurred \in Signals /\ Status("info") \in Signals
<1>1. "" \in Texts
  BY DEF Texts
<1>2. /\ Sig("connected", "") \in Signals /\ Sig("disconnected", "") \in Signals
      /\ Sig("errorOccurred", "") \in Signals
  BY <1>1, SigType DEF SignalNames
<1> QED
  BY <1>2, StatusType DEF ErrorOccurred, StatusTexts

\* The signals of each way a link begins and ends, and what they tell.
LEMMA LostFacts ==
  /\ Lost \in Seq(Signals)
  /\ \/ Lost = <<>> /\ Len(Lost) = 0 /\ Link!Ending = <<>>
     \/ Len(Lost) = 1 /\ Lost[1] = Sig("disconnected", "") /\ Link!Ending = Disconnected
<1>1. CASE ready
  <2>1. Lost = <<Sig("disconnected", "")>> /\ Link!Ending = Disconnected
    BY <1>1 DEF Lost, Link!Ending, Phase, Disconnected
  <2> QED
    BY <2>1, LinkSignalsType
<1>2. CASE ~ready
  BY <1>2, LinkSignalsType DEF Lost, Link!Ending, Phase
<1> QED
  BY <1>1, <1>2

LEMMA EndingTells ==
  /\ Tells(Lost) = Link!Ending /\ Len(Lost) <= 3
  /\ Tells(Append(Lost, Status("info"))) = Link!Ending /\ Len(Append(Lost, Status("info"))) <= 3
  /\ Tells(Append(Lost, ErrorOccurred)) = Append(Link!Ending, "errorOccurred")
  /\ Len(Append(Lost, ErrorOccurred)) <= 3
<1> DEFINE info == Status("info")
           error == ErrorOccurred
<1>0. /\ error \in Signals /\ info \in Signals /\ One(error) = Failed /\ One(info) = <<>>
      /\ One(Sig("disconnected", "")) = Disconnected
  BY SentTypes, OneFacts
<1> HIDE DEF info, error
<1>1. CASE Lost = <<>> /\ Link!Ending = <<>>
  <2>1. Tells(Lost) = <<>> /\ Len(Lost) = 0
    BY <1>1, EmptyTells
  <2>2. /\ Tells(Append(Lost, info)) = One(info) /\ Tells(Append(Lost, error)) = One(error)
        /\ Len(Append(Lost, info)) = 1 /\ Len(Append(Lost, error)) = 1
    BY <1>0, <1>1, LostFacts, AppendedTells
  <2>3. /\ Tells(Append(Lost, info)) = Link!Ending
        /\ Tells(Append(Lost, error)) = Append(Link!Ending, "errorOccurred")
    BY <1>0, <1>1, <2>2, NamesFacts
  <2> QED
    BY <1>1, <2>1, <2>2, <2>3 DEF info, error
<1>2. CASE Len(Lost) = 1 /\ Lost[1] = Sig("disconnected", "") /\ Link!Ending = Disconnected
  <2>1. Tells(Lost) = One(Lost[1]) /\ Len(Lost) = 1
    BY <1>2, LostFacts, FewTell
  <2>2. /\ Tells(Append(Lost, info)) = One(Lost[1]) \o One(info)
        /\ Tells(Append(Lost, error)) = One(Lost[1]) \o One(error)
        /\ Len(Append(Lost, info)) = 2 /\ Len(Append(Lost, error)) = 2
    BY <1>0, <1>2, LostFacts, AppendedTells
  <2>3. One(Lost[1]) = Disconnected
    BY <1>0, <1>2
  <2>4. Tells(Append(Lost, info)) = Link!Ending
    BY <1>0, <1>2, <2>2, <2>3, NamesFacts, Concat
  <2>5. Tells(Append(Lost, error)) = Append(Link!Ending, "errorOccurred")
    BY <1>0, <1>2, <2>2, <2>3, NamesFacts
  <2>6. Tells(Lost) = Link!Ending
    BY <1>2, <2>1, <2>3
  <2> QED
    BY <2>1, <2>2, <2>4, <2>5, <2>6 DEF info, error
<1> QED
  BY <1>1, <1>2, LostFacts

\* What failConnect emits.
LEMMA FailParts ==
  ASSUME NEW out \in Seq(Signals), NEW lost \in Seq(Signals),
         Len(out) \in {0, 1}, Len(lost) \in {0, 1}, NEW s, s = out \o <<ErrorOccurred>> \o lost
  PROVE  /\ s \in Seq(Signals) /\ Len(s) = Len(out) + 1 + Len(lost)
         /\ Len(out) = 1 => s[1] = out[1]
         /\ s[Len(out) + 1] = ErrorOccurred
         /\ Len(lost) = 1 => s[Len(out) + 2] = lost[1]
<1> DEFINE error == <<ErrorOccurred>>
           head == out \o error
<1>1. error \in Seq(Signals) /\ Len(error) = 1 /\ error[1] = ErrorOccurred
  BY SentTypes, Single
<1>3. s = head \o lost
  OBVIOUS
<1> HIDE DEF error
<1>2. /\ head \in Seq(Signals) /\ Len(head) = Len(out) + 1
      /\ \A i \in 1..(Len(out) + 1) :
            head[i] = IF i <= Len(out) THEN out[i] ELSE error[i - Len(out)]
  <2>1. /\ head \in Seq(Signals) /\ Len(head) = Len(out) + Len(error)
        /\ \A i \in 1 .. Len(out) + Len(error) :
              head[i] = IF i <= Len(out) THEN out[i] ELSE error[i - Len(out)]
    BY <1>1, ConcatProperties
  <2> QED
    BY <1>1, <2>1
<1>4. head[Len(out) + 1] = ErrorOccurred /\ (Len(out) = 1 => head[1] = out[1])
  BY <1>1, <1>2
<1> HIDE DEF head
<1>5. /\ s \in Seq(Signals) /\ Len(s) = Len(head) + Len(lost)
      /\ \A i \in 1..(Len(head) + Len(lost)) :
            s[i] = IF i <= Len(head) THEN head[i] ELSE lost[i - Len(head)]
  BY <1>2, <1>3, ConcatProperties
<1>6. /\ Len(out) = 1 => s[1] = out[1]
      /\ s[Len(out) + 1] = ErrorOccurred
      /\ Len(lost) = 1 => s[Len(out) + 2] = lost[1]
  BY <1>2, <1>4, <1>5
<1> QED
  BY <1>2, <1>5, <1>6

LEMMA FailTold ==
  ASSUME NEW out \in Seq(Signals), NEW lost \in Seq(Signals),
         Len(out) = 0 \/ (Len(out) = 1 /\ One(out[1]) = <<>>), Len(lost) \in {0, 1},
         NEW s, s = out \o <<ErrorOccurred>> \o lost
  PROVE  /\ Len(s) <= 3
         /\ Len(lost) = 0 => Tells(s) = One(ErrorOccurred)
         /\ Len(lost) = 1 => Tells(s) = One(ErrorOccurred) \o One(lost[1])
<1> DEFINE error == ErrorOccurred
           gone == lost[1]
           info == out[1]
<1>1. /\ s \in Seq(Signals) /\ Len(s) = Len(out) + 1 + Len(lost)
      /\ Len(out) = 1 => s[1] = out[1]
      /\ s[Len(out) + 1] = error
      /\ Len(lost) = 1 => s[Len(out) + 2] = lost[1]
  <2>1. Len(out) \in {0, 1} /\ Len(lost) \in {0, 1}
    OBVIOUS
  <2> QED
    BY <2>1, FailParts, ZenonT(60)
<1> HIDE DEF error, gone, info
<1>2. Len(s) <= 3
  BY <1>1
<1>3. One(error) \in Seq(LinkNames) /\ One(gone) \in Seq(LinkNames)
  BY OneType
<1>4. <<>> \o One(error) = One(error) /\ One(error) \o <<>> = One(error)
  BY <1>3, Concat
<1>5. CASE Len(out) = 0 /\ Len(lost) = 0
  <2>1. Len(s) = 1 /\ s[1] = error
    BY <1>1, <1>5
  <2>2. Tells(s) = One(s[1])
    BY <1>1, <2>1, FewTell
  <2>3. Tells(s) = One(error)
    BY <2>1, <2>2
  <2> QED
    BY <1>2, <1>5, <2>3 DEF error
<1>6. CASE Len(out) = 0 /\ Len(lost) = 1
  <2>1. Len(s) = 2 /\ s[1] = error /\ s[2] = gone
    BY <1>1, <1>6 DEF gone
  <2>2. Tells(s) = One(s[1]) \o One(s[2])
    BY <1>1, <2>1, FewTell
  <2>3. Tells(s) = One(error) \o One(gone)
    BY <2>1, <2>2
  <2> QED
    BY <1>2, <1>6, <2>3 DEF error, gone
<1>7. CASE Len(out) = 1 /\ Len(lost) = 0
  <2>1. Len(s) = 2 /\ s[1] = info /\ s[2] = error
    BY <1>1, <1>7 DEF info
  <2>2. Tells(s) = One(s[1]) \o One(s[2])
    BY <1>1, <2>1, FewTell
  <2>3. One(info) = <<>>
    BY <1>7 DEF info
  <2>4. Tells(s) = One(error)
    BY <1>4, <2>1, <2>2, <2>3
  <2> QED
    BY <1>2, <1>7, <2>4 DEF error
<1>8. CASE Len(out) = 1 /\ Len(lost) = 1
  <2>1. Len(s) = 3 /\ s[1] = info /\ s[2] = error /\ s[3] = gone
    BY <1>1, <1>8 DEF info, gone
  <2>2. Tells(s) = (One(s[1]) \o One(s[2])) \o One(s[3])
    BY <1>1, <2>1, FewTell
  <2>3. One(info) = <<>>
    BY <1>8 DEF info
  <2>4. Tells(s) = One(error) \o One(gone)
    BY <1>4, <2>1, <2>2, <2>3
  <2>5. Len(lost) # 0
    BY <1>8
  <2> QED
    BY <1>2, <2>4, <2>5 DEF error, gone
<1> QED
  BY <1>5, <1>6, <1>7, <1>8 DEF error, gone

\* What a connect attempt that fails may have said before: nothing, or a status.
Said(out) == out \in {<<>>, <<Status("info")>>}

LEMMA FailTells ==
  ASSUME NEW out, Said(out)
  PROVE  /\ Tells(out \o <<ErrorOccurred>> \o Lost) = Failed \o Link!Ending
         /\ Len(out \o <<ErrorOccurred>> \o Lost) <= 3
<1> DEFINE s == out \o <<ErrorOccurred>> \o Lost
           info == Status("info")
           error == ErrorOccurred
           gone == Sig("disconnected", "")
<1>1. /\ One(error) = Failed /\ One(info) = <<>> /\ One(gone) = Disconnected
      /\ error \in Signals /\ info \in Signals
  BY OneFacts, SentTypes
<1>2. error = ErrorOccurred
  OBVIOUS
<1>3. s = out \o <<ErrorOccurred>> \o Lost
  OBVIOUS
<1>4. /\ Lost \in Seq(Signals)
      /\ \/ Len(Lost) = 0 /\ Link!Ending = <<>>
         \/ Len(Lost) = 1 /\ Lost[1] = gone /\ Link!Ending = Disconnected
  BY LostFacts
<1>5. out = <<>> \/ out = <<info>>
  BY DEF Said
<1> HIDE DEF info, error, gone, s
<1>6. /\ out \in Seq(Signals)
      /\ Len(out) = 0 \/ (Len(out) = 1 /\ out[1] = info)
  <2>1. CASE out = <<>>
    BY <2>1, EmptySeq
  <2>2. CASE out = <<info>>
    BY <1>1, <2>2, Single
  <2> QED
    BY <1>5, <2>1, <2>2
<1>7. Failed \o <<>> = Failed
  BY NamesFacts, Concat
<1>8. /\ Len(Lost) \in {0, 1}
      /\ Len(Lost) = 1 => One(Lost[1]) = Disconnected
  BY <1>1, <1>4
<1>9. Len(out) = 0 \/ (Len(out) = 1 /\ One(out[1]) = <<>>)
  BY <1>1, <1>6
<1>10. /\ Len(s) <= 3
       /\ Len(Lost) = 0 => Tells(s) = One(error)
       /\ Len(Lost) = 1 => Tells(s) = One(error) \o Disconnected
  <2>1. /\ Len(s) <= 3
        /\ Len(Lost) = 0 => Tells(s) = One(ErrorOccurred)
        /\ Len(Lost) = 1 => Tells(s) = One(ErrorOccurred) \o One(Lost[1])
    BY <1>3, <1>4, <1>6, <1>8, <1>9, FailTold
  <2> QED
    BY <1>2, <1>8, <2>1
<1>11. Tells(s) = Failed \o Link!Ending
  <2>1. CASE Len(Lost) = 0 /\ Link!Ending = <<>>
    BY <1>1, <1>7, <1>10, <2>1
  <2>2. CASE Len(Lost) = 1 /\ Link!Ending = Disconnected
    BY <1>1, <1>10, <2>2
  <2> QED
    BY <1>4, <2>1, <2>2
<1> QED
  BY <1>10, <1>11 DEF s

LEMMA ConnectedTells ==
  /\ Tells(<<Sig("connected", ""), Status("info")>>) = Connected
  /\ Len(<<Sig("connected", ""), Status("info")>>) <= 3
<1> DEFINE on == Sig("connected", "")
           info == Status("info")
           s == <<on, info>>
<1>1. on \in Signals /\ info \in Signals /\ One(on) = Connected /\ One(info) = <<>>
  BY SentTypes, OneFacts
<1> HIDE DEF on, info
<1>2. s \in Seq(Signals) /\ Len(s) = 2 /\ s[1] = on /\ s[2] = info
  BY <1>1
<1> HIDE DEF s
<1>3. Tells(s) = One(s[1]) \o One(s[2])
  BY <1>2, FewTell
<1>4. Tells(s) = Connected
  BY <1>1, <1>2, <1>3, NamesFacts, Concat
<1>5. Len(s) <= 3
  BY <1>2
<1> QED
  BY <1>4, <1>5 DEF s, on, info

\* A slot handles the first signal.
LEMMA TailTells ==
  ASSUME NEW s \in Seq(Signals), s # <<>>, Len(s) <= 3
  PROVE  /\ Tells(s) = Told(s, 1) \o Tells(Tail(s)) /\ Len(Tail(s)) <= 3
         /\ Told(s, 1) \in {<<>>} \cup {<<x>> : x \in LinkNames}
         /\ Tells(Tail(s)) \in Seq(LinkNames)
<1>1. /\ Tail(s) \in Seq(Signals) /\ Len(Tail(s)) = Len(s) - 1 /\ Len(s) \in Nat \ {0}
      /\ \A i \in 1..Len(Tail(s)) : Tail(s)[i] = s[i + 1]
  OBVIOUS
<1>2. Told(Tail(s), 1) = Told(s, 2)
  BY <1>1 DEF Told
<1>3. Told(Tail(s), 2) = Told(s, 3)
  BY <1>1 DEF Told
<1>4. Told(Tail(s), 3) = <<>>
  BY <1>1 DEF Told
<1>5. \A i \in {1, 2, 3} : Told(s, i) \in Seq(LinkNames)
  BY SeqFacts DEF Told
<1>6. Tells(Tail(s)) = (Told(s, 2) \o Told(s, 3)) \o <<>>
  BY <1>2, <1>3, <1>4 DEF Tells
<1>7. /\ (Told(s, 2) \o Told(s, 3)) \o <<>> = Told(s, 2) \o Told(s, 3)
      /\ Told(s, 2) \o Told(s, 3) \in Seq(LinkNames)
      /\ Told(s, 1) \o (Told(s, 2) \o Told(s, 3)) = (Told(s, 1) \o Told(s, 2)) \o Told(s, 3)
  BY <1>5, Concat, SMTT(40)
<1>8. Told(s, 1) \in {<<>>} \cup {<<x>> : x \in LinkNames}
  BY DEF Told
<1>9. Tells(s) = Told(s, 1) \o Tells(Tail(s)) /\ Tells(Tail(s)) \in Seq(LinkNames)
  BY <1>6, <1>7 DEF Tells
<1>10. Len(Tail(s)) <= 3
  BY <1>1
<1> QED
  BY <1>8, <1>9, <1>10

LEMMA DeliverHandles ==
  ASSUME TypeOK, Len(signals) <= 3, Deliver
  PROVE  (Link!Handle \/ UNCHANGED Link!vars) /\ Len(signals') <= 3
<1>1. /\ Tells(signals) = Told(signals, 1) \o Tells(signals') /\ Len(signals') <= 3
      /\ Told(signals, 1) \in {<<>>} \cup {<<x>> : x \in LinkNames}
      /\ Tells(signals') \in Seq(LinkNames)
  BY TailTells DEF Deliver, TypeOK
<1>2. Phase' = Phase
  BY DEF Deliver, Phase, sessionVars
<1>3. CASE Told(signals, 1) = <<>>
  <2>1. Tells(signals) = Tells(signals')
    BY <1>1, <1>3, Concat
  <2> QED
    BY <1>1, <1>2, <2>1, LinkTells DEF Link!vars
<1>4. ASSUME NEW x \in LinkNames, Told(signals, 1) = <<x>>
      PROVE  Link!Handle
  <2>0. Tells(signals) = <<x>> \o Tells(signals')
    BY <1>1, <1>4
  <2>1. Tells(signals) # <<>> /\ Tail(Tells(signals)) = Tells(signals')
    BY <1>1, <2>0, Concat
  <2> QED
    BY <1>2, <2>1, LinkTells DEF Link!Handle
<1> QED
  BY <1>1, <1>3, <1>4

-----------------------------------------------------------------------------
(* Each step is a step of ElmLink.                                         *)

\* A link without Bluetooth to a dongle that sends nothing unasked.
Prompted == Chatty = {} /\ "bt" \notin Ports

\* While the link opens each answer is that of the command in flight, so the initialisation is
\* counted once; once ready nothing is left of it, so that no later answer, late or not, can
\* make the driver ready again.
Straight ==
  /\ bt = "none" /\ ~btTransport /\ banner = 0 /\ later["settle"].fresh = 0
  /\ later["retry"].fresh = 0 /\ later["retry"].stale = 0
  /\ opening => /\ initStep + Len(queue) + (IF busy THEN 1 ELSE 0) = 6
                /\ busy => current.kind = "Init"
                /\ wire # <<>> => busy /\ wire = <<current>>
  /\ ready => /\ \A i \in 1..Len(queue) : queue[i].kind # "Init"
              /\ busy \/ wire # <<>> => current.kind # "Init"

\* No Bluetooth socket and no lambda of one.
Wired ==
  /\ bt = "none" /\ ~btTransport /\ banner = 0 /\ later["settle"].fresh = 0
  /\ later["retry"].fresh = 0 /\ later["retry"].stale = 0

LEMMA StraightWired == Straight => Wired
BY DEF Straight, Wired

LEMMA EpochFacts ==
  ASSUME NEW l \in LambdaCounts, l["retry"].fresh = 0, l["retry"].stale = 0
  PROVE  /\ \A k \in {NextEpoch(l), Arm(NextEpoch(l), "start")} :
              k["retry"].fresh = 0 /\ k["retry"].stale = 0 /\ k["settle"].fresh = 0
BY DEF NextEpoch, Arm, LambdaCounts, LambdaKinds

\* sendNext once ready, and while the link opens.
LEMMA SentReady ==
  ASSUME NEW q \in Seq(Cmds), \A i \in 1..Len(q) : q[i].kind # "Init",
         NEW b, NEW can, NEW t, NEW w, b \/ w # <<>> => current.kind # "Init",
         NEW out \in Seq(Signals), SendNext(q, b, can, t, w, out)
  PROVE  /\ \A i \in 1..Len(queue') : queue'[i].kind # "Init"
         /\ busy' \/ wire' # <<>> => current'.kind # "Init"
         /\ signals' = out \/ signals' = Append(out, Status("info"))
<1>1. CASE can \/ b \/ q = <<>>
  BY <1>1 DEF SendNext
<1>2. CASE ~can /\ ~b /\ q # <<>>
  <2>1. /\ Head(q) = q[1] /\ 1 \in 1..Len(q)
        /\ \A i \in 1..Len(Tail(q)) : Tail(q)[i] = q[i + 1] /\ i + 1 \in 1..Len(q)
    BY <1>2
  <2>2. /\ current' = Head(q) /\ queue' = Tail(q)
        /\ signals' = out \/ signals' = Append(out, Status("info"))
    BY <1>2 DEF SendNext
  <2> QED
    BY <2>1, <2>2
<1> QED
  BY <1>1, <1>2

LEMMA SentOpening ==
  ASSUME NEW q \in Seq(Cmds), \A i \in 1..Len(q) : q[i].kind = "Init",
         NEW b \in BOOLEAN, b => current.kind = "Init", NEW t,
         NEW w, w # <<>> => b /\ w = <<current>>, NEW out,
         SendNext(q, b, FALSE, t, w, out)
  PROVE  /\ Len(queue') + (IF busy' THEN 1 ELSE 0) = Len(q) + (IF b THEN 1 ELSE 0)
         /\ busy' => current'.kind = "Init"
         /\ wire' # <<>> => busy' /\ wire' = <<current'>>
         /\ signals' = out /\ queue' \in Seq(Cmds)
<1>1. CASE b \/ q = <<>>
  BY <1>1 DEF SendNext
<1>2. CASE ~b /\ q # <<>>
  <2>1. /\ Head(q) = q[1] /\ 1 \in 1..Len(q) /\ Len(Tail(q)) = Len(q) - 1
        /\ Tail(q) \in Seq(Cmds)
    BY <1>2
  <2>2. Head(q).kind = "Init"
    BY <2>1
  <2>3. /\ current' = Head(q) /\ queue' = Tail(q) /\ busy' = TRUE /\ signals' = out
        /\ wire' = Written(w, Head(q))
    BY <1>2, <2>2 DEF SendNext
  <2>4. w = <<>> => Written(w, Head(q)) \in {<<>>, <<Head(q)>>}
    BY ElmAssumption DEF Written
  <2>5. Len(queue') + (IF busy' THEN 1 ELSE 0) = Len(q) + (IF b THEN 1 ELSE 0)
    BY <1>2, <2>1, <2>3
  <2>6. wire' # <<>> => wire' = <<current'>>
    BY <1>2, <2>3, <2>4
  <2> QED
    BY <2>1, <2>2, <2>3, <2>5, <2>6
<1> QED
  BY <1>1, <1>2

LEMMA DownStraight ==
  ASSUME TypeOK, Straight, Down(later) PROVE Straight'
<1>1. /\ later'["retry"].fresh = 0 /\ later'["retry"].stale = 0
      /\ later'["settle"].fresh = 0
  BY EpochFacts DEF Down, Straight, TypeOK
<1> QED
  BY <1>1 DEF Down, LinkDown, Straight

LEMMA BeginStraight ==
  ASSUME TypeOK, Straight, BeginInit(later), bt' = "none", btTransport' = FALSE, banner' = 0,
         wire' = <<>>
  PROVE  Straight'
<1>1. /\ later'["retry"].fresh = 0 /\ later'["retry"].stale = 0
      /\ later'["settle"].fresh = 0
  BY EpochFacts DEF BeginInit, Straight, TypeOK
<1>2. initStep' = 0 /\ Len(queue') = 6 /\ busy' = FALSE /\ ready' = FALSE
  BY DEF BeginInit, InitQueue
<1> QED
  BY <1>1, <1>2 DEF Straight

LEMMA KeptStraight ==
  ASSUME Straight, UNCHANGED <<bt, btTransport, banner, opening, initStep, queue, busy, current,
                               ready, wire>>,
         later'["retry"].fresh = 0, later'["retry"].stale = 0, later'["settle"].fresh = 0
  PROVE  Straight'
BY DEF Straight

\* A ready driver that sends, or does not.
LEMMA ReadyStraight ==
  ASSUME TypeOK, Phased, Straight, ready,
         UNCHANGED <<bt, btTransport, banner, ready, opening, later>>,
         \A i \in 1..Len(queue') : queue'[i].kind # "Init",
         busy' \/ wire' # <<>> => current'.kind # "Init"
  PROVE  Straight'
BY ReadyFacts DEF Straight

\* What sendNext emits after few signals that say nothing of the link says nothing of it.
LEMMA SentSilent ==
  ASSUME NEW out, Silent(out), Len(out) <= 2,
         signals' = out \/ signals' = Append(out, Status("info"))
  PROVE  Silent(signals')
<1> DEFINE info == Status("info")
<1>1. info \in Signals /\ info.name \notin LinkNames
  BY SentTypes DEF Status, Sig, LinkNames
<1> HIDE DEF info
<1>2. /\ Append(out, info) \in Seq(Signals) /\ Len(Append(out, info)) = Len(out) + 1
      /\ \A i \in 1..Len(out) : Append(out, info)[i] = out[i]
      /\ Append(out, info)[Len(out) + 1] = info
  BY <1>1, AppendProperties DEF Silent
<1>3. Len(out) \in Nat
  BY DEF Silent
<1>4. Silent(Append(out, info))
  BY <1>1, <1>2, <1>3 DEF Silent
<1> QED
  BY <1>4 DEF info

\* A step of the driver is a step of ElmLink or says nothing new of the link.
Refined == (Link!Next \/ UNCHANGED Link!vars) /\ Len(signals') <= 3

LEMMA QuietTold == ASSUME Quiet PROVE LinkTold = <<>>
BY LinkTells, EmptyTells DEF Quiet

LEMMA SilentRefines ==
  ASSUME Quiet, UNCHANGED <<ready, opening>>, Silent(signals')
  PROVE  Refined
<1>1. LinkTold = <<>> /\ LinkTold' = <<>> /\ Len(signals') <= 3
  BY QuietTold, LinkTells, SilentTells
<1> QED
  BY <1>1 DEF Refined, Link!vars, Phase

LEMMA OpensRefines ==
  ASSUME Quiet, ready' = FALSE, opening' = TRUE,
         signals' = Lost \/ signals' = Append(Lost, Status("info"))
  PROVE  Refined
<1>1. LinkTold = <<>> /\ LinkTold' = Link!Ending /\ Len(signals') <= 3
  BY QuietTold, LinkTells, EndingTells
<1>2. Phase' = "opening"
  BY DEF Phase
<1> QED
  BY <1>1, <1>2 DEF Refined, Link!Next, Link!Connect

LEMMA RefusedRefines ==
  ASSUME Quiet, Down(later), signals' = Append(Lost, ErrorOccurred)
  PROVE  Refined
<1>1. /\ LinkTold = <<>> /\ LinkTold' = Append(Link!Ending, "errorOccurred")
      /\ Len(signals') <= 3
  BY QuietTold, LinkTells, EndingTells
<1>2. Phase' = "idle"
  BY DEF Phase, Down, LinkDown
<1> QED
  BY <1>1, <1>2 DEF Refined, Link!Next, Link!Connect

LEMMA ConnectingRefines == ASSUME "bt" \notin Ports, Connecting PROVE Refined
<1>0. Quiet
  BY DEF Connecting
<1>1. ASSUME NEW p, NEW auto, ConnectPort(p, auto) PROVE Refined
  BY <1>0, <1>1, OpensRefines, RefusedRefines DEF ConnectPort, LinkDown
<1>2. CASE AttachDevice
  BY <1>0, <1>2, OpensRefines, RefusedRefines DEF AttachDevice, LinkDown
<1> QED
  BY <1>1, <1>2 DEF Connecting

LEMMA DisconnectRefines == ASSUME Quiet, DisconnectPort(<<>>) PROVE Refined
<1>1. Lost \o <<>> = Lost
  BY LostFacts, Concat
<1>2. LinkTold = <<>> /\ LinkTold' = Link!Ending /\ Len(signals') <= 3
  BY <1>1, QuietTold, LinkTells, EndingTells DEF DisconnectPort
<1>3. Phase' = "idle"
  BY DEF Phase, DisconnectPort, Down, LinkDown
<1> QED
  BY <1>2, <1>3 DEF Refined, Link!Next, Link!Disconnect

LEMMA FailRefines ==
  ASSUME TypeOK, Quiet, ready \/ opening, NEW out, Said(out), FailConnect(later, out)
  PROVE  Refined
<1>1. LinkTold = <<>> /\ LinkTold' = Failed \o Link!Ending /\ Len(signals') <= 3
  BY QuietTold, LinkTells, FailTells DEF FailConnect
<1>2. Phase' = "idle" /\ Phase \in {"opening", "ready"}
  BY DEF Phase, FailConnect, Down, LinkDown
<1>3. Link!Fail
  BY <1>1, <1>2 DEF Link!Fail, Failed
<1> QED
  BY <1>1, <1>3 DEF Refined, Link!Next

LEMMA EstablishRefines ==
  ASSUME Quiet, opening, ~ready, ready' = TRUE,
         signals' = <<Sig("connected", ""), Status("info")>>
  PROVE  Refined
<1>1. LinkTold = <<>> /\ LinkTold' = Connected /\ Len(signals') <= 3
  BY QuietTold, LinkTells, ConnectedTells
<1>2. Phase = "opening" /\ Phase' = "ready"
  BY DEF Phase
<1>3. Link!Establish
  BY <1>1, <1>2 DEF Link!Establish, Connected
<1> QED
  BY <1>1, <1>3 DEF Refined, Link!Next

\* What the pipeline emits is not about the link.
LEMMA OneSilent ==
  ASSUME NEW sig \in Signals, sig.name \notin LinkNames PROVE Silent(<<sig>>)
<1>1. <<sig>> \in Seq(Signals) /\ Len(<<sig>>) = 1 /\ <<sig>>[1] = sig
  BY Single
<1> QED
  BY <1>1 DEF Silent

LEMMA SubmitStraight ==
  ASSUME TypeOK, Phased, Straight, Quiet, NEW cmds \in Seq(Cmds),
         \A i \in 1..Len(cmds) : cmds[i].kind # "Init",
         NEW out, Silent(out), Len(out) <= 2, Submit(cmds, out)
  PROVE  Straight' /\ Refined
<1> DEFINE q == queue \o cmds
<1>1. /\ SendNext(q, busy, canMode, timeoutOn, wire, out) /\ ready
      /\ UNCHANGED <<bt, btTransport, banner, ready, opening, later>>
  BY DEF Submit, linkVars, deviceVars, sessionVars
<1>2. q \in Seq(Cmds) /\ out \in Seq(Signals)
  BY DEF TypeOK, PipeOK, Silent
<1>3. \A i \in 1..Len(q) : q[i].kind # "Init"
  <2>1. \A i \in 1..Len(queue) : queue[i].kind # "Init"
    BY <1>1 DEF Straight
  <2>2. queue \in Seq(Cmds)
    BY DEF TypeOK, PipeOK
  <2> QED
    BY <2>1, <2>2
<1>4. busy \/ wire # <<>> => current.kind # "Init"
  BY <1>1 DEF Straight
<1> HIDE DEF q
<1>5. /\ \A i \in 1..Len(queue') : queue'[i].kind # "Init"
      /\ busy' \/ wire' # <<>> => current'.kind # "Init"
      /\ signals' = out \/ signals' = Append(out, Status("info"))
  BY <1>1, <1>2, <1>3, <1>4, SentReady
<1>6. Straight'
  BY <1>1, <1>5, ReadyStraight
<1> QED
  BY <1>1, <1>5, <1>6, SentSilent, SilentRefines

LEMMA CallingStraight ==
  ASSUME TypeOK, Phased, Straight, Calling PROVE Straight' /\ Refined
<1>0. Quiet
  BY DEF Calling, Querying
<1>1. ASSUME NEW cmds \in Seq(Asked), NEW out \in {<<>>, <<Status("info")>> \o <<>>},
             Submit(cmds, out)
      PROVE  Straight' /\ Refined
  <2>1. "info" \in StatusTexts
    BY DEF StatusTexts
  <2>2. <<Status("info")>> \o <<>> = <<Status("info")>> /\ Len(<<Status("info")>>) <= 2
    BY <2>1, StatusType, Concat, Single
  <2>3. Silent(out) /\ Len(out) <= 2
    BY <2>1, <2>2, StatusSilent, EmptyTells
  <2>4. cmds \in Seq(Cmds) /\ \A i \in 1..Len(cmds) : cmds[i].kind # "Init"
    BY DEF Asked
  <2> QED
    BY <1>0, <1>1, <2>3, <2>4, SubmitStraight
<1>2. CASE UNCHANGED <<linkVars, sessionVars, pipeVars, later>> /\ signals' = <<>>
  <2>1. Straight'
    BY <1>2, KeptStraight DEF linkVars, deviceVars, sessionVars, pipeVars, Straight
  <2> QED
    BY <1>0, <1>2, <2>1, EmptyTells, SilentRefines DEF sessionVars
<1> QED
  BY <1>1, <1>2, CallingSubmits

LEMMA PollStraight ==
  ASSUME TypeOK, Phased, Straight, OnPollTick PROVE Straight' /\ Refined
<1>1. PICK pid \in Pids : Submit(<<Cmd("Pid", pid)>>, <<>>)
  BY PollSubmits
<1>2. <<Cmd("Pid", pid)>> \in Seq(Asked)
  BY AskedFacts
<1>3. Len(<<>>) <= 2
  OBVIOUS
<1>4. \A cmds \in Seq(Asked) :
        cmds \in Seq(Cmds) /\ \A i \in 1..Len(cmds) : cmds[i].kind # "Init"
  BY DEF Asked
<1> QED
  BY <1>1, <1>2, <1>3, <1>4, EmptyTells, SubmitStraight DEF OnPollTick

\* The CAN monitor: the driver is ready before, after and meanwhile.
LEMMA MonitoringStraight ==
  ASSUME TypeOK, Phased, Straight, Monitoring PROVE Straight' /\ Refined
<1>0. Quiet /\ Len(<<>>) <= 2
  BY DEF Monitoring
<1>1. CASE StartCanMonitor(<<>>)
  <2> DEFINE cmds == <<Cmd("Raw", "ATH1"), Cmd("CanStart", "ATMA")>>
  <2>1. cmds \in Seq(Cmds) /\ \A i \in 1..Len(cmds) : cmds[i].kind # "Init"
    BY MonitorFacts DEF Cmd
  <2>2. Submit(cmds, <<>>)
    BY <1>1 DEF StartCanMonitor
  <2> HIDE DEF cmds
  <2> QED
    BY <1>0, <2>1, <2>2, EmptyTells, SubmitStraight
<1>2. CASE StopCanMonitor(<<>>)
  <2> DEFINE q == Append(queue, Cmd("Raw", "ATH0"))
  <2>1. /\ SendNext(q, FALSE, FALSE, timeoutOn, wire, <<>>) /\ ready
        /\ UNCHANGED <<bt, btTransport, banner, ready, opening, later>>
    BY <1>2 DEF StopCanMonitor, linkVars, deviceVars, sessionVars, Phased, PhasesAgree
  <2>2. q \in Seq(Cmds) /\ \A i \in 1..Len(q) : q[i].kind # "Init"
    <3>1. /\ \A i \in 1..Len(queue) : queue[i].kind # "Init"
          /\ queue \in Seq(Cmds) /\ Cmd("Raw", "ATH0") \in Cmds
          /\ Cmd("Raw", "ATH0").kind # "Init"
      BY <2>1, MonitorFacts DEF Straight, TypeOK, PipeOK, Cmd
    <3> QED
      BY <3>1
  <2>3. FALSE \/ wire # <<>> => current.kind # "Init"
    BY <2>1 DEF Straight
  <2>4. <<>> \in Seq(Signals)
    BY EmptySeq
  <2> HIDE DEF q
  <2>5. /\ \A i \in 1..Len(queue') : queue'[i].kind # "Init"
        /\ busy' \/ wire' # <<>> => current'.kind # "Init"
        /\ signals' = <<>> \/ signals' = Append(<<>>, Status("info"))
    BY <2>1, <2>2, <2>3, <2>4, SentReady
  <2>6. Straight'
    BY <2>1, <2>5, ReadyStraight
  <2> QED
    BY <1>0, <2>1, <2>5, <2>6, EmptyTells, SentSilent, SilentRefines
<1> QED
  BY <1>1, <1>2 DEF Monitoring

LEMMA OnCanDataStraight ==
  ASSUME TypeOK, Phased, Straight, OnCanData PROVE Straight' /\ Refined
<1>1. /\ ready /\ Quiet /\ UNCHANGED <<bt, btTransport, banner, ready, opening, later>>
      /\ UNCHANGED <<queue, busy, current>>
  BY DEF OnCanData, linkVars, deviceVars, sessionVars, Phased, PhasesAgree
<1>2. wire' # <<>> => wire # <<>>
  <2>1. CASE Len(wire) > 1
    BY <2>1
  <2> QED
    BY <2>1 DEF OnCanData
<1>3. Straight'
  BY <1>1, <1>2, ReadyStraight DEF Straight
<1>4. Silent(signals')
  <2>1. signals' = <<>> \/ signals' = <<Sig("canFrame", "")>>
    BY <1>1 DEF OnCanData, Quiet
  <2>2. "" \in Texts /\ "canFrame" \in SignalNames
    BY DEF Texts, SignalNames
  <2>3. Sig("canFrame", "") \in Signals
    BY <2>2, SigType
  <2>4. Sig("canFrame", "").name \notin LinkNames
    BY DEF Sig, LinkNames
  <2> QED
    BY <2>1, <2>3, <2>4, OneSilent, EmptyTells
<1> QED
  BY <1>1, <1>3, <1>4, SilentRefines

LEMMA EmittedSilent ==
  ASSUME TypeOK, NEW r \in Answers, current.kind \notin {"Init", "PidSupport", "CanStart"}
  PROVE  Silent(<<Emitted(r)>>)
<1>1. Emitted(r) \in Signals
  BY EmittedType DEF TypeOK, PipeOK
<1>2. Emitted(r).name \notin LinkNames
  BY DEF Emitted, Sig, Status, LinkNames, TypeOK, PipeOK, Cmds, Kinds
<1> QED
  BY <1>1, <1>2, OneSilent

LEMMA TwoSilent ==
  ASSUME NEW x \in Signals, NEW y \in Signals, x.name \notin LinkNames, y.name \notin LinkNames
  PROVE  Silent(<<x, y>>) /\ Len(<<x, y>>) <= 2
<1> DEFINE s == <<x, y>>
<1>1. s \in Seq(Signals) /\ Len(s) = 2 /\ s[1] = x /\ s[2] = y
  OBVIOUS
<1> HIDE DEF s
<1>2. Silent(s) /\ Len(s) <= 2
  BY <1>1 DEF Silent
<1> QED
  BY <1>2 DEF s

LEMMA CountedSilent ==
  /\ Silent(<<Sig("supportedPidsReady", ""), Status("info")>>)
  /\ Len(<<Sig("supportedPidsReady", ""), Status("info")>>) <= 2
<1>1. "" \in Texts /\ "supportedPidsReady" \in SignalNames
  BY DEF Texts, SignalNames
<1>2. Sig("supportedPidsReady", "") \in Signals /\ Status("info") \in Signals
  BY <1>1, SigType, SentTypes
<1>3. Sig("supportedPidsReady", "").name \notin LinkNames /\ Status("info").name \notin LinkNames
  BY DEF Sig, Status, LinkNames
<1> QED
  BY <1>2, <1>3, TwoSilent

\* An answer while the link opens: the last one makes the driver ready.
LEMMA OpeningAnswer ==
  ASSUME TypeOK, Phased, Straight, opening, OnAnswer PROVE Straight' /\ Refined
<1>1. PICK r : HandlePrompt(r, Tail(wire))
  BY DEF OnAnswer
<1>2. busy /\ wire = <<current>> /\ Tail(wire) = <<>> /\ Quiet
  <2>1. busy /\ wire = <<current>> /\ Quiet
    BY DEF OnAnswer, Straight
  <2>2. Tail(<<current>>) = <<>>
    BY SeqFacts DEF TypeOK, PipeOK
  <2> QED
    BY <2>1, <2>2
<1>3. /\ queue \in Seq(Cmds) /\ ~ready
      /\ UNCHANGED <<bt, btTransport, banner, later>>
  <2>1. ~ready
    BY ReadyFacts
  <2> QED
    BY <1>1, <2>1 DEF OnAnswer, HandlePrompt, deviceVars, TypeOK, PipeOK
<1>4. /\ current.kind = "Init" /\ initStep + Len(queue) + 1 = 6 /\ initStep \in 0..6
      /\ \A i \in 1..Len(queue) : queue[i].kind = "Init"
  BY <1>2, <1>3 DEF Straight, Phased, Initialising, TypeOK, SessionOK
<1>5. ProcessInitStep(<<>>)
  BY <1>1, <1>2, <1>4 DEF HandlePrompt, CountBlock, HandleOther
<1>6. CASE initStep < 5
  <2>1. /\ UNCHANGED <<ready, opening>> /\ SendNext(queue, FALSE, FALSE, FALSE, <<>>, <<>>)
        /\ initStep' = initStep + 1
    <3>1. initStep < 6 /\ ~(initStep >= 5)
      BY <1>4, <1>6
    <3> QED
      BY <1>5, <3>1 DEF ProcessInitStep
  <2>2. /\ Len(queue') + (IF busy' THEN 1 ELSE 0) = Len(queue) + (IF FALSE THEN 1 ELSE 0)
        /\ busy' => current'.kind = "Init"
        /\ wire' # <<>> => busy' /\ wire' = <<current'>>
        /\ signals' = <<>> /\ queue' \in Seq(Cmds)
    BY <1>3, <1>4, <2>1, SentOpening
  <2>3. Len(queue') + (IF busy' THEN 1 ELSE 0) = Len(queue)
    BY <1>3, <2>2
  <2>4. initStep' + Len(queue') + (IF busy' THEN 1 ELSE 0) = 6
    BY <1>3, <1>4, <2>1, <2>2, <2>3
  <2>5. Straight'
    BY <1>3, <2>1, <2>2, <2>4 DEF Straight
  <2> QED
    BY <1>2, <2>1, <2>2, <2>5, EmptyTells, SilentRefines
<1>7. CASE initStep >= 5
  <2>1. queue = <<>>
    BY <1>3, <1>4, <1>7
  <2>2. /\ ready' = TRUE /\ opening' = FALSE
        /\ SendNext(queue, FALSE, FALSE, FALSE, <<>>, <<Sig("connected", ""), Status("info")>>)
    <3>1. ~(initStep < 5)
      BY <1>4, <1>7
    <3> QED
      BY <1>5, <3>1 DEF ProcessInitStep
  <2>3. /\ queue' = <<>> /\ busy' = FALSE /\ wire' = <<>>
        /\ signals' = <<Sig("connected", ""), Status("info")>>
    BY <2>1, <2>2 DEF SendNext
  <2>4. \A i \in 1..Len(queue') : queue'[i].kind # "Init"
    <3>1. queue' = <<>>
      BY <2>3
    <3> QED
      BY <3>1
  <2>5. ~busy' /\ ~opening' /\ wire' = <<>>
    BY <2>2, <2>3
  <2>6. Wired'
    BY <1>3, StraightWired DEF Wired
  <2>7. Straight'
    BY <2>4, <2>5, <2>6 DEF Straight, Wired
  <2> QED
    BY <1>2, <1>3, <2>2, <2>3, <2>7, EstablishRefines
<1>8. initStep < 5 \/ initStep >= 5
  BY <1>4
<1> QED
  BY <1>6, <1>7, <1>8

\* An answer once ready, in time or late.
LEMMA ReadyAnswer ==
  ASSUME TypeOK, Phased, Straight, ready, OnAnswer PROVE Straight' /\ Refined
<1>1. PICK r \in Answers : HandlePrompt(r, Tail(wire))
  <2>1. PICK ok \in BOOLEAN :
          HandlePrompt([to |-> Head(wire), ok |-> ok /\ Head(wire).kind # "CanStart"], Tail(wire))
    BY DEF OnAnswer
  <2>2. Head(wire) \in Cmds
    BY DEF OnAnswer, TypeOK, PipeOK
  <2>3. [to |-> Head(wire), ok |-> ok /\ Head(wire).kind # "CanStart"] \in Answers
    BY <2>2 DEF Answers
  <2> QED
    BY <2>1, <2>3
<1>2. /\ queue \in Seq(Cmds) /\ Quiet /\ current.kind # "Init"
      /\ \A i \in 1..Len(queue) : queue[i].kind # "Init"
      /\ UNCHANGED <<bt, btTransport, banner, later>>
  BY <1>1 DEF OnAnswer, HandlePrompt, deviceVars, TypeOK, PipeOK, Straight
<1>3. CountBlock(r, Tail(wire)) \/ HandleOther(r, Tail(wire))
  BY <1>1, <1>2 DEF HandlePrompt
<1>4. UNCHANGED <<ready, opening>>
  BY <1>3 DEF CountBlock, HandleOther, sessionVars
<1>5. ASSUME NEW out, Silent(out), Len(out) <= 2,
             SendNext(queue, FALSE, FALSE, FALSE, Tail(wire), out)
      PROVE  Straight' /\ Refined
  <2>1. out \in Seq(Signals)
    BY <1>5 DEF Silent
  <2>2. /\ \A i \in 1..Len(queue') : queue'[i].kind # "Init"
        /\ busy' \/ wire' # <<>> => current'.kind # "Init"
        /\ signals' = out \/ signals' = Append(out, Status("info"))
    BY <1>2, <1>5, <2>1, SentReady
  <2>3. Straight'
    BY <1>2, <1>4, <2>2, ReadyStraight
  <2> QED
    BY <1>2, <1>4, <1>5, <2>2, <2>3, SentSilent, SilentRefines
<1>6. Len(<<>>) <= 2
  OBVIOUS
<1>7. CASE CountBlock(r, Tail(wire))
  <2>1. \E out \in {<<>>, <<Sig("supportedPidsReady", ""), Status("info")>>} :
          SendNext(queue, FALSE, FALSE, FALSE, Tail(wire), out)
    BY <1>7 DEF CountBlock
  <2>2. /\ Silent(<<Sig("supportedPidsReady", ""), Status("info")>>)
        /\ Len(<<Sig("supportedPidsReady", ""), Status("info")>>) <= 2
    BY CountedSilent
  <2> QED
    BY <1>5, <1>6, <2>1, <2>2, EmptyTells
<1>8. CASE HandleOther(r, Tail(wire))
  <2>1. CASE current.kind = "CanStart"
    BY <1>5, <1>6, <1>8, <2>1, EmptyTells DEF HandleOther
  <2>2. CASE current.kind # "CanStart"
    <3>1. Silent(<<Emitted(r)>>) /\ Len(<<Emitted(r)>>) <= 2
      BY <1>8, <2>2, EmittedSilent DEF HandleOther
    <3>2. SendNext(queue, FALSE, FALSE, FALSE, Tail(wire), <<Emitted(r)>>)
      BY <1>8, <2>2 DEF HandleOther
    <3> QED
      BY <1>5, <3>1, <3>2
  <2> QED
    BY <2>1, <2>2
<1> QED
  BY <1>3, <1>7, <1>8

LEMMA OnAnswerStraight ==
  ASSUME TypeOK, Phased, Straight, OnAnswer PROVE Straight' /\ Refined
<1>1. ready \/ opening
  BY DEF OnAnswer, IoOpen, Phased, PhasesAgree, Straight
<1> QED
  BY <1>1, OpeningAnswer, ReadyAnswer

LEMMA ConnectingStraight ==
  ASSUME Prompted, TypeOK, Straight, Connecting PROVE Straight' /\ Refined
<1>1. Banner("serial") = 0 /\ Banner("device") = 0
  BY DEF Banner, Prompted
<1>2. ASSUME NEW p, NEW auto, ConnectPort(p, auto) PROVE Straight'
  <2>1. CASE Down(later)
    BY <2>1, DownStraight
  <2>2. CASE SerialOpens /\ btTransport' = FALSE
    BY <1>1, <2>2, BeginStraight DEF SerialOpens
  <2> QED
    BY <1>2, <2>1, <2>2 DEF ConnectPort
<1>3. ASSUME AttachDevice PROVE Straight'
  <2>1. CASE Down(later)
    BY <2>1, DownStraight
  <2>2. CASE /\ BeginInit(later) /\ btTransport' = FALSE /\ bt' = "none" /\ banner' = 0
             /\ wire' = <<>>
    BY <2>2, BeginStraight
  <2> QED
    BY <1>1, <1>3, <2>1, <2>2 DEF AttachDevice, LinkDown
<1> QED
  BY <1>2, <1>3, ConnectingRefines DEF Connecting, Prompted

LEMMA OnTimeoutStraight ==
  ASSUME Prompted, TypeOK, Phased, Straight, OnTimeout PROVE Straight' /\ Refined
<1>0. Quiet /\ (ready \/ opening)
  BY DEF OnTimeout, Phased, PhasesAgree
<1>1. ASSUME NEW out \in {<<>>, <<Status("info")>>}, FailConnect(later, out)
      PROVE  Straight' /\ Refined
  BY <1>0, <1>1, DownStraight, FailRefines DEF Said, FailConnect
<1>2. CASE TimeoutHighBaud
  <2>1. CASE /\ SerialOpens /\ UNCHANGED <<opening, btTransport>>
             /\ signals' = <<Status("info"), Status("info")>>
    <3>1. ready = FALSE /\ ready' = FALSE
      BY <1>2, <2>1
         DEF TimeoutHighBaud, HighBaudLeft, SilentAtz, SerialOpens, BeginInit, TypeOK, SessionOK
    <3>2. Status("info") \in Signals /\ Status("info").name \notin LinkNames
      BY SentTypes DEF Status, Sig, LinkNames
    <3>3. Silent(signals')
      BY <2>1, <3>2, TwoSilent
    <3>4. btTransport' = FALSE /\ Banner("serial") = 0
      BY <2>1 DEF Straight, TypeOK, FlagsOK, Banner, Prompted
    <3>5. Straight'
      BY <2>1, <3>4, BeginStraight DEF SerialOpens
    <3> QED
      BY <1>0, <2>1, <3>1, <3>3, <3>5, SilentRefines
  <2>2. CASE FailConnect(later, <<Status("info")>>)
    BY <1>1, <2>2
  <2> QED
    BY <1>2, <2>1, <2>2 DEF TimeoutHighBaud
<1>3. ~TimeoutAtz
  BY DEF TimeoutAtz, AtzLeft, Straight
<1>4. CASE TimeoutSkips
  <2>1. /\ ready /\ UNCHANGED <<bt, btTransport, banner, ready, opening, later>>
        /\ queue \in Seq(Cmds) /\ \A i \in 1..Len(queue) : queue[i].kind # "Init"
    BY <1>4 DEF TimeoutSkips, linkVars, deviceVars, sessionVars, TypeOK, PipeOK, Straight
  <2>2. FALSE \/ Unanswered # <<>> => current.kind # "Init"
    BY <2>1 DEF Unanswered, Straight
  <2>3. ASSUME NEW out, Silent(out), Len(out) <= 2,
               SendNext(queue, FALSE, canMode, FALSE, Unanswered, out)
        PROVE  Straight' /\ Refined
    <3>1. out \in Seq(Signals)
      BY <2>3 DEF Silent
    <3>2. /\ \A i \in 1..Len(queue') : queue'[i].kind # "Init"
          /\ busy' \/ wire' # <<>> => current'.kind # "Init"
          /\ signals' = out \/ signals' = Append(out, Status("info"))
      BY <2>1, <2>2, <2>3, <3>1, SentReady
    <3>3. Straight'
      BY <2>1, <3>2, ReadyStraight
    <3> QED
      BY <1>0, <2>1, <2>3, <3>2, <3>3, SentSilent, SilentRefines
  <2>4. \A name \in {"pidUnsupported", "rawResponse"} :
          Silent(<<Sig(name, current.arg)>>) /\ Len(<<Sig(name, current.arg)>>) <= 2
    <3>1. current.arg \in Texts /\ {"pidUnsupported", "rawResponse"} \subseteq SignalNames
      BY DEF TypeOK, PipeOK, Cmds, SignalNames
    <3>2. \A name \in {"pidUnsupported", "rawResponse"} : Sig(name, current.arg) \in Signals
      BY <3>1, SigType
    <3>3. \A name \in {"pidUnsupported", "rawResponse"} :
            Sig(name, current.arg).name \notin LinkNames
      BY DEF Sig, LinkNames
    <3> QED
      BY <3>2, <3>3, OneSilent
  <2>5. Silent(<<>>) /\ Len(<<>>) <= 2
    BY EmptyTells
  <2> QED
    BY <1>4, <2>3, <2>4, <2>5 DEF TimeoutSkips
<1>5. CASE TimeoutFails
  BY <1>1, <1>5 DEF TimeoutFails
<1> QED
  BY <1>2, <1>3, <1>4, <1>5 DEF OnTimeout

\* The lambdas that are left: the first command of a connection, and those of an earlier one.
LEMMA FireLambdaStraight ==
  ASSUME TypeOK, Phased, Straight, FireLambda PROVE Straight' /\ Refined
<1>0. PICK age \in {"fresh", "stale"} :
        FireStart(age) \/ FireSettle(age) \/ FireAtz(age) \/ FireRetry(age)
  BY DEF FireLambda
<1>1. ~FireRetry(age) /\ Quiet
  BY <1>0 DEF FireRetry, FireStart, FireSettle, FireAtz, Due, Straight
<1>2. ASSUME NEW kind \in {"start", "atz"}, Due(kind, age)
      PROVE  /\ Fired(kind, age)["retry"] = later["retry"]
             /\ Fired(kind, age)["settle"] = later["settle"]
  BY <1>2 DEF Due, Fired, TypeOK, LambdaCounts, LambdaKinds
<1>3. /\ queue \in Seq(Cmds) /\ busy \in BOOLEAN /\ ready \in BOOLEAN /\ opening \in BOOLEAN
      /\ initStep \in 0..6
  BY DEF TypeOK, PipeOK, SessionOK
<1>4. ASSUME NEW l, l["retry"] = later["retry"], l["settle"].fresh = 0, Dropped(l)
      PROVE  Straight' /\ Refined
  <2>1. Straight'
    BY <1>4, KeptStraight DEF Dropped, linkVars, deviceVars, sessionVars, pipeVars, Straight
  <2> QED
    BY <1>1, <1>4, <2>1, EmptyTells, SilentRefines DEF Dropped, Quiet, sessionVars
<1>5. ASSUME NEW l, l["retry"] = later["retry"], l["settle"] = later["settle"], later' = l,
             UNCHANGED <<linkVars, sessionVars>>,
             SendNext(queue, busy, canMode, timeoutOn, wire, <<>>)
      PROVE  Straight' /\ Refined
  <2>1. UNCHANGED <<bt, btTransport, banner, ready, opening, initStep>>
    BY <1>5 DEF linkVars, deviceVars, sessionVars
  <2>2. Wired'
    BY <1>5, <2>1, StraightWired DEF Wired
  <2>3. <<>> \in Seq(Signals) /\ Silent(<<>>) /\ Len(<<>>) <= 2
    BY EmptyTells DEF Silent
  <2>4. CASE ready
    <3>1. /\ \A i \in 1..Len(queue) : queue[i].kind # "Init"
          /\ busy \/ wire # <<>> => current.kind # "Init"
      BY <2>4 DEF Straight
    <3>2. /\ \A i \in 1..Len(queue') : queue'[i].kind # "Init"
          /\ busy' \/ wire' # <<>> => current'.kind # "Init"
          /\ signals' = <<>> \/ signals' = Append(<<>>, Status("info"))
      BY <1>3, <1>5, <2>3, <3>1, SentReady
    <3>3. ~opening'
      BY <2>1, <2>4, ReadyFacts
    <3>4. Straight'
      BY <2>2, <3>2, <3>3 DEF Straight, Wired
    <3> QED
      BY <1>1, <2>1, <2>3, <3>2, <3>4, SentSilent, SilentRefines
  <2>5. CASE opening /\ ~ready
    <3>1. /\ \A i \in 1..Len(queue) : queue[i].kind = "Init"
          /\ initStep + Len(queue) + (IF busy THEN 1 ELSE 0) = 6
          /\ busy => current.kind = "Init"
          /\ wire # <<>> => busy /\ wire = <<current>>
      BY <2>5 DEF Straight, Phased, Initialising
    <3>2. SendNext(queue, busy, FALSE, timeoutOn, wire, <<>>)
      BY <1>5, <2>5 DEF Phased, PhasesAgree, TypeOK, PipeOK
    <3>3. /\ Len(queue') + (IF busy' THEN 1 ELSE 0) = Len(queue) + (IF busy THEN 1 ELSE 0)
          /\ busy' => current'.kind = "Init"
          /\ wire' # <<>> => busy' /\ wire' = <<current'>>
          /\ signals' = <<>> /\ queue' \in Seq(Cmds)
      BY <1>3, <3>1, <3>2, SentOpening
    <3>4. initStep' + Len(queue') + (IF busy' THEN 1 ELSE 0) = 6
      BY <1>3, <2>1, <3>1, <3>3
    <3>5. Straight'
      BY <2>1, <2>2, <2>5, <3>3, <3>4 DEF Straight, Wired
    <3> QED
      BY <1>1, <2>1, <2>3, <3>3, <3>5, SilentRefines
  <2>6. CASE ~opening /\ ~ready
    <3>1. queue = <<>>
      BY <2>6 DEF Phased, Initialising
    <3>2. signals' = <<>>
      BY <1>5, <3>1 DEF SendNext
    <3>3. Straight'
      BY <2>1, <2>2, <2>6 DEF Straight, Wired
    <3> QED
      BY <1>1, <2>1, <2>3, <3>2, <3>3, SilentRefines
  <2> QED
    BY <2>4, <2>5, <2>6
<1>6. CASE FireStart(age)
  <2>1. /\ Fired("start", age)["retry"] = later["retry"]
        /\ Fired("start", age)["settle"] = later["settle"]
    BY <1>2, <1>6 DEF FireStart
  <2>2. later["settle"].fresh = 0
    BY DEF Straight
  <2> QED
    BY <1>4, <1>5, <1>6, <2>1, <2>2 DEF FireStart
<1>7. CASE FireAtz(age)
  BY <1>2, <1>5, <1>7 DEF FireAtz
<1>8. CASE FireSettle(age)
  <2>1. age # "fresh"
    BY <1>8 DEF FireSettle, Due, Straight
  <2>2. /\ Fired("settle", age)["retry"] = later["retry"]
        /\ Fired("settle", age)["settle"].fresh = 0
    BY <1>0, <2>1 DEF Fired, TypeOK, LambdaCounts, LambdaKinds, Straight
  <2> QED
    BY <1>4, <1>8, <2>1, <2>2 DEF FireSettle
<1> QED
  BY <1>0, <1>1, <1>6, <1>7, <1>8

\* No Bluetooth socket is there to fail, and no timer of one runs for long.
LEMMA BluetoothStraight ==
  ASSUME Straight, OnBtConnected \/ OnBtError \/ OnBtConnectTimeout
  PROVE  Straight' /\ Refined
<1>1. OnBtConnectTimeout /\ ~btTransport
  BY DEF Straight, OnBtConnected, OnBtError
<1>2. /\ UNCHANGED <<bt, btTransport, banner, opening, initStep, queue, busy, current, ready,
                     wire, later, signals>>
      /\ Quiet
  BY <1>1 DEF OnBtConnectTimeout, sessionVars, pipeVars
<1>3. Straight'
  BY <1>2, KeptStraight DEF Straight
<1> QED
  BY <1>2, <1>3, EmptyTells, SilentRefines DEF Quiet

\* Every step.
LEMMA NextStraight ==
  ASSUME Prompted, TypeOK, Phased, Straight, Len(signals) <= 3, [Next]_vars
  PROVE  Straight' /\ Refined
<1>1. CASE Deliver
  <2>1. Straight'
    BY <1>1, KeptStraight DEF Deliver, linkVars, deviceVars, sessionVars, pipeVars, Straight
  <2> QED
    BY <1>1, <2>1, DeliverHandles DEF Refined, Link!Next
<1>2. CASE Quiet /\ DisconnectPort(<<>>)
  BY <1>2, DownStraight, DisconnectRefines DEF DisconnectPort
<1>3. ~OnBanner
  BY DEF OnBanner, Straight
<1>4. CASE UNCHANGED vars
  <2>1. Straight'
    BY <1>4, KeptStraight DEF vars, linkVars, deviceVars, sessionVars, pipeVars, Straight
  <2>2. UNCHANGED <<ready, opening, signals>>
    BY <1>4 DEF vars, sessionVars
  <2>3. UNCHANGED Link!vars
    BY <2>2, LinkTells DEF Link!vars, Phase
  <2> QED
    BY <2>1, <2>2, <2>3 DEF Refined
<1>5. CASE Client
  BY <1>2, <1>5, ConnectingStraight, CallingStraight, MonitoringStraight DEF Client
<1>6. CASE React
  BY <1>3, <1>6, PollStraight, OnAnswerStraight, OnCanDataStraight, OnTimeoutStraight,
     BluetoothStraight, FireLambdaStraight DEF React
<1> QED
  BY <1>1, <1>4, <1>5, <1>6 DEF Next

LEMMA InitStraight == Init => Straight /\ Len(signals) <= 3 /\ Link!Init
<1> SUFFICES ASSUME Init PROVE Straight /\ Len(signals) <= 3 /\ Link!Init
  OBVIOUS
<1>1. /\ later["retry"].fresh = 0 /\ later["retry"].stale = 0 /\ later["settle"].fresh = 0
  <2>1. /\ later = [l \in LambdaKinds |-> [fresh |-> 0, stale |-> 0]]
        /\ "retry" \in LambdaKinds /\ "settle" \in LambdaKinds
    BY DEF Init, LambdaKinds
  <2> QED
    BY <2>1
<1>2. /\ bt = "none" /\ ~btTransport /\ banner = 0 /\ ~opening /\ ~ready /\ signals = <<>>
  BY DEF Init
<1>3. LinkTold = <<>> /\ Phase = "idle"
  BY <1>2, QuietTold DEF Quiet, Phase
<1> QED
  BY <1>1, <1>2, <1>3, EmptyTells, SilentTells DEF Straight, Link!Init

\* To its listeners the driver is an ElmLink: connected once per connection and only from an
\* attempt under way, disconnected for every connection that ends, errorOccurred for every
\* attempt that fails.  Each step of the driver is a step of ElmLink or tells nothing.
THEOREM LinkImplemented == ASSUME Prompted PROVE Spec => LinkSpec
<1> DEFINE Inv == TypeOK /\ Phased /\ Straight /\ Len(signals) <= 3
<1>1. Init => Inv /\ Link!Init
  BY InitType, InitPhased, InitStraight
<1>2. Inv /\ [Next]_vars => Inv' /\ [Link!Next]_(Link!vars)
  <2> SUFFICES ASSUME Inv, [Next]_vars PROVE Inv' /\ [Link!Next]_(Link!vars)
    OBVIOUS
  <2>1. "bt" \notin Chatty
    BY DEF Prompted
  <2>2. TypeOK' /\ Phased'
    BY <2>1, NextType, NextPhased
  <2>3. Straight' /\ Refined
    BY NextStraight
  <2> QED
    BY <2>2, <2>3 DEF Refined
<1> QED
  BY <1>1, <1>2, PTL DEF Spec, LinkSpec, Link!Spec
=============================================================================
