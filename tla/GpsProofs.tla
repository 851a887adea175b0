------------------------------ MODULE GpsProofs ------------------------------
(***************************************************************************)
(* Proofs about the GPS.  First the line, for every set of sentences and   *)
(* of types, every size of the buffer and any number of lost characters;   *)
(* then the records, for any number of sentences of every kind, any number *)
(* of damaged ones and whatever stands on the stack.                       *)
(***************************************************************************)
EXTENDS GpsLine, Gps, SequenceTheorems, NaturalsInduction, WellFoundedInduction, TLAPS

(* A nonempty set of numbers has a least one.                              *)
LEMMA Least ==
  ASSUME NEW I, I \subseteq Nat, I # {}
  PROVE  \E i \in I : \A j \in I : i <= j
  <1> DEFINE Less == {ss \in Nat \X Nat : ss[1] < ss[2]}
  <1>1. IsWellFoundedOn(Less, Nat)
    BY NatLessThanWellFounded DEF OpToRel
  <1>2. PICK i \in I : \A j \in I : ~ (<<j, i>> \in Less)
    BY <1>1, WFMin
  <1>3. ASSUME NEW j \in I
        PROVE  i <= j
    <2>1. i \in Nat /\ j \in Nat
      OBVIOUS
    <2>2. ~ (j < i)
      BY <1>2, <2>1
    <2>3. QED BY <2>1, <2>2
  <1>4. QED BY <1>3

-----------------------------------------------------------------------------
(* The line.                                                               *)
(* How much of the current sentence, with its newline, is through.         *)
Through == Len(current) + 1 - Len(line)

(* Up to the first sentence that is sent whole no "$" comes in, and what   *)
(* came in before stays in the buffer.                                     *)
CutOff ==
  /\ \A i \in 1..Len(buffer) : buffer[i] # "$"
  /\ \A i \in 1..Len(line) : line[i] # "$"
  /\ 3 * (Len(buffer) + Len(line)) <= MaxBuffer

(* Then the buffer ends with what is through of the current sentence, with *)
(* little before it and no "$", so that it has room for the rest.          *)
Buffered ==
  LET before == Len(buffer) - Through IN
  /\ before \in Nat /\ 3 * before <= MaxBuffer
  /\ \A i \in 1..before  : buffer[i] # "$"
  /\ \A i \in 1..Through : buffer[before + i] = current[i]

OnTheLine ==
  /\ Through \in Nat
  /\ \A i \in 1..Len(line) : line[i] = Framed(current)[Through + i]
  /\ line # <<>> => Buffered
  /\ line = <<>> => buffer = <<>> /\ Stored

LineInv ==
  /\ LineTypeOK
  /\ lost = 0 => IF current = <<>> THEN CutOff ELSE OnTheLine

OnLine == Characters \cup {NEWLINE}

LEMMA BufferSize == MaxBuffer \in Nat
  BY LineAssumption DEF MaxBuffer

LEMMA SentenceFacts ==
  ASSUME NEW s \in Sentences
  PROVE  /\ s \in Seq(Characters) /\ Len(s) \in Nat \ {0} /\ 3 * Len(s) <= MaxBuffer
         /\ \A i \in 1..Len(s) : s[i] = "$" <=> i = 1
         /\ \A i \in 1..Len(s) : s[i] # NEWLINE
  <1>1. /\ s \in Seq(Characters) /\ 3 * Len(s) <= MaxBuffer /\ s # <<>>
        /\ \A i \in 1..Len(s) : s[i] = "$" <=> i = 1
    BY LineAssumption
  <1>2. Len(s) \in Nat \ {0}
    BY <1>1
  <1>3. \A i \in 1..Len(s) : s[i] # NEWLINE
    BY <1>1, LineAssumption
  <1>4. QED BY <1>1, <1>2, <1>3

LEMMA FramedFacts ==
  ASSUME NEW s \in Sentences
  PROVE  /\ Framed(s) \in Seq(OnLine) /\ Len(Framed(s)) = Len(s) + 1
         /\ \A i \in 1..Len(s) : Framed(s)[i] = s[i]
         /\ Framed(s)[Len(s) + 1] = NEWLINE
  <1>1. s \in Seq(OnLine) /\ NEWLINE \in OnLine
    BY SentenceFacts, SeqMonotonic DEF OnLine
  <1>2. QED BY <1>1 DEF Framed

(* The character that comes next, and the rest.                            *)
LEMMA LineFacts ==
  ASSUME line \in Seq(OnLine), line # <<>>
  PROVE  /\ Head(line) = line[1] /\ Head(line) \in OnLine /\ Tail(line) \in Seq(OnLine)
         /\ Len(line) \in Nat \ {0} /\ Len(Tail(line)) = Len(line) - 1
         /\ \A i \in 1..Len(Tail(line)) : Tail(line)[i] = line[i + 1]
  BY HeadTailProperties

(* The handler looks for the first "$".                                    *)
First == CHOOSE i \in Dollars : \A j \in Dollars : i <= j

LEMMA FirstDollar ==
  ASSUME Dollars # {}, buffer \in Seq(Characters)
  PROVE  First \in Dollars /\ \A j \in Dollars : First <= j
  <1>1. Dollars \subseteq Nat
    BY DEF Dollars
  <1>2. \E k \in Dollars : \A j \in Dollars : k <= j
    BY <1>1, Least
  <1>3. QED BY <1>2 DEF First

LEMMA RecordFacts ==
  ASSUME Dollars # {}, buffer \in Seq(Characters)
  PROVE  /\ First \in 1..Len(buffer) /\ Record \in Seq(Characters)
         /\ Len(Record) = Len(buffer) - First + 1
         /\ \A i \in 1..Len(Record) : Record[i] = buffer[First + i - 1]
  <1>1. First \in 1..Len(buffer) /\ Len(buffer) \in Nat
    BY FirstDollar DEF Dollars
  <1>2. Record = SubSeq(buffer, First, Len(buffer))
    BY DEF Record, First
  <1>3. \A i \in First..Len(buffer) : buffer[i] \in Characters
    BY <1>1
  <1>4. First \in Int /\ Len(buffer) \in Int /\ First <= Len(buffer)
    BY <1>1
  <1>5. /\ SubSeq(buffer, First, Len(buffer)) \in Seq(Characters)
        /\ Len(SubSeq(buffer, First, Len(buffer))) = Len(buffer) - First + 1
        /\ \A i \in 1..(Len(buffer) - First + 1) :
             SubSeq(buffer, First, Len(buffer))[i] = buffer[First + i - 1]
    BY <1>3, <1>4, SubSeqProperties
  <1>6. QED BY <1>1, <1>2, <1>5

LEMMA LineTypeStep ==
  ASSUME LineTypeOK, [LineNext]_lineVars
  PROVE  LineTypeOK'
  <1> USE DEF LineTypeOK
  <1>0. line \in Seq(OnLine)
    BY DEF OnLine
  <1>1. CASE UNCHANGED lineVars
    BY <1>1 DEF lineVars
  <1>2. CASE NextSentence
    <2>1. PICK s \in Sentences : current' = s /\ line' = Framed(s)
      BY <1>2 DEF NextSentence
    <2>2. line' \in Seq(Characters \cup {NEWLINE})
      BY <2>1, FramedFacts DEF OnLine
    <2>3. QED BY <1>2, <2>1, <2>2 DEF NextSentence
  <1>3. CASE Lose
    <2>1. line' \in Seq(Characters \cup {NEWLINE})
      BY <1>0, <1>3, LineFacts DEF Lose, OnLine
    <2>2. lost' \in 0..MaxLost
      BY <1>3, LineAssumption DEF Lose
    <2>3. QED BY <1>3, <2>1, <2>2 DEF Lose
  <1>4. CASE Character
    <2>1. line' \in Seq(Characters \cup {NEWLINE}) /\ Head(line) \in Characters
      BY <1>0, <1>4, LineFacts DEF Character, OnLine
    <2>2. buffer' \in Seq(Characters) /\ Len(buffer') <= MaxBuffer
      BY <1>4, <2>1, BufferSize DEF Character
    <2>3. QED BY <1>4, <2>1, <2>2 DEF Character
  <1>5. CASE Newline
    <2>1. line' \in Seq(Characters \cup {NEWLINE})
      BY <1>0, <1>5, LineFacts DEF Newline, OnLine
    <2>2. buffer' \in Seq(Characters) /\ Len(buffer') <= MaxBuffer
      <3>1. buffer' = buffer \/ buffer' = <<>>
        BY <1>5 DEF Newline
      <3>2. CASE buffer' = buffer
        BY <3>2
      <3>3. CASE buffer' = <<>>
        <4>1. Len(<<>>) <= MaxBuffer
          BY BufferSize
        <4>2. <<>> \in Seq(Characters)
          OBVIOUS
        <4>3. QED BY <3>3, <4>1, <4>2
      <3>4. QED BY <3>1, <3>2, <3>3
    <2>3. nmea_record_strings' \in [NmeaTypes -> Seq(Characters)]
      <3>1. CASE Dollars # {} /\ Known(Record)
        BY <1>5, <3>1, RecordFacts DEF Newline, Known
      <3>2. QED BY <1>5, <3>1 DEF Newline
    <2>4. QED BY <1>5, <2>1, <2>2, <2>3 DEF Newline
  <1>6. QED BY <1>1, <1>2, <1>3, <1>4, <1>5 DEF LineNext, Receive

-----------------------------------------------------------------------------
(* A sentence begins: what the buffer holds has no "$".                    *)
LEMMA NextSentenceStep ==
  ASSUME LineInv, NextSentence, lost = 0
  PROVE  OnTheLine' /\ current' # <<>>
  <1>1. PICK s \in Sentences : current' = s /\ line' = Framed(s)
    BY DEF NextSentence
  <1>2. UNCHANGED <<buffer, nmea_record_strings, lost>> /\ line = <<>>
    BY DEF NextSentence
  <1>3. buffer \in Seq(Characters) /\ Len(buffer) \in Nat
    BY DEF LineInv, LineTypeOK
  <1>4. 3 * Len(buffer) <= MaxBuffer /\ \A i \in 1..Len(buffer) : buffer[i] # "$"
    <2>1. CASE current = <<>>
      <3>1. Len(line) = 0
        BY <1>2
      <3>2. QED BY <1>3, <2>1, <3>1 DEF LineInv, CutOff
    <2>2. CASE current # <<>>
      <3>1. Len(buffer) = 0
        BY <1>2, <2>2 DEF LineInv, OnTheLine
      <3>2. QED BY <3>1, BufferSize
    <2>3. QED BY <2>1, <2>2
  <1>5. Through' = 0 /\ Len(line') = Len(s) + 1 /\ line' # <<>>
    <2>1. Len(line') = Len(s) + 1 /\ Len(s) \in Nat
      BY <1>1, FramedFacts, SentenceFacts
    <2>2. QED BY <1>1, <2>1 DEF Through
  <1>6. Buffered'
    BY <1>2, <1>3, <1>4, <1>5 DEF Buffered
  <1>7. \A i \in 1..Len(line') : line'[i] = Framed(current')[Through' + i]
    BY <1>1, <1>5
  <1>8. current' # <<>>
    BY <1>1, SentenceFacts
  <1>9. QED BY <1>5, <1>6, <1>7, <1>8 DEF OnTheLine

(* What is known when a character of the current sentence is due.          *)
LEMMA Due ==
  ASSUME LineInv, lost = 0, current # <<>>, line # <<>>
  PROVE  /\ current \in Sentences /\ OnTheLine /\ Buffered
         /\ Through \in 0..Len(current) /\ Len(line) = Len(current) + 1 - Through
         /\ Head(line) = Framed(current)[Through + 1]
         /\ Head(line) = NEWLINE <=> Through = Len(current)
  <1>1. current \in Sentences /\ line \in Seq(OnLine) /\ OnTheLine /\ Buffered
    BY DEF LineInv, LineTypeOK, OnTheLine, OnLine
  <1>2. /\ Len(current) \in Nat /\ Len(line) \in Nat \ {0} /\ Through \in Nat
        /\ Head(line) = line[1]
    BY <1>1, SentenceFacts, LineFacts DEF OnTheLine
  <1>3. Through \in 0..Len(current) /\ Len(line) = Len(current) + 1 - Through
    BY <1>2 DEF Through
  <1>4. Head(line) = Framed(current)[Through + 1]
    BY <1>1, <1>2 DEF OnTheLine
  <1>5. Head(line) = NEWLINE <=> Through = Len(current)
    <2>1. CASE Through = Len(current)
      BY <1>1, <1>4, <2>1, FramedFacts
    <2>2. CASE Through # Len(current)
      <3>1. Through + 1 \in 1..Len(current)
        BY <1>2, <1>3, <2>2
      <3>2. QED BY <1>1, <1>4, <2>2, <3>1, FramedFacts, SentenceFacts
    <2>3. QED BY <2>1, <2>2
  <1>6. QED BY <1>1, <1>3, <1>4, <1>5

(* A character of it goes into the buffer, which has room for it.          *)
LEMMA CharacterStep ==
  ASSUME LineInv, Character, lost = 0, current # <<>>
  PROVE  OnTheLine'
  <1>1. /\ line # <<>> /\ Head(line) # NEWLINE /\ line' = Tail(line)
        /\ UNCHANGED <<nmea_record_strings, current, lost>>
    BY DEF Character
  <1>2. /\ current \in Sentences /\ Through \in 0..(Len(current) - 1)
        /\ Len(line) = Len(current) + 1 - Through
        /\ Head(line) = current[Through + 1]
    BY <1>1, Due, FramedFacts, SentenceFacts
  <1>3. /\ Len(current) \in Nat /\ 3 * Len(current) <= MaxBuffer /\ MaxBuffer \in Nat
        /\ buffer \in Seq(Characters) /\ Len(buffer) \in Nat /\ Through \in Nat
    BY <1>2, SentenceFacts, BufferSize DEF LineInv, LineTypeOK
  <1>4. /\ Len(line') = Len(line) - 1
        /\ \A i \in 1..Len(line') : line'[i] = line[i + 1]
    BY <1>1, LineFacts DEF LineInv, LineTypeOK, OnLine
  <1>5. Through' = Through + 1 /\ line' # <<>>
    <2>1. Through' = Through + 1 /\ Len(line') # 0
      BY <1>1, <1>2, <1>3, <1>4 DEF Through
    <2>2. QED BY <2>1
  <1>6. buffer' = Append(buffer, Head(line))
    <2>1. Len(buffer) < MaxBuffer
      BY <1>1, <1>2, <1>3, Due DEF Buffered
    <2>2. QED BY <2>1 DEF Character
  <1>7. /\ Len(buffer') = Len(buffer) + 1 /\ buffer'[Len(buffer) + 1] = current[Through + 1]
        /\ \A i \in 1..Len(buffer) : buffer'[i] = buffer[i]
    BY <1>2, <1>3, <1>6
  <1>8. Buffered'
    <2> DEFINE before == Len(buffer) - Through
    <2>1. /\ before \in Nat /\ 3 * before <= MaxBuffer
          /\ \A i \in 1..before  : buffer[i] # "$"
          /\ \A i \in 1..Through : buffer[before + i] = current[i]
      BY <1>1, Due DEF Buffered
    <2>2. Len(buffer') - Through' = before
      BY <1>3, <1>5, <1>7
    <2>3. \A i \in 1..before : buffer'[i] # "$"
      BY <1>3, <1>7, <2>1
    <2>4. ASSUME NEW i \in 1..(Through + 1)
          PROVE  buffer'[before + i] = current[i]
      <3>1. CASE i = Through + 1
        <4>1. before + i = Len(buffer) + 1
          BY <1>3, <3>1
        <4>2. QED BY <1>7, <3>1, <4>1
      <3>2. CASE i # Through + 1
        <4>1. i \in 1..Through /\ before + i \in 1..Len(buffer)
          BY <1>3, <2>1, <3>2
        <4>2. QED BY <1>7, <2>1, <4>1
      <3>3. QED BY <3>1, <3>2
    <2>5. current' = current
      BY <1>1
    <2> HIDE DEF before
    <2>6. QED BY <1>5, <2>1, <2>2, <2>3, <2>4, <2>5 DEF Buffered
  <1>9. \A i \in 1..Len(line') : line'[i] = Framed(current')[Through' + i]
    <2>1. \A i \in 1..Len(line) : line[i] = Framed(current)[Through + i]
      BY <1>1, Due DEF OnTheLine
    <2>2. QED BY <1>1, <1>2, <1>3, <1>4, <1>5, <2>1
  <1>10. QED BY <1>3, <1>5, <1>8, <1>9 DEF OnTheLine

(* Its newline finds it behind the first "$", and empties the buffer.      *)
LEMMA NewlineStep ==
  ASSUME LineInv, Newline, lost = 0, current # <<>>
  PROVE  OnTheLine'
  <1>1. /\ line # <<>> /\ Head(line) = NEWLINE /\ line' = Tail(line)
        /\ UNCHANGED <<current, lost>>
    BY DEF Newline
  <1>2. /\ current \in Sentences /\ Through = Len(current) /\ Len(line) = 1
        /\ Len(current) \in Nat \ {0} /\ buffer \in Seq(Characters) /\ Len(buffer) \in Nat
    <2>1. /\ current \in Sentences /\ Through = Len(current)
          /\ Len(line) = Len(current) + 1 - Through
      BY <1>1, Due
    <2>2. Len(current) \in Nat \ {0} /\ buffer \in Seq(Characters)
      BY <2>1, SentenceFacts DEF LineInv, LineTypeOK
    <2>3. QED BY <2>1, <2>2
  <1>3. line' = <<>> /\ Through' = Len(current) + 1
    <2>1. Tail(line) \in Seq(OnLine) /\ Len(Tail(line)) = 0
      BY <1>1, <1>2, LineFacts DEF LineInv, LineTypeOK, OnLine
    <2>2. QED BY <1>1, <1>2, <2>1 DEF Through
  <1> DEFINE before == Len(buffer) - Len(current)
  <1>4. /\ before \in Nat
        /\ \A i \in 1..before : buffer[i] # "$"
        /\ \A i \in 1..Len(current) : buffer[before + i] = current[i]
    BY <1>1, <1>2, Due DEF Buffered
  <1>5. Dollars # {} /\ First = before + 1
    <2>1. before + 1 \in Dollars
      BY <1>2, <1>4, SentenceFacts DEF Dollars
    <2>2. First \in Dollars /\ First <= before + 1
      BY <1>2, <2>1, FirstDollar
    <2>3. First \notin 1..before
      BY <1>4, <2>2 DEF Dollars
    <2>4. First \in Nat \ {0}
      BY <2>2 DEF Dollars
    <2> HIDE DEF before
    <2>5. QED BY <1>4, <2>1, <2>2, <2>3, <2>4
  <1>6. Record = current
    <2>1. /\ Record \in Seq(Characters) /\ Len(Record) = Len(current)
          /\ \A i \in 1..Len(Record) : Record[i] = buffer[before + i]
      BY <1>2, <1>4, <1>5, RecordFacts
    <2>2. current \in Seq(Characters) /\ \A i \in 1..Len(Record) : Record[i] = current[i]
      BY <1>2, <1>4, <2>1, SentenceFacts
    <2> HIDE DEF before
    <2>3. QED BY <2>1, <2>2, SeqEqual
  <1>7. buffer' = <<>> /\ Stored'
    BY <1>1, <1>5, <1>6 DEF Newline, Stored, Known, LineInv, LineTypeOK
  <1>8. QED BY <1>2, <1>3, <1>7 DEF OnTheLine

(* The rest of the sentence that was cut off piles up.                     *)
LEMMA CutOffStep ==
  ASSUME LineInv, CutOff, Receive
  PROVE  CutOff'
  <1>1. /\ line # <<>> /\ line' = Tail(line)
        /\ line \in Seq(OnLine) /\ buffer \in Seq(Characters)
        /\ Len(buffer) \in Nat /\ Len(line) \in Nat \ {0} /\ MaxBuffer \in Nat
    BY LineFacts, BufferSize DEF LineInv, LineTypeOK, OnLine, Receive, Character, Newline
  <1>2. /\ Head(line) = line[1] /\ Len(line') = Len(line) - 1
        /\ \A i \in 1..Len(line') : line'[i] = line[i + 1]
    BY <1>1, LineFacts
  <1>3. \A i \in 1..Len(line') : line'[i] # "$"
    BY <1>1, <1>2 DEF CutOff
  <1>4. CASE buffer' = buffer
    BY <1>1, <1>2, <1>3, <1>4 DEF CutOff
  <1>5. CASE buffer' = Append(buffer, Head(line))
    <2>1. /\ Len(buffer') = Len(buffer) + 1 /\ buffer'[Len(buffer) + 1] = line[1]
          /\ \A i \in 1..Len(buffer) : buffer'[i] = buffer[i]
      BY <1>1, <1>2, <1>5
    <2>2. \A i \in 1..Len(buffer') : buffer'[i] # "$"
      <3>1. line[1] # "$" /\ \A i \in 1..Len(buffer) : buffer[i] # "$"
        BY <1>1 DEF CutOff
      <3>2. \A i \in 1..Len(buffer') : i \in 1..Len(buffer) \/ i = Len(buffer) + 1
        BY <1>1, <2>1
      <3>3. QED BY <2>1, <3>1, <3>2
    <2>3. 3 * (Len(buffer') + Len(line')) <= MaxBuffer
      BY <1>1, <1>2, <2>1 DEF CutOff
    <2>4. QED BY <1>3, <2>2, <2>3 DEF CutOff
  <1>6. buffer' = buffer \/ buffer' = Append(buffer, Head(line))
    <2>1. Dollars = {}
      BY DEF CutOff, Dollars
    <2>2. QED BY <2>1 DEF Receive, Character, Newline
  <1>7. QED BY <1>4, <1>5, <1>6

LEMMA InitLineInv == LineInit => LineInv
  <1> SUFFICES ASSUME LineInit PROVE LineInv
    OBVIOUS
  <1>0. PICK s \in Sentences : line \in Rests(Framed(s))
    BY DEF LineInit
  <1>1. PICK k \in 2..(Len(Framed(s)) + 1) : line = SubSeq(Framed(s), k, Len(Framed(s)))
    BY <1>0 DEF Rests
  <1>2. /\ Framed(s) \in Seq(OnLine) /\ Len(Framed(s)) = Len(s) + 1 /\ Len(s) \in Nat
        /\ k \in Int /\ Len(Framed(s)) \in Int
    BY <1>1, FramedFacts, SentenceFacts
  <1>3. \A i \in k..Len(Framed(s)) : Framed(s)[i] \in OnLine \ {"$"}
    <2> SUFFICES ASSUME NEW i \in k..Len(Framed(s)) PROVE Framed(s)[i] \in OnLine \ {"$"}
      OBVIOUS
    <2>1. Framed(s)[i] \in OnLine /\ i # 1
      BY <1>1, <1>2
    <2>2. i \in Int /\ i >= 2 /\ i <= Len(s) + 1
      BY <1>1, <1>2
    <2>3. CASE i = Len(s) + 1
      BY <2>1, <2>3, FramedFacts DEF NEWLINE
    <2>4. CASE i # Len(s) + 1
      <3>1. i \in 1..Len(s)
        BY <1>2, <2>2, <2>4
      <3>2. QED BY <2>1, <3>1, FramedFacts, SentenceFacts
    <2>5. QED BY <2>3, <2>4
  <1>4. /\ line \in Seq(OnLine \ {"$"})
        /\ Len(line) = IF k <= Len(Framed(s)) THEN Len(Framed(s)) - k + 1 ELSE 0
    BY <1>1, <1>2, <1>3, SubSeqProperties
  <1>5. line \in Seq(OnLine) /\ \A i \in 1..Len(line) : line[i] # "$"
    BY <1>4, SeqMonotonic
  <1>6. Len(line) <= Len(s) /\ Len(line) \in Nat
    BY <1>1, <1>2, <1>4
  <1>7. 3 * (Len(buffer) + Len(line)) <= MaxBuffer /\ Len(buffer) = 0
    BY <1>2, <1>6, SentenceFacts, BufferSize DEF LineInit
  <1>8. LineTypeOK
    <2>1. buffer \in Seq(Characters) /\ Len(buffer) <= MaxBuffer
      BY <1>7, BufferSize DEF LineInit
    <2>2. QED BY <1>5, <2>1, LineAssumption DEF LineInit, LineTypeOK, OnLine
  <1>9. CutOff /\ current = <<>>
    BY <1>5, <1>7 DEF LineInit, CutOff
  <1>10. QED BY <1>8, <1>9 DEF LineInv

LEMMA LineInvStep ==
  ASSUME LineInv, [LineNext]_lineVars
  PROVE  LineInv'
  <1>1. LineTypeOK'
    BY LineTypeStep DEF LineInv
  <1>2. ASSUME lost' = 0
        PROVE  IF current' = <<>> THEN CutOff' ELSE OnTheLine'
    <2>1. CASE UNCHANGED lineVars
      BY <1>2, <2>1 DEF lineVars, LineInv, CutOff, OnTheLine, Buffered, Through, Stored
    <2>2. CASE NextSentence
      BY <1>2, <2>2, NextSentenceStep DEF NextSentence
    <2>3. CASE Lose
      BY <1>2, <2>3 DEF Lose, LineInv, LineTypeOK
    <2>4. CASE Receive
      <3>1. lost = 0 /\ current' = current
        BY <1>2, <2>4 DEF Receive, Character, Newline
      <3>2. CASE current = <<>>
        BY <2>4, <3>1, <3>2, CutOffStep DEF LineInv
      <3>3. CASE current # <<>>
        BY <2>4, <3>1, <3>3, CharacterStep, NewlineStep DEF Receive
      <3>4. QED BY <3>2, <3>3
    <2>5. QED BY <2>1, <2>2, <2>3, <2>4 DEF LineNext
  <1>3. QED BY <1>1, <1>2 DEF LineInv

THEOREM LineInductive == LineSpec => []LineInv
  <1>1. LineInv /\ [LineNext]_lineVars => LineInv'
    BY LineInvStep
  <1>2. QED BY <1>1, InitLineInv, PTL DEF LineSpec

(* The buffer is never overrun, whatever is lost.                          *)
THEOREM LineTypeCorrect == LineSpec => []LineTypeOK
  <1>1. LineInv => LineTypeOK
    BY DEF LineInv
  <1>2. QED BY <1>1, LineInductive, PTL

(* The handler stores every sentence of a known type whole, as long as no  *)
(* character is lost, the first after it is enabled included.              *)
THEOREM SentenceStoredCorrect == LineSpec => []SentenceStored
  <1>1. LineInv => SentenceStored
    BY DEF LineInv, OnTheLine, SentenceStored, Stored
  <1>2. QED BY <1>1, LineInductive, PTL

-----------------------------------------------------------------------------
(* The records.                                                            *)
Chars == Digits \cup {COMMA}

(* Where the fields begin; the last is the mode.                           *)
Begin == [kind \in Kinds |->
  CASE kind = "slow"    -> <<1, 3, 5, 8, 10, 13, 15, 17, 19, 21, 22, 23>>
    [] kind = "fast"    -> <<1, 3, 5, 8, 10, 13, 15, 18, 20, 22, 23, 24>>
    [] kind = "nowhere" -> <<1, 3, 5, 6, 7, 8, 9, 11, 13, 15, 16, 17>>]

(* A text is like a sentence up to the beginning of the m-th field.        *)
LaidOut(text, kind, m) ==
  /\ Begin[kind][m] <= Len(text)
  /\ \A i \in 1..Begin[kind][m] : text[i][1] = Layout[kind][i]

(* The text of the k-th field of what was copied.                          *)
Piece(k, kind) == SubSeq(copied, Begin[kind][k], Begin[kind][k + 1] - 2)

UpTo(text, n) == \A i \in 1..Len(text) : text[i][2] <= n

(* No digit that is kept is newer than n.                                  *)
Behind(n) ==
  /\ UpTo(gprmc_record["LATITUDE"], n) /\ UpTo(gprmc_record["LONGITUDE"], n)
  /\ UpTo(latitude, n) /\ UpTo(longitude, n)

(* The array ends with NULs, and begins with the time of the last sentence.*)
StringInv ==
  /\ \A i \in 25..29 : nmea_record_string[i] = NUL
  /\ "GPRMC" \in nmea_record_dirty_strings \cup reg \/ pc = "copy" => sentences > 0
  /\ sentences > 0 => nmea_record_string[1] = <<"TIME_STAMP", sentences>>

(* Two NULs in a row end any text.                                         *)
Ended(text) == text[28] = NUL /\ text[29] = NUL

(* The copy, complete up to "ptr", ends before the two NULs on the stack,  *)
(* and begins with a time that nothing kept from earlier copies is newer   *)
(* than.                                                                   *)
CopyInv ==
  /\ Ended(record_str)
  /\ pc \notin {"copy", "fields"} => ptr = 1
  /\ pc # "fields" => val_state = 1 /\ copied = <<>>
  /\ pc = "copy" => ptr <= 25 /\ \A i \in 1..(ptr - 1) : record_str[i] \in Chars
  /\ pc = "first_field" =>
       \E e \in 2..25 : record_str[e] = NUL /\ \A i \in 1..(e - 1) : record_str[i] \in Chars
  /\ pc = "first_field" \/ (pc = "copy" /\ ptr > 1) =>
       record_str[1][1] = "TIME_STAMP" /\ Behind(record_str[1][2])

(* As far as a copy is laid out like a sentence the loop comes to each     *)
(* field in turn, and the values before it are stored.                     *)
Walking(kind, m) ==
  /\ \A k \in 1..(m - 1) :
       k < val_state /\ Piece(k, kind) # <<>> => gprmc_record[Fields[k]] = Piece(k, kind)
  /\ val_state < m =>
       /\ field = Piece(val_state, kind) /\ ptr = Begin[kind][val_state + 1]
       /\ \A i \in ptr..Len(copied) : record_str[i] = copied[i]

WalkInv ==
  pc = "fields" =>
    \A kind \in Kinds, m \in 2..12 : LaidOut(copied, kind, m) => Walking(kind, m)

(* While all sentences have a position, what is copied is laid out like    *)
(* them up to the speed in cell 15, each digit not older than those before *)
(* it and than the latitude in use.                                        *)
PlacedText(text, n) ==
  \A i \in 1..15 : i <= n =>
    /\ text[i][1] = Layout["slow"][i]
    /\ text[i] # COMMA => UpTo(latitude, text[i][2])
                          /\ \A j \in 1..i : text[j][2] <= text[i][2]

PlacedCopies ==
  /\ sentences > 0 => \A i \in 1..15 : nmea_record_string[i] = Sentence(sentences, "slow")[i]
  /\ pc = "copy" => PlacedText(record_str, ptr - 1)
  /\ pc = "first_field" => PlacedText(record_str, 15)
  /\ pc = "fields" => /\ PlacedText(copied, 15) /\ Len(copied) >= 15
                      /\ val_state = 7 => field # <<>>

(* The latitude is stored and the longitude not yet.                       *)
Between == pc = "fields" /\ val_state \in {4, 5}

PlacedRecord ==
  /\ \A f \in Aligned : \A i \in 1..Len(gprmc_record[f]) : gprmc_record[f][i][1] = f
  /\ ~Between => NotNewer(gprmc_record["LATITUDE"], gprmc_record["LONGITUDE"])
  /\ ~Between => ("LATITUDE" \in valid_values => "LONGITUDE" \in valid_values)
  /\ NotNewer(latitude, gprmc_record["LONGITUDE"])
  /\ latitude # <<>> => "LONGITUDE" \in valid_values
  /\ caller # "longitude" => NotNewer(latitude, longitude)

PlacedInv == AllPlaced => PlacedCopies /\ PlacedRecord

(* While all copies are whole the digits of a position are of one sentence,*)
(* and main() has none that is newer.                                      *)
KeptBy(f, text) ==
  /\ NotNewer(gprmc_record[f], gprmc_record[f]) /\ NotNewer(text, text)
  /\ NotNewer(text, gprmc_record[f]) /\ (gprmc_record[f] = <<>> => text = <<>>)

WholeInv ==
  /\ whole => KeptBy("LATITUDE", latitude) /\ KeptBy("LONGITUDE", longitude)
  /\ whole /\ pc = "fields" =>
       \E n \in 1..sentences : copied = Sentence(n, kinds[n]) /\ Behind(n)

CallInv == pc = "idle" <=> caller = "none"

GpsInv ==
  TypeOK /\ CallInv /\ StringInv /\ CopyInv /\ WalkInv /\ PlacedInv /\ WholeInv

-----------------------------------------------------------------------------
(* The layouts and the characters.                                         *)
LEMMA MaxIsNat == MaxSentences \in Nat
  BY GpsAssumption

LEMMA KindsAre ==
  ASSUME NEW kind \in Kinds
  PROVE  kind = "slow" \/ kind = "fast" \/ kind = "nowhere"
  BY DEF Kinds

LEMMA SizesAre ==
  /\ LastCell = 29 /\ Cells = 1..29 /\ Len(Fields) = 11
  /\ Len(Layout["slow"]) = 23 /\ Len(Layout["fast"]) = 24 /\ Len(Layout["nowhere"]) = 17
  <1>1. Len(Layout["slow"]) = 23
    BY DEF Layout, Kinds
  <1>2. Len(Layout["fast"]) = 24
    BY DEF Layout, Kinds
  <1>3. Len(Layout["nowhere"]) = 17
    BY DEF Layout, Kinds
  <1>4. LastCell = 29
    BY <1>2 DEF LastCell
  <1>5. Len(Fields) = 11
    BY DEF Fields
  <1>6. QED BY <1>1, <1>2, <1>3, <1>4, <1>5 DEF Cells

LEMMA ValuesAre ==
  Values = {"TIME_STAMP", "VALIDITY", "LATITUDE", "LATITUDE_DIRECTION", "LONGITUDE",
            "LONGITUDE_DIRECTION", "SPEED", "TRUE_COURSE", "DATE_STAMP", "VARIATION",
            "VARIATION_DIRECTION"}
  <1>1. DOMAIN Fields = 1..11
    BY DEF Fields
  <1>2. Values = {Fields[i] : i \in 1..11}
    BY <1>1 DEF Values, ToSet
  <1>3. 1..11 = {1, 2, 3, 4, 5, 6, 7, 8, 9, 10, 11}
    OBVIOUS
  <1>4. QED BY <1>2, <1>3 DEF Fields

LEMMA FieldsDiffer ==
  /\ \A k \in 1..11 : Fields[k] \in Values
  /\ \A k, l \in 1..11 : Fields[k] = Fields[l] => k = l
  <1>1. \A k \in 1..11 : Fields[k] \in Values
    BY ValuesAre DEF Fields
  <1>2. \A k, l \in 1..11 : Fields[k] = Fields[l] => k = l
    BY DEF Fields
  <1>3. QED BY <1>1, <1>2

(* A field is its characters, all of its own label, and ends at a comma.   *)
LEMMA LayoutIs ==
  ASSUME NEW kind \in Kinds, NEW k \in 1..11
  PROVE  /\ Begin[kind][k] \in 1..Len(Layout[kind])
         /\ Begin[kind][k + 1] \in (Begin[kind][k] + 1)..Len(Layout[kind])
         /\ Layout[kind][Begin[kind][k + 1] - 1] = "comma"
         /\ \A i \in Begin[kind][k]..(Begin[kind][k + 1] - 2) : Layout[kind][i] = Fields[k]
  <1> DEFINE Goal == /\ Begin[kind][k] \in 1..Len(Layout[kind])
                     /\ Begin[kind][k + 1] \in (Begin[kind][k] + 1)..Len(Layout[kind])
                     /\ Layout[kind][Begin[kind][k + 1] - 1] = "comma"
                     /\ \A i \in Begin[kind][k]..(Begin[kind][k + 1] - 2) :
                          Layout[kind][i] = Fields[k]
  <1> SUFFICES Goal
    OBVIOUS
  <1>1. CASE kind = "slow"
    <2> USE <1>1 DEF Begin, Layout, Kinds, Fields
    <2>1. CASE k = 1  BY <2>1
    <2>2. CASE k = 2  BY <2>2
    <2>3. CASE k = 3  BY <2>3
    <2>4. CASE k = 4  BY <2>4
    <2>5. CASE k = 5  BY <2>5
    <2>6. CASE k = 6  BY <2>6
    <2>7. CASE k = 7  BY <2>7
    <2>8. CASE k = 8  BY <2>8
    <2>9. CASE k = 9  BY <2>9
    <2>10. CASE k = 10  BY <2>10
    <2>11. CASE k = 11  BY <2>11
    <2> HIDE <1>1 DEF Begin, Layout, Kinds, Fields, Goal
    <2>12. QED BY <2>1, <2>2, <2>3, <2>4, <2>5, <2>6, <2>7, <2>8, <2>9, <2>10, <2>11
  <1>2. CASE kind = "fast"
    <2> USE <1>2 DEF Begin, Layout, Kinds, Fields
    <2>1. CASE k = 1  BY <2>1
    <2>2. CASE k = 2  BY <2>2
    <2>3. CASE k = 3  BY <2>3
    <2>4. CASE k = 4  BY <2>4
    <2>5. CASE k = 5  BY <2>5
    <2>6. CASE k = 6  BY <2>6
    <2>7. CASE k = 7  BY <2>7
    <2>8. CASE k = 8  BY <2>8
    <2>9. CASE k = 9  BY <2>9
    <2>10. CASE k = 10  BY <2>10
    <2>11. CASE k = 11  BY <2>11
    <2> HIDE <1>2 DEF Begin, Layout, Kinds, Fields, Goal
    <2>12. QED BY <2>1, <2>2, <2>3, <2>4, <2>5, <2>6, <2>7, <2>8, <2>9, <2>10, <2>11
  <1>3. CASE kind = "nowhere"
    <2> USE <1>3 DEF Begin, Layout, Kinds, Fields
    <2>1. CASE k = 1  BY <2>1
    <2>2. CASE k = 2  BY <2>2
    <2>3. CASE k = 3  BY <2>3
    <2>4. CASE k = 4  BY <2>4
    <2>5. CASE k = 5  BY <2>5
    <2>6. CASE k = 6  BY <2>6
    <2>7. CASE k = 7  BY <2>7
    <2>8. CASE k = 8  BY <2>8
    <2>9. CASE k = 9  BY <2>9
    <2>10. CASE k = 10  BY <2>10
    <2>11. CASE k = 11  BY <2>11
    <2> HIDE <1>3 DEF Begin, Layout, Kinds, Fields, Goal
    <2>12. QED BY <2>1, <2>2, <2>3, <2>4, <2>5, <2>6, <2>7, <2>8, <2>9, <2>10, <2>11
  <1>4. QED BY <1>1, <1>2, <1>3, KindsAre

LEMMA LayoutBegins ==
  ASSUME NEW kind \in Kinds
  PROVE  /\ Begin[kind][1] = 1 /\ Layout[kind][1] = "TIME_STAMP"
         /\ Len(Layout[kind]) \in 17..24 /\ Begin[kind][12] = Len(Layout[kind])
  <1>1. CASE kind = "slow"     BY <1>1 DEF Begin, Layout, Kinds
  <1>2. CASE kind = "fast"     BY <1>2 DEF Begin, Layout, Kinds
  <1>3. CASE kind = "nowhere"  BY <1>3 DEF Begin, Layout, Kinds
  <1>4. QED BY <1>1, <1>2, <1>3, KindsAre

(* The fields follow each other.                                           *)
LEMMA BeginGrows ==
  ASSUME NEW kind \in Kinds, NEW k \in 1..12, NEW l \in 1..12, k <= l
  PROVE  Begin[kind][k] \in 1..24 /\ Begin[kind][k] <= Begin[kind][l]
  <1>1. CASE kind = "slow"     BY <1>1 DEF Begin, Kinds
  <1>2. CASE kind = "fast"     BY <1>2 DEF Begin, Kinds
  <1>3. CASE kind = "nowhere"  BY <1>3 DEF Begin, Kinds
  <1>4. QED BY <1>1, <1>2, <1>3, KindsAre

LEMMA LabelsAre ==
  ASSUME NEW kind \in Kinds, NEW i \in 1..Len(Layout[kind])
  PROVE  Layout[kind][i] \in Values \cup {"MODE", "comma"}
  <1>1. CASE kind = "slow"     BY <1>1, ValuesAre DEF Layout, Kinds
  <1>2. CASE kind = "fast"     BY <1>2, ValuesAre DEF Layout, Kinds
  <1>3. CASE kind = "nowhere"  BY <1>3, ValuesAre DEF Layout, Kinds
  <1>4. QED BY <1>1, <1>2, <1>3, KindsAre

(* With a position they are alike up to the speed.                         *)
LEMMA PlaceAlike ==
  ASSUME NEW kind \in Kinds, kind # "nowhere"
  PROVE  /\ Len(Layout[kind]) >= 15
         /\ \A i \in 1..15 : Layout[kind][i] = Layout["slow"][i]
  <1>1. CASE kind = "slow"  BY <1>1 DEF Layout, Kinds
  <1>2. CASE kind = "fast"  BY <1>2 DEF Layout, Kinds
  <1>3. QED BY <1>1, <1>2, KindsAre

LEMMA CharFacts ==
  ASSUME NEW c \in Chars, sentences \in Nat
  PROVE  /\ c[2] \in 0..sentences /\ c # NUL /\ c # JUNK
         /\ c[1] \in Values \cup {"MODE", "comma"}
         /\ c[1] = "comma" <=> c = COMMA
         /\ c # COMMA => c \in Digits
  <1>1. COMMA[1] = "comma" /\ COMMA[2] = 0 /\ NUL[1] = "nul" /\ JUNK[1] = "junk"
    BY DEF COMMA, NUL, JUNK
  <1>2. CASE c = COMMA
    BY <1>1, <1>2
  <1>3. CASE c \in Digits
    <2>1. c[1] \in Values \cup {"MODE"} /\ c[2] \in 1..sentences
      BY <1>3 DEF Digits
    <2>2. c[1] # "comma" /\ c[1] # "nul" /\ c[1] # "junk"
      BY <2>1, ValuesAre
    <2>3. QED BY <1>1, <1>3, <2>1, <2>2
  <1>4. QED BY <1>2, <1>3 DEF Chars

LEMMA MarksDiffer ==
  /\ COMMA # NUL /\ COMMA # JUNK /\ NUL # JUNK /\ COMMA[2] = 0 /\ NUL[2] = 0 /\ JUNK[2] = 0
  /\ COMMA \notin Digits /\ NUL \notin Digits /\ JUNK \notin Digits
  <1>1. /\ COMMA[1] = "comma" /\ NUL[1] = "nul" /\ JUNK[1] = "junk"
        /\ COMMA[2] = 0 /\ NUL[2] = 0 /\ JUNK[2] = 0
    BY DEF COMMA, NUL, JUNK
  <1>2. \A c \in Digits : c[1] \notin {"comma", "nul", "junk"}
    BY ValuesAre DEF Digits
  <1>3. QED BY <1>1, <1>2

(* The text of a sentence.                                                 *)
LEMMA SentenceIs ==
  ASSUME NEW n \in 1..MaxSentences, NEW kind \in Kinds
  PROVE  /\ Len(Sentence(n, kind)) = Len(Layout[kind])
         /\ LaidOut(Sentence(n, kind), kind, 12)
         /\ Sentence(n, kind) \in Seq(((Values \cup {"MODE"}) \X {n}) \cup {COMMA})
         /\ \A i \in 1..Len(Layout[kind]) :
              Sentence(n, kind)[i] = IF Layout[kind][i] = "comma" THEN COMMA
                                    ELSE <<Layout[kind][i], n>>
  <1> DEFINE s == Sentence(n, kind)
             S == ((Values \cup {"MODE"}) \X {n}) \cup {COMMA}
             m == Len(Layout[kind])
  <1>1. m \in Nat
    BY LayoutBegins
  <1>2. s = [i \in 1..m |-> IF Layout[kind][i] = "comma" THEN COMMA
                            ELSE <<Layout[kind][i], n>>]
    BY <1>1 DEF Sentence
  <1>3. \A i \in 1..m : s[i] = IF Layout[kind][i] = "comma" THEN COMMA
                               ELSE <<Layout[kind][i], n>>
    BY <1>2
  <1>4. \A i \in 1..m : s[i] \in S /\ s[i][1] = Layout[kind][i]
    <2> TAKE i \in 1..m
    <2>1. CASE Layout[kind][i] = "comma"
      <3>1. s[i] = COMMA
        BY <1>3, <2>1
      <3>2. s[i][1] = Layout[kind][i]
        BY <2>1, <3>1 DEF COMMA
      <3>3. QED BY <3>1, <3>2
    <2>2. CASE Layout[kind][i] # "comma"
      <3>1. s[i] = <<Layout[kind][i], n>>
        BY <1>3, <2>2
      <3>2. Layout[kind][i] \in Values \cup {"MODE"}
        BY <2>2, LabelsAre
      <3> HIDE DEF s
      <3>3. s[i][1] = Layout[kind][i]
        BY <3>1
      <3>4. s[i] \in (Values \cup {"MODE"}) \X {n}
        BY <3>1, <3>2
      <3>5. QED BY <3>3, <3>4
    <2>3. QED BY <2>1, <2>2
  <1> HIDE DEF S
  <1>5. s \in [1..m -> S]
    BY <1>2, <1>4
  <1>6. s \in Seq(S) /\ Len(s) = m
    BY <1>1, <1>5, SeqDef, LenProperties
  <1>7. LaidOut(s, kind, 12)
    <2>1. Begin[kind][12] = m
      BY LayoutBegins
    <2> HIDE DEF s
    <2>2. QED BY <1>1, <1>4, <1>6, <2>1 DEF LaidOut
  <1>8. QED BY <1>3, <1>6, <1>7 DEF S

-----------------------------------------------------------------------------
(* xstrtok(): the token ends at the first comma or NUL.                    *)
LEMMA TokenEndIs ==
  ASSUME Ended(record_str), ptr \in 1..28
  PROVE  /\ TokenEnd \in ptr..28
         /\ record_str[TokenEnd] \in {COMMA, NUL}
         /\ \A i \in ptr..(TokenEnd - 1) : record_str[i] \notin {COMMA, NUL}
  <1> DEFINE I == {i \in ptr..29 : record_str[i] \in {COMMA, NUL}}
  <1>1. 28 \in I /\ I \subseteq Nat
    BY DEF Ended
  <1>2. TokenEnd = CHOOSE i \in I : \A j \in I : i <= j
    BY <1>1, SizesAre DEF TokenEnd, SelectInSubSeq, Min
  <1>3. \E i \in I : \A j \in I : i <= j
    <2>1. I \subseteq Nat /\ I # {}
      BY <1>1
    <2> HIDE DEF I
    <2>2. QED BY <2>1, Least
  <1>4. TokenEnd \in I /\ \A j \in I : TokenEnd <= j
    BY <1>2, <1>3
  <1>5. \A i \in ptr..28 : i < TokenEnd => record_str[i] \notin {COMMA, NUL}
    <2> TAKE i \in ptr..28
    <2>1. CASE i \in I
      BY <1>1, <1>4, <2>1
    <2>2. CASE i \notin I
      BY <2>2
    <2>3. QED BY <2>1, <2>2
  <1>6. TokenEnd \in ptr..28 /\ record_str[TokenEnd] \in {COMMA, NUL}
    BY <1>1, <1>4
  <1>7. \A i \in ptr..(TokenEnd - 1) : i \in ptr..28 /\ i < TokenEnd
    BY <1>6
  <1>8. QED BY <1>5, <1>6, <1>7

(* What the loop works on is text without commas.                          *)
LEMMA NextFieldType ==
  ASSUME TypeOK, Ended(record_str), ptr \in 1..28, NextField
  PROVE  /\ field' \in Seq(Digits \cup {JUNK}) /\ ptr' \in 1..29
         /\ record_str' \in [Cells -> Digits \cup {COMMA, NUL, JUNK}]
         /\ Ended(record_str')
  <1>1. /\ TokenEnd \in ptr..28
        /\ \A i \in ptr..(TokenEnd - 1) : record_str[i] \notin {COMMA, NUL}
    BY TokenEndIs
  <1> DEFINE S == Digits \cup {COMMA, NUL, JUNK}
  <1>0. record_str \in [1..29 -> S] /\ Cells = 1..29
    BY SizesAre DEF TypeOK
  <1>2. \A i \in ptr..(TokenEnd - 1) : record_str[i] \in Digits \cup {JUNK}
    BY <1>1, <1>0
  <1>3. SubSeq(record_str, ptr, TokenEnd - 1) \in Seq(Digits \cup {JUNK})
    BY <1>1, <1>2, SubSeqProperties
  <1>4. /\ field' = SubSeq(record_str, ptr, TokenEnd - 1) /\ ptr' = TokenEnd + 1
        /\ record_str' = [record_str EXCEPT ![TokenEnd] = NUL]
    BY DEF NextField
  <1>5. record_str' \in [Cells -> S] /\ Ended(record_str')
    <2>1. NUL \in S
      OBVIOUS
    <2> HIDE DEF S
    <2>2. record_str' \in [1..29 -> S]
      BY <1>0, <1>4, <2>1
    <2>3. \A i \in 1..29 : record_str'[i] = (IF i = TokenEnd THEN NUL ELSE record_str[i])
      BY <1>0, <1>4
    <2>4. QED BY <1>0, <2>2, <2>3 DEF Ended
  <1>6. ptr' \in 1..29
    BY <1>1, <1>4
  <1>7. QED BY <1>3, <1>4, <1>5, <1>6

(* Where the k-th field of a text is that is laid out like a sentence.     *)
LEMMA FieldLies ==
  ASSUME NEW text, NEW kind \in Kinds, NEW m \in 2..12, LaidOut(text, kind, m),
         Len(text) \in Nat, NEW k \in 1..11, k < m
  PROVE  /\ Begin[kind][k] \in 1..Len(text) /\ Begin[kind][k] \in 1..23
         /\ Begin[kind][k + 1] \in (Begin[kind][k] + 1)..Len(text)
         /\ Begin[kind][k + 1] \in 1..24 /\ Begin[kind][k + 1] <= Begin[kind][m]
  <1> DEFINE b == Begin[kind][k]
             e == Begin[kind][k + 1]
             l == Begin[kind][m]
  <1>1. b \in 1..24 /\ e \in 1..24 /\ e <= l /\ l \in 1..24
    <2>1. k + 1 \in 1..12 /\ k \in 1..12 /\ m \in 1..12 /\ k + 1 <= m
          /\ k <= k /\ m <= m
      OBVIOUS
    <2>2. b \in 1..24
      BY <2>1, BeginGrows
    <2>3. e \in 1..24 /\ e <= l
      BY <2>1, BeginGrows
    <2>4. l \in 1..24
      BY <2>1, BeginGrows
    <2>5. QED BY <2>2, <2>3, <2>4
  <1>2. e \in (b + 1)..Len(Layout[kind])
    BY LayoutIs
  <1>3. l <= Len(text)
    BY DEF LaidOut
  <1> HIDE DEF b, e, l
  <1>4. b < e
    BY <1>1, <1>2
  <1>5. b \in 1..Len(text) /\ b \in 1..23 /\ e \in (b + 1)..Len(text)
    BY <1>1, <1>3, <1>4
  <1>6. QED BY <1>1, <1>5 DEF b, e, l

LEMMA FieldLabels ==
  ASSUME NEW text, NEW kind \in Kinds, NEW m \in 2..12, LaidOut(text, kind, m),
         Len(text) \in Nat, NEW k \in 1..11, k < m, NEW i \in 1..(Begin[kind][k + 1] - 1)
  PROVE  text[i][1] = Layout[kind][i]
  <1> DEFINE e == Begin[kind][k + 1]
             l == Begin[kind][m]
  <1>1. e \in 1..24 /\ e <= l
    BY FieldLies
  <1>2. l \in 1..24
    <2>1. m \in 1..12 /\ m <= m
      OBVIOUS
    <2>2. QED BY <2>1, BeginGrows
  <1>3. \A j \in 1..l : text[j][1] = Layout[kind][j]
    BY DEF LaidOut
  <1> HIDE DEF e, l
  <1>4. i \in 1..(e - 1)
    BY DEF e
  <1>5. i \in 1..l
    BY <1>1, <1>2, <1>4
  <1>6. QED BY <1>3, <1>5

(* In a text that is laid out like a sentence it is the field at "ptr".    *)
LEMMA NextFieldIs ==
  ASSUME sentences \in Nat, record_str \in [Cells -> Digits \cup {COMMA, NUL, JUNK}],
         Ended(record_str), NextField,
         NEW text \in Seq(Chars), NEW kind \in Kinds, NEW m \in 2..12,
         LaidOut(text, kind, m), NEW k \in 1..11, k < m, ptr = Begin[kind][k],
         \A i \in ptr..Len(text) : record_str[i] = text[i]
  PROVE  /\ field' = SubSeq(text, Begin[kind][k], Begin[kind][k + 1] - 2)
         /\ ptr' = Begin[kind][k + 1]
         /\ \A i \in ptr'..Len(text) : record_str'[i] = text[i]
  <1> DEFINE b == Begin[kind][k]
             e == Begin[kind][k + 1]
             n == Len(text)
  <1>0. n \in Nat
    OBVIOUS
  <1>sizes. n \in Nat /\ b \in 1..n /\ e \in (b + 1)..n /\ b \in 1..23 /\ e \in 1..24
    BY <1>0, FieldLies
  <1>1. /\ Layout[kind][e - 1] = "comma"
        /\ \A i \in b..(e - 2) : Layout[kind][i] = Fields[k]
        /\ \A i \in 1..(e - 1) : text[i][1] = Layout[kind][i]
    <2>1. /\ Layout[kind][e - 1] = "comma"
          /\ \A i \in b..(e - 2) : Layout[kind][i] = Fields[k]
      BY LayoutIs
    <2>2. \A i \in 1..(e - 1) : text[i][1] = Layout[kind][i]
      BY <1>0, FieldLabels
    <2>3. QED BY <2>1, <2>2
  <1>2. \A i \in 1..n : text[i] \in Chars
    OBVIOUS
  <1>3. Fields[k] # "comma"
    BY FieldsDiffer, ValuesAre
  <1>4. text[e - 1] = COMMA
    <2>1. e - 1 \in 1..n /\ e - 1 \in 1..(e - 1)
      <3> HIDE DEF b, e, n
      <3>1. QED BY <1>sizes
    <2>2. text[e - 1] \in Chars /\ text[e - 1][1] = "comma"
      BY <1>1, <1>2, <2>1
    <2>3. QED BY <2>2, CharFacts
  <1>5. \A i \in b..(e - 2) : text[i] \notin {COMMA, NUL}
    <2> TAKE i \in b..(e - 2)
    <2>1. i \in 1..n /\ i \in 1..(e - 1)
      BY <1>sizes
    <2>2. text[i] \in Chars /\ text[i][1] # "comma"
      BY <1>1, <1>2, <1>3, <2>1
    <2>3. QED BY <2>2, CharFacts
  <1>6. ptr = b /\ \A i \in b..n : record_str[i] = text[i]
    OBVIOUS
  <1> HIDE DEF b, e, n
  <1>ints. b \in 1..28 /\ e \in Int
    BY <1>sizes
  <1>7. /\ TokenEnd \in b..28 /\ record_str[TokenEnd] \in {COMMA, NUL}
        /\ \A i \in b..(TokenEnd - 1) : record_str[i] \notin {COMMA, NUL}
    <2>1. ptr \in 1..28 /\ ptr = b
      BY <1>ints, <1>6
    <2>2. QED BY <2>1, TokenEndIs
  <1>8. TokenEnd = e - 1
    <2>1. e - 1 \in b..n /\ record_str[e - 1] \in {COMMA, NUL}
      BY <1>sizes, <1>4, <1>6
    <2>2. ~ (e - 1 < TokenEnd)
      BY <1>ints, <1>7, <2>1
    <2>3. ~ (TokenEnd < e - 1)
      <3>1. SUFFICES ASSUME TokenEnd < e - 1
                     PROVE  FALSE
        OBVIOUS
      <3>2. TokenEnd \in b..(e - 2) /\ TokenEnd \in b..n
        BY <1>sizes, <1>7, <3>1
      <3>3. text[TokenEnd] \notin {COMMA, NUL} /\ record_str[TokenEnd] = text[TokenEnd]
        BY <1>5, <1>6, <3>2
      <3>4. QED BY <1>7, <3>3
    <2>4. QED BY <1>ints, <1>7, <2>2, <2>3
  <1>9. /\ field' = SubSeq(record_str, b, e - 2) /\ ptr' = e
        /\ record_str' = [record_str EXCEPT ![e - 1] = NUL]
    <2>1. TokenEnd - 1 = e - 2 /\ TokenEnd + 1 = e
      BY <1>ints, <1>8
    <2>2. QED BY <1>6, <1>8, <2>1 DEF NextField
  <1>10. SubSeq(record_str, b, e - 2) = SubSeq(text, b, e - 2)
    <2>1. \A i \in b..(e - 2) : record_str[i] \in Chars /\ text[i] \in Chars
                                /\ record_str[i] = text[i]
      BY <1>sizes, <1>2, <1>6
    <2>2. b \in Int /\ e - 2 \in Int
      BY <1>ints
    <2> DEFINE s == SubSeq(record_str, b, e - 2)
               t == SubSeq(text, b, e - 2)
               w == IF b <= e - 2 THEN e - 2 - b + 1 ELSE 0
    <2>3. /\ s \in Seq(Chars) /\ Len(s) = w
          /\ \A i \in 1..(e - 2 - b + 1) : s[i] = record_str[b + i - 1]
      BY <2>1, <2>2, SubSeqProperties
    <2>4. /\ t \in Seq(Chars) /\ Len(t) = w
          /\ \A i \in 1..(e - 2 - b + 1) : t[i] = text[b + i - 1]
      BY <2>1, <2>2, SubSeqProperties
    <2>5. \A i \in 1..Len(s) : s[i] = t[i]
      <3> TAKE i \in 1..Len(s)
      <3>1. i \in 1..w
        BY <2>3
      <3>2. i \in 1..(e - 2 - b + 1) /\ b + i - 1 \in b..(e - 2)
        BY <1>ints, <3>1 DEF w
      <3>3. QED BY <2>1, <2>3, <2>4, <3>2
    <2> HIDE DEF s, t, w
    <2>6. s = t
      BY <2>3, <2>4, <2>5, SeqEqual
    <2>7. QED BY <2>6 DEF s, t
  <1>11. \A i \in e..n : record_str'[i] = text[i]
    <2> TAKE i \in e..n
    <2>1. i \in b..n /\ i # e - 1
      BY <1>sizes
    <2>2. record_str'[i] = record_str[i]
      BY <1>9, <2>1
    <2>3. QED BY <1>6, <2>1, <2>2
  <1>12. QED BY <1>9, <1>10, <1>11 DEF b, e, n

-----------------------------------------------------------------------------
(* The copy is text up to its NUL.                                         *)
LEMMA CopiedIs ==
  ASSUME sentences \in Nat, record_str \in [Cells -> Digits \cup {COMMA, NUL, JUNK}],
         NEW e \in 2..25, record_str[e] = NUL, \A i \in 1..(e - 1) : record_str[i] \in Chars
  PROVE  /\ Copied \in Seq(Chars) /\ Len(Copied) = e - 1
         /\ \A i \in 1..(e - 1) : Copied[i] = record_str[i]
  <1> DEFINE I == {i \in 1..29 : record_str[i] = NUL}
             S == Digits \cup {COMMA, NUL, JUNK}
  <1>1. Len(record_str) = 29
    <2>1. record_str \in [1..29 -> S]
      BY SizesAre
    <2> HIDE DEF S
    <2>2. PICK m \in Nat : m = 29
      OBVIOUS
    <2>3. record_str \in [1..m -> S]
      BY <2>1, <2>2
    <2>4. record_str \in Seq(S)
      BY <2>3, SeqDef
    <2>5. Len(record_str) \in Nat /\ DOMAIN record_str = 1..Len(record_str)
      BY <2>4, LenProperties
    <2>6. DOMAIN record_str = 1..m
      BY <2>3
    <2>7. Len(record_str) = m
      <3>1. PICK k \in Nat : k = Len(record_str)
        BY <2>5
      <3>2. 1..k = 1..m
        BY <2>5, <2>6, <3>1
      <3>3. (m \in 1..m => m \in 1..k) /\ (k \in 1..k => k \in 1..m)
        BY <3>2
      <3>4. m <= k /\ k <= m
        BY <2>2, <3>3
      <3>5. QED BY <3>1, <3>4
    <2>8. QED BY <2>2, <2>7
  <1>2. e \in I /\ I \subseteq Nat
    OBVIOUS
  <1>3. SelectInSeq(record_str, LAMBDA c : c = NUL) = CHOOSE i \in I : \A j \in I : i <= j
    BY <1>1, <1>2 DEF SelectInSeq, Min
  <1>4. \E i \in I : \A j \in I : i <= j
    BY <1>2, Least
  <1>5. PICK k \in I : /\ \A j \in I : k <= j
                       /\ k = SelectInSeq(record_str, LAMBDA c : c = NUL)
    BY <1>3, <1>4
  <1>6. \A i \in 1..(e - 1) : record_str[i] # NUL
    <2> TAKE i \in 1..(e - 1)
    <2>1. record_str[i] \in Chars
      OBVIOUS
    <2>2. QED BY <2>1, CharFacts
  <1>7. k = e
    <2>1. k \in 1..29 /\ record_str[k] = NUL /\ k <= e
      BY <1>2, <1>5
    <2>2. ~ (k \in 1..(e - 1))
      BY <1>6, <2>1
    <2>3. QED BY <2>1, <2>2
  <1>8. Copied = SubSeq(record_str, 1, e - 1)
    BY <1>5, <1>7 DEF Copied
  <1>9. /\ SubSeq(record_str, 1, e - 1) \in Seq(Chars)
        /\ Len(SubSeq(record_str, 1, e - 1)) = e - 1
        /\ \A i \in 1..(e - 1) : SubSeq(record_str, 1, e - 1)[i] = record_str[1 + i - 1]
    BY SubSeqProperties
  <1>10. QED BY <1>8, <1>9

(* Damage leaves a text that begins with its time.                         *)
LEMMA RemoveIs ==
  ASSUME NEW S, NEW s \in Seq(S), NEW i \in 2..Len(s)
  PROVE  /\ RemoveAt(s, i) \in Seq(S) /\ Len(RemoveAt(s, i)) = Len(s) - 1
         /\ RemoveAt(s, i)[1] = s[1]
  <1> DEFINE a == SubSeq(s, 1, i - 1)
             b == SubSeq(s, i + 1, Len(s))
  <1>1. Len(s) \in Nat /\ \A j \in 1..Len(s) : s[j] \in S
    BY ElementOfSeq, LenProperties
  <1>2. a \in Seq(S) /\ Len(a) = i - 1 /\ a[1] = s[1]
    <2>1. \A j \in 1..(i - 1) : s[j] \in S
      BY <1>1
    <2>2. /\ a \in Seq(S) /\ Len(a) = i - 1
          /\ \A j \in 1..(i - 1 - 1 + 1) : a[j] = s[1 + j - 1]
      BY <2>1, SubSeqProperties
    <2>3. QED BY <2>2
  <1>3. b \in Seq(S) /\ Len(b) = Len(s) - i
    <2>1. \A j \in (i + 1)..Len(s) : s[j] \in S
      BY <1>1
    <2>2. /\ b \in Seq(S)
          /\ Len(b) = IF i + 1 <= Len(s) THEN Len(s) - (i + 1) + 1 ELSE 0
      BY <1>1, <2>1, SubSeqProperties
    <2>3. QED BY <1>1, <2>2
  <1>4. RemoveAt(s, i) = a \o b
    BY DEF RemoveAt
  <1> HIDE DEF a, b
  <1>5. /\ a \o b \in Seq(S) /\ Len(a \o b) = Len(a) + Len(b)
        /\ (a \o b)[1] = a[1]
    <2>1. /\ a \o b \in Seq(S) /\ Len(a \o b) = Len(a) + Len(b)
          /\ \A j \in 1..(Len(a) + Len(b)) :
               (a \o b)[j] = IF j <= Len(a) THEN a[j] ELSE b[j - Len(a)]
      BY <1>2, <1>3, ConcatProperties
    <2>2. 1 <= Len(a) /\ 1 \in 1..(Len(a) + Len(b))
      BY <1>1, <1>2, <1>3
    <2>3. QED BY <2>1, <2>2
  <1>6. QED BY <1>1, <1>2, <1>3, <1>4, <1>5

(* More characters are known when a sentence has come.                     *)
LEMMA DigitsGrow ==
  ASSUME sentences \in Nat, sentences' = sentences + 1
  PROVE  Digits \subseteq Digits' /\ Chars \subseteq Chars'
  <1>1. Digits' = (Values \cup {"MODE"}) \X (1..sentences')
    BY DEF Digits
  <1>2. Digits \subseteq Digits'
    BY <1>1 DEF Digits
  <1>3. QED BY <1>2 DEF Chars

(* What comes from the line.                                               *)
LEMMA ArrivedText ==
  ASSUME TypeOK, NEW kind \in Kinds, GprmcArrives(kind)
  PROVE  \E text \in Seq(Chars') :
           /\ nmea_record_string' = StoredText(text)
           /\ Len(text) \in 16..24 /\ text[1] = <<"TIME_STAMP", sentences'>>
           /\ \/ damaged' = damaged /\ text = Sentence(sentences', kind)
              \/ damaged' = damaged \cup {sentences'}
  <1> DEFINE n == sentences'
             s == Sentence(n, kind)
  <1>1. n = sentences + 1 /\ n \in 1..MaxSentences
    BY MaxIsNat DEF GprmcArrives, TypeOK
  <1>2. /\ Len(s) \in 17..24 /\ s[1] = <<"TIME_STAMP", n>> /\ s \in Seq(Chars')
    <2>1. /\ Len(s) = Len(Layout[kind])
          /\ s \in Seq(((Values \cup {"MODE"}) \X {n}) \cup {COMMA})
          /\ \A i \in 1..Len(Layout[kind]) :
               s[i] = IF Layout[kind][i] = "comma" THEN COMMA ELSE <<Layout[kind][i], n>>
      BY <1>1, SentenceIs
    <2>2. Len(s) \in 17..24 /\ s[1] = <<"TIME_STAMP", n>>
      <3>1. Len(Layout[kind]) \in 17..24 /\ Layout[kind][1] = "TIME_STAMP"
        BY LayoutBegins
      <3>2. 1 \in 1..Len(Layout[kind])
        BY <3>1
      <3>3. QED BY <2>1, <3>1, <3>2
    <2>3. ((Values \cup {"MODE"}) \X {n}) \cup {COMMA} \subseteq Chars'
      <3>1. n \in 1..sentences'
        BY <1>1
      <3>2. (Values \cup {"MODE"}) \X {n} \subseteq (Values \cup {"MODE"}) \X (1..sentences')
        BY <3>1
      <3>3. QED BY <3>2 DEF Chars, Digits
    <2>4. QED BY <2>1, <2>2, <2>3, SeqMonotonic
  <1> HIDE DEF s
  <1>3. CASE nmea_record_string' = StoredText(s) /\ UNCHANGED damaged
    BY <1>2, <1>3 DEF s
  <1>4. CASE /\ damaged' = damaged \cup {n}
             /\ \E i \in 1..Len(s) :
                  s[i] = COMMA /\ nmea_record_string' = StoredText(RemoveAt(s, i))
    <2>1. PICK i \in 1..Len(s) :
            s[i] = COMMA /\ nmea_record_string' = StoredText(RemoveAt(s, i))
      BY <1>4
    <2>2. i # 1
      <3>1. s[1] # COMMA
        BY <1>2 DEF COMMA
      <3>2. QED BY <2>1, <3>1
    <2>3. i \in 2..Len(s)
      BY <1>2, <2>1, <2>2
    <2>4. /\ RemoveAt(s, i) \in Seq(Chars') /\ Len(RemoveAt(s, i)) = Len(s) - 1
          /\ RemoveAt(s, i)[1] = s[1]
      BY <1>2, <2>3, RemoveIs
    <2>5. Len(RemoveAt(s, i)) \in 16..24
      <3>1. PICK m \in 17..24 : m = Len(s)
        BY <1>2
      <3>2. Len(RemoveAt(s, i)) = m - 1
        BY <2>4, <3>1
      <3>3. QED BY <3>2
    <2>6. QED BY <1>2, <1>4, <2>1, <2>4, <2>5
  <1>5. QED BY <1>3, <1>4 DEF GprmcArrives, s

-----------------------------------------------------------------------------
(* A sentence arrives: what main() works on stays what it is.              *)
LEMMA ArrivalType ==
  ASSUME TypeOK, NEW kind \in Kinds, GprmcArrives(kind)
  PROVE  TypeOK'
  <1> DEFINE n == sentences'
  <1>1. n = sentences + 1 /\ n \in 1..MaxSentences /\ sentences \in Nat
    BY MaxIsNat DEF GprmcArrives, TypeOK
  <1>2. Digits \subseteq Digits' /\ Chars \subseteq Chars'
    BY <1>1, DigitsGrow
  <1>3. PICK text \in Seq(Chars') :
          /\ nmea_record_string' = StoredText(text) /\ Len(text) \in 16..24
          /\ damaged' = damaged \/ damaged' = damaged \cup {n}
    BY ArrivedText
  <1>4. n \in 0..MaxSentences /\ kinds' \in [1..n -> Kinds] /\ damaged' \subseteq 1..n
    <2>1. kinds \in [1..sentences -> Kinds] /\ damaged \subseteq 1..sentences
      BY DEF TypeOK
    <2>2. kinds' = [i \in 1..n |-> IF i = n THEN kind ELSE kinds[i]]
      BY DEF GprmcArrives
    <2>3. 1..sentences \subseteq 1..n /\ n \in 1..n /\ n \in 0..MaxSentences
          /\ \A i \in 1..n : i # n => i \in 1..sentences
      BY <1>1, MaxIsNat
    <2> HIDE DEF n
    <2>4. kinds' \in [1..n -> Kinds]
      BY <2>1, <2>2, <2>3
    <2>5. QED BY <1>3, <2>1, <2>3, <2>4
  <1>5. nmea_record_string' \in [Cells -> Digits' \cup {COMMA, NUL}]
    <2>1. \A i \in 1..Len(text) : text[i] \in Digits' \cup {COMMA, NUL}
      BY ElementOfSeq DEF Chars
    <2>2. \A i \in Cells : nmea_record_string[i] \in Digits' \cup {COMMA, NUL}
      BY <1>2 DEF TypeOK
    <2>3. \A i \in Cells : i <= Len(text) => i \in 1..Len(text)
      BY <1>3, SizesAre
    <2>4. QED BY <1>3, <2>1, <2>2, <2>3 DEF StoredText
  <1>6. UNCHANGED <<record_str, ptr, field, val_state, gprmc_record, valid_values, copied,
                    whole, latitude, longitude, caller, reg, pc>>
    BY DEF GprmcArrives, copyVars, parseVars, fieldVars, recordVars, history, callVars
  <1>7. record_str' \in [Cells -> Digits' \cup {COMMA, NUL, JUNK}]
    <2>1. Digits \cup {COMMA, NUL, JUNK} \subseteq Digits' \cup {COMMA, NUL, JUNK}
      BY <1>2
    <2>2. record_str \in [Cells -> Digits \cup {COMMA, NUL, JUNK}]
      BY DEF TypeOK
    <2>3. QED BY <1>6, <2>1, <2>2
  <1>8. Seq(Digits \cup {JUNK}) \subseteq Seq(Digits' \cup {JUNK})
    <2>1. Digits \cup {JUNK} \subseteq Digits' \cup {JUNK}
      BY <1>2
    <2>2. QED BY <2>1, SeqMonotonic
  <1>9. /\ field' \in Seq(Digits' \cup {JUNK})
        /\ latitude' \in Seq(Digits' \cup {JUNK}) /\ longitude' \in Seq(Digits' \cup {JUNK})
        /\ gprmc_record' \in [Values -> Seq(Digits' \cup {JUNK})]
    BY <1>6, <1>8 DEF TypeOK
  <1>10. copied' \in Seq(Digits' \cup {COMMA})
    <2>1. Digits \cup {COMMA} \subseteq Digits' \cup {COMMA}
      BY <1>2
    <2>2. copied \in Seq(Digits \cup {COMMA})
      BY DEF TypeOK
    <2>3. QED BY <1>6, <2>1, <2>2, SeqMonotonic
  <1>11. nmea_record_dirty_strings' \subseteq Types
    BY DEF GprmcArrives, TypeOK, Types
  <1>12. /\ ptr' \in Cells /\ val_state' \in 1..(Len(Fields) + 1)
         /\ reg' \subseteq Types /\ valid_values' \subseteq Values /\ whole' \in BOOLEAN
         /\ caller' \in {"none", "parse", "latitude", "longitude"} /\ pc' \in Locations
    BY <1>6 DEF TypeOK
  <1>13. QED BY <1>4, <1>5, <1>7, <1>9, <1>10, <1>11, <1>12 DEF TypeOK

LEMMA ArrivalStep ==
  ASSUME GpsInv, NEW kind \in Kinds, GprmcArrives(kind)
  PROVE  GpsInv'
  <1> DEFINE n == sentences'
  <1>1. TypeOK'
    BY ArrivalType DEF GpsInv
  <1>2. n = sentences + 1 /\ sentences \in Nat /\ Digits \subseteq Digits' /\ Chars \subseteq Chars'
    BY MaxIsNat, DigitsGrow DEF GprmcArrives, GpsInv, TypeOK
  <1>kinds. kinds'[n] = kind /\ \A m \in 1..sentences : m \in 1..n /\ kinds'[m] = kinds[m]
    <2>1. kinds' = [i \in 1..n |-> IF i = n THEN kind ELSE kinds[i]]
      BY DEF GprmcArrives
    <2>2. n \in 1..n /\ \A m \in 1..sentences : m \in 1..n /\ m # n
      BY <1>2
    <2> HIDE DEF n
    <2>3. QED BY <2>1, <2>2
  <1>3. UNCHANGED <<record_str, ptr, field, val_state, gprmc_record, valid_values, copied,
                    whole, latitude, longitude, caller, reg, pc>>
    BY DEF GprmcArrives, copyVars, parseVars, fieldVars, recordVars, history, callVars
  <1>4. PICK text \in Seq(Chars') :
          /\ nmea_record_string' = StoredText(text)
          /\ Len(text) \in 16..24 /\ text[1] = <<"TIME_STAMP", n>>
          /\ \/ damaged' = damaged /\ text = Sentence(n, kind)
             \/ damaged' = damaged \cup {n}
    BY ArrivedText DEF GpsInv
  <1>5. \A i \in 1..29 :
          nmea_record_string'[i] = IF i <= Len(text) THEN text[i]
                                   ELSE IF i = Len(text) + 1 THEN NUL ELSE nmea_record_string[i]
    BY <1>4, SizesAre DEF StoredText
  <1>6. CallInv'
    BY <1>3 DEF CallInv, GpsInv
  <1>7. StringInv'
    <2>1. \A i \in 25..29 : nmea_record_string'[i] = NUL
      <3> TAKE i \in 25..29
      <3>1. i \in 1..29 /\ ~(i <= Len(text))
        <4>1. PICK m \in 16..24 : m = Len(text)
          BY <1>4
        <4>2. i \in 1..29 /\ ~(i <= m)
          OBVIOUS
        <4>3. QED BY <4>1, <4>2
      <3>2. nmea_record_string[i] = NUL
        BY DEF GpsInv, StringInv
      <3>3. QED BY <1>5, <3>1, <3>2
    <2>2. nmea_record_string'[1] = <<"TIME_STAMP", n>>
      <3>1. 1 \in 1..29 /\ 1 <= Len(text)
        BY <1>4
      <3>2. QED BY <1>4, <1>5, <3>1
    <2>3. n > 0
      BY <1>2
    <2>4. QED BY <2>1, <2>2, <2>3 DEF StringInv
  <1>8. CopyInv'
    <2>1. CopyInv
      BY DEF GpsInv
    <2> HIDE DEF n
    <2>2. QED BY <1>2, <1>3, <2>1 DEF CopyInv, Behind, UpTo
  <1>9. WalkInv'
    BY <1>3 DEF GpsInv, WalkInv, LaidOut, Walking, Piece
  <1>10. PlacedInv'
    <2>1. SUFFICES ASSUME AllPlaced'
                   PROVE  PlacedCopies' /\ PlacedRecord'
      BY DEF PlacedInv
    <2>2. kind # "nowhere"
      <3>1. n \in 1..n
        BY <1>2
      <3>2. QED BY <1>kinds, <2>1, <3>1 DEF AllPlaced
    <2>3. damaged' = damaged /\ text = Sentence(n, kind) /\ damaged = {}
      BY <1>4, <2>1 DEF AllPlaced
    <2>4. AllPlaced
      BY <1>kinds, <2>1, <2>3 DEF AllPlaced
    <2>5. PlacedCopies /\ PlacedRecord
      BY <2>4 DEF GpsInv, PlacedInv
    <2>6. \A i \in 1..15 : nmea_record_string'[i] = Sentence(n, "slow")[i]
      <3>1. n \in 1..MaxSentences
        BY <1>2, MaxIsNat DEF GprmcArrives, GpsInv, TypeOK
      <3>2. /\ Len(text) = Len(Layout[kind]) /\ Len(Layout[kind]) >= 15
            /\ \A i \in 1..Len(Layout[kind]) :
                 text[i] = IF Layout[kind][i] = "comma" THEN COMMA ELSE <<Layout[kind][i], n>>
            /\ \A i \in 1..15 : Layout[kind][i] = Layout["slow"][i]
        BY <2>2, <2>3, <3>1, SentenceIs, PlaceAlike
      <3>3. "slow" \in Kinds /\ Len(Layout["slow"]) = 23
        BY SizesAre DEF Kinds
      <3>4. \A i \in 1..23 : Sentence(n, "slow")[i] = IF Layout["slow"][i] = "comma" THEN COMMA
                                                    ELSE <<Layout["slow"][i], n>>
        BY <3>1, <3>3, SentenceIs
      <3>5. Len(Layout[kind]) \in Nat
        BY LayoutBegins
      <3>6. \A i \in 1..15 : i \in 1..29 /\ i <= Len(text) /\ i \in 1..Len(Layout[kind])
                            /\ i \in 1..23
        BY <3>2, <3>5
      <3>7. \A i \in 1..15 : nmea_record_string'[i] = text[i]
        BY <1>5, <3>6
      <3> TAKE i \in 1..15
      <3>8. text[i] = Sentence(n, "slow")[i]
        BY <3>2, <3>4, <3>6
      <3>9. QED BY <3>7, <3>8
    <2>7. PlacedCopies'
      BY <1>3, <2>5, <2>6 DEF PlacedCopies, PlacedText, UpTo
    <2>8. PlacedRecord'
      BY <1>3, <2>5 DEF PlacedRecord, Between, NotNewer
    <2>9. QED BY <2>7, <2>8
  <1>11. WholeInv'
    <2>1. WholeInv
      BY DEF GpsInv
    <2>2. whole' /\ pc' = "fields" =>
            \E m \in 1..n : copied' = Sentence(m, kinds'[m]) /\ Behind(m)'
      <3>1. SUFFICES ASSUME whole, pc = "fields"
                     PROVE  \E m \in 1..n :
                              copied' = Sentence(m, kinds'[m]) /\ Behind(m)'
        BY <1>3
      <3>2. PICK m \in 1..sentences : copied = Sentence(m, kinds[m]) /\ Behind(m)
        BY <2>1, <3>1 DEF WholeInv
      <3>3. Behind(m)'
        BY <1>3, <3>2 DEF Behind, UpTo
      <3>4. m \in 1..n /\ kinds'[m] = kinds[m]
        BY <1>kinds
      <3>5. copied' = Sentence(m, kinds'[m])
        BY <1>3, <3>2, <3>4
      <3>6. QED BY <3>3, <3>4, <3>5
    <2>3. QED BY <1>3, <2>1, <2>2 DEF WholeInv, KeptBy, NotNewer
  <1>12. QED BY <1>1, <1>6, <1>7, <1>8, <1>9, <1>10, <1>11 DEF GpsInv

-----------------------------------------------------------------------------
(* Nothing that is kept is of a sentence yet to come.                      *)
LEMMA BehindNow ==
  ASSUME TypeOK
  PROVE  Behind(sentences)
  <1>1. \A c \in Digits \cup {JUNK} : c[2] <= sentences
    <2> TAKE c \in Digits \cup {JUNK}
    <2>1. sentences \in Nat
      BY MaxIsNat DEF TypeOK
    <2>2. CASE c = JUNK
      BY <2>1, <2>2, MarksDiffer
    <2>3. CASE c \in Digits
      <3>1. c[2] \in 1..sentences
        BY <2>3 DEF Digits
      <3>2. QED BY <2>1, <3>1
    <2>4. QED BY <2>2, <2>3
  <1>2. ASSUME NEW text \in Seq(Digits \cup {JUNK})
        PROVE  UpTo(text, sentences)
    <2>1. \A i \in 1..Len(text) : text[i] \in Digits \cup {JUNK}
      BY ElementOfSeq
    <2>2. QED BY <1>1, <2>1 DEF UpTo
  <1>3. /\ gprmc_record["LATITUDE"] \in Seq(Digits \cup {JUNK})
        /\ gprmc_record["LONGITUDE"] \in Seq(Digits \cup {JUNK})
    BY ValuesAre DEF TypeOK
  <1>4. latitude \in Seq(Digits \cup {JUNK}) /\ longitude \in Seq(Digits \cup {JUNK})
    BY DEF TypeOK
  <1>5. QED BY <1>2, <1>3, <1>4 DEF Behind

(* strcpy() copies a character: of the sentence that came last, or of one  *)
(* before whose end was not overwritten.                                   *)
LEMMA CopyStep ==
  ASSUME GpsInv, Copy
  PROVE  GpsInv'
  <1>1. /\ pc = "copy" /\ record_str' = [record_str EXCEPT ![ptr] = nmea_record_string[ptr]]
        /\ UNCHANGED <<sentences, kinds, damaged, nmea_record_string,
                       nmea_record_dirty_strings, field, val_state, gprmc_record,
                       valid_values, copied, whole, latitude, longitude, caller, reg>>
    BY DEF Copy, stringVars, parseVars, fieldVars, recordVars, history, callVars
  <1>2. /\ ptr \in 1..25 /\ sentences \in Nat \ {0}
        /\ \A i \in 1..(ptr - 1) : record_str[i] \in Chars
        /\ Ended(record_str) /\ val_state = 1 /\ copied = <<>>
    <2>1. ptr \in 1..29 /\ sentences \in Nat
      BY MaxIsNat, SizesAre DEF GpsInv, TypeOK
    <2>2. /\ ptr <= 25 /\ \A i \in 1..(ptr - 1) : record_str[i] \in Chars
          /\ Ended(record_str) /\ val_state = 1 /\ copied = <<>>
      BY <1>1 DEF GpsInv, CopyInv
    <2>3. sentences > 0
      BY <1>1 DEF GpsInv, StringInv
    <2>4. QED BY <2>1, <2>2, <2>3
  <1>3. /\ nmea_record_string \in [1..29 -> Digits \cup {COMMA, NUL}]
        /\ record_str \in [1..29 -> Digits \cup {COMMA, NUL, JUNK}]
    BY SizesAre DEF GpsInv, TypeOK
  <1>4. \A i \in 1..29 :
          record_str'[i] = IF i = ptr THEN nmea_record_string[ptr] ELSE record_str[i]
    BY <1>1, <1>3
  <1>5. \/ nmea_record_string[ptr] = NUL /\ ptr' = 1 /\ pc' = "first_field"
        \/ /\ nmea_record_string[ptr] # NUL /\ nmea_record_string[ptr] \in Chars
           /\ ptr' = ptr + 1 /\ pc' = "copy" /\ ptr \in 1..24
    <2>1. CASE nmea_record_string[ptr] = NUL
      BY <2>1 DEF Copy
    <2>2. CASE nmea_record_string[ptr] # NUL
      <3>1. nmea_record_string[ptr] \in Chars
        <4>1. ptr \in 1..29
          BY <1>2
        <4>2. nmea_record_string[ptr] \in Digits \cup {COMMA, NUL}
          BY <1>3, <4>1
        <4>3. QED BY <2>2, <4>2 DEF Chars
      <3>2. ptr # 25
        BY <2>2 DEF GpsInv, StringInv
      <3>3. QED BY <1>1, <1>2, <2>2, <3>1, <3>2 DEF Copy
    <2>3. QED BY <2>1, <2>2
  <1>6. nmea_record_string[1] = <<"TIME_STAMP", sentences>> /\ nmea_record_string[1] # NUL
    <2>1. nmea_record_string[1] = <<"TIME_STAMP", sentences>>
      BY <1>2 DEF GpsInv, StringInv
    <2>2. QED BY <2>1 DEF NUL
  <1>7. Behind(sentences)
    BY BehindNow DEF GpsInv
  <1>8. TypeOK'
    <2>1. record_str' \in [Cells -> Digits \cup {COMMA, NUL, JUNK}]
      <3>1. ptr \in 1..29
        BY <1>2
      <3>2. nmea_record_string[ptr] \in Digits \cup {COMMA, NUL, JUNK}
        BY <1>3, <3>1
      <3>3. record_str' \in [1..29 -> Digits \cup {COMMA, NUL, JUNK}]
        BY <1>1, <1>3, <3>2
      <3>4. QED BY <3>3, SizesAre
    <2>2. ptr' \in Cells
      <3>1. ptr' = 1 \/ (ptr' = ptr + 1 /\ ptr \in 1..24)
        BY <1>5
      <3>2. ptr' \in 1..29
        BY <3>1
      <3>3. QED BY <3>2, SizesAre
    <2>3. pc' \in Locations
      BY <1>5 DEF Locations
    <2>4. Digits' = Digits
      BY <1>1 DEF Digits
    <2>5. QED BY <1>1, <2>1, <2>2, <2>3, <2>4 DEF GpsInv, TypeOK
  <1>9. CallInv' /\ StringInv'
    <2>1. caller # "none"
      BY <1>1 DEF GpsInv, CallInv
    <2>2. CallInv'
      BY <1>1, <1>5, <2>1 DEF CallInv
    <2>3. StringInv
      BY DEF GpsInv
    <2>4. sentences > 0
      BY <1>2
    <2>5. StringInv'
      BY <1>1, <2>3, <2>4 DEF StringInv
    <2>6. QED BY <2>2, <2>5
  <1>10. CopyInv'
    <2>1. Chars' = Chars /\ \A n : Behind(n)' <=> Behind(n)
      BY <1>1 DEF Chars, Digits, Behind, UpTo
    <2>2. Ended(record_str')
      <3>1. ptr # 28 /\ ptr # 29 /\ Ended(record_str)
        BY <1>2
      <3>2. QED BY <1>4, <3>1 DEF Ended
    <2>3. ptr > 1 => record_str[1][1] = "TIME_STAMP" /\ Behind(record_str[1][2])
      BY <1>1 DEF GpsInv, CopyInv
    <2>4. CASE nmea_record_string[ptr] = NUL
      <3>1. ptr' = 1 /\ pc' = "first_field" /\ ptr \in 2..25
        <4>1. ptr # 1
          BY <1>6, <2>4
        <4>2. QED BY <1>2, <1>5, <2>4, <4>1
      <3>2. record_str'[ptr] = NUL /\ \A i \in 1..(ptr - 1) : record_str'[i] \in Chars
        <4>1. ptr \in 1..29 /\ \A i \in 1..(ptr - 1) : i \in 1..29 /\ i # ptr
          BY <3>1
        <4>2. QED BY <1>2, <1>4, <2>4, <4>1
      <3>3. record_str'[1] = record_str[1] /\ ptr > 1
        BY <1>4, <3>1
      <3>4. QED BY <1>1, <1>2, <2>1, <2>2, <2>3, <3>1, <3>2, <3>3 DEF CopyInv
    <2>5. CASE nmea_record_string[ptr] # NUL
      <3>1. /\ ptr' = ptr + 1 /\ pc' = "copy" /\ ptr \in 1..24
            /\ nmea_record_string[ptr] \in Chars
        BY <1>5, <2>5
      <3>2. \A i \in 1..(ptr' - 1) : record_str'[i] \in Chars
        <4> TAKE i \in 1..(ptr' - 1)
        <4>1. i \in 1..29 /\ (i = ptr \/ i \in 1..(ptr - 1))
          BY <3>1
        <4>2. QED BY <1>2, <1>4, <3>1, <4>1
      <3>3. record_str'[1][1] = "TIME_STAMP" /\ Behind(record_str'[1][2])
        <4>1. CASE ptr = 1
          <5>1. record_str'[1] = <<"TIME_STAMP", sentences>>
            BY <1>4, <1>6, <4>1
          <5>2. QED BY <1>7, <5>1
        <4>2. CASE ptr # 1
          <5>1. record_str'[1] = record_str[1] /\ ptr > 1
            BY <1>2, <1>4, <4>2
          <5>2. QED BY <2>3, <5>1
        <4>3. QED BY <4>1, <4>2
      <3>4. ptr' <= 25
        BY <3>1
      <3>5. QED BY <1>1, <1>2, <2>1, <2>2, <3>1, <3>2, <3>3, <3>4 DEF CopyInv
    <2>6. QED BY <2>4, <2>5
  <1>11. WalkInv' /\ WholeInv'
    <2>1. pc' # "fields"
      BY <1>5
    <2>2. QED BY <1>1, <2>1 DEF GpsInv, WalkInv, WholeInv, KeptBy, NotNewer
  <1>12. PlacedInv'
    <2>1. SUFFICES ASSUME AllPlaced
                   PROVE  PlacedCopies' /\ PlacedRecord'
      BY <1>1 DEF PlacedInv, AllPlaced
    <2>2. /\ PlacedRecord /\ PlacedText(record_str, ptr - 1)
          /\ \A i \in 1..15 : nmea_record_string[i] = Sentence(sentences, "slow")[i]
      <3>1. PlacedCopies /\ PlacedRecord
        BY <2>1 DEF GpsInv, PlacedInv
      <3>2. sentences > 0
        BY <1>2
      <3>3. QED BY <1>1, <3>1, <3>2 DEF PlacedCopies
    <2>3. PlacedRecord'
      BY <1>1, <1>5, <2>2 DEF PlacedRecord, Between, NotNewer
    <2>4. \A i \in 1..15 : /\ nmea_record_string[i] \in Chars
                           /\ nmea_record_string[i][1] = Layout["slow"][i]
                           /\ nmea_record_string[i] # COMMA =>
                                nmea_record_string[i][2] = sentences
      <3> TAKE i \in 1..15
      <3>1. sentences \in 1..MaxSentences
        BY <1>2, MaxIsNat DEF GpsInv, TypeOK
      <3>slow. "slow" \in Kinds /\ i \in 1..23 /\ Begin["slow"][12] = 23
        <4>1. "slow" \in Kinds
          BY DEF Kinds
        <4>2. Begin["slow"][12] = 23
          BY <4>1, LayoutBegins, SizesAre
        <4>3. QED BY <4>1, <4>2
      <3>2. /\ LaidOut(Sentence(sentences, "slow"), "slow", 12)
            /\ Len(Sentence(sentences, "slow")) = 23
            /\ Sentence(sentences, "slow")[i] = IF Layout["slow"][i] = "comma" THEN COMMA
                                              ELSE <<Layout["slow"][i], sentences>>
        BY <3>1, <3>slow, SentenceIs, SizesAre
      <3>3. /\ nmea_record_string[i][1] = Layout["slow"][i]
            /\ nmea_record_string[i] # COMMA => nmea_record_string[i][2] = sentences
        <4>1. nmea_record_string[i] = Sentence(sentences, "slow")[i]
          BY <2>2
        <4>2. Sentence(sentences, "slow")[i][1] = Layout["slow"][i]
          BY <3>2, <3>slow DEF LaidOut
        <4>3. nmea_record_string[i] # COMMA =>
                nmea_record_string[i] = <<Layout["slow"][i], sentences>>
          BY <3>2, <4>1
        <4>4. nmea_record_string[i] # COMMA => nmea_record_string[i][2] = sentences
          <5>1. SUFFICES ASSUME nmea_record_string[i] # COMMA
                         PROVE  nmea_record_string[i][2] = sentences
            OBVIOUS
          <5>2. nmea_record_string[i] = <<Layout["slow"][i], sentences>>
            BY <4>3, <5>1
          <5>3. QED BY <5>2
        <4>5. nmea_record_string[i][1] = Layout["slow"][i]
          BY <4>1, <4>2
        <4>6. QED BY <4>4, <4>5
      <3>4. nmea_record_string[i] # NUL
        <4>1. Layout["slow"][i] \in Values \cup {"MODE", "comma"}
          BY <3>slow, LabelsAre, SizesAre
        <4>2. NUL[1] = "nul"
          BY DEF NUL
        <4>3. QED BY <3>3, <4>1, <4>2, ValuesAre
      <3>5. nmea_record_string[i] \in Digits \cup {COMMA, NUL}
        BY <1>3
      <3>6. QED BY <3>3, <3>4, <3>5 DEF Chars
    <2>5. CASE nmea_record_string[ptr] = NUL
      <3>1. ptr \in 16..25
        <4>1. ptr \notin 1..15
          BY <2>4, <2>5, CharFacts, <1>2
        <4>2. QED BY <1>2, <4>1
      <3>2. PlacedText(record_str', 15)
        <4>1. \A i \in 1..15 : record_str'[i] = record_str[i]
          <5>1. \A i \in 1..15 : i \in 1..29 /\ i # ptr
            BY <3>1
          <5>2. QED BY <1>4, <5>1
        <4>2. \A i \in 1..15 : i <= ptr - 1 /\ \A j \in 1..i : j \in 1..15
          BY <3>1
        <4>3. QED BY <1>1, <2>2, <4>1, <4>2 DEF PlacedText, UpTo
      <3>4. pc' = "first_field"
        BY <1>5, <2>5
      <3>5. PlacedText(record_str, 15)' <=> PlacedText(record_str', 15)
        BY <1>1 DEF PlacedText, UpTo
      <3>6. PlacedCopies'
        BY <1>1, <2>2, <3>2, <3>4, <3>5 DEF PlacedCopies
      <3>7. QED BY <2>3, <3>6
    <2>6. CASE nmea_record_string[ptr] # NUL
      <3>1. ptr' = ptr + 1 /\ pc' = "copy" /\ ptr \in 1..24
        BY <1>5, <2>6
      <3>2. \A i \in 1..(ptr - 1) : record_str'[i] = record_str[i]
        <4>1. \A i \in 1..(ptr - 1) : i \in 1..29 /\ i # ptr
          BY <3>1
        <4>2. QED BY <1>4, <4>1
      <3>3. record_str'[ptr] = nmea_record_string[ptr]
        <4>1. ptr \in 1..29
          BY <3>1
        <4>2. QED BY <1>4, <4>1
      <3>4. \A i \in 1..ptr : record_str'[i][2] <= sentences
        <4> TAKE i \in 1..ptr
        <4>1. record_str'[i] \in Chars
          <5>1. i = ptr \/ i \in 1..(ptr - 1)
            BY <1>2
          <5>2. QED BY <1>2, <1>5, <2>6, <3>1, <3>2, <3>3, <5>1
        <4>2. record_str'[i][2] \in 0..sentences
          BY <1>2, <4>1, CharFacts
        <4>3. QED BY <1>2, <4>2
      <3>5. PlacedText(record_str', ptr)
        <4> SUFFICES ASSUME NEW i \in 1..15, i <= ptr
                     PROVE  /\ record_str'[i][1] = Layout["slow"][i]
                            /\ record_str'[i] # COMMA =>
                                 /\ UpTo(latitude, record_str'[i][2])
                                 /\ \A j \in 1..i : record_str'[j][2] <= record_str'[i][2]
          BY DEF PlacedText
        <4>1. CASE i = ptr
          <5>1. record_str'[i] # COMMA => record_str'[i][2] = sentences
            BY <2>4, <3>1, <3>3, <4>1
          <5>2. UpTo(latitude, sentences)
            BY <1>7 DEF Behind
          <5>3. \A j \in 1..i : record_str'[j][2] <= sentences
            BY <3>4, <4>1
          <5>4. QED BY <2>4, <3>3, <4>1, <5>1, <5>2, <5>3
        <4>2. CASE i # ptr
          <5>1. i <= ptr - 1 /\ i \in 1..(ptr - 1) /\ \A j \in 1..i : j \in 1..(ptr - 1)
            BY <1>2, <4>2
          <5>2. QED BY <2>2, <3>2, <5>1 DEF PlacedText
        <4>3. QED BY <4>1, <4>2
      <3>6. ptr' - 1 = ptr
        BY <1>2, <3>1
      <3>7. PlacedText(record_str, ptr - 1)' <=> PlacedText(record_str', ptr' - 1)
        BY <1>1 DEF PlacedText, UpTo
      <3>8. PlacedCopies'
        BY <1>1, <2>2, <3>1, <3>5, <3>6, <3>7 DEF PlacedCopies
      <3>9. QED BY <2>3, <3>8
    <2>7. QED BY <2>5, <2>6
  <1>13. QED BY <1>8, <1>9, <1>10, <1>11, <1>12 DEF GpsInv

-----------------------------------------------------------------------------
(* The copy is complete, and the first field is looked up.                 *)
LEMMA FirstFieldStep ==
  ASSUME GpsInv, FirstField
  PROVE  GpsInv'
  <1>1. /\ pc = "first_field" /\ NextField /\ pc' = "fields"
        /\ copied' = Copied /\ whole' = (whole /\ IsSentence(Copied))
        /\ UNCHANGED <<sentences, kinds, damaged, nmea_record_string,
                       nmea_record_dirty_strings, val_state, gprmc_record, valid_values,
                       latitude, longitude, caller, reg>>
    BY DEF FirstField, stringVars, recordVars, callVars
  <1>2. /\ TypeOK /\ sentences \in Nat /\ Ended(record_str) /\ ptr = 1 /\ val_state = 1
        /\ record_str \in [Cells -> Digits \cup {COMMA, NUL, JUNK}]
        /\ Behind(record_str[1][2])
    <2>1. /\ TypeOK /\ sentences \in Nat
          /\ record_str \in [Cells -> Digits \cup {COMMA, NUL, JUNK}]
      BY MaxIsNat DEF GpsInv, TypeOK
    <2>2. CopyInv
      BY DEF GpsInv
    <2>3. Ended(record_str) /\ ptr = 1 /\ val_state = 1 /\ Behind(record_str[1][2])
      BY <1>1, <2>2 DEF CopyInv
    <2>4. QED BY <2>1, <2>3
  <1>3. PICK e \in 2..25 :
          record_str[e] = NUL /\ \A i \in 1..(e - 1) : record_str[i] \in Chars
    BY <1>1 DEF GpsInv, CopyInv
  <1>4. PICK text \in Seq(Chars) : /\ text = Copied /\ Len(text) = e - 1
                                   /\ \A i \in 1..(e - 1) : text[i] = record_str[i]
    BY <1>2, <1>3, CopiedIs
  <1>5. TypeOK'
    <2>1. /\ field' \in Seq(Digits \cup {JUNK}) /\ ptr' \in 1..29
          /\ record_str' \in [Cells -> Digits \cup {COMMA, NUL, JUNK}]
      <3>1. ptr \in 1..28
        BY <1>2
      <3>2. QED BY <1>1, <1>2, <3>1, NextFieldType
    <2>2. copied' \in Seq(Digits \cup {COMMA})
      BY <1>1, <1>4 DEF Chars
    <2>3. whole' \in BOOLEAN /\ pc' \in Locations
      BY <1>1, <1>2 DEF TypeOK, Locations
    <2>4. Digits' = Digits
      BY <1>1 DEF Digits
    <2>5. ptr' \in Cells
      BY <2>1, SizesAre
    <2>6. QED BY <1>1, <1>2, <2>1, <2>2, <2>3, <2>4, <2>5 DEF TypeOK
  <1>6. CallInv' /\ StringInv' /\ CopyInv'
    <2>1. CallInv'
      BY <1>1 DEF GpsInv, CallInv
    <2>2. StringInv'
      BY <1>1 DEF GpsInv, StringInv
    <2>3. Ended(record_str')
      <3>1. ptr \in 1..28
        BY <1>2
      <3>2. QED BY <1>1, <1>2, <3>1, NextFieldType
    <2>4. CopyInv'
      BY <1>1, <2>3 DEF CopyInv
    <2>5. QED BY <2>1, <2>2, <2>4
  <1>7. WalkInv'
    <2>1. SUFFICES ASSUME NEW kind \in Kinds, NEW m \in 2..12, LaidOut(text, kind, m)
                   PROVE  Walking(kind, m)'
      BY <1>1, <1>4 DEF WalkInv, LaidOut
    <2>2. ptr = Begin[kind][1]
      BY <1>2, LayoutBegins
    <2>3. \A i \in ptr..Len(text) : record_str[i] = text[i]
      BY <1>2, <1>4
    <2>4. /\ field' = SubSeq(text, Begin[kind][1], Begin[kind][1 + 1] - 2)
          /\ ptr' = Begin[kind][1 + 1]
          /\ \A i \in ptr'..Len(text) : record_str'[i] = text[i]
      <3>1. 1 \in 1..11 /\ 1 < m
        OBVIOUS
      <3>2. QED BY <1>1, <1>2, <2>1, <2>2, <2>3, <3>1, NextFieldIs
    <2>5. copied' = text /\ val_state' = 1
      BY <1>1, <1>2, <1>4
    <2>6. \A k \in 1..(m - 1) : ~(k < val_state')
      BY <2>5
    <2>7. QED BY <2>4, <2>5, <2>6 DEF Walking, Piece
  <1>8. PlacedInv'
    <2>1. SUFFICES ASSUME AllPlaced
                   PROVE  PlacedCopies' /\ PlacedRecord'
      BY <1>1 DEF PlacedInv, AllPlaced
    <2>2. PlacedCopies /\ PlacedRecord
      BY <2>1 DEF GpsInv, PlacedInv
    <2>3. PlacedText(record_str, 15)
      BY <1>1, <2>2 DEF PlacedCopies
    <2>4. e \in 16..25
      <3>1. \A i \in 1..15 : record_str[i] # NUL
        <4> TAKE i \in 1..15
        <4>1. record_str[i][1] = Layout["slow"][i]
          BY <2>3 DEF PlacedText
        <4>2. Layout["slow"][i] \in Values \cup {"MODE", "comma"}
          <5>1. "slow" \in Kinds /\ i \in 1..Len(Layout["slow"])
            BY SizesAre DEF Kinds
          <5>2. QED BY <5>1, LabelsAre
        <4>3. NUL[1] = "nul"
          BY DEF NUL
        <4>4. QED BY <4>1, <4>2, <4>3, ValuesAre
      <3>2. e \notin 1..15
        BY <1>3, <3>1
      <3>3. QED BY <3>2
    <2>5. PlacedText(text, 15) /\ Len(text) >= 15
      <3>1. Len(text) >= 15 /\ \A i \in 1..15 : text[i] = record_str[i]
        <4>1. \A i \in 1..15 : i \in 1..(e - 1)
          BY <2>4
        <4>2. QED BY <1>4, <2>4, <4>1
      <3>2. ASSUME NEW i \in 1..15
            PROVE  /\ text[i][1] = Layout["slow"][i]
                   /\ text[i] # COMMA => UpTo(latitude, text[i][2])
                                         /\ \A j \in 1..i : text[j][2] <= text[i][2]
        <4>0. i <= 15 /\ \A j \in 1..i : j \in 1..15
          OBVIOUS
        <4>1. \A j \in 1..i : text[j] = record_str[j]
          BY <3>1, <4>0
        <4>2. text[i] = record_str[i]
          BY <3>1
        <4>3. QED BY <2>3, <4>0, <4>1, <4>2 DEF PlacedText
      <3>3. QED BY <3>1, <3>2 DEF PlacedText
    <2>6. PlacedText(copied, 15)' /\ Len(copied') >= 15 /\ val_state' # 7
      BY <1>1, <1>2, <1>4, <2>5 DEF PlacedText, UpTo
    <2>7. PlacedCopies'
      BY <1>1, <2>2, <2>6 DEF PlacedCopies
    <2>8. ~Between /\ ~Between'
      BY <1>1, <1>2 DEF Between
    <2>9. PlacedRecord'
      BY <1>1, <2>2, <2>8 DEF PlacedRecord, NotNewer
    <2>10. QED BY <2>7, <2>9
  <1>9. WholeInv'
    <2>1. WholeInv
      BY DEF GpsInv
    <2>2. ASSUME whole'
          PROVE  \E n \in 1..sentences' : copied' = Sentence(n, kinds'[n]) /\ Behind(n)'
      <3>1. PICK n \in 1..sentences : Copied = Sentence(n, kinds[n])
        BY <1>1, <2>2 DEF IsSentence
      <3>2. text[1] = <<"TIME_STAMP", n>>
        <4> DEFINE kind == kinds[n]
        <4>1. n \in 1..MaxSentences
          BY <1>2, MaxIsNat DEF TypeOK
        <4>2. kind \in Kinds /\ text = Sentence(n, kind)
          BY <1>2, <1>4, <3>1 DEF TypeOK
        <4> HIDE DEF kind
        <4>3. Layout[kind][1] = "TIME_STAMP" /\ Len(Layout[kind]) \in 17..24
          BY <4>2, LayoutBegins
        <4>4. \A i \in 1..Len(Layout[kind]) :
                Sentence(n, kind)[i] = IF Layout[kind][i] = "comma" THEN COMMA
                                      ELSE <<Layout[kind][i], n>>
          BY <4>1, <4>2, SentenceIs
        <4>5. 1 \in 1..Len(Layout[kind])
          BY <4>3
        <4>6. QED BY <4>2, <4>3, <4>4, <4>5
      <3>3. record_str[1][2] = n
        BY <1>3, <1>4, <3>2
      <3>4. Behind(n)
        BY <1>2, <3>3
      <3>5. Behind(n)'
        BY <1>1, <3>4 DEF Behind, UpTo
      <3>6. QED BY <1>1, <3>1, <3>5
    <2>3. whole' => KeptBy("LATITUDE", latitude)' /\ KeptBy("LONGITUDE", longitude)'
      BY <1>1, <2>1, ZenonT(60) DEF WholeInv, KeptBy, NotNewer
    <2>4. QED BY <2>2, <2>3 DEF WholeInv
  <1>10. QED BY <1>5, <1>6, <1>7, <1>8, <1>9 DEF GpsInv

-----------------------------------------------------------------------------
(* The text of a field, all of its own label.                              *)
LEMMA PieceIs ==
  ASSUME sentences \in Nat, copied \in Seq(Chars), NEW kind \in Kinds,
         NEW m \in 2..12, LaidOut(copied, kind, m), NEW k \in 1..11, k < m
  PROVE  /\ Piece(k, kind) \in Seq(Chars)
         /\ Len(Piece(k, kind)) = Begin[kind][k + 1] - 1 - Begin[kind][k]
         /\ \A i \in 1..Len(Piece(k, kind)) :
              /\ Begin[kind][k] + i - 1 \in 1..Len(copied)
              /\ Piece(k, kind)[i] = copied[Begin[kind][k] + i - 1]
              /\ Piece(k, kind)[i][1] = Fields[k] /\ Piece(k, kind)[i] # COMMA
  <1> DEFINE b == Begin[kind][k]
             e == Begin[kind][k + 1]
             p == SubSeq(copied, b, e - 2)
  <1>0. Len(copied) \in Nat
    OBVIOUS
  <1>1. /\ b \in 1..Len(copied) /\ e \in (b + 1)..Len(copied) /\ b \in 1..23 /\ e \in 1..24
        /\ \A i \in b..(e - 2) : Layout[kind][i] = Fields[k]
    <2>1. /\ b \in 1..Len(copied) /\ e \in (b + 1)..Len(copied)
          /\ b \in 1..23 /\ e \in 1..24
      BY <1>0, FieldLies
    <2>2. \A i \in b..(e - 2) : Layout[kind][i] = Fields[k]
      BY LayoutIs
    <2>3. QED BY <2>1, <2>2
  <1>labels. \A i \in b..(e - 2) : copied[i][1] = Layout[kind][i]
    <2>1. \A i \in 1..(e - 1) : copied[i][1] = Layout[kind][i]
      BY <1>0, FieldLabels
    <2> HIDE DEF b, e
    <2>2. \A i \in b..(e - 2) : i \in 1..(e - 1)
      BY <1>1
    <2>3. QED BY <2>1, <2>2
  <1>2. Piece(k, kind) = p
    BY DEF Piece
  <1> HIDE DEF b, e
  <1>3. \A i \in b..(e - 2) : i \in 1..Len(copied) /\ copied[i] \in Chars
    BY <1>1
  <1>4. p \in Seq(Chars) /\ Len(p) = e - 1 - b /\ \A i \in 1..(e - 1 - b) : p[i] = copied[b + i - 1]
    <2>1. b \in Int /\ e - 2 \in Int
      BY <1>1
    <2>2. /\ p \in Seq(Chars) /\ Len(p) = IF b <= e - 2 THEN e - 2 - b + 1 ELSE 0
          /\ \A i \in 1..(e - 2 - b + 1) : p[i] = copied[b + i - 1]
      BY <1>3, <2>1, SubSeqProperties
    <2>3. e - 2 - b + 1 = e - 1 - b /\ (~(b <= e - 2) => e - 1 - b = 0)
      BY <1>1
    <2>4. QED BY <2>2, <2>3
  <1> HIDE DEF p
  <1>5. ASSUME NEW i \in 1..Len(p)
        PROVE  /\ b + i - 1 \in 1..Len(copied) /\ p[i] = copied[b + i - 1]
               /\ p[i][1] = Fields[k] /\ p[i] # COMMA
    <2>1. i \in 1..(e - 1 - b) /\ b + i - 1 \in b..(e - 2)
      BY <1>1, <1>4
    <2>2. b + i - 1 \in 1..Len(copied) /\ p[i] = copied[b + i - 1]
      BY <1>3, <1>4, <2>1
    <2>3. copied[b + i - 1][1] = Fields[k]
      BY <1>1, <1>labels, <2>1
    <2>4. p[i][1] = Fields[k]
      BY <2>2, <2>3
    <2>5. Fields[k] # COMMA[1]
      BY FieldsDiffer, ValuesAre DEF COMMA
    <2>6. p[i] # COMMA
      BY <2>4, <2>5
    <2>7. QED BY <2>2, <2>4, <2>6
  <1>6. QED BY <1>2, <1>4, <1>5 DEF b, e

(* The branch for a value writes that value and its bit.                   *)
LEMMA StoreFieldIs ==
  ASSUME TypeOK, StoreField
  PROVE  /\ val_state' \in 1..12 /\ valid_values' \subseteq Values
         /\ gprmc_record' \in [Values -> Seq(Digits \cup {JUNK})]
         /\ \/ val_state = 12 /\ UNCHANGED <<gprmc_record, valid_values, val_state>>
            \/ /\ val_state \in 1..11 /\ val_state' = val_state + 1
               /\ \A f \in Values : f # Fields[val_state] => gprmc_record'[f] = gprmc_record[f]
               /\ LET g == Fields[val_state] IN
                  IF field = <<>>
                  THEN gprmc_record'[g] = gprmc_record[g]
                       /\ valid_values' = valid_values \ {Bit(g)}
                  ELSE gprmc_record'[g] = field /\ valid_values' = valid_values \cup {Bit(g)}
  <1> DEFINE g == Fields[val_state]
             S == Seq(Digits \cup {JUNK})
  <1>1. /\ val_state \in 1..12 /\ Len(Fields) = 11 /\ gprmc_record \in [Values -> S]
        /\ valid_values \subseteq Values /\ field \in S
    <2>1. /\ val_state \in 1..(Len(Fields) + 1) /\ gprmc_record \in [Values -> S]
          /\ valid_values \subseteq Values /\ field \in S
      BY DEF TypeOK
    <2>2. Len(Fields) = 11
      BY SizesAre
    <2>3. QED BY <2>1, <2>2
  <1>2. CASE val_state > 11
    <2>1. val_state = 12 /\ UNCHANGED <<gprmc_record, valid_values, val_state>>
      BY <1>1, <1>2 DEF StoreField, recordVars
    <2>2. QED BY <1>1, <2>1
  <1>3. CASE ~(val_state > 11)
    <2>1. /\ val_state \in 1..11 /\ val_state' = val_state + 1
          /\ IF field = <<>>
             THEN valid_values' = valid_values \ {Bit(g)} /\ UNCHANGED gprmc_record
             ELSE /\ gprmc_record' = [gprmc_record EXCEPT ![g] = field]
                  /\ valid_values' = valid_values \cup {Bit(g)}
      BY <1>1, <1>3 DEF StoreField
    <2>2. g \in Values /\ Bit(g) \in Values
      BY <2>1, FieldsDiffer, ValuesAre DEF Bit
    <2>3. val_state' \in 1..12
      BY <2>1
    <2> HIDE DEF g, S
    <2>4. valid_values' \subseteq Values
      BY <1>1, <2>1, <2>2
    <2>5. gprmc_record' \in [Values -> S]
      BY <1>1, <2>1, <2>2
    <2>6. /\ \A f \in Values : f # g => gprmc_record'[f] = gprmc_record[f]
          /\ gprmc_record'[g] = IF field = <<>> THEN gprmc_record[g] ELSE field
      BY <1>1, <2>1, <2>2
    <2>7. QED BY <2>1, <2>3, <2>4, <2>5, <2>6 DEF g, S
  <1>4. QED BY <1>2, <1>3

(* What one turn of the loop changes, and what it knows.                   *)
LEMMA EachFieldIs ==
  ASSUME GpsInv, EachField
  PROVE  /\ pc = "fields" /\ pc' = "fields" /\ StoreField /\ NextField
         /\ UNCHANGED <<sentences, kinds, damaged, nmea_record_string,
                        nmea_record_dirty_strings, copied, whole, latitude, longitude,
                        caller, reg>>
         /\ TypeOK /\ sentences \in Nat /\ Ended(record_str) /\ ptr \in 1..28
         /\ copied \in Seq(Chars) /\ val_state \in 1..12
         /\ record_str \in [Cells -> Digits \cup {COMMA, NUL, JUNK}]
  <1>1. /\ pc = "fields" /\ pc' = "fields" /\ StoreField /\ NextField /\ More
        /\ UNCHANGED <<sentences, kinds, damaged, nmea_record_string,
                       nmea_record_dirty_strings, copied, whole, latitude, longitude,
                       caller, reg>>
    BY DEF EachField, stringVars, history, callVars
  <1>2. /\ TypeOK /\ sentences \in Nat /\ copied \in Seq(Chars)
        /\ val_state \in 1..(Len(Fields) + 1)
        /\ record_str \in [Cells -> Digits \cup {COMMA, NUL, JUNK}]
    BY MaxIsNat DEF GpsInv, TypeOK, Chars
  <1>4. Ended(record_str)
    BY DEF GpsInv, CopyInv
  <1>3. ptr \in 1..28
    <2>1. ptr \in 1..29
      BY SizesAre DEF GpsInv, TypeOK
    <2>2. ptr # 29
      BY <1>1, <1>4 DEF More, Ended
    <2>3. QED BY <2>1, <2>2
  <1>5. val_state \in 1..12
    BY <1>2, SizesAre
  <1>6. QED BY <1>1, <1>2, <1>3, <1>4, <1>5

LEMMA EachFieldWalk ==
  ASSUME GpsInv, EachField, NEW kind \in Kinds, NEW m \in 2..12, LaidOut(copied, kind, m)
  PROVE  Walking(kind, m) /\ Walking(kind, m)'
  <1>1. /\ pc = "fields" /\ NextField /\ UNCHANGED copied /\ TypeOK /\ sentences \in Nat
        /\ Ended(record_str) /\ ptr \in 1..28 /\ copied \in Seq(Chars)
        /\ record_str \in [Cells -> Digits \cup {COMMA, NUL, JUNK}]
    BY EachFieldIs
  <1>2. Walking(kind, m)
    BY <1>1 DEF GpsInv, WalkInv
  <1>3. \/ val_state = 12 /\ UNCHANGED <<gprmc_record, val_state>>
        \/ /\ val_state \in 1..11 /\ val_state' = val_state + 1
           /\ \A f \in Values : f # Fields[val_state] => gprmc_record'[f] = gprmc_record[f]
           /\ field # <<>> => gprmc_record'[Fields[val_state]] = field
    BY EachFieldIs, StoreFieldIs
  <1>4. \A k : Piece(k, kind)' = Piece(k, kind)
    BY <1>1 DEF Piece
  <1>5. CASE val_state = 12 /\ UNCHANGED <<gprmc_record, val_state>>
    <2>1. ~(val_state' < m)
      BY <1>5
    <2>2. \A k \in 1..(m - 1) :
            k < val_state' /\ Piece(k, kind)' # <<>> =>
              gprmc_record'[Fields[k]] = Piece(k, kind)'
      BY <1>2, <1>4, <1>5 DEF Walking
    <2>3. QED BY <1>2, <2>1, <2>2 DEF Walking
  <1>6. CASE /\ val_state \in 1..11 /\ val_state' = val_state + 1
             /\ \A f \in Values : f # Fields[val_state] => gprmc_record'[f] = gprmc_record[f]
             /\ field # <<>> => gprmc_record'[Fields[val_state]] = field
    <2> DEFINE v == val_state
    <2>1. \A k \in 1..(m - 1) :
            k < v /\ Piece(k, kind) # <<>> => gprmc_record[Fields[k]] = Piece(k, kind)
      BY <1>2 DEF Walking
    <2>2. v < m => /\ field = Piece(v, kind) /\ ptr = Begin[kind][v + 1]
                   /\ \A i \in ptr..Len(copied) : record_str[i] = copied[i]
      BY <1>2 DEF Walking
    <2>3. ASSUME NEW k \in 1..(m - 1), k < v + 1, Piece(k, kind) # <<>>
          PROVE  gprmc_record'[Fields[k]] = Piece(k, kind)
      <3>1. CASE k = v
        BY <1>6, <2>2, <2>3, <3>1
      <3>2. CASE k # v
        <4>1. k < v /\ k \in 1..11 /\ v \in 1..11
          BY <1>6, <2>3, <3>2
        <4>2. Fields[k] \in Values /\ Fields[k] # Fields[v]
          BY <3>2, <4>1, FieldsDiffer
        <4>3. gprmc_record'[Fields[k]] = gprmc_record[Fields[k]]
          BY <1>6, <4>2
        <4>4. QED BY <2>1, <2>3, <4>1, <4>3
      <3>3. QED BY <3>1, <3>2
    <2>4. ASSUME v + 1 < m
          PROVE  /\ field' = Piece(v + 1, kind) /\ ptr' = Begin[kind][v + 1 + 1]
                 /\ \A i \in ptr'..Len(copied) : record_str'[i] = copied[i]
      <3>1. v + 1 \in 1..11 /\ v < m
        BY <1>6, <2>4
      <3>2. ptr = Begin[kind][v + 1] /\ \A i \in ptr..Len(copied) : record_str[i] = copied[i]
        BY <2>2, <3>1
      <3>3. /\ field' = SubSeq(copied, Begin[kind][v + 1], Begin[kind][v + 1 + 1] - 2)
            /\ ptr' = Begin[kind][v + 1 + 1]
            /\ \A i \in ptr'..Len(copied) : record_str'[i] = copied[i]
        BY <1>1, <2>4, <3>1, <3>2, NextFieldIs, ZenonT(60)
      <3>4. QED BY <3>3 DEF Piece
    <2>5. v' = v + 1
      BY <1>6
    <2>6. \A k \in 1..(m - 1) :
            k < v' /\ Piece(k, kind)' # <<>> => gprmc_record'[Fields[k]] = Piece(k, kind)'
      BY <1>4, <2>3, <2>5
    <2>7. v' < m =>
            /\ field' = Piece(v, kind)' /\ ptr' = Begin[kind][v' + 1]
            /\ \A i \in ptr'..Len(copied') : record_str'[i] = copied'[i]
      <3>1. SUFFICES ASSUME v + 1 < m
                     PROVE  /\ field' = Piece(v, kind)' /\ ptr' = Begin[kind][v' + 1]
                            /\ \A i \in ptr'..Len(copied') : record_str'[i] = copied'[i]
        BY <2>5
      <3>2. Piece(v, kind)' = Piece(v + 1, kind)
        BY <1>1, <2>5 DEF Piece
      <3>3. QED BY <1>1, <2>4, <2>5, <3>1, <3>2
    <2> HIDE <1>6
    <2>8. Walking(kind, m)'
      BY <2>6, <2>7 DEF Walking
    <2>9. QED BY <1>2, <2>8
  <1>7. QED BY <1>2, <1>3, <1>5, <1>6

LEMMA FieldNumbers ==
  ASSUME NEW k \in 1..11
  PROVE  /\ Fields[k] = "LATITUDE" <=> k = 3
         /\ Fields[k] = "LONGITUDE" <=> k = 5
         /\ Fields[k] = "SPEED" <=> k = 7
  <1>1. Fields[3] = "LATITUDE" /\ Fields[5] = "LONGITUDE" /\ Fields[7] = "SPEED"
    BY DEF Fields
  <1>2. QED BY <1>1, FieldsDiffer

LEMMA Nonempty ==
  ASSUME NEW s, Len(s) # 0
  PROVE  s # <<>>
  <1>1. ASSUME s = <<>>
        PROVE  FALSE
    <2>1. Len(s) = 0
      BY <1>1
    <2>2. QED BY <2>1
  <1>2. QED BY <1>1

(* A copy has the fields before the speed, and the speed's first digit.    *)
LEMMA PlacedBegin ==
  /\ "slow" \in Kinds /\ Begin["slow"][7] = 15
  /\ Layout["slow"][15] = "SPEED" /\ Len(Layout["slow"]) = 23
  BY SizesAre DEF Begin, Layout, Kinds

LEMMA PlacedLaidOut ==
  ASSUME NEW text, PlacedText(text, 15), Len(text) >= 15
  PROVE  LaidOut(text, "slow", 7)
  <1>1. ASSUME NEW i \in 1..15
        PROVE  text[i][1] = Layout["slow"][i]
    <2>1. i <= 15
      OBVIOUS
    <2>2. QED BY <2>1 DEF PlacedText
  <1>2. QED BY <1>1, PlacedBegin DEF LaidOut

(* While all sentences have a position: where the speed is, and that a     *)
(* copy has one.                                                           *)
LEMMA SpeedComes ==
  ASSUME GpsInv, EachField, AllPlaced, val_state = 6
  PROVE  field' # <<>>
  <1>1. /\ pc = "fields" /\ NextField /\ Ended(record_str) /\ ptr \in 1..28
        /\ copied \in Seq(Chars) /\ sentences \in Nat
        /\ record_str \in [Cells -> Digits \cup {COMMA, NUL, JUNK}]
    BY EachFieldIs
  <1>2. PlacedText(copied, 15) /\ Len(copied) >= 15 /\ Len(copied) \in Nat
    BY <1>1 DEF GpsInv, PlacedInv, PlacedCopies
  <1>3. ptr = 15 /\ record_str[15] = copied[15]
    <2>1. Walking("slow", 7)
      BY <1>1, <1>2, PlacedLaidOut DEF GpsInv, WalkInv, Kinds
    <2>2. ptr = 15 /\ \A i \in ptr..Len(copied) : record_str[i] = copied[i]
      BY <2>1, PlacedBegin DEF Walking
    <2>3. QED BY <1>2, <2>2
  <1>4. record_str[15] \notin {COMMA, NUL}
    <2>1. copied[15][1] = "SPEED"
      BY <1>2 DEF PlacedText, Layout, Kinds
    <2>2. COMMA[1] = "comma" /\ NUL[1] = "nul"
      BY DEF COMMA, NUL
    <2>3. QED BY <1>3, <2>1, <2>2
  <1>5. TokenEnd \in 15..28 /\ record_str[TokenEnd] \in {COMMA, NUL}
    BY <1>1, <1>3, TokenEndIs
  <1>6. TokenEnd > 15
    BY <1>4, <1>5
  <1>7. field' = SubSeq(record_str, 15, TokenEnd - 1)
    BY <1>1, <1>3 DEF NextField
  <1>8. Len(field') = TokenEnd - 15
    <2> DEFINE S == Digits \cup {COMMA, NUL, JUNK}
    <2>1. \A i \in 15..(TokenEnd - 1) : record_str[i] \in S
      <3>1. \A i \in 15..(TokenEnd - 1) : i \in Cells
        BY <1>5, SizesAre
      <3>2. QED BY <1>1, <3>1
    <2>2. 15 \in Int /\ TokenEnd - 1 \in Int /\ 15 <= TokenEnd - 1
      BY <1>5, <1>6
    <2> HIDE DEF S
    <2>3. Len(SubSeq(record_str, 15, TokenEnd - 1)) = TokenEnd - 1 - 15 + 1
      BY <2>1, <2>2, SubSeqProperties
    <2>4. QED BY <1>5, <1>7, <2>3
  <1>9. QED BY <1>5, <1>6, <1>8, Nonempty

(* While all sentences have a position the loop stores each field before   *)
(* the speed as its own.                                                   *)
LEMMA EachFieldPlaced ==
  ASSUME GpsInv, EachField, AllPlaced
  PROVE  PlacedCopies' /\ PlacedRecord'
  <1>1. /\ pc = "fields" /\ pc' = "fields" /\ TypeOK /\ sentences \in Nat
        /\ copied \in Seq(Chars) /\ val_state \in 1..12
        /\ UNCHANGED <<sentences, nmea_record_string, copied, latitude, longitude, caller>>
    BY EachFieldIs
  <1>2. PlacedCopies /\ PlacedRecord
    BY DEF GpsInv, PlacedInv
  <1>3. /\ PlacedText(copied, 15) /\ Len(copied) >= 15 /\ Len(copied) \in Nat
        /\ val_state = 7 => field # <<>>
    BY <1>1, <1>2 DEF PlacedCopies
  <1>4. LaidOut(copied, "slow", 7) /\ "slow" \in Kinds
    BY <1>3, PlacedLaidOut DEF Kinds
  <1>5. Walking("slow", 7)
    BY <1>4, EachFieldWalk
  <1>turn. \/ val_state = 12 /\ UNCHANGED <<gprmc_record, valid_values, val_state>>
           \/ /\ val_state \in 1..11 /\ val_state' = val_state + 1
              /\ \A f \in Values : f # Fields[val_state] => gprmc_record'[f] = gprmc_record[f]
              /\ LET g == Fields[val_state] IN
                 IF field = <<>>
                 THEN gprmc_record'[g] = gprmc_record[g]
                      /\ valid_values' = valid_values \ {Bit(g)}
                 ELSE gprmc_record'[g] = field /\ valid_values' = valid_values \cup {Bit(g)}
    BY EachFieldIs, StoreFieldIs
  <1>6. PlacedCopies'
    <2>1. PlacedText(copied, 15)'
      BY <1>1, <1>3 DEF PlacedText, UpTo
    <2>2. val_state' = 7 => val_state = 6
      BY <1>turn
    <2>3. val_state' = 7 => field' # <<>>
      BY <2>2, SpeedComes
    <2>4. QED BY <1>1, <1>2, <1>3, <2>1, <2>3 DEF PlacedCopies
  <1>7. CASE val_state = 12 /\ UNCHANGED <<gprmc_record, valid_values, val_state>>
    <2>1. ~Between /\ ~Between'
      BY <1>7 DEF Between
    <2>2. PlacedRecord'
      BY <1>1, <1>2, <1>7, <2>1 DEF PlacedRecord, NotNewer
    <2>3. QED BY <1>6, <2>2
  <1> DEFINE v == val_state
             g == Fields[v]
             p == Piece(v, "slow")
  <1>8. ASSUME /\ v \in 1..11 /\ v' = v + 1
               /\ \A f \in Values : f # g => gprmc_record'[f] = gprmc_record[f],
               IF field = <<>>
               THEN gprmc_record'[g] = gprmc_record[g] /\ valid_values' = valid_values \ {Bit(g)}
               ELSE gprmc_record'[g] = field /\ valid_values' = valid_values \cup {Bit(g)}
        PROVE  PlacedRecord'
    <2>0. \A k \in 1..6 : k < v /\ Piece(k, "slow") # <<>> =>
                            gprmc_record[Fields[k]] = Piece(k, "slow")
      BY <1>5 DEF Walking
    <2>1. v < 7 => field = p
      BY <1>5 DEF Walking
    <2>2. v < 7 =>
            /\ Len(p) = Begin["slow"][v + 1] - 1 - Begin["slow"][v]
            /\ \A i \in 1..Len(p) :
                 /\ p[i] = copied[Begin["slow"][v] + i - 1] /\ p[i][1] = g /\ p[i] # COMMA
      <3>1. 7 \in 2..12
        OBVIOUS
      <3>2. QED BY <1>1, <1>4, <1>8, <3>1, PieceIs
    <2>3. \A f \in Aligned : \A i \in 1..Len(gprmc_record'[f]) : gprmc_record'[f][i][1] = f
      <3>1. TAKE f \in Aligned
      <3>2. \A i \in 1..Len(gprmc_record[f]) : gprmc_record[f][i][1] = f
        BY <1>2 DEF PlacedRecord
      <3>3. f \in Values /\ (f = g => v < 7)
        <4>1. f \in Values /\ \A k \in 7..11 : f # Fields[k]
          BY ValuesAre DEF Aligned, Place4, Fields
        <4>2. QED BY <1>8, <4>1
      <3>4. gprmc_record'[f] = gprmc_record[f] \/ (f = g /\ v < 7 /\ gprmc_record'[f] = p)
        BY <1>8, <2>1, <3>3
      <3> HIDE DEF p, g
      <3>5. CASE gprmc_record'[f] = gprmc_record[f]
        BY <3>2, <3>5
      <3>6. CASE f = g /\ v < 7 /\ gprmc_record'[f] = p
        BY <2>2, <3>6
      <3>7. QED BY <3>4, <3>5, <3>6
    <2>4. (v = 3 \/ gprmc_record'["LATITUDE"] = gprmc_record["LATITUDE"])
          /\ (v = 5 \/ gprmc_record'["LONGITUDE"] = gprmc_record["LONGITUDE"])
      BY <1>8, FieldNumbers, ValuesAre
    <2>5. v \in {5, 7} => "LONGITUDE" \in valid_values'
      <3>1. SUFFICES ASSUME v \in {5, 7}
                     PROVE  "LONGITUDE" \in valid_values'
        OBVIOUS
      <3>2. Bit(g) = "LONGITUDE"
        BY <1>8, <3>1, FieldNumbers DEF Bit
      <3>3. field # <<>>
        <4>1. CASE v = 7
          BY <1>3, <4>1
        <4>2. CASE v = 5
          <5>1. Len(p) = 2
            <6>1. Begin["slow"][5] = 10 /\ Begin["slow"][6] = 13
              BY DEF Begin, Kinds
            <6>2. v < 7 /\ v + 1 = 6
              BY <4>2
            <6>3. Begin["slow"][v] = 10 /\ Begin["slow"][v + 1] = 13
              BY <4>2, <6>1, <6>2
            <6> HIDE DEF p, g, v
            <6>4. Len(p) = 13 - 1 - 10
              BY <2>2, <6>2, <6>3
            <6>5. QED BY <6>4
          <5> HIDE DEF p
          <5>2. p # <<>>
            BY <5>1, Nonempty
          <5>3. QED BY <2>1, <4>2, <5>2
        <4>3. QED BY <3>1, <4>1, <4>2
      <3>4. QED BY <1>8, <3>2, <3>3
    <2>6. v \notin {5, 7} => ("LONGITUDE" \in valid_values' <=> "LONGITUDE" \in valid_values)
      BY <1>8, FieldNumbers DEF Bit
    <2>7. v # 3 => ("LATITUDE" \in valid_values' <=> "LATITUDE" \in valid_values)
      BY <1>8, FieldNumbers DEF Bit
    <2>8. v = 5 => /\ gprmc_record'["LONGITUDE"] = p
                   /\ NotNewer(latitude, p) /\ NotNewer(gprmc_record["LATITUDE"], p)
      <3>1. SUFFICES ASSUME v = 5
                     PROVE  /\ gprmc_record'["LONGITUDE"] = p
                            /\ NotNewer(latitude, p) /\ NotNewer(gprmc_record["LATITUDE"], p)
        OBVIOUS
      <3>2. Begin["slow"][v] = 10 /\ Len(p) = 2 /\ g = "LONGITUDE"
        <4>1. Begin["slow"][5] = 10 /\ Begin["slow"][6] = 13 /\ Fields[5] = "LONGITUDE"
          BY DEF Begin, Kinds, Fields
        <4>2. Begin["slow"][v] = 10 /\ Begin["slow"][v + 1] = 13 /\ g = "LONGITUDE"
          <5>1. v + 1 = 6
            BY <3>1
          <5>2. QED BY <3>1, <4>1, <5>1
        <4>3. v < 7
          BY <3>1
        <4> HIDE DEF p, g, v
        <4>5. Len(p) = 13 - 1 - 10
          BY <2>2, <4>2, <4>3
        <4>6. QED BY <4>2, <4>5
      <3>3. p # <<>>
        <4> HIDE DEF p
        <4>1. Len(p) # 0
          BY <3>2
        <4>2. QED BY <4>1, Nonempty
      <3>4. gprmc_record'["LONGITUDE"] = p
        BY <1>8, <2>1, <3>1, <3>2, <3>3
      <3>5. \A i \in 1..2 : /\ p[i] = copied[9 + i] /\ p[i] # COMMA /\ 9 + i \in 1..15
        <4> TAKE i \in 1..2
        <4>3. v < 7
          BY <3>1
        <4> HIDE DEF p
        <4>0. 10 + i - 1 = 9 + i /\ 9 + i \in 1..15
          OBVIOUS
        <4>1. i \in 1..Len(p) /\ Begin["slow"][v] + i - 1 = 9 + i /\ 9 + i \in 1..15
          BY <3>2, <4>0
        <4>2. QED BY <2>2, <4>1, <4>3
      <3>6. \A i \in 1..2 : /\ UpTo(latitude, p[i][2])
                            /\ \A j \in 1..(9 + i) : copied[j][2] <= p[i][2]
        <4> TAKE i \in 1..2
        <4>1. copied[9 + i] # COMMA /\ 9 + i \in 1..15 /\ p[i] = copied[9 + i]
          BY <3>5
        <4>2. 9 + i <= 15
          OBVIOUS
        <4>3. QED BY <1>3, <4>1, <4>2 DEF PlacedText
      <3>7. NotNewer(latitude, p)
        <4>1. \A i \in 1..Len(latitude), j \in 1..Len(p) : latitude[i][2] <= p[j][2]
          BY <3>2, <3>6 DEF UpTo
        <4>2. QED BY <4>1 DEF NotNewer
      <3>8. PICK lat : /\ lat = Piece(3, "slow") /\ Len(lat) = 2
                       /\ \A i \in 1..2 : lat[i] = copied[4 + i]
        <4>1. Begin["slow"][3] = 5 /\ Begin["slow"][4] = 8
          BY DEF Begin, Kinds
        <4>2. 3 \in 1..11 /\ 3 + 1 = 4 /\ 3 < 7 /\ 7 \in 2..12
          OBVIOUS
        <4>3. /\ Len(Piece(3, "slow")) = Begin["slow"][4] - 1 - Begin["slow"][3]
              /\ \A i \in 1..Len(Piece(3, "slow")) :
                   Piece(3, "slow")[i] = copied[Begin["slow"][3] + i - 1]
          BY <1>1, <1>4, <4>2, PieceIs
        <4> DEFINE q == Piece(3, "slow")
        <4> HIDE DEF q
        <4>4. Len(q) = 2
          <5>1. Len(q) = 8 - 1 - 5
            BY <4>1, <4>3 DEF q
          <5>2. QED BY <5>1
        <4>5. \A i \in 1..2 : q[i] = copied[4 + i]
          <5> TAKE i \in 1..2
          <5>1. 5 + i - 1 = 4 + i
            OBVIOUS
          <5>2. q[i] = copied[Begin["slow"][3] + i - 1]
            BY <4>3, <4>4 DEF q
          <5>3. QED BY <4>1, <5>1, <5>2
        <4>6. QED BY <4>4, <4>5 DEF q
      <3>9. gprmc_record["LATITUDE"] = lat
        <4>1. Piece(3, "slow") # <<>>
          <5>0. Len(lat) = 2
            BY <3>8
          <5>1. lat # <<>>
            BY <5>0, Nonempty
          <5>2. QED BY <3>8, <5>1
        <4>2. 3 \in 1..6 /\ 3 < v /\ Fields[3] = "LATITUDE"
          BY <3>1 DEF Fields
        <4>3. QED BY <2>0, <3>8, <4>1, <4>2
      <3>10. NotNewer(lat, p)
        <4>1. ASSUME NEW i \in 1..2, NEW j \in 1..2
              PROVE  lat[i][2] <= p[j][2]
          <5>1. 4 + i \in 1..(9 + j)
            OBVIOUS
          <5>2. QED BY <3>6, <3>8, <5>1
        <4>2. QED BY <3>2, <3>8, <4>1 DEF NotNewer
      <3>11. QED BY <3>4, <3>7, <3>9, <3>10
    <2>9. (Between' <=> v \in {3, 4}) /\ (Between <=> v \in {4, 5})
      BY <1>1, <1>8 DEF Between
    <2> HIDE DEF p, g, v
    <2>10. NotNewer(latitude, gprmc_record'["LONGITUDE"])
      <3>1. NotNewer(latitude, gprmc_record["LONGITUDE"])
        BY <1>2 DEF PlacedRecord
      <3>2. QED BY <2>4, <2>8, <3>1
    <2>11. ~Between' => NotNewer(gprmc_record'["LATITUDE"], gprmc_record'["LONGITUDE"])
      <3>1. v \notin {3, 4, 5} => NotNewer(gprmc_record["LATITUDE"], gprmc_record["LONGITUDE"])
        BY <1>2, <2>9 DEF PlacedRecord
      <3>2. QED BY <2>4, <2>8, <2>9, <3>1
    <2>12. ~Between' => ("LATITUDE" \in valid_values' => "LONGITUDE" \in valid_values')
      <3>1. v \notin {3, 4, 5} => ("LATITUDE" \in valid_values => "LONGITUDE" \in valid_values)
        BY <1>2, <2>9 DEF PlacedRecord
      <3>2. QED BY <2>5, <2>6, <2>7, <2>9, <3>1
    <2>13. latitude # <<>> => "LONGITUDE" \in valid_values'
      BY <1>2, <2>5, <2>6 DEF PlacedRecord
    <2>14. caller # "longitude" => NotNewer(latitude, longitude)
      BY <1>2 DEF PlacedRecord
    <2>15. QED BY <1>1, <2>3, <2>10, <2>11, <2>12, <2>13, <2>14 DEF PlacedRecord, NotNewer
  <1>9. QED BY <1>6, <1>7, <1>8, <1>turn

(* In a whole copy every digit is of the sentence's number.                *)
LEMMA EachFieldWhole ==
  ASSUME GpsInv, EachField
  PROVE  WholeInv'
  <1>1. /\ pc = "fields" /\ pc' = "fields" /\ TypeOK /\ sentences \in Nat
        /\ copied \in Seq(Chars)
        /\ UNCHANGED <<sentences, kinds, copied, whole, latitude, longitude>>
    BY EachFieldIs
  <1>2. WholeInv
    BY DEF GpsInv
  <1> DEFINE v == val_state
             g == Fields[v]
             Turn == /\ v \in 1..11
                     /\ \A f \in Values : f # g => gprmc_record'[f] = gprmc_record[f]
                     /\ IF field = <<>>
                        THEN gprmc_record'[g] = gprmc_record[g]
                             /\ valid_values' = valid_values \ {Bit(g)}
                        ELSE gprmc_record'[g] = field
                             /\ valid_values' = valid_values \cup {Bit(g)}
  <1>3. UNCHANGED <<gprmc_record, valid_values>> \/ Turn
    BY EachFieldIs, StoreFieldIs
  <1>4. ASSUME whole
        PROVE  /\ KeptBy("LATITUDE", latitude)' /\ KeptBy("LONGITUDE", longitude)'
               /\ \E n \in 1..sentences : copied = Sentence(n, kinds[n]) /\ Behind(n)'
    <2>1. PICK n \in 1..sentences : copied = Sentence(n, kinds[n]) /\ Behind(n)
      BY <1>1, <1>2, <1>4 DEF WholeInv
    <2> DEFINE kind == kinds[n]
               p == Piece(v, kind)
    <2>2. kind \in Kinds /\ copied = Sentence(n, kind) /\ n \in 1..MaxSentences /\ n \in Nat
      BY <1>1, <2>1, MaxIsNat DEF TypeOK
    <2> HIDE DEF kind
    <2>3. /\ LaidOut(copied, kind, 12)
          /\ \A i \in 1..Len(copied) : copied[i] = COMMA \/ copied[i] = <<Layout[kind][i], n>>
      <3>1. /\ LaidOut(Sentence(n, kind), kind, 12) /\ Len(Sentence(n, kind)) = Len(Layout[kind])
            /\ \A i \in 1..Len(Layout[kind]) :
                 Sentence(n, kind)[i] = IF Layout[kind][i] = "comma" THEN COMMA
                                       ELSE <<Layout[kind][i], n>>
        BY <2>2, SentenceIs
      <3>2. QED BY <2>2, <3>1
    <2>4. Turn => field = p /\ \A i \in 1..Len(p) : p[i][2] = n
      <3>1. SUFFICES ASSUME Turn
                     PROVE  field = p /\ \A i \in 1..Len(p) : p[i][2] = n
        OBVIOUS
      <3>2. v < 12 /\ 12 \in 2..12
        BY <3>1
      <3>3. field = p
        BY <2>2, <2>3, <3>2, EachFieldWalk DEF Walking
      <3>4. ASSUME NEW i \in 1..Len(p)
            PROVE  p[i][2] = n
        <4>1. /\ Begin[kind][v] + i - 1 \in 1..Len(copied)
              /\ p[i] = copied[Begin[kind][v] + i - 1] /\ p[i] # COMMA
          BY <1>1, <2>2, <2>3, <3>1, <3>2, PieceIs
        <4>2. PICK j \in 1..Len(copied) : p[i] = copied[j]
          BY <4>1
        <4>3. p[i] = <<Layout[kind][j], n>>
          BY <2>3, <4>1, <4>2
        <4> HIDE DEF p
        <4>4. QED BY <4>3
      <3>5. QED BY <3>3, <3>4
    <2> HIDE DEF p
    <2>5. ASSUME NEW f \in {"LATITUDE", "LONGITUDE"}
          PROVE  \/ gprmc_record'[f] = gprmc_record[f]
                 \/ gprmc_record'[f] # <<>>
                    /\ \A i \in 1..Len(gprmc_record'[f]) : gprmc_record'[f][i][2] = n
      <3>1. CASE UNCHANGED <<gprmc_record, valid_values>>
        BY <3>1
      <3>2. CASE Turn
        <4>1. gprmc_record'[f] = gprmc_record[f]
              \/ (field # <<>> /\ gprmc_record'[f] = field)
          <5>1. f \in Values
            BY ValuesAre
          <5> HIDE DEF g
          <5>2. QED BY <3>2, <5>1
        <4>2. CASE gprmc_record'[f] = gprmc_record[f]
          BY <4>2
        <4>3. CASE field # <<>> /\ gprmc_record'[f] = field
          <5>1. gprmc_record'[f] = p /\ p # <<>> /\ \A i \in 1..Len(p) : p[i][2] = n
            BY <2>4, <3>2, <4>3
          <5>2. QED BY <5>1
        <4>4. QED BY <4>1, <4>2, <4>3
      <3>3. QED BY <1>3, <3>1, <3>2
    <2>6. ASSUME NEW f \in {"LATITUDE", "LONGITUDE"}, NEW text, UpTo(text, n),
                 KeptBy(f, text), UpTo(gprmc_record[f], n)
          PROVE  /\ UpTo(gprmc_record'[f], n)
                 /\ NotNewer(gprmc_record'[f], gprmc_record'[f])
                 /\ NotNewer(text, gprmc_record'[f])
                 /\ gprmc_record'[f] = <<>> => text = <<>>
      <3>1. CASE gprmc_record'[f] = gprmc_record[f]
        BY <2>6, <3>1 DEF KeptBy
      <3>2. CASE gprmc_record'[f] # <<>>
                 /\ \A i \in 1..Len(gprmc_record'[f]) : gprmc_record'[f][i][2] = n
        <4>1. UpTo(gprmc_record'[f], n)
          BY <2>2, <3>2 DEF UpTo
        <4>2. /\ NotNewer(text, gprmc_record'[f])
              /\ NotNewer(gprmc_record'[f], gprmc_record'[f])
          BY <2>2, <2>6, <3>2, SMTT(30) DEF UpTo, NotNewer
        <4>3. QED BY <3>2, <4>1, <4>2
      <3>3. QED BY <2>5, <3>1, <3>2
    <2>7. /\ KeptBy("LATITUDE", latitude) /\ KeptBy("LONGITUDE", longitude)
          /\ UpTo(latitude, n) /\ UpTo(longitude, n)
          /\ UpTo(gprmc_record["LATITUDE"], n) /\ UpTo(gprmc_record["LONGITUDE"], n)
      BY <1>2, <1>4, <2>1 DEF WholeInv, Behind
    <2>8. /\ NotNewer(gprmc_record'["LATITUDE"], gprmc_record'["LATITUDE"])
          /\ UpTo(gprmc_record'["LATITUDE"], n) /\ NotNewer(latitude, gprmc_record'["LATITUDE"])
          /\ gprmc_record'["LATITUDE"] = <<>> => latitude = <<>>
      BY <2>6, <2>7
    <2>9. /\ NotNewer(gprmc_record'["LONGITUDE"], gprmc_record'["LONGITUDE"])
          /\ UpTo(gprmc_record'["LONGITUDE"], n)
          /\ NotNewer(longitude, gprmc_record'["LONGITUDE"])
          /\ gprmc_record'["LONGITUDE"] = <<>> => longitude = <<>>
      BY <2>6, <2>7
    <2>10. Behind(n)'
      BY <1>1, <2>7, <2>8, <2>9 DEF Behind, UpTo
    <2>11. KeptBy("LATITUDE", latitude)' /\ KeptBy("LONGITUDE", longitude)'
      BY <1>1, <2>7, <2>8, <2>9 DEF KeptBy, NotNewer
    <2>12. QED BY <2>1, <2>10, <2>11
  <1>5. QED BY <1>1, <1>4 DEF WholeInv

LEMMA EachFieldStep ==
  ASSUME GpsInv, EachField
  PROVE  GpsInv'
  <1>1. /\ pc = "fields" /\ pc' = "fields" /\ NextField /\ StoreField
        /\ UNCHANGED <<sentences, kinds, damaged, nmea_record_string,
                       nmea_record_dirty_strings, copied, whole, latitude, longitude,
                       caller, reg>>
        /\ TypeOK /\ Ended(record_str) /\ ptr \in 1..28
    BY EachFieldIs
  <1>2. /\ field' \in Seq(Digits \cup {JUNK}) /\ ptr' \in 1..29 /\ Ended(record_str')
        /\ record_str' \in [Cells -> Digits \cup {COMMA, NUL, JUNK}]
    BY <1>1, NextFieldType
  <1>3. /\ val_state' \in 1..12 /\ valid_values' \subseteq Values
        /\ gprmc_record' \in [Values -> Seq(Digits \cup {JUNK})]
    BY <1>1, StoreFieldIs
  <1>4. TypeOK'
    <2>1. Digits' = Digits
      BY <1>1 DEF Digits
    <2>2. ptr' \in Cells /\ val_state' \in 1..(Len(Fields) + 1)
      <3>1. Cells = 1..29 /\ Len(Fields) + 1 = 12
        BY SizesAre
      <3>2. QED BY <1>2, <1>3, <3>1
    <2>3. QED BY <1>1, <1>2, <1>3, <2>1, <2>2 DEF TypeOK
  <1>5. CallInv' /\ StringInv' /\ CopyInv'
    BY <1>1, <1>2 DEF GpsInv, CallInv, StringInv, CopyInv
  <1>6. WalkInv'
    <2>1. SUFFICES ASSUME NEW kind \in Kinds, NEW m \in 2..12, LaidOut(copied, kind, m)
                   PROVE  Walking(kind, m)'
      BY <1>1 DEF WalkInv, LaidOut
    <2>2. QED BY <2>1, EachFieldWalk
  <1>7. PlacedInv'
    <2>1. AllPlaced' <=> AllPlaced
      BY <1>1 DEF AllPlaced
    <2>2. QED BY <2>1, EachFieldPlaced DEF PlacedInv
  <1>8. QED BY <1>4, <1>5, <1>6, <1>7, EachFieldWhole DEF GpsInv

-----------------------------------------------------------------------------
(* As far as a copy is laid out like a sentence the loop does not end.     *)
LEMMA LoopGoesOn ==
  ASSUME GpsInv, pc = "fields", ~More,
         NEW kind \in Kinds, NEW m \in 2..12, LaidOut(copied, kind, m)
  PROVE  val_state \in m..12
  <1>1. val_state \in 1..12 /\ sentences \in Nat /\ copied \in Seq(Chars)
    <2>1. /\ val_state \in 1..(Len(Fields) + 1) /\ sentences \in Nat
          /\ copied \in Seq(Chars)
      BY MaxIsNat DEF GpsInv, TypeOK, Chars
    <2>2. QED BY <2>1, SizesAre
  <1>2. Walking(kind, m)
    BY DEF GpsInv, WalkInv
  <1>3. SUFFICES ASSUME val_state < m
                 PROVE  More
    BY <1>1
  <1>4. ptr = Begin[kind][val_state + 1] /\ \A i \in ptr..Len(copied) : record_str[i] = copied[i]
    BY <1>2, <1>3 DEF Walking
  <1>5. ptr \in 1..Len(copied)
    <2>1. val_state \in 1..11 /\ Len(copied) \in Nat
      BY <1>1, <1>3
    <2>2. /\ Begin[kind][val_state] \in 1..Len(copied)
          /\ Begin[kind][val_state + 1] \in (Begin[kind][val_state] + 1)..Len(copied)
      BY <1>3, <2>1, FieldLies
    <2>3. QED BY <1>4, <2>1, <2>2
  <1>6. record_str[ptr] = copied[ptr]
    BY <1>4, <1>5
  <1>7. record_str[ptr] # NUL
    <2>1. copied[ptr] \in Chars
      BY <1>1, <1>5
    <2>2. QED BY <1>1, <1>6, <2>1, CharFacts
  <1>8. QED BY <1>7 DEF More

LEMMA FieldsDoneStep ==
  ASSUME GpsInv, FieldsDone
  PROVE  GpsInv'
  <1>1. /\ pc = "fields" /\ ~More /\ pc' = "load_GPRMC"
        /\ record_str' = Unused /\ ptr' = 1 /\ field' = <<>> /\ val_state' = 1 /\ copied' = <<>>
        /\ UNCHANGED <<sentences, kinds, damaged, nmea_record_string,
                       nmea_record_dirty_strings, gprmc_record, valid_values, whole,
                       latitude, longitude, caller, reg>>
    BY DEF FieldsDone, stringVars, recordVars, callVars
  <1>2. Unused \in [Cells -> Digits \cup {COMMA, NUL, JUNK}] /\ Ended(Unused)
    BY SizesAre DEF Unused, Ended
  <1>3. TypeOK'
    <2>1. Digits' = Digits
      BY <1>1 DEF Digits
    <2>2. 1 \in Cells /\ 1 \in 1..(Len(Fields) + 1)
      BY SizesAre
    <2>3. <<>> \in Seq(Digits \cup {JUNK}) /\ <<>> \in Seq(Digits \cup {COMMA})
      OBVIOUS
    <2>4. pc' \in Locations
      BY <1>1 DEF Locations
    <2>5. TypeOK
      BY DEF GpsInv
    <2>6. QED BY <1>1, <1>2, <2>1, <2>2, <2>3, <2>4, <2>5 DEF TypeOK
  <1>4. CallInv' /\ StringInv' /\ WalkInv'
    BY <1>1 DEF GpsInv, CallInv, StringInv, WalkInv
  <1>5. CopyInv'
    BY <1>1, <1>2 DEF CopyInv
  <1>6. PlacedInv'
    <2>1. SUFFICES ASSUME AllPlaced
                   PROVE  PlacedCopies' /\ PlacedRecord'
      BY <1>1 DEF PlacedInv, AllPlaced
    <2>2. PlacedCopies /\ PlacedRecord
      BY <2>1 DEF GpsInv, PlacedInv
    <2>3. LaidOut(copied, "slow", 7) /\ "slow" \in Kinds
      BY <1>1, <2>2, PlacedLaidOut DEF PlacedCopies, Kinds
    <2>4. val_state \in 7..12
      BY <1>1, <2>3, LoopGoesOn
    <2>5. ~Between /\ ~Between'
      BY <1>1, <2>4 DEF Between
    <2>6. PlacedRecord'
      BY <1>1, <2>2, <2>5 DEF PlacedRecord, NotNewer
    <2>7. PlacedCopies'
      BY <1>1, <2>2 DEF PlacedCopies
    <2>8. QED BY <2>6, <2>7
  <1>7. WholeInv'
    BY <1>1 DEF GpsInv, WholeInv, KeptBy, NotNewer
  <1>8. QED BY <1>3, <1>4, <1>5, <1>6, <1>7 DEF GpsInv

-----------------------------------------------------------------------------
(* A step that touches neither copy, record nor location.                  *)
LEMMA ControlStep ==
  ASSUME GpsInv,
         UNCHANGED <<stringVars, copyVars, parseVars, latitude, longitude>>,
         nmea_record_dirty_strings' \subseteq Types, reg' \subseteq Types,
         caller' \in {"none", "parse", "latitude", "longitude"}, pc' \in Locations,
         pc' = "idle" <=> caller' = "none",
         caller' # "longitude" => caller # "longitude",
         pc' = pc \/ (pc \notin {"copy", "first_field", "fields"}
                      /\ pc' \notin {"first_field", "fields"}),
         "GPRMC" \in nmea_record_dirty_strings' \cup reg' \/ pc' = "copy"
           => "GPRMC" \in nmea_record_dirty_strings \cup reg \/ pc = "copy"
  PROVE  GpsInv'
  <1>1. UNCHANGED <<sentences, kinds, damaged, nmea_record_string, record_str, ptr, field,
                    val_state, gprmc_record, valid_values, copied, whole,
                    latitude, longitude>>
    BY DEF stringVars, copyVars, parseVars, fieldVars, recordVars, history
  <1>2. TypeOK'
    <2>1. Digits' = Digits
      BY <1>1 DEF Digits
    <2>2. TypeOK
      BY DEF GpsInv
    <2>3. QED BY <1>1, <2>1, <2>2 DEF TypeOK
  <1>3. CallInv' /\ StringInv'
    BY <1>1 DEF GpsInv, CallInv, StringInv
  <1>4. CopyInv'
    <2>1. CopyInv
      BY DEF GpsInv
    <2>2. Chars' = Chars /\ \A n : Behind(n)' <=> Behind(n)
      BY <1>1 DEF Chars, Digits, Behind, UpTo
    <2>3. CASE pc' = pc
      BY <1>1, <2>1, <2>2, <2>3 DEF CopyInv
    <2>4. CASE /\ pc \notin {"copy", "first_field", "fields"}
               /\ pc' \notin {"first_field", "fields"}
      <3>1. ptr = 1 /\ val_state = 1 /\ copied = <<>> /\ Ended(record_str)
        BY <2>1, <2>4 DEF CopyInv
      <3>2. \A i \in 1..(ptr - 1) : FALSE
        BY <3>1
      <3>3. ptr <= 25 /\ ~(ptr > 1)
        BY <3>1
      <3>4. QED BY <1>1, <2>4, <3>1, <3>2, <3>3 DEF CopyInv
    <2>5. QED BY <2>3, <2>4
  <1>5. WalkInv'
    BY <1>1 DEF GpsInv, WalkInv, LaidOut, Walking, Piece
  <1>6. PlacedInv'
    <2>1. SUFFICES ASSUME AllPlaced
                   PROVE  PlacedCopies' /\ PlacedRecord'
      BY <1>1 DEF PlacedInv, AllPlaced
    <2>2. PlacedCopies /\ PlacedRecord
      BY <2>1 DEF GpsInv, PlacedInv
    <2>3. PlacedCopies'
      <3>1. CASE pc' = pc
        BY <1>1, <2>2, <3>1 DEF PlacedCopies, PlacedText, UpTo
      <3>2. CASE /\ pc \notin {"copy", "first_field", "fields"}
                 /\ pc' \notin {"first_field", "fields"}
        <4>1. ptr = 1
          BY <3>2 DEF GpsInv, CopyInv
        <4>2. \A i \in 1..(ptr' - 1) : FALSE
          BY <1>1, <4>1
        <4>3. PlacedText(record_str, ptr - 1)'
          BY <4>2 DEF PlacedText
        <4>4. QED BY <1>1, <2>2, <3>2, <4>3 DEF PlacedCopies
      <3>3. QED BY <3>1, <3>2
    <2>4. Between' <=> Between
      BY <1>1 DEF Between
    <2>5. PlacedRecord'
      BY <1>1, <2>2, <2>4 DEF PlacedRecord, NotNewer
    <2>6. QED BY <2>3, <2>5
  <1>7. WholeInv'
    <2>1. WholeInv
      BY DEF GpsInv
    <2>2. \A n : Behind(n)' <=> Behind(n)
      BY <1>1 DEF Behind, UpTo
    <2>3. QED BY <1>1, <2>1, <2>2 DEF WholeInv, KeptBy, NotNewer
  <1>8. QED BY <1>2, <1>3, <1>4, <1>5, <1>6, <1>7 DEF GpsInv

(* The steps of the calls, and the interrupt for another type.             *)
LEMMA ControlActions ==
  ASSUME GpsInv,
         \/ OtherArrives \/ Call \/ StartOther \/ ReturnNothing
         \/ \E type \in Types : Skip(type) \/ LoadDirty(type) \/ StoreDirty(type)
  PROVE  GpsInv'
  <1>1. /\ nmea_record_dirty_strings \subseteq Types /\ reg \subseteq Types
        /\ caller \in {"none", "parse", "latitude", "longitude"} /\ pc \in Locations
        /\ pc = "idle" <=> caller = "none"
    BY DEF GpsInv, TypeOK, CallInv
  <1>2. CASE OtherArrives
    BY <1>1, <1>2, ControlStep DEF OtherArrives, callVars, Types
  <1>3. CASE Call
    <2>1. /\ pc = "idle" /\ pc' = "GPGGA" /\ caller' \in {"parse", "latitude"}
          /\ UNCHANGED <<stringVars, copyVars, parseVars, latitude, longitude>>
          /\ UNCHANGED <<nmea_record_dirty_strings, reg>>
      BY <1>3 DEF Call
    <2>2. caller = "none" /\ pc' \in Locations
      BY <1>1, <2>1 DEF Locations, Types
    <2>3. QED BY <1>1, <2>1, <2>2, ControlStep
  <1>4. CASE StartOther
    BY <1>1, <1>4, ControlStep DEF StartOther, callVars, Locations
  <1>5. CASE ReturnNothing
    BY <1>1, <1>5, ControlStep DEF ReturnNothing, Locations
  <1>6. ASSUME NEW type \in Types, Skip(type)
        PROVE  GpsInv'
    BY <1>1, <1>6, ControlStep DEF Skip, callVars, Locations, Types
  <1>7. ASSUME NEW type \in Types, LoadDirty(type)
        PROVE  GpsInv'
    BY <1>1, <1>7, ControlStep DEF LoadDirty, Load, Store, callVars, Locations, Types
  <1>8. ASSUME NEW type \in Types, StoreDirty(type)
        PROVE  GpsInv'
    <2>1. nmea_record_dirty_strings' \subseteq reg /\ reg' = {}
      BY <1>8 DEF StoreDirty
    <2>2. QED BY <1>1, <1>8, <2>1, ControlStep DEF StoreDirty, Store, callVars, Locations, Types
  <1>9. QED BY <1>2, <1>3, <1>4, <1>5, <1>6, <1>7, <1>8

(* The copy begins on whatever the stack holds.                            *)
LEMMA StartCopyStep ==
  ASSUME GpsInv, StartCopy
  PROVE  GpsInv'
  <1>1. /\ pc = "GPRMC" /\ pc' = "copy" /\ "GPRMC" \in nmea_record_dirty_strings
        /\ record_str' \in Stacks
        /\ UNCHANGED <<sentences, kinds, damaged, nmea_record_string,
                       nmea_record_dirty_strings, ptr, field, val_state, gprmc_record,
                       valid_values, copied, whole, latitude, longitude, caller, reg>>
    BY DEF StartCopy, stringVars, parseVars, fieldVars, recordVars, history, callVars
  <1>2. record_str' \in [Cells -> {COMMA, NUL, JUNK}] /\ Ended(record_str')
    <2>1. /\ record_str' \in [Cells -> {COMMA, NUL, JUNK}]
          /\ record_str'[LastCell - 1] = NUL /\ record_str'[LastCell] = NUL
      BY <1>1, GpsAssumption
    <2>2. QED BY <2>1, SizesAre DEF Ended
  <1>3. TypeOK'
    <2>1. Digits' = Digits
      BY <1>1 DEF Digits
    <2>2. record_str' \in [Cells -> Digits \cup {COMMA, NUL, JUNK}]
      BY <1>2
    <2>3. pc' \in Locations
      BY <1>1 DEF Locations
    <2>4. TypeOK
      BY DEF GpsInv
    <2>5. QED BY <1>1, <2>1, <2>2, <2>3, <2>4 DEF TypeOK
  <1>4. CallInv' /\ StringInv' /\ WalkInv'
    BY <1>1 DEF GpsInv, CallInv, StringInv, WalkInv
  <1>5. ptr = 1 /\ val_state = 1 /\ copied = <<>>
    BY <1>1 DEF GpsInv, CopyInv
  <1>6. CopyInv'
    <2>1. \A i \in 1..(ptr - 1) : FALSE
      BY <1>5
    <2>2. ptr <= 25 /\ ~(ptr > 1)
      BY <1>5
    <2>3. QED BY <1>1, <1>2, <1>5, <2>1, <2>2 DEF CopyInv
  <1>7. PlacedInv'
    <2>1. SUFFICES ASSUME AllPlaced
                   PROVE  PlacedCopies' /\ PlacedRecord'
      BY <1>1 DEF PlacedInv, AllPlaced
    <2>2. PlacedCopies /\ PlacedRecord
      BY <2>1 DEF GpsInv, PlacedInv
    <2>3. PlacedCopies'
      <3>1. PlacedText(record_str, ptr - 1)'
        <4>1. \A i \in 1..15 : ~(i <= ptr - 1)
          BY <1>5
        <4>2. QED BY <1>1, <4>1 DEF PlacedText
      <3>2. QED BY <1>1, <2>2, <3>1 DEF PlacedCopies
    <2>4. ~Between /\ ~Between'
      BY <1>1 DEF Between
    <2>5. PlacedRecord'
      BY <1>1, <2>2, <2>4 DEF PlacedRecord, NotNewer
    <2>6. QED BY <2>3, <2>5
  <1>8. WholeInv'
    BY <1>1 DEF GpsInv, WholeInv, KeptBy, NotNewer
  <1>9. QED BY <1>3, <1>4, <1>6, <1>7, <1>8 DEF GpsInv

-----------------------------------------------------------------------------
(* The location is delivered.                                              *)
LEMMA ReturnLatitudeStep ==
  ASSUME GpsInv, ReturnLatitude
  PROVE  GpsInv'
  <1>1. /\ pc = "return" /\ pc' = "GPGGA" /\ caller = "latitude" /\ caller' = "longitude"
        /\ latitude' = IF "LATITUDE" \in valid_values THEN gprmc_record["LATITUDE"]
                       ELSE latitude
        /\ UNCHANGED <<sentences, kinds, damaged, nmea_record_string,
                       nmea_record_dirty_strings, record_str, ptr, field, val_state,
                       gprmc_record, valid_values, copied, whole, longitude, reg>>
    BY DEF ReturnLatitude, Delivered, stringVars, copyVars, parseVars, fieldVars, recordVars,
           history
  <1>2. TypeOK'
    <2>1. Digits' = Digits /\ pc' \in Locations
      BY <1>1 DEF Digits, Locations, Types
    <2>2. TypeOK
      BY DEF GpsInv
    <2>3. latitude' \in Seq(Digits \cup {JUNK})
      BY <1>1, <2>2, ValuesAre DEF TypeOK
    <2>4. QED BY <1>1, <2>1, <2>2, <2>3 DEF TypeOK
  <1>3. CallInv' /\ StringInv' /\ WalkInv' /\ CopyInv'
    BY <1>1 DEF GpsInv, CallInv, StringInv, WalkInv, CopyInv
  <1>4. PlacedInv'
    <2>1. SUFFICES ASSUME AllPlaced
                   PROVE  PlacedCopies' /\ PlacedRecord'
      BY <1>1 DEF PlacedInv, AllPlaced
    <2>2. PlacedCopies /\ PlacedRecord
      BY <2>1 DEF GpsInv, PlacedInv
    <2>3. PlacedCopies'
      BY <1>1, <2>2 DEF PlacedCopies
    <2>4. ~Between /\ ~Between'
      BY <1>1 DEF Between
    <2>5. /\ NotNewer(latitude', gprmc_record["LONGITUDE"])
          /\ latitude' # <<>> => "LONGITUDE" \in valid_values
      BY <1>1, <2>2, <2>4 DEF PlacedRecord
    <2>6. PlacedRecord'
      BY <1>1, <2>2, <2>4, <2>5 DEF PlacedRecord, NotNewer
    <2>7. QED BY <2>3, <2>6
  <1>5. WholeInv'
    <2>1. whole => KeptBy("LATITUDE", latitude) /\ KeptBy("LONGITUDE", longitude)
      BY DEF GpsInv, WholeInv
    <2>2. whole => KeptBy("LATITUDE", latitude')
      BY <1>1, <2>1 DEF KeptBy
    <2>3. QED BY <1>1, <2>1, <2>2 DEF WholeInv, KeptBy, NotNewer
  <1>6. QED BY <1>2, <1>3, <1>4, <1>5 DEF GpsInv

LEMMA ReturnLongitudeStep ==
  ASSUME GpsInv, ReturnLongitude
  PROVE  GpsInv'
  <1>1. /\ pc = "return" /\ pc' = "idle" /\ caller = "longitude" /\ caller' = "none"
        /\ longitude' = IF "LONGITUDE" \in valid_values THEN gprmc_record["LONGITUDE"]
                        ELSE longitude
        /\ UNCHANGED <<sentences, kinds, damaged, nmea_record_string,
                       nmea_record_dirty_strings, record_str, ptr, field, val_state,
                       gprmc_record, valid_values, copied, whole, latitude, reg>>
    BY DEF ReturnLongitude, Delivered, stringVars, copyVars, parseVars, fieldVars, recordVars,
           history
  <1>2. TypeOK'
    <2>1. Digits' = Digits /\ pc' \in Locations
      BY <1>1 DEF Digits, Locations, Types
    <2>2. TypeOK
      BY DEF GpsInv
    <2>3. longitude' \in Seq(Digits \cup {JUNK})
      BY <1>1, <2>2, ValuesAre DEF TypeOK
    <2>4. QED BY <1>1, <2>1, <2>2, <2>3 DEF TypeOK
  <1>3. CallInv' /\ StringInv' /\ WalkInv' /\ CopyInv'
    BY <1>1 DEF GpsInv, CallInv, StringInv, WalkInv, CopyInv
  <1>4. PlacedInv'
    <2>1. SUFFICES ASSUME AllPlaced
                   PROVE  PlacedCopies' /\ PlacedRecord'
      BY <1>1 DEF PlacedInv, AllPlaced
    <2>2. PlacedCopies /\ PlacedRecord
      BY <2>1 DEF GpsInv, PlacedInv
    <2>3. PlacedCopies'
      BY <1>1, <2>2 DEF PlacedCopies
    <2>4. ~Between /\ ~Between'
      BY <1>1 DEF Between
    <2>5. NotNewer(latitude, longitude')
      <3>1. CASE "LONGITUDE" \in valid_values
        BY <1>1, <2>2, <3>1 DEF PlacedRecord
      <3>2. CASE "LONGITUDE" \notin valid_values
        <4>1. latitude = <<>>
          BY <2>2, <3>2 DEF PlacedRecord
        <4>2. \A i \in 1..Len(latitude) : FALSE
          BY <4>1
        <4>3. QED BY <4>2 DEF NotNewer
      <3>3. QED BY <3>1, <3>2
    <2>6. PlacedRecord'
      BY <1>1, <2>2, <2>4, <2>5 DEF PlacedRecord, NotNewer
    <2>7. QED BY <2>3, <2>6
  <1>5. WholeInv'
    <2>1. whole => KeptBy("LATITUDE", latitude) /\ KeptBy("LONGITUDE", longitude)
      BY DEF GpsInv, WholeInv
    <2>2. whole => KeptBy("LONGITUDE", longitude')
      BY <1>1, <2>1 DEF KeptBy
    <2>3. QED BY <1>1, <2>1, <2>2 DEF WholeInv, KeptBy, NotNewer
  <1>6. QED BY <1>2, <1>3, <1>4, <1>5 DEF GpsInv

-----------------------------------------------------------------------------
LEMMA GpsInit ==
  ASSUME Init
  PROVE  GpsInv
  <1> USE DEF Init
  <1>1. sentences \in Nat /\ 1..sentences = {} /\ Cells = 1..29
    BY SizesAre
  <1>2. Unused \in [Cells -> {NUL}] /\ \A i \in Cells : Unused[i] = NUL
    BY DEF Unused
  <1>3. TypeOK
    <2>1. sentences \in 0..MaxSentences
      BY MaxIsNat
    <2>2. nmea_record_string \in [Cells -> Digits \cup {COMMA, NUL}]
      BY <1>2
    <2>3. record_str \in [Cells -> Digits \cup {COMMA, NUL, JUNK}]
      BY <1>2
    <2>4. <<>> \in Seq(Digits \cup {JUNK}) /\ <<>> \in Seq(Digits \cup {COMMA})
      OBVIOUS
    <2>5. gprmc_record \in [Values -> Seq(Digits \cup {JUNK})]
      BY <2>4
    <2>6. 1 \in Cells /\ 1 \in 1..(Len(Fields) + 1)
      BY SizesAre
    <2>7. pc \in Locations
      BY DEF Locations
    <2>8. kinds \in [1..sentences -> Kinds]
      <3>1. kinds \in Seq(Kinds) /\ Len(kinds) = sentences
        OBVIOUS
      <3>2. QED BY <3>1, LenProperties
    <2>9. QED BY <2>1, <2>2, <2>3, <2>4, <2>5, <2>6, <2>7, <2>8 DEF TypeOK
  <1>4. CallInv /\ WalkInv
    BY DEF CallInv, WalkInv
  <1>5. StringInv
    <2>1. \A i \in 25..29 : i \in Cells
      BY <1>1
    <2>2. QED BY <1>2, <2>1 DEF StringInv
  <1>6. CopyInv
    BY <1>1, <1>2 DEF CopyInv, Ended
  <1>7. \A f \in Values : gprmc_record[f] = <<>>
    OBVIOUS
  <1>8. \A i \in 1..Len(<<>>) : FALSE
    OBVIOUS
  <1>9. PlacedCopies /\ PlacedRecord
    <2>1. PlacedCopies
      BY DEF PlacedCopies
    <2>2. gprmc_record["LATITUDE"] = <<>> /\ gprmc_record["LONGITUDE"] = <<>>
      BY <1>7, ValuesAre
    <2>3. NotNewer(<<>>, <<>>)
      BY <1>8 DEF NotNewer
    <2>4. \A f \in Aligned : \A i \in 1..Len(gprmc_record[f]) : gprmc_record[f][i][1] = f
      <3>1. Aligned \subseteq Values
        BY ValuesAre DEF Aligned, Place4
      <3>2. QED BY <1>7, <1>8, <3>1
    <2>5. PlacedRecord
      BY <2>2, <2>3, <2>4 DEF PlacedRecord
    <2>6. QED BY <2>1, <2>5
  <1>10. WholeInv
    <2>1. gprmc_record["LATITUDE"] = <<>> /\ gprmc_record["LONGITUDE"] = <<>>
      BY <1>7, ValuesAre
    <2>2. NotNewer(<<>>, <<>>)
      BY <1>8 DEF NotNewer
    <2>3. QED BY <2>1, <2>2 DEF WholeInv, KeptBy
  <1>11. QED BY <1>3, <1>4, <1>5, <1>6, <1>9, <1>10 DEF GpsInv, PlacedInv

LEMMA GpsStep ==
  ASSUME GpsInv, [Next]_vars
  PROVE  GpsInv'
  <1>1. CASE UNCHANGED vars
    <2>1. UNCHANGED <<stringVars, nmea_record_dirty_strings, copyVars, parseVars, latitude,
                      longitude, caller, reg, pc>>
      BY <1>1 DEF vars, callVars
    <2>2. /\ nmea_record_dirty_strings \subseteq Types /\ reg \subseteq Types
          /\ caller \in {"none", "parse", "latitude", "longitude"} /\ pc \in Locations
          /\ pc = "idle" <=> caller = "none"
      BY DEF GpsInv, TypeOK, CallInv
    <2>3. QED BY <2>1, <2>2, ControlStep
  <1>2. ASSUME NEW kind \in Kinds, GprmcArrives(kind)
        PROVE  GpsInv'
    BY <1>2, ArrivalStep
  <1>3. CASE Copy
    BY <1>3, CopyStep
  <1>4. CASE FirstField
    BY <1>4, FirstFieldStep
  <1>5. CASE EachField
    BY <1>5, EachFieldStep
  <1>6. CASE FieldsDone
    BY <1>6, FieldsDoneStep
  <1>7. CASE ReturnLatitude
    BY <1>7, ReturnLatitudeStep
  <1>8. CASE ReturnLongitude
    BY <1>8, ReturnLongitudeStep
  <1>9. CASE StartCopy
    BY <1>9, StartCopyStep
  <1>10. CASE \/ OtherArrives \/ Call \/ StartOther \/ ReturnNothing
              \/ \E type \in Types : Skip(type) \/ LoadDirty(type) \/ StoreDirty(type)
    BY <1>10, ControlActions
  <1>11. QED BY <1>1, <1>2, <1>3, <1>4, <1>5, <1>6, <1>7, <1>8, <1>9, <1>10
             DEF Next, Interrupt, Main

(* The inductive invariant of the records.                                 *)
THEOREM GpsInductive == Spec => []GpsInv
  <1>1. Init => GpsInv
    BY GpsInit
  <1>2. GpsInv /\ [Next]_vars => GpsInv'
    BY GpsStep
  <1>3. QED BY <1>1, <1>2, PTL DEF Spec

(* Every variable of the records keeps its type, whatever the stack holds: *)
(* the copy of a torn string ends before the longest sentence does, the    *)
(* loop of parse_gprmc_sentence() goes no further than to the first two    *)
(* NULs in a row, and the number of the value stays within the values.     *)
(* (Where those NULs are nothing in the code says: the loop may read, and  *)
(* xstrtok() write, behind the array.)                                     *)
THEOREM GpsTypeCorrect == Spec => []TypeOK
  <1>1. GpsInv => TypeOK
    BY DEF GpsInv
  <1>2. QED BY <1>1, GpsInductive, PTL

(* As long as all sentences have a position, their fields are of the same  *)
(* widths up to the speed: a copy torn between any number of them stores   *)
(* no digit of another field in the time, the validity or the position     *)
(* (parse_gprmc_sentence(), and the interrupt handler that overwrites the  *)
(* string it is copied from), however the widths behind them vary and      *)
(* whatever the stack holds.                                               *)
THEOREM TornAlignedCorrect == Spec => []TornAligned
  <1>1. GpsInv => TornAligned
    BY DEF GpsInv, PlacedInv, PlacedRecord, TornAligned
  <1>2. QED BY <1>1, GpsInductive, PTL

(* The location main() has after its two calls: no digit of the longitude  *)
(* is older than one of the latitude.                                      *)
THEOREM LongitudeNotOlderCorrect == Spec => []LongitudeNotOlder
  <1>1. ASSUME GpsInv, pc = "idle", AllPlaced
        PROVE  NotNewer(latitude, longitude)
    <2>1. caller # "longitude"
      BY <1>1 DEF GpsInv, CallInv
    <2>2. QED BY <1>1, <2>1 DEF GpsInv, PlacedInv, PlacedRecord
  <1>2. GpsInv => LongitudeNotOlder
    BY <1>1 DEF LongitudeNotOlder
  <1>3. QED BY <1>2, GpsInductive, PTL

-----------------------------------------------------------------------------
(* A field of a sentence's layout is what the sentence says of the value.  *)
LEMMA FieldTextIs ==
  ASSUME NEW n, NEW kind \in Kinds, NEW k \in 1..11
  PROVE  /\ Len(FieldText(Fields[k], n, kind)) = Begin[kind][k + 1] - 1 - Begin[kind][k]
         /\ \A i \in 1..Len(FieldText(Fields[k], n, kind)) :
              FieldText(Fields[k], n, kind)[i] = <<Fields[k], n>>
         /\ FieldText(Fields[k], n, kind) \in Seq({<<Fields[k], n>>})
  <1> DEFINE f == Fields[k]
             w == Begin[kind][k + 1] - 1 - Begin[kind][k]
             Empty == f \in {"VARIATION", "VARIATION_DIRECTION"}
                      \/ (f \in Place4 /\ kind = "nowhere")
             Two   == \/ f \in {"LATITUDE", "LONGITUDE"} /\ kind # "nowhere"
                      \/ f = "SPEED" /\ kind = "fast"
             Width == \/ w = 0 /\ Empty
                      \/ w = 2 /\ Two /\ ~Empty
                      \/ w = 1 /\ ~Two /\ ~Empty
  <1>1. Width
    <2>1. CASE kind = "slow"
      <3> USE <2>1 DEF Begin, Fields, Place4, Kinds
      <3>1. CASE k = 1  BY <3>1
      <3>2. CASE k = 2  BY <3>2
      <3>3. CASE k = 3  BY <3>3
      <3>4. CASE k = 4  BY <3>4
      <3>5. CASE k = 5  BY <3>5
      <3>6. CASE k = 6  BY <3>6
      <3>7. CASE k = 7  BY <3>7
      <3>8. CASE k = 8  BY <3>8
      <3>9. CASE k = 9  BY <3>9
      <3>10. CASE k = 10  BY <3>10
      <3>11. CASE k = 11  BY <3>11
      <3> HIDE <2>1 DEF Begin, Fields, Place4, Kinds, Width
      <3>12. QED BY <3>1, <3>2, <3>3, <3>4, <3>5, <3>6, <3>7, <3>8, <3>9, <3>10, <3>11
    <2>2. CASE kind = "fast"
      <3> USE <2>2 DEF Begin, Fields, Place4, Kinds
      <3>1. CASE k = 1  BY <3>1
      <3>2. CASE k = 2  BY <3>2
      <3>3. CASE k = 3  BY <3>3
      <3>4. CASE k = 4  BY <3>4
      <3>5. CASE k = 5  BY <3>5
      <3>6. CASE k = 6  BY <3>6
      <3>7. CASE k = 7  BY <3>7
      <3>8. CASE k = 8  BY <3>8
      <3>9. CASE k = 9  BY <3>9
      <3>10. CASE k = 10  BY <3>10
      <3>11. CASE k = 11  BY <3>11
      <3> HIDE <2>2 DEF Begin, Fields, Place4, Kinds, Width
      <3>12. QED BY <3>1, <3>2, <3>3, <3>4, <3>5, <3>6, <3>7, <3>8, <3>9, <3>10, <3>11
    <2>3. CASE kind = "nowhere"
      <3> USE <2>3 DEF Begin, Fields, Place4, Kinds
      <3>1. CASE k = 1  BY <3>1
      <3>2. CASE k = 2  BY <3>2
      <3>3. CASE k = 3  BY <3>3
      <3>4. CASE k = 4  BY <3>4
      <3>5. CASE k = 5  BY <3>5
      <3>6. CASE k = 6  BY <3>6
      <3>7. CASE k = 7  BY <3>7
      <3>8. CASE k = 8  BY <3>8
      <3>9. CASE k = 9  BY <3>9
      <3>10. CASE k = 10  BY <3>10
      <3>11. CASE k = 11  BY <3>11
      <3> HIDE <2>3 DEF Begin, Fields, Place4, Kinds, Width
      <3>12. QED BY <3>1, <3>2, <3>3, <3>4, <3>5, <3>6, <3>7, <3>8, <3>9, <3>10, <3>11
    <2>4. QED BY <2>1, <2>2, <2>3, KindsAre
  <1> HIDE DEF f, w
  <1> DEFINE text == FieldText(f, n, kind)
             c == <<f, n>>
  <1>2. CASE w = 0 /\ Empty
    <2>1. text = <<>>
      BY <1>2 DEF FieldText
    <2> HIDE DEF text
    <2>2. Len(text) = w /\ (\A i \in 1..Len(text) : text[i] = c) /\ text \in Seq({c})
      BY <1>2, <2>1
    <2>3. QED BY <2>2 DEF text, f, w
  <1>3. CASE w = 2 /\ Two /\ ~Empty
    <2>1. text = <<c, c>>
      BY <1>3 DEF FieldText
    <2> HIDE DEF text, c
    <2>2. Len(text) = w /\ (\A i \in 1..Len(text) : text[i] = c) /\ text \in Seq({c})
      BY <1>3, <2>1
    <2>3. QED BY <2>2 DEF text, c, f, w
  <1>4. CASE w = 1 /\ ~Two /\ ~Empty
    <2>1. text = <<c>>
      BY <1>4 DEF FieldText
    <2> HIDE DEF text, c
    <2>2. Len(text) = w /\ (\A i \in 1..Len(text) : text[i] = c) /\ text \in Seq({c})
      BY <1>4, <2>1
    <2>3. QED BY <2>2 DEF text, c, f, w
  <1>5. QED BY <1>1, <1>2, <1>3, <1>4

LEMMA PieceSays ==
  ASSUME TypeOK, NEW n \in 1..sentences, NEW kind \in Kinds, copied = Sentence(n, kind),
         NEW k \in 1..11
  PROVE  LaidOut(copied, kind, 12) /\ Piece(k, kind) = FieldText(Fields[k], n, kind)
  <1> DEFINE p == Piece(k, kind)
             t == FieldText(Fields[k], n, kind)
             c == <<Fields[k], n>>
  <1>1. sentences \in Nat /\ copied \in Seq(Chars) /\ n \in 1..MaxSentences
    BY MaxIsNat DEF TypeOK, Chars
  <1>2. /\ LaidOut(copied, kind, 12) /\ Len(copied) = Len(Layout[kind])
        /\ \A i \in 1..Len(Layout[kind]) :
             copied[i] = IF Layout[kind][i] = "comma" THEN COMMA ELSE <<Layout[kind][i], n>>
    BY <1>1, SentenceIs
  <1>3. /\ p \in Seq(Chars) /\ Len(p) = Begin[kind][k + 1] - 1 - Begin[kind][k]
        /\ \A i \in 1..Len(p) :
             /\ Begin[kind][k] + i - 1 \in 1..Len(copied)
             /\ p[i] = copied[Begin[kind][k] + i - 1]
             /\ p[i][1] = Fields[k] /\ p[i] # COMMA
    <2>1. 12 \in 2..12 /\ k < 12
      OBVIOUS
    <2>2. QED BY <1>1, <1>2, <2>1, PieceIs
  <1>4. /\ Len(t) = Begin[kind][k + 1] - 1 - Begin[kind][k]
        /\ \A i \in 1..Len(t) : t[i] = c
        /\ t \in Seq({c})
    BY FieldTextIs
  <1> HIDE DEF p, t
  <1>5. \A i \in 1..Len(p) : p[i] = c
    <2> TAKE i \in 1..Len(p)
    <2>1. PICK j \in 1..Len(copied) : p[i] = copied[j]
      BY <1>3
    <2>2. p[i] = <<Layout[kind][j], n>>
      BY <1>2, <1>3, <2>1
    <2>3. Layout[kind][j] = p[i][1]
      BY <2>2
    <2>4. Layout[kind][j] = Fields[k]
      BY <1>3, <2>3
    <2>5. QED BY <2>2, <2>4
  <1>6. Len(p) = Len(t)
    BY <1>3, <1>4
  <1>7. p = t
    <2> DEFINE S == Chars \cup {c}
    <2>1. Chars \subseteq S /\ {c} \subseteq S
      OBVIOUS
    <2>2. p \in Seq(S) /\ t \in Seq(S)
      BY <1>3, <1>4, <2>1, SeqMonotonic
    <2>3. \A i \in 1..Len(p) : p[i] = t[i]
      BY <1>4, <1>5, <1>6
    <2> HIDE DEF S
    <2>4. QED BY <1>6, <2>2, <2>3, SeqEqual
  <1>8. QED BY <1>2, <1>7 DEF p, t

(* One turn of the loop stores what the sentence says of a value.          *)
LEMMA TurnExact ==
  ASSUME GpsInv, EachField, NEW n \in 1..sentences, NEW kind \in Kinds,
         copied = Sentence(n, kind), NEW f \in Values, gprmc_record'[f] # gprmc_record[f]
  PROVE  FieldText(f, n, kind) # <<>> /\ gprmc_record'[f] = FieldText(f, n, kind)
  <1>1. TypeOK
    BY DEF GpsInv
  <1>2. /\ val_state \in 1..11 /\ f = Fields[val_state]
        /\ field # <<>> /\ gprmc_record'[f] = field
    BY <1>1, EachFieldIs, StoreFieldIs
  <1>3. LaidOut(copied, kind, 12) /\ Piece(val_state, kind) = FieldText(f, n, kind)
    BY <1>1, <1>2, PieceSays
  <1>4. field = Piece(val_state, kind)
    <2>1. val_state < 12 /\ 12 \in 2..12
      BY <1>2
    <2>2. QED BY <1>3, <2>1, EachFieldWalk DEF Walking
  <1>5. QED BY <1>2, <1>3, <1>4

(* When the loop ends everything that the sentence says is stored.         *)
LEMMA EndExact ==
  ASSUME GpsInv, FieldsDone, NEW n \in 1..sentences, NEW kind \in Kinds,
         copied = Sentence(n, kind), NEW f \in Values, FieldText(f, n, kind) # <<>>
  PROVE  gprmc_record'[f] = FieldText(f, n, kind)
  <1>1. TypeOK /\ pc = "fields" /\ ~More /\ UNCHANGED gprmc_record
    BY DEF GpsInv, FieldsDone, recordVars
  <1>2. PICK k \in 1..11 : f = Fields[k]
    <2>1. DOMAIN Fields = 1..11
      BY DEF Fields
    <2>2. QED BY <2>1 DEF Values, ToSet
  <1>3. LaidOut(copied, kind, 12) /\ Piece(k, kind) = FieldText(f, n, kind)
    BY <1>1, <1>2, PieceSays
  <1>4. k \in 1..(val_state - 1)
    <2>1. 12 \in 2..12
      OBVIOUS
    <2>2. val_state = 12
      BY <1>1, <1>3, <2>1, LoopGoesOn
    <2>3. QED BY <2>2
  <1>5. Walking(kind, 12)
    <2>1. 12 \in 2..12
      OBVIOUS
    <2>2. QED BY <1>1, <1>3, <2>1 DEF GpsInv, WalkInv
  <1>6. gprmc_record[f] = Piece(k, kind)
    <2>1. k \in 1..(12 - 1) /\ k < val_state
      <3>1. val_state \in Nat
        BY <1>1 DEF TypeOK
      <3>2. QED BY <1>4, <3>1
    <2>2. QED BY <1>2, <1>3, <1>5, <2>1 DEF Walking
  <1>7. QED BY <1>1, <1>3, <1>6

(* No other step touches the record, nor leaves the loop.                  *)
LEMMA RecordKept ==
  ASSUME [Next]_vars, ~EachField, ~FieldsDone
  PROVE  gprmc_record' = gprmc_record /\ ~(pc = "fields" /\ pc' # "fields")
  <1> USE DEF stringVars, copyVars, parseVars, fieldVars, recordVars, history, callVars
  <1>1. CASE UNCHANGED vars
    BY <1>1 DEF vars
  <1>2. CASE Interrupt
    BY <1>2 DEF Interrupt, GprmcArrives, OtherArrives
  <1>3. CASE Call \/ StartOther \/ StartCopy \/ Copy \/ FirstField
    BY <1>3 DEF Call, StartOther, StartCopy, Copy, FirstField
  <1>4. CASE ReturnNothing \/ ReturnLatitude \/ ReturnLongitude
    BY <1>4 DEF ReturnNothing, ReturnLatitude, ReturnLongitude
  <1>5. ASSUME NEW type \in Types, Skip(type) \/ LoadDirty(type) \/ StoreDirty(type)
        PROVE  gprmc_record' = gprmc_record /\ ~(pc = "fields" /\ pc' # "fields")
    BY <1>5 DEF Skip, LoadDirty, StoreDirty, Load, Store, Types
  <1>6. QED BY <1>1, <1>2, <1>3, <1>4, <1>5 DEF Next, Main

(* xstrtok() and the branches of parse_gprmc_sentence(): a copy that is    *)
(* one whole sentence changes a value only to what it says of that value,  *)
(* and all it says is stored when the loop ends.                           *)
THEOREM ParseExactCorrect == Spec => ParseExact
  <1> DEFINE Says(n, f) ==
               LET text == FieldText(f, n, kinds[n]) IN
               /\ gprmc_record'[f] # gprmc_record[f] => text # <<>> /\ gprmc_record'[f] = text
               /\ pc' # "fields" /\ text # <<>> => gprmc_record'[f] = text
             Exact == pc = "fields" =>
                      \A n \in 1..sentences : copied = Sentence(n, kinds[n]) =>
                        \A f \in Values : Says(n, f)
  <1>1. ASSUME GpsInv, [Next]_vars, pc = "fields", NEW n \in 1..sentences,
               copied = Sentence(n, kinds[n]), NEW f \in Values
        PROVE  Says(n, f)
    <2>1. kinds[n] \in Kinds
      BY <1>1 DEF GpsInv, TypeOK
    <2>2. CASE EachField
      <3>1. pc' = "fields"
        BY <2>2 DEF EachField
      <3>2. gprmc_record'[f] # gprmc_record[f] =>
              /\ FieldText(f, n, kinds[n]) # <<>>
              /\ gprmc_record'[f] = FieldText(f, n, kinds[n])
        BY <1>1, <2>1, <2>2, TurnExact
      <3>3. QED BY <3>1, <3>2
    <2>3. CASE FieldsDone
      <3>1. gprmc_record' = gprmc_record
        BY <2>3 DEF FieldsDone, recordVars
      <3>2. FieldText(f, n, kinds[n]) # <<>> =>
              gprmc_record'[f] = FieldText(f, n, kinds[n])
        BY <1>1, <2>1, <2>3, EndExact
      <3>3. QED BY <3>1, <3>2
    <2>4. CASE ~EachField /\ ~FieldsDone
      <3>1. gprmc_record' = gprmc_record /\ pc' = "fields"
        BY <1>1, <2>4, RecordKept
      <3>2. QED BY <3>1
    <2>5. QED BY <2>2, <2>3, <2>4
  <1>2. GpsInv /\ [Next]_vars => Exact
    BY <1>1
  <1>3. GpsInv /\ [Next]_vars => [Exact]_vars
    BY <1>2
  <1>4. QED BY <1>3, GpsInductive, PTL DEF Spec, ParseExact

(* gps_l80_get_latitude() and gps_l80_get_longitude() never deliver an     *)
(* older position than main() has, nor none once it had one, as long as no *)
(* copy was torn or damaged - although the bits of the validity come and   *)
(* go and a dirty bit may be wiped out.                                    *)
THEOREM LocationNeverOlderCorrect == Spec => LocationNeverOlder
  <1> DEFINE Later(old, new) == NotNewer(old, new) /\ (new = <<>> => old = <<>>)
  <1>1. ASSUME [Next]_vars
        PROVE  /\ latitude' = latitude \/ (ReturnLatitude /\ latitude' = gprmc_record["LATITUDE"])
               /\ longitude' = longitude
                  \/ (ReturnLongitude /\ longitude' = gprmc_record["LONGITUDE"])
    <2> USE DEF callVars
    <2>1. CASE UNCHANGED vars
      BY <2>1 DEF vars
    <2>2. CASE Interrupt
      BY <2>2 DEF Interrupt, GprmcArrives, OtherArrives
    <2>3. CASE Call \/ StartOther \/ StartCopy \/ Copy \/ FirstField \/ EachField \/ FieldsDone
      BY <2>3 DEF Call, StartOther, StartCopy, Copy, FirstField, EachField, FieldsDone
    <2>4. CASE ReturnNothing \/ ReturnLatitude \/ ReturnLongitude
      BY <2>4 DEF ReturnNothing, ReturnLatitude, ReturnLongitude, Delivered
    <2>5. ASSUME NEW type \in Types, Skip(type) \/ LoadDirty(type) \/ StoreDirty(type)
          PROVE  latitude' = latitude /\ longitude' = longitude
      BY <2>5 DEF Skip, LoadDirty, StoreDirty
    <2>6. QED BY <1>1, <2>1, <2>2, <2>3, <2>4, <2>5 DEF Next, Main
  <1>2. ASSUME GpsInv, [Next]_vars, whole
        PROVE  Later(latitude, latitude') /\ Later(longitude, longitude')
    <2>1. KeptBy("LATITUDE", latitude) /\ KeptBy("LONGITUDE", longitude)
      BY <1>2 DEF GpsInv, WholeInv
    <2>2. Later(latitude, latitude) /\ Later(latitude, gprmc_record["LATITUDE"])
      BY <2>1 DEF KeptBy
    <2>3. Later(longitude, longitude) /\ Later(longitude, gprmc_record["LONGITUDE"])
      BY <2>1 DEF KeptBy
    <2> HIDE DEF Later
    <2>4. QED BY <1>1, <1>2, <2>2, <2>3
  <1>3. GpsInv /\ [Next]_vars => [whole => Later(latitude, latitude')
                                           /\ Later(longitude, longitude')]_vars
    BY <1>2
  <1>4. QED BY <1>3, GpsInductive, PTL DEF Spec, LocationNeverOlder
=============================================================================
