------------------------------- MODULE GpsLine -------------------------------
(***************************************************************************)
(* The line from the GPS: the UART interrupt of gps_l80_mikro.c collects   *)
(* characters until a newline and then stores the sentence by its type.    *)
(* The interrupt is enabled in the middle of a sentence, and characters    *)
(* may be lost.                                                            *)
(*                                                                         *)
(* A sentence is "$", its type and its values, each one character here.    *)
(***************************************************************************)
EXTENDS Naturals, Sequences

CONSTANTS NMEA_RECORD_LENGTH,   \* size of the buffer
          Sentences,            \* what the GPS sends, without the newline
          NmeaTypes,            \* the types that the handler knows
          MaxLost               \* characters lost

MaxBuffer == NMEA_RECORD_LENGTH - 1
NEWLINE   == "newline"

Characters == UNION {{s[i] : i \in 1..Len(s)} : s \in Sentences}

(* NMEA sentences have at most 82 characters, of which the first only is a *)
(* "$" and none a newline.                                                 *)
ASSUME LineAssumption ==
  /\ MaxLost \in Nat /\ NMEA_RECORD_LENGTH \in Nat \ {0}
  /\ NEWLINE \notin Characters
  /\ \A s \in Sentences :
       /\ s \in Seq(Characters) /\ 3 * Len(s) <= MaxBuffer
       /\ s # <<>> /\ \A i \in 1..Len(s) : s[i] = "$" <=> i = 1

VARIABLES
  buffer,                \* the first buffer_size characters of the buffer
  nmea_record_strings,   \* the sentence stored last for each type
  line,                  \* the characters yet to come of a sentence
  current,               \* the sentence, <<>> for the one cut off at the start
  lost                   \* how many characters have been lost

lineVars == <<buffer, nmea_record_strings, line, current, lost>>

Framed(s)   == Append(s, NEWLINE)
Rests(s) == {SubSeq(s, i, Len(s)) : i \in 2..(Len(s) + 1)}

LineInit ==
  /\ buffer = <<>>
  /\ nmea_record_strings = [t \in NmeaTypes |-> <<>>]
  /\ line \in UNION {Rests(Framed(s)) : s \in Sentences}
  /\ current = <<>>
  /\ lost = 0

-----------------------------------------------------------------------------
(* The GPS.                                                                *)
NextSentence ==
  /\ line = <<>>
  /\ \E s \in Sentences : current' = s /\ line' = Framed(s)
  /\ UNCHANGED <<buffer, nmea_record_strings, lost>>

Lose ==
  /\ line # <<>> /\ lost < MaxLost
  /\ line' = Tail(line)
  /\ lost' = lost + 1
  /\ UNCHANGED <<buffer, nmea_record_strings, current>>

(* gps_l80_mikro_interrupt_handler().                                      *)
CharacterUnchecked ==
  /\ line # <<>> /\ Head(line) # NEWLINE
  /\ line' = Tail(line)
  /\ buffer' = Append(buffer, Head(line))
  /\ UNCHANGED <<nmea_record_strings, current, lost>>

Character ==
  /\ line # <<>> /\ Head(line) # NEWLINE
  /\ line' = Tail(line)
  /\ buffer' = (IF Len(buffer) < MaxBuffer THEN Append(buffer, Head(line)) ELSE buffer)
  /\ UNCHANGED <<nmea_record_strings, current, lost>>

(* The first "$", the record that starts there, and whether its type is    *)
(* known.                                                                  *)
Dollars  == {i \in 1..Len(buffer) : buffer[i] = "$"}
Record   == SubSeq(buffer, CHOOSE i \in Dollars : \A j \in Dollars : i <= j, Len(buffer))
Known(r) == Len(r) >= 2 /\ r[2] \in NmeaTypes

NewlineUnreset ==
  /\ line # <<>> /\ Head(line) = NEWLINE
  /\ line' = Tail(line)
  /\ IF Dollars # {} /\ Known(Record)
     THEN nmea_record_strings' = [nmea_record_strings EXCEPT ![Record[2]] = Record]
     ELSE UNCHANGED nmea_record_strings
  /\ UNCHANGED <<buffer, current, lost>>

NewlineUnsought ==
  /\ line # <<>> /\ Head(line) = NEWLINE
  /\ line' = Tail(line)
  /\ IF 1 \notin Dollars
     THEN UNCHANGED <<buffer, nmea_record_strings>>
     ELSE /\ IF Known(buffer)
             THEN nmea_record_strings' = [nmea_record_strings EXCEPT ![buffer[2]] = buffer]
             ELSE UNCHANGED nmea_record_strings
          /\ buffer' = <<>>
  /\ UNCHANGED <<current, lost>>

(* Without a "$" the handler returns and keeps what it has.                *)
Newline ==
  /\ line # <<>> /\ Head(line) = NEWLINE
  /\ line' = Tail(line)
  /\ IF Dollars = {}
     THEN UNCHANGED <<buffer, nmea_record_strings>>
     ELSE /\ IF Known(Record)
             THEN nmea_record_strings' = [nmea_record_strings EXCEPT ![Record[2]] = Record]
             ELSE UNCHANGED nmea_record_strings
          /\ buffer' = <<>>
  /\ UNCHANGED <<current, lost>>

-----------------------------------------------------------------------------
Receive  == Character \/ Newline
LineNext == NextSentence \/ Lose \/ Receive

LineSpec == LineInit /\ [][LineNext]_lineVars

(* The GPS sends for ever, and the characters not lost are received.       *)
FairLineSpec == LineSpec /\ WF_lineVars(NextSentence) /\ WF_lineVars(Receive)

-----------------------------------------------------------------------------
LineTypeOK ==
  /\ buffer \in Seq(Characters) /\ Len(buffer) <= MaxBuffer
  /\ nmea_record_strings \in [NmeaTypes -> Seq(Characters)]
  /\ line \in Seq(Characters \cup {NEWLINE})
  /\ current \in Sentences \cup {<<>>}
  /\ lost \in 0..MaxLost

(* When no character is lost, every sentence of a known type is stored     *)
(* whole under its type as soon as it is through, the first after the      *)
(* interrupt is enabled in mid-sentence included.                          *)
Stored ==
  line = <<>> /\ current # <<>> /\ Known(current)
    => nmea_record_strings[current[2]] = current

SentenceStored == lost = 0 => Stored

(* Two lost characters do not harm for long: from some time on every       *)
(* sentence is stored again.  (After a third, characters without a "$" may *)
(* fill the buffer, and then no "$" ever gets into it any more.)           *)
RecoversFromLoss == [](lost <= 2) => <>[]Stored
=============================================================================
