--------------------------------- MODULE Gps ---------------------------------
(***************************************************************************)
(* gps_l80_mikro.c: the interrupt handler leaves each sentence of the GPS  *)
(* in nmea_record_strings and marks it dirty; main() copies the dirty ones *)
(* with strcpy(), walks through the fields of the copy and clears the      *)
(* dirty bit with a load and a store.  The handler strikes between any two *)
(* of these steps and between any two characters of the copy.              *)
(*                                                                         *)
(* A sentence is GPRMC, which has a parser, or of a type without one.  Its *)
(* text begins after the type.  A digit is known by the field it belongs   *)
(* to and by the number of its sentence; latitude and longitude have two   *)
(* digits, the speed one or two, every other field one or none.  The       *)
(* numbers that strtod() makes of a field's text are represented by the    *)
(* text.                                                                   *)
(***************************************************************************)
EXTENDS Naturals, SequencesExt

CONSTANTS MaxSentences,   \* GPRMC sentences that the GPS sends
          MaxDamaged,     \* how many of them lose a comma on the line
          Losses,         \* and the places where a comma may be lost
          Stacks          \* what the memory of record_str, and behind it, may hold

Types == {"GPGGA", "GPRMC"}

(* The values of a GPRMC record in their order.  The L80 sends one field   *)
(* more, its mode, and leaves the variation empty.                         *)
Fields == <<"TIME_STAMP", "VALIDITY", "LATITUDE", "LATITUDE_DIRECTION", "LONGITUDE",
            "LONGITUDE_DIRECTION", "SPEED", "TRUE_COURSE", "DATE_STAMP", "VARIATION",
            "VARIATION_DIRECTION">>
Values == ToSet(Fields)
Place4 == {"LATITUDE", "LATITUDE_DIRECTION", "LONGITUDE", "LONGITUDE_DIRECTION"}

COMMA == <<"comma", 0>>
NUL   == <<"nul", 0>>
JUNK  == <<"junk", 0>>    \* a character that the stack holds

(* How a sentence is laid out: with a position and a speed of one digit    *)
(* or two - its width varies, and the course's: the fields behind them     *)
(* move - or without a position.  And the text of the n-th that is sent.   *)
Kinds == {"slow", "fast", "nowhere"}
Layout == [kind \in Kinds |->
  CASE kind = "slow"    -> <<"TIME_STAMP", "comma", "VALIDITY", "comma",
                             "LATITUDE", "LATITUDE", "comma", "LATITUDE_DIRECTION", "comma",
                             "LONGITUDE", "LONGITUDE", "comma", "LONGITUDE_DIRECTION", "comma",
                             "SPEED", "comma", "TRUE_COURSE", "comma", "DATE_STAMP", "comma",
                             "comma", "comma", "MODE">>
    [] kind = "fast"    -> <<"TIME_STAMP", "comma", "VALIDITY", "comma",
                             "LATITUDE", "LATITUDE", "comma", "LATITUDE_DIRECTION", "comma",
                             "LONGITUDE", "LONGITUDE", "comma", "LONGITUDE_DIRECTION", "comma",
                             "SPEED", "SPEED", "comma", "TRUE_COURSE", "comma", "DATE_STAMP",
                             "comma", "comma", "comma", "MODE">>
    [] kind = "nowhere" -> <<"TIME_STAMP", "comma", "VALIDITY", "comma",
                             "comma", "comma", "comma", "comma",
                             "SPEED", "comma", "TRUE_COURSE", "comma", "DATE_STAMP", "comma",
                             "comma", "comma", "MODE">>]

Sentence(n, kind) ==
  [i \in 1..Len(Layout[kind]) |->
     IF Layout[kind][i] = "comma" THEN COMMA ELSE <<Layout[kind][i], n>>]

(* The array and what follows it on the stack.  The array is not           *)
(* initialised: any text, commas and NULs may stand behind the copy.       *)
(* Nothing but two NULs in a row is certain to stop the loop: they are     *)
(* taken to come somewhere, but not where.                                 *)
LastCell == Len(Layout["fast"]) + 5
Cells    == 1..LastCell
Unused   == [i \in Cells |-> NUL]

ASSUME GpsAssumption ==
  /\ MaxSentences \in Nat /\ MaxDamaged \in Nat
  /\ Stacks \subseteq {s \in [Cells -> {COMMA, NUL, JUNK}] :
                        s[LastCell - 1] = NUL /\ s[LastCell] = NUL}

VARIABLES
  sentences,                   \* how many GPRMC sentences have come,
  kinds, damaged,              \* of which kinds, which of them lost a character
  nmea_record_string,          \* the array with the last of them, as stored for main()
  nmea_record_dirty_strings,   \* the types whose bits are set
  record_str,                  \* the copy that is parsed,
  ptr,                         \* and the cell that is next, for strcpy() or the loop
  field, val_state,            \* the text of a field, and the number of its value
  gprmc_record,                \* the values parsed last,
  valid_values,                \* and which of them are valid
  latitude, longitude,         \* the location in dsrc.c
  copied,                      \* history: the copy being parsed, as it was copied,
  whole,                       \* and whether every copy was one sentence, undamaged
  caller,                      \* what main() updates the records for
  reg,                         \* the dirty bits loaded
  pc

stringVars == <<sentences, kinds, damaged, nmea_record_string>>
copyVars   == <<record_str, ptr>>
fieldVars  == <<field, val_state>>
recordVars == <<gprmc_record, valid_values>>
history    == <<copied, whole>>
parseVars  == <<fieldVars, recordVars, history>>
callVars   == <<latitude, longitude, caller>>
vars == <<stringVars, nmea_record_dirty_strings, copyVars, parseVars, callVars, reg, pc>>

Init ==
  /\ sentences = 0 /\ kinds = <<>> /\ damaged = {}
  /\ nmea_record_string = Unused
  /\ nmea_record_dirty_strings = {}
  /\ record_str = Unused /\ ptr = 1 /\ field = <<>> /\ val_state = 1
  /\ gprmc_record = [f \in Values |-> <<>>] /\ valid_values = {}
  /\ copied = <<>> /\ whole = TRUE
  /\ latitude = <<>> /\ longitude = <<>>
  /\ caller = "none" /\ reg = {} /\ pc = "idle"

-----------------------------------------------------------------------------
(* The interrupt at the end of a sentence: strcpy() into the array, where  *)
(* the end of a longer sentence stays behind the new one.                  *)
StoredText(text) ==
  [i \in Cells |-> IF i <= Len(text) THEN text[i]
                   ELSE IF i = Len(text) + 1 THEN NUL ELSE nmea_record_string[i]]

GprmcArrives(kind) ==
  /\ sentences < MaxSentences
  /\ sentences' = sentences + 1
  /\ kinds' = [n \in 1..sentences' |-> IF n = sentences' THEN kind ELSE kinds[n]]
  /\ LET text == Sentence(sentences', kind) IN
       \/ nmea_record_string' = StoredText(text) /\ UNCHANGED damaged
       \/ /\ Cardinality(damaged) < MaxDamaged
          /\ damaged' = damaged \cup {sentences'}
          /\ \E i \in 1..Len(text) \cap Losses :
               text[i] = COMMA /\ nmea_record_string' = StoredText(RemoveAt(text, i))
  /\ nmea_record_dirty_strings' = nmea_record_dirty_strings \cup {"GPRMC"}
  /\ UNCHANGED <<copyVars, parseVars, callVars, reg, pc>>

OtherArrives ==
  /\ nmea_record_dirty_strings' = nmea_record_dirty_strings \cup {"GPGGA"}
  /\ UNCHANGED <<stringVars, copyVars, parseVars, callVars, reg, pc>>

-----------------------------------------------------------------------------
(* gps_l80_mikro_records_update(), called for the GPS event, for a         *)
(* latitude or, next, for a longitude.                                     *)
Call ==
  /\ pc = "idle"
  /\ caller' \in {"parse", "latitude"}
  /\ pc' = "GPGGA"
  /\ UNCHANGED <<stringVars, nmea_record_dirty_strings, copyVars, parseVars,
                 latitude, longitude, reg>>

(* The loop comes to a type, in the order of the enumeration.              *)
Skip(type) ==
  /\ pc = type /\ type \notin nmea_record_dirty_strings
  /\ pc' = (IF type = "GPRMC" THEN "return" ELSE "GPRMC")
  /\ UNCHANGED <<stringVars, nmea_record_dirty_strings, copyVars, parseVars, callVars, reg>>

(* A type without a parser: its fields are not looked at.                  *)
StartOther ==
  /\ pc = "GPGGA" /\ "GPGGA" \in nmea_record_dirty_strings
  /\ pc' = "load_GPGGA"
  /\ UNCHANGED <<stringVars, nmea_record_dirty_strings, copyVars, parseVars, callVars, reg>>

(* Other functions wrote on the stack since the last call.                 *)
StartCopy ==
  /\ pc = "GPRMC" /\ "GPRMC" \in nmea_record_dirty_strings
  /\ record_str' \in Stacks
  /\ pc' = "copy"
  /\ UNCHANGED <<stringVars, nmea_record_dirty_strings, ptr, parseVars, callVars, reg>>

(* strcpy() comes to a character.                                          *)
CopyBackwards ==
  LET i == CHOOSE k \in Cells : k + ptr = Cardinality(Cells) + 1 IN
  /\ pc = "copy"
  /\ record_str' = [record_str EXCEPT ![i] = nmea_record_string[i]]
  /\ IF i = 1 THEN ptr' = 1 /\ pc' = "first_field" ELSE ptr' = ptr + 1 /\ UNCHANGED pc
  /\ UNCHANGED <<stringVars, nmea_record_dirty_strings, parseVars, callVars, reg>>

Copy ==
  /\ pc = "copy"
  /\ record_str' = [record_str EXCEPT ![ptr] = nmea_record_string[ptr]]
  /\ IF nmea_record_string[ptr] = NUL
       THEN ptr' = 1 /\ pc' = "first_field"
       ELSE ptr' = ptr + 1 /\ UNCHANGED pc
  /\ UNCHANGED <<stringVars, nmea_record_dirty_strings, parseVars, callVars, reg>>

(* xstrtok(): the text from a cell up to the first comma, which becomes a  *)
(* NUL, or up to a NUL, wherever on the stack that is.                     *)
TokenEnd == SelectInSubSeq(record_str, ptr, LastCell, LAMBDA c : c \in {COMMA, NUL})

(* "ptr" is one character ahead of "field": at the last one it points past *)
(* the end of the string.                                                  *)
NextFieldShort ==
  /\ field' = SubSeq(record_str, ptr, TokenEnd - 1)
  /\ record_str' = [record_str EXCEPT ![TokenEnd] = NUL]
  /\ ptr' = TokenEnd

NextField ==
  /\ field' = SubSeq(record_str, ptr, TokenEnd - 1)
  /\ record_str' = [record_str EXCEPT ![TokenEnd] = NUL]
  /\ ptr' = TokenEnd + 1

(* The branch for one of the values: its text is stored and its bit set,   *)
(* or its bit cleared when it is empty.  The bit of the speed is the       *)
(* longitude's.  The numbers behind the eleventh value are no value's.     *)
Bit(f) == IF f = "SPEED" THEN "LONGITUDE" ELSE f

StoreFieldEmpty ==
  IF val_state > Len(Fields) THEN UNCHANGED <<recordVars, val_state>>
  ELSE LET f == Fields[val_state] IN
       /\ val_state' = val_state + 1
       /\ gprmc_record' = [gprmc_record EXCEPT ![f] = field]
       /\ valid_values' = valid_values \cup {Bit(f)}

StoreField ==
  IF val_state > Len(Fields) THEN UNCHANGED <<recordVars, val_state>>
  ELSE LET f == Fields[val_state] IN
       /\ val_state' = val_state + 1
       /\ IF field = <<>>
          THEN valid_values' = valid_values \ {Bit(f)} /\ UNCHANGED gprmc_record
          ELSE /\ gprmc_record' = [gprmc_record EXCEPT ![f] = field]
               /\ valid_values' = valid_values \cup {Bit(f)}

(* The first field is looked up before the loop.  What was copied, as a    *)
(* history.  Damage that leaves no trace - an empty field's comma is like  *)
(* the next one's - is none.                                               *)
Copied == SubSeq(record_str, 1, SelectInSeq(record_str, LAMBDA c : c = NUL) - 1)

IsSentence(text) == \E n \in 1..sentences : text = Sentence(n, kinds[n])

FirstField ==
  /\ pc = "first_field"
  /\ NextField
  /\ pc' = "fields"
  /\ copied' = Copied /\ whole' = (whole /\ IsSentence(Copied))
  /\ UNCHANGED <<stringVars, nmea_record_dirty_strings, val_state, recordVars, callVars, reg>>

(* The loop over the fields: while there is text at "ptr", be it behind    *)
(* the copy.                                                               *)
More == record_str[ptr] # NUL

EachFieldAhead ==
  /\ pc = "fields" /\ More
  /\ NextField
  /\ val_state \in DOMAIN Fields /\ val_state' = val_state + 1
  /\ gprmc_record' = [gprmc_record EXCEPT ![Fields[val_state]] = field']
  /\ valid_values' = valid_values \cup {Bit(Fields[val_state])}
  /\ UNCHANGED <<stringVars, nmea_record_dirty_strings, history, callVars, reg, pc>>

EachField ==
  /\ pc = "fields" /\ More
  /\ StoreField /\ NextField
  /\ UNCHANGED <<stringVars, nmea_record_dirty_strings, history, callVars, reg, pc>>

(* Its variables are gone.                                                 *)
FieldsDone ==
  /\ pc = "fields" /\ ~More
  /\ pc' = "load_GPRMC"
  /\ record_str' = Unused /\ ptr' = 1 /\ field' = <<>> /\ val_state' = 1 /\ copied' = <<>>
  /\ UNCHANGED <<stringVars, nmea_record_dirty_strings, recordVars, whole, callVars, reg>>

(* nmea_record_dirty_strings &= bitclear(type).                            *)
Load(type)  == IF type = "GPRMC" THEN "load_GPRMC" ELSE "load_GPGGA"
Store(type) == IF type = "GPRMC" THEN "store_GPRMC" ELSE "store_GPGGA"

LoadDirty(type) ==
  /\ pc = Load(type)
  /\ reg' = nmea_record_dirty_strings
  /\ pc' = Store(type)
  /\ UNCHANGED <<stringVars, nmea_record_dirty_strings, copyVars, parseVars, callVars>>

StoreDirtyOnePast(type) ==
  /\ pc = Store(type)
  /\ nmea_record_dirty_strings' = reg \ {type}
  /\ reg' = {}
  /\ pc' = (IF type = "GPRMC" THEN "NMEA_TYPE_COUNT" ELSE "GPRMC")
  /\ UNCHANGED <<stringVars, copyVars, parseVars, callVars>>

StoreDirty(type) ==
  /\ pc = Store(type)
  /\ nmea_record_dirty_strings' = reg \ {type}
  /\ reg' = {}
  /\ pc' = (IF type = "GPRMC" THEN "return" ELSE "GPRMC")
  /\ UNCHANGED <<stringVars, copyVars, parseVars, callVars>>

-----------------------------------------------------------------------------
(* Back in gps_parse_buffer(), gps_l80_get_latitude() or                   *)
(* gps_l80_get_longitude(), which main() calls one after the other.  An    *)
(* invalid value is not delivered.                                         *)
ReturnNothing ==
  /\ pc = "return" /\ caller = "parse"
  /\ pc' = "idle" /\ caller' = "none"
  /\ UNCHANGED <<stringVars, nmea_record_dirty_strings, copyVars, parseVars,
                 latitude, longitude, reg>>

Delivered(f, old) == IF f \in valid_values THEN gprmc_record[f] ELSE old

ReturnLatitude ==
  /\ pc = "return" /\ caller = "latitude"
  /\ latitude' = Delivered("LATITUDE", latitude)
  /\ caller' = "longitude"
  /\ pc' = "GPGGA"
  /\ UNCHANGED <<stringVars, nmea_record_dirty_strings, copyVars, parseVars, longitude, reg>>

ReturnLongitude ==
  /\ pc = "return" /\ caller = "longitude"
  /\ longitude' = Delivered("LONGITUDE", longitude)
  /\ pc' = "idle" /\ caller' = "none"
  /\ UNCHANGED <<stringVars, nmea_record_dirty_strings, copyVars, parseVars, latitude, reg>>

-----------------------------------------------------------------------------
Interrupt == (\E kind \in Kinds : GprmcArrives(kind)) \/ OtherArrives
Main      == \/ Call \/ StartOther \/ StartCopy \/ Copy
             \/ FirstField \/ EachField \/ FieldsDone
             \/ \E type \in Types : Skip(type) \/ LoadDirty(type) \/ StoreDirty(type)
             \/ ReturnNothing \/ ReturnLatitude \/ ReturnLongitude
Next      == Interrupt \/ Main

Spec == Init /\ [][Next]_vars

-----------------------------------------------------------------------------
(* No character is of a sentence that has not come yet.                    *)
Digits    == (Values \cup {"MODE"}) \X (1..sentences)
Locations == {"idle", "copy", "first_field", "fields", "return"} \cup Types
             \cup {"load_GPGGA", "load_GPRMC", "store_GPGGA", "store_GPRMC"}

TypeOK ==
  /\ sentences \in 0..MaxSentences
  /\ kinds \in [1..sentences -> Kinds] /\ damaged \subseteq 1..sentences
  /\ nmea_record_string \in [Cells -> Digits \cup {COMMA, NUL}]
  /\ record_str \in [Cells -> Digits \cup {COMMA, NUL, JUNK}] /\ ptr \in Cells
  /\ field \in Seq(Digits \cup {JUNK}) /\ val_state \in 1..(Len(Fields) + 1)
  /\ nmea_record_dirty_strings \subseteq Types /\ reg \subseteq Types
  /\ gprmc_record \in [Values -> Seq(Digits \cup {JUNK})]
  /\ valid_values \subseteq Values
  /\ copied \in Seq(Digits \cup {COMMA}) /\ whole \in BOOLEAN
  /\ latitude \in Seq(Digits \cup {JUNK}) /\ longitude \in Seq(Digits \cup {JUNK})
  /\ caller \in {"none", "parse", "latitude", "longitude"}
  /\ pc \in Locations

(* What a sentence says of a value.                                        *)
FieldText(f, n, kind) ==
  CASE f \in {"VARIATION", "VARIATION_DIRECTION"} \/ (f \in Place4 /\ kind = "nowhere") -> <<>>
    [] \/ f \in {"LATITUDE", "LONGITUDE"} /\ kind # "nowhere"
       \/ f = "SPEED" /\ kind = "fast"                         -> << <<f, n>>, <<f, n>> >>
    [] OTHER                                                   -> << <<f, n>> >>

(* The walk with its pointer one field ahead reads a whole sentence field  *)
(* by field, whatever stands behind it on the stack: a value is replaced   *)
(* only by what the sentence says of it, and in the end each that it says  *)
(* is there - while the loop goes by what comes after the sentence's end.  *)
(* Also when the record was wrong before, after a torn copy.               *)
ParseExact ==
  [][pc = "fields" => \A n \in 1..sentences : copied = Sentence(n, kinds[n]) =>
       \A f \in Values :
         LET text == FieldText(f, n, kinds[n]) IN
         /\ gprmc_record'[f] # gprmc_record[f] => text # <<>> /\ gprmc_record'[f] = text
         /\ pc' # "fields" /\ text # <<>> => gprmc_record'[f] = text]_vars

(* While every sentence has a position they are laid out alike up to the   *)
(* speed, whose width varies: a copy torn by the interrupt may mix the     *)
(* digits of two sentences, but takes none for another field's in what     *)
(* comes before it - time, validity and the position.  (Behind it a torn   *)
(* copy may lack or double a comma, and the fields shift.)                 *)
Aligned == {"TIME_STAMP", "VALIDITY"} \cup Place4
AllPlaced == (\A n \in 1..sentences : kinds[n] # "nowhere") /\ damaged = {}
TornAligned ==
  AllPlaced => \A f \in Aligned :
                 \A i \in 1..Len(gprmc_record[f]) : gprmc_record[f][i][1] = f

(* Digit by digit, no later than.                                          *)
NotNewer(a, b) == \A i \in 1..Len(a), j \in 1..Len(b) : a[i][2] <= b[j][2]

(* While every sentence has a position, no digit of the longitude main()   *)
(* works with is older than one of its latitude, which it asks for first   *)
(* and which comes first in every copy.  (The two need not be of one fix.) *)
LongitudeNotOlder == pc = "idle" /\ AllPlaced => NotNewer(latitude, longitude)

(* main() never goes back to an older position nor, once it has one, to    *)
(* none: not when the fix is lost, nor when a dirty bit is wiped out.  As  *)
(* long as no copy was torn or damaged: then anything may be delivered.    *)
LocationNeverOlder ==
  [][whole =>
       /\ NotNewer(latitude, latitude') /\ (latitude' = <<>> => latitude = <<>>)
       /\ NotNewer(longitude, longitude') /\ (longitude' = <<>> => longitude = <<>>)]_vars
=============================================================================
