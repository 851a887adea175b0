----------------------------- MODULE MCGpsLine -----------------------------
(* Two sentences of a known type and one of a type that is not known, and  *)
(* a buffer of three sentences.                                            *)
EXTENDS GpsLine

TheSentences == {<<"$", "GPRMC", "1", "2">>, <<"$", "GPRMC", "3">>, <<"$", "GPTXT", "4">>}
TheTypes     == {"GPRMC"}
=============================================================================
