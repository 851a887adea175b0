----------------------------- MODULE MCWifiBoot -----------------------------
(* Two of the ten settings, which main() and the module treat alike, and a *)
(* network that is up or down at power up.                                 *)
EXTENDS WifiBoot

TwoSettings == <<"set_cp_ssid", "set_list_retry_count">>

AnyNet == {"up", "down"}
=============================================================================
