------------------------------- MODULE MCFlow -------------------------------
(* Instances of Flow: two exchanges of which one may be configured away by *)
(* a restart, one UID, one valid period, one text that is neither.         *)
EXTENDS Flow

CONSTANTS bybit, gate

MCConfigs == {{}, {bybit}, {bybit, gate}}

=============================================================================
