---------------------------- MODULE MCFlowSerial ----------------------------
(* The instance of MCFlow with one update at a time.                       *)
EXTENDS FlowSerial

CONSTANTS bybit, gate

ASSUME SerialInstance == OneAtATime

MCConfigs == {{}, {bybit}, {bybit, gate}}

=============================================================================
