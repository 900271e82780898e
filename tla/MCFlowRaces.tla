---------------------------- MODULE MCFlowRaces -----------------------------
(* MCFlow watched for races, with symmetric updates.                       *)
EXTENDS FlowRaces, TLC

CONSTANTS bybit, gate

MCConfigs == {{}, {bybit}, {bybit, gate}}
Symmetry == Permutations(TaskIds)

=============================================================================
