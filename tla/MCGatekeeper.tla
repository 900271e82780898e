---------------------------- MODULE MCGatekeeper ----------------------------
(* Two whitelisted users and a stranger.                                   *)
EXTENDS Gatekeeper, TLC

CONSTANTS owner, developer, stranger

MCUsers == {owner, developer, stranger}
MCAllowed == {owner, developer}

=============================================================================
