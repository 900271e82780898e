----------------------------- MODULE MCStartup ------------------------------
(* The exchange that needs most and the one that needs least: KuCoin with   *)
(* key, secret and passphrase, BitMart with a key only.                    *)
EXTENDS Startup

MCSpecs == <<"kucoin", "bitmart">>

=============================================================================
