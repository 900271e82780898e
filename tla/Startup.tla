------------------------------ MODULE Startup -------------------------------
(***************************************************************************)
(* The life of the process (bot/main.py run): the credentials of the       *)
(* environment are revealed and checked exchange by exchange               *)
(* (bot/config.py, bot/security/secrets.py), the adapters are built        *)
(* (bot/exchanges/registry.py), the bot polls, and on the way out closes   *)
(* every adapter.                                                          *)
(*                                                                         *)
(* A variable of the environment is absent, blank, plain text, or a token  *)
(* made with the master key; a token revealed is plain text.               *)
(***************************************************************************)
EXTENDS Naturals, Sequences, SequencesExt

CONSTANTS
  Specs,            \* EXCHANGE_SPECS: codes in display order
  NeedsSecret,      \* codes with requires_secret
  NeedsPassphrase   \* codes with requires_passphrase

ASSUME SpecsAssumption ==
  Specs \in Seq(ToSet(Specs)) /\ IsInjective(Specs)
ASSUME NeedsAssumption == NeedsSecret \cup NeedsPassphrase \subseteq ToSet(Specs)

VARIABLES
  environment,  \* [demo, master, creds]: fixed
  phase,        \* what run() is about to do
  index,        \* position in Specs
  available,    \* available_exchanges: code -> revealed credentials
  adapters,     \* codes of the adapters built
  closed        \* observation: codes whose aclose has returned

vars == <<environment, phase, index, available, adapters, closed>>

Codes == ToSet(Specs)
Texts == {"absent", "blank", "plain", "token"}
Masters == {"absent", "blank", "malformed", "key"}
Credentials == [key : Texts, secret : Texts, passphrase : Texts]

Phases == {"revealing", "polling", "closing", "stopped", "crashed", "leaked"}

TypeOK ==
  /\ environment \in [demo : BOOLEAN, master : Masters, creds : [Codes -> Credentials]]
  /\ phase \in Phases
  /\ index \in 1..(Len(Specs) + 1)
  /\ DOMAIN available \subseteq Codes
  /\ \A c \in DOMAIN available : available[c] \in Credentials
  /\ adapters \subseteq Codes /\ closed \subseteq adapters

Init ==
  /\ environment \in [demo : BOOLEAN, master : Masters, creds : [Codes -> Credentials]]
  /\ phase = "revealing" /\ index = 1
  /\ available = [c \in {} |-> {}]
  /\ adapters = {} /\ closed = {}

-----------------------------------------------------------------------------
(* Credentials.                                                            *)

\* A token that cannot be decrypted is passed on (a faulty version of Reveal).
RevealLeniently(text) ==
  IF text = "token" /\ environment.master = "key" THEN "plain" ELSE text

\* _reveal: without a master key the text as it is; with one its decryption,
\* which raises on anything but a token, and always if the key is malformed.
Reveal(text) ==
  CASE text = "absent" -> "absent"
    [] text # "absent" /\ environment.master \in {"absent", "blank"} -> text
    [] text = "token" /\ environment.master = "key" -> "plain"
    [] OTHER -> "raises"

Current == Specs[index]

\* What _build_credentials reveals: the passphrase only where it is needed.
Revealed(c) ==
  LET raw == environment.creds[c]
  IN  [key |-> Reveal(raw.key), secret |-> Reveal(raw.secret),
       passphrase |-> IF c \in NeedsPassphrase THEN Reveal(raw.passphrase) ELSE "absent"]

\* Only the key's decryption is checked (a faulty version of Raises).
RaisesByKey(r) == r.key = "raises"

Raises(r) == "raises" \in {r.key, r.secret, r.passphrase}

\* The API key is enough (a faulty version of Complete).
CompleteByKey(c, r) == r.key # "absent"

Complete(c, r) ==
  /\ r.key # "absent"
  /\ c \in NeedsSecret => r.secret # "absent"
  /\ c \in NeedsPassphrase => r.passphrase # "absent"

Stored(c, r) ==
  IF c \notin NeedsSecret /\ r.secret = "absent" THEN [r EXCEPT !.secret = "blank"] ELSE r

\* One turn of available_exchanges.
Consider ==
  /\ phase = "revealing" /\ index <= Len(Specs)
  /\ ~Raises(Revealed(Current))
  /\ available' = IF Complete(Current, Revealed(Current))
                    THEN [c \in DOMAIN available \cup {Current} |->
                            IF c = Current THEN Stored(c, Revealed(c)) ELSE available[c]]
                    ELSE available
  /\ index' = index + 1
  /\ UNCHANGED <<environment, phase, adapters, closed>>

\* SecretError ends the process before the bot exists.
Crash ==
  /\ phase = "revealing" /\ index <= Len(Specs)
  /\ Raises(Revealed(Current))
  /\ phase' = "crashed"
  /\ UNCHANGED <<environment, index, available, adapters, closed>>

-----------------------------------------------------------------------------
(* Adapters, polling, shutdown.                                            *)

\* build_adapters: stubs in demo mode, else the adapters of what is available.
BuildAdapters ==
  /\ phase = "revealing" /\ index > Len(Specs)
  /\ adapters' = IF environment.demo THEN Codes ELSE DOMAIN available
  /\ phase' = "polling"
  /\ UNCHANGED <<environment, index, available, closed>>

\* Polling ends, by a signal or an exception, or does not even begin.
StopPolling ==
  /\ phase = "polling"
  /\ phase' = "closing" /\ index' = 1
  /\ UNCHANGED <<environment, available, adapters, closed>>

\* The next turn of the closing loop; a stub has no aclose.
Close ==
  /\ phase = "closing" /\ index <= Len(Specs)
  /\ index' = index + 1
  /\ closed' = IF environment.demo THEN closed ELSE closed \cup ({Current} \cap adapters)
  /\ UNCHANGED <<environment, phase, available, adapters>>

\* The exception is swallowed and the loop goes on (faulty).
CloseQuietly ==
  /\ phase = "closing" /\ index <= Len(Specs)
  /\ Current \in adapters /\ ~environment.demo
  /\ index' = index + 1
  /\ UNCHANGED <<environment, phase, available, adapters, closed>>

\* An aclose raises: the loop and the bot's own session are left behind.
CloseRaises ==
  /\ phase = "closing" /\ index <= Len(Specs)
  /\ Current \in adapters /\ ~environment.demo
  /\ phase' = "leaked"
  /\ UNCHANGED <<environment, index, available, adapters, closed>>

CloseSession ==
  /\ phase = "closing" /\ index > Len(Specs)
  /\ phase' = "stopped"
  /\ UNCHANGED <<environment, index, available, adapters, closed>>

Next == Consider \/ Crash \/ BuildAdapters \/ StopPolling \/ Close \/ CloseRaises \/ CloseSession

Spec == Init /\ [][Next]_vars

-----------------------------------------------------------------------------
(* Properties.                                                             *)

Serving == phase \in {"polling", "closing", "stopped", "leaked"}

Needed(c) ==
  {"key"} \cup (IF c \in NeedsSecret THEN {"secret"} ELSE {})
          \cup (IF c \in NeedsPassphrase THEN {"passphrase"} ELSE {})

\* The exchange menu is exactly what is configured: an exchange is offered if
\* and only if all it needs is set, whatever else is in the environment.
MenuIsWhatIsConfigured ==
  Serving /\ ~environment.demo =>
    adapters = {c \in Codes : \A f \in Needed(c) : environment.creds[c][f] # "absent"}

\* With a master key no adapter signs with a text that is not one of its
\* tokens, decrypted: a bad credential stops the process instead.
OnlyDecrypted ==
  Serving /\ environment.master \in {"malformed", "key"} =>
    \A c \in DOMAIN available : \A f \in Needed(c) :
      environment.creds[c][f] = "token" /\ available[c][f] = "plain"

\* A client is left open only by an aclose that raised: a shutdown that comes to
\* its end has closed them all, one cut short all up to the one that raised.
StoppedAllClosed ==
  ~environment.demo =>
    /\ phase = "stopped" => closed = adapters
    /\ phase = "leaked" =>
         Current \in adapters /\ closed = adapters \cap {Specs[i] : i \in 1..(index - 1)}

\* What .env.example says: an exchange left blank is not registered.
BlankIsSkipped ==
  Serving /\ ~environment.demo =>
    \A c \in adapters : environment.creds[c].key # "blank"

=============================================================================
