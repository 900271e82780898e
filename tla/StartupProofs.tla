--------------------------- MODULE StartupProofs ----------------------------
(***************************************************************************)
(* Startup's promises for any list of exchanges, any needs and any         *)
(* environment.                                                            *)
(*                                                                         *)
(* Both loops, the one that reveals credentials and the one that closes    *)
(* adapters, walk Specs with index: the invariant says what is true of the *)
(* exchanges passed so far.                                                *)
(***************************************************************************)
EXTENDS Startup, TLAPS

\* The exchanges the running loop has dealt with.
Passed == {Specs[i] : i \in 1..(index - 1)}

\* All an exchange needs is in the environment.
Sufficient(c) == \A f \in Needed(c) : environment.creds[c][f] # "absent"

Mastered == environment.master \in {"malformed", "key"}

\* Every credential in use is the decryption of a token.
Decrypted ==
  \A c \in DOMAIN available : \A f \in Needed(c) :
    environment.creds[c][f] = "token" /\ available[c][f] = "plain"

\* What the loops have done so far.
LoopsDone ==
  /\ phase = "revealing" =>
       /\ DOMAIN available = {c \in Passed : Sufficient(c)}
       /\ closed = {}
  /\ Serving =>
       /\ DOMAIN available = {c \in Codes : Sufficient(c)}
       /\ adapters = IF environment.demo THEN Codes ELSE DOMAIN available
  /\ phase = "polling" => closed = {}
  /\ phase = "closing" /\ ~environment.demo => closed = adapters \cap Passed
  /\ Mastered => Decrypted

IInv == TypeOK /\ LoopsDone /\ StoppedAllClosed

-----------------------------------------------------------------------------
(* The list of exchanges.                                                  *)

LEMMA SpecsTyped ==
  /\ Len(Specs) \in Nat
  /\ \A i \in 1..Len(Specs) : Specs[i] \in Codes
  /\ Codes = {Specs[i] : i \in 1..Len(Specs)}
<1>1. Specs \in Seq(ToSet(Specs)) BY SpecsAssumption
<1>2. Len(Specs) \in Nat /\ DOMAIN Specs = 1..Len(Specs) BY <1>1
<1> QED BY <1>2 DEF Codes, ToSet

\* Nothing is passed at the start of a loop, everything at its end.
LEMMA PassedEnds ==
  /\ index = 1 => Passed = {}
  /\ index = Len(Specs) + 1 => Passed = Codes
  /\ TypeOK => Passed \subseteq Codes
<1>1. index = 1 => Passed = {} BY DEF Passed
<1>2. index = Len(Specs) + 1 => Passed = Codes BY SpecsTyped DEF Passed
<1>3. TypeOK => Passed \subseteq Codes BY SpecsTyped DEF Passed, TypeOK
<1> QED BY <1>1, <1>2, <1>3

\* One more turn of a loop passes the current exchange.
LEMMA PassedGrows ==
  ASSUME TypeOK, index <= Len(Specs), index' = index + 1
  PROVE  Passed' = Passed \cup {Current}
<1>1. index \in Nat /\ index >= 1 BY SpecsTyped DEF TypeOK
<1>2. 1..(index' - 1) = (1..(index - 1)) \cup {index} BY <1>1
<1> QED BY <1>2 DEF Passed, Current

LEMMA CurrentTyped ==
  ASSUME TypeOK, index <= Len(Specs)
  PROVE  Current \in Codes
BY SpecsTyped DEF TypeOK, Current

-----------------------------------------------------------------------------
(* Credentials.                                                            *)

LEMMA CredentialsTyped ==
  ASSUME TypeOK, NEW c \in Codes
  PROVE  /\ environment.master \in Masters
         /\ environment.creds[c] \in Credentials
         /\ environment.creds[c].key \in Texts
         /\ environment.creds[c].secret \in Texts
         /\ environment.creds[c].passphrase \in Texts
BY DEF TypeOK, Credentials

\* What is revealed of a text that does not raise.
LEMMA RevealKeeps ==
  ASSUME NEW text \in Texts, environment.master \in Masters, Reveal(text) # "raises"
  PROVE  /\ Reveal(text) \in Texts
         /\ Reveal(text) = "absent" <=> text = "absent"
         /\ Mastered /\ text # "absent" => text = "token" /\ Reveal(text) = "plain"
BY DEF Reveal, Texts, Masters, Mastered

\* The three credentials of one exchange, revealed.
LEMMA RevealedTyped ==
  ASSUME TypeOK, NEW c \in Codes, ~Raises(Revealed(c))
  PROVE  /\ Revealed(c) \in Credentials
         /\ Stored(c, Revealed(c)) \in Credentials
<1> DEFINE raw == environment.creds[c]
           r == Revealed(c)
<1>1. /\ r.key = Reveal(raw.key) /\ r.secret = Reveal(raw.secret)
      /\ r.passphrase = IF c \in NeedsPassphrase THEN Reveal(raw.passphrase) ELSE "absent"
  BY DEF Revealed
<1>2. r.key # "raises" /\ r.secret # "raises" /\ r.passphrase # "raises" BY DEF Raises
<1>3. r.key \in Texts /\ r.secret \in Texts BY <1>1, <1>2, CredentialsTyped, RevealKeeps
<1>4. r.passphrase \in Texts
  BY <1>1, <1>2, CredentialsTyped, RevealKeeps DEF Texts
<1>5. r \in Credentials BY <1>3, <1>4 DEF Revealed, Credentials
<1>6. Stored(c, r) \in Credentials
  <2> HIDE DEF r
  <2> QED BY <1>5 DEF Stored, Credentials, Texts
<1> QED BY <1>5, <1>6

\* _build_credentials takes an exchange exactly if what it needs is set.
LEMMA CompleteIsSufficient ==
  ASSUME TypeOK, NEW c \in Codes, ~Raises(Revealed(c))
  PROVE  Complete(c, Revealed(c)) <=> Sufficient(c)
<1> DEFINE raw == environment.creds[c]
           r == Revealed(c)
<1>1. /\ r.key = Reveal(raw.key) /\ r.secret = Reveal(raw.secret)
      /\ r.passphrase = IF c \in NeedsPassphrase THEN Reveal(raw.passphrase) ELSE "absent"
  BY DEF Revealed
<1>2. r.key # "raises" /\ r.secret # "raises" /\ r.passphrase # "raises" BY DEF Raises
<1>3. /\ r.key = "absent" <=> raw.key = "absent"
      /\ r.secret = "absent" <=> raw.secret = "absent"
      /\ c \in NeedsPassphrase => (r.passphrase = "absent" <=> raw.passphrase = "absent")
  BY <1>1, <1>2, CredentialsTyped, RevealKeeps
<1>4. Sufficient(c) <=> /\ raw.key # "absent"
                        /\ c \in NeedsSecret => raw.secret # "absent"
                        /\ c \in NeedsPassphrase => raw.passphrase # "absent"
  BY DEF Sufficient, Needed
<1> QED BY <1>3, <1>4 DEF Complete

\* With a master key what is stored of a needed credential is decrypted.
LEMMA StoredDecrypted ==
  ASSUME TypeOK, NEW c \in Codes, ~Raises(Revealed(c)), Complete(c, Revealed(c)), Mastered,
         NEW f \in Needed(c)
  PROVE  environment.creds[c][f] = "token" /\ Stored(c, Revealed(c))[f] = "plain"
<1> DEFINE raw == environment.creds[c]
           r == Revealed(c)
<1>1. /\ r.key = Reveal(raw.key) /\ r.secret = Reveal(raw.secret)
      /\ r.passphrase = IF c \in NeedsPassphrase THEN Reveal(raw.passphrase) ELSE "absent"
  BY DEF Revealed
<1>2. r.key # "raises" /\ r.secret # "raises" /\ r.passphrase # "raises" BY DEF Raises
<1>3. Sufficient(c) BY CompleteIsSufficient
<1>4. raw[f] # "absent" BY <1>3 DEF Sufficient
<1>5. Stored(c, r) = r \/ (c \notin NeedsSecret /\ Stored(c, r) = [r EXCEPT !.secret = "blank"])
  BY DEF Stored
<1>6. CASE f = "key"
  <2>1. raw.key = "token" /\ r.key = "plain"
    BY <1>1, <1>2, <1>4, <1>6, CredentialsTyped, RevealKeeps
  <2>2. Stored(c, r).key = r.key BY <1>5 DEF Revealed
  <2> QED BY <1>6, <2>1, <2>2
<1>7. CASE f = "secret" /\ c \in NeedsSecret
  <2>1. raw.secret = "token" /\ r.secret = "plain"
    BY <1>1, <1>2, <1>4, <1>7, CredentialsTyped, RevealKeeps
  <2>2. Stored(c, r) = r BY <1>5, <1>7
  <2> QED BY <1>7, <2>1, <2>2
<1>8. CASE f = "passphrase" /\ c \in NeedsPassphrase
  <2>1. raw.passphrase = "token" /\ r.passphrase = "plain"
    BY <1>1, <1>2, <1>4, <1>8, CredentialsTyped, RevealKeeps
  <2>2. Stored(c, r).passphrase = r.passphrase BY <1>5 DEF Revealed
  <2> QED BY <1>8, <2>1, <2>2
<1> QED BY <1>6, <1>7, <1>8 DEF Needed

-----------------------------------------------------------------------------
(* The invariant.                                                          *)

LEMMA InitIInv == Init => IInv
<1> SUFFICES ASSUME Init PROVE IInv OBVIOUS
<1>1. TypeOK BY SpecsTyped DEF Init, TypeOK, Phases
<1>2. Passed = {} BY PassedEnds DEF Init
<1>3. DOMAIN available = {} BY DEF Init
<1> QED BY <1>1, <1>2, <1>3
       DEF Init, IInv, LoopsDone, StoppedAllClosed, Decrypted, Serving

LEMMA StepConsider == ASSUME IInv, Consider PROVE IInv'
<1> DEFINE c == Current
           r == Revealed(c)
<1>1. TypeOK /\ LoopsDone BY DEF IInv
<1>2. phase = "revealing" /\ index <= Len(Specs) /\ index' = index + 1 /\ ~Raises(r)
      /\ UNCHANGED <<environment, phase, adapters, closed>>
  BY DEF Consider
<1>3. c \in Codes BY <1>1, <1>2, CurrentTyped
<1>4. Passed' = Passed \cup {c} BY <1>1, <1>2, PassedGrows
<1>5. Complete(c, r) <=> Sufficient(c) BY <1>1, <1>2, <1>3, CompleteIsSufficient
<1>6. \A d : Sufficient(d)' <=> Sufficient(d) BY <1>2 DEF Sufficient, Needed
<1>7. /\ Complete(c, r) =>
           /\ DOMAIN available' = DOMAIN available \cup {c}
           /\ available'[c] = Stored(c, r)
           /\ \A d \in DOMAIN available : d # c => available'[d] = available[d]
      /\ ~Complete(c, r) => available' = available
  BY DEF Consider
<1>8. DOMAIN available = {d \in Passed : Sufficient(d)} BY <1>1, <1>2 DEF LoopsDone
<1>9. DOMAIN available' = {d \in Passed' : Sufficient(d)'}
  <2> HIDE DEF c, r
  <2> QED BY <1>4, <1>5, <1>6, <1>7, <1>8
<1>10. TypeOK'
  <2>1. index' \in 1..(Len(Specs) + 1) BY <1>1, <1>2, SpecsTyped DEF TypeOK
  <2>2. Stored(c, r) \in Credentials BY <1>1, <1>2, <1>3, RevealedTyped
  <2>3. DOMAIN available' \subseteq Codes /\ \A d \in DOMAIN available' : available'[d] \in Credentials
    <3> HIDE DEF c, r
    <3> QED BY <1>1, <1>3, <1>7, <2>2 DEF TypeOK
  <2> QED BY <1>1, <1>2, <2>1, <2>3 DEF TypeOK
<1>11. Mastered => Decrypted'
  <2> SUFFICES ASSUME Mastered, NEW d \in DOMAIN available', NEW f \in Needed(d)
               PROVE  environment.creds[d][f] = "token" /\ available'[d][f] = "plain"
    BY <1>2 DEF Decrypted, Needed
  <2>1. CASE d = c /\ Complete(c, r)
    <3>1. environment.creds[c][f] = "token" /\ Stored(c, r)[f] = "plain"
      BY <1>1, <1>2, <1>3, <2>1, StoredDecrypted
    <3> QED BY <1>7, <2>1, <3>1
  <2>2. CASE ~(d = c /\ Complete(c, r))
    <3>1. d \in DOMAIN available /\ available'[d] = available[d] BY <1>7, <2>2
    <3> QED BY <1>1, <3>1 DEF LoopsDone, Decrypted
  <2> QED BY <2>1, <2>2
<1>12. LoopsDone'
  <2>1. Mastered' = Mastered BY <1>2 DEF Mastered
  <2> QED BY <1>1, <1>2, <1>9, <1>11, <2>1 DEF LoopsDone, Serving
<1> QED BY <1>2, <1>10, <1>12 DEF IInv, StoppedAllClosed

\* The steps that leave environment and available alone.
LEMMA StepAfterReveal == ASSUME IInv, [Next]_vars, ~Consider PROVE IInv'
<1>1. TypeOK /\ LoopsDone /\ StoppedAllClosed BY DEF IInv
<1>2. UNCHANGED <<environment, available>>
  BY DEF Next, Crash, BuildAdapters, StopPolling, Close, CloseRaises, CloseSession, vars
<1>3. /\ \A d : Sufficient(d)' <=> Sufficient(d)
      /\ Mastered' = Mastered /\ Decrypted' = Decrypted
  BY <1>2 DEF Sufficient, Needed, Mastered, Decrypted
<1>4. Passed \subseteq Codes BY <1>1, PassedEnds
<1>5. CASE Crash
  BY <1>1, <1>2, <1>3, <1>5
     DEF Crash, IInv, TypeOK, Phases, LoopsDone, Serving, StoppedAllClosed
<1>6. CASE BuildAdapters
  <2>1. index = Len(Specs) + 1 BY <1>1, <1>6, SpecsTyped DEF BuildAdapters, TypeOK
  <2>2. DOMAIN available = {d \in Codes : Sufficient(d)}
    BY <1>1, <1>6, <2>1, PassedEnds DEF BuildAdapters, LoopsDone
  <2>3. closed = {} BY <1>1, <1>6 DEF BuildAdapters, LoopsDone
  <2>4. TypeOK' BY <1>1, <1>6, <2>3 DEF BuildAdapters, TypeOK, Phases
  <2> QED BY <1>1, <1>2, <1>3, <1>6, <2>2, <2>3, <2>4
          DEF BuildAdapters, IInv, LoopsDone, Serving, StoppedAllClosed
<1>7. CASE StopPolling
  <2>1. index' = 1 BY <1>7 DEF StopPolling
  <2>2. Passed' = {} BY <2>1 DEF Passed
  <2>3. TypeOK' BY <1>1, <1>7, SpecsTyped DEF StopPolling, TypeOK, Phases
  <2> QED BY <1>1, <1>2, <1>3, <1>7, <2>2, <2>3
          DEF StopPolling, IInv, LoopsDone, Serving, StoppedAllClosed
<1>8. CASE Close
  <2>1. Passed' = Passed \cup {Current} BY <1>1, <1>8, PassedGrows DEF Close
  <2>2. index' \in 1..(Len(Specs) + 1) BY <1>1, <1>8, SpecsTyped DEF Close, TypeOK
  <2>3. TypeOK' BY <1>1, <1>8, <2>2 DEF Close, TypeOK
  <2>4. ~environment.demo => closed' = adapters' \cap Passed'
    BY <1>1, <1>8, <2>1 DEF Close, LoopsDone
  <2> QED BY <1>1, <1>2, <1>3, <1>8, <2>3, <2>4
          DEF Close, IInv, LoopsDone, Serving, StoppedAllClosed
<1>9. CASE CloseRaises
  BY <1>1, <1>2, <1>3, <1>9
     DEF CloseRaises, IInv, TypeOK, Phases, LoopsDone, Serving, StoppedAllClosed, Passed,
         Current
<1>10. CASE CloseSession
  <2>1. index = Len(Specs) + 1 BY <1>1, <1>10, SpecsTyped DEF CloseSession, TypeOK
  <2>2. ~environment.demo => closed = adapters
    BY <1>1, <1>10, <2>1, PassedEnds DEF CloseSession, LoopsDone, TypeOK
  <2> QED BY <1>1, <1>2, <1>3, <1>10, <2>2
          DEF CloseSession, IInv, TypeOK, Phases, LoopsDone, Serving, StoppedAllClosed
<1>11. CASE UNCHANGED vars
  BY <1>1, <1>3, <1>11
     DEF vars, IInv, TypeOK, LoopsDone, Serving, StoppedAllClosed, Passed, Current
<1> QED BY <1>5, <1>6, <1>7, <1>8, <1>9, <1>10, <1>11 DEF Next

LEMMA StepIInv == IInv /\ [Next]_vars => IInv'
BY StepConsider, StepAfterReveal

LEMMA InvariantIInv == Spec => []IInv
<1>1. Init => IInv BY InitIInv
<1>2. IInv /\ [Next]_vars => IInv' BY StepIInv
<1> QED BY <1>1, <1>2, PTL DEF Spec

-----------------------------------------------------------------------------
(* Theorems.                                                               *)

\* The environment, the credentials revealed and the adapters keep their
\* types: an adapter closed is one that was built.
THEOREM StartupTypeOK == Spec => []TypeOK
<1>1. IInv => TypeOK BY DEF IInv
<1> QED BY <1>1, InvariantIInv, PTL

\* For any exchanges and needs the menu is exactly what is configured.
THEOREM StartupMenuIsWhatIsConfigured == Spec => []MenuIsWhatIsConfigured
<1>1. IInv => MenuIsWhatIsConfigured
  BY DEF IInv, LoopsDone, MenuIsWhatIsConfigured, Sufficient
<1> QED BY <1>1, InvariantIInv, PTL

\* With a master key no adapter is given a credential that was not a token.
THEOREM StartupOnlyDecrypted == Spec => []OnlyDecrypted
<1>1. IInv => OnlyDecrypted BY DEF IInv, LoopsDone, OnlyDecrypted, Mastered, Decrypted
<1> QED BY <1>1, InvariantIInv, PTL

\* However many adapters there are, a shutdown that ends has closed them all,
\* and one that an aclose cuts short all before it.
THEOREM StartupStoppedAllClosed == Spec => []StoppedAllClosed
<1>1. IInv => StoppedAllClosed BY DEF IInv
<1> QED BY <1>1, InvariantIInv, PTL

=============================================================================
