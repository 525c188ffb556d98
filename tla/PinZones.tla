------------------------------- MODULE PinZones -------------------------------
(***************************************************************************)
(* What becomes of the PIN, the CVV and the expiry date of an              *)
(* authorization on its way from the terminal to the issuer's decision:    *)
(* build_live_message of the merchant simulator, the translation in the    *)
(* gateway, decide_response of the issuer simulator, and the PIN blocks of *)
(* services/common/crypto.py.  Operators only; SeedFiles says which keys   *)
(* each party holds.                                                       *)
(*                                                                         *)
(* The cipher is ideal: a block opens under its own key and for its own    *)
(* PAN, and anything else yields digits nobody chose, or the ValueError of *)
(* a failed check.  A key is known by its zone and by the run of the       *)
(* generator that drew it.                                                 *)
(***************************************************************************)
EXTENDS Integers

CONSTANT Vault          \* the PANs of cards.json

Key(zone, gen) == [zone |-> zone, gen |-> gen]

Encode(pin, pan, key) == [pin |-> pin, pan |-> pan, key |-> key]

\* All a decoding can yield.
Decode(block, pan, key) ==
    IF block.pan = pan /\ block.key = key THEN {block.pin} ELSE {"garbled", "raises"}

\* The PIN block of a card at rest.
AtRest(pan, cardsGen) == Encode("right", pan, Key("storage", cardsGen))

\* Mutant: the block is re-enciphered for the storage zone.
TranslateToStorage(block, pan, gen) ==
    {Encode(p, pan, Key("storage", gen)) : p \in Decode(block, pan, Key("terminal", gen))}

\* The gateway's translation.  Where decoding raises, so does it, and the
\* block of PIN "raises" stands for that.
Translate(block, pan, gen) ==
    {Encode(p, pan, Key("transit", gen)) : p \in Decode(block, pan, Key("terminal", gen))}

-----------------------------------------------------------------------------
(* The request: its PAN, its expiry date <<mm, yy>>, and what the          *)
(* cardholder enters: nothing, the right digits, a typo, or nothing where  *)
(* the template says there is something ("unknown": no oracle for the PAN) *)

Entry == {"none", "right", "typo", "unknown"}

\* maybe_typo shifts one digit.
TypoDigit(digit, shift) == (digit + shift) % 10

\* ISO 8583 field 14 is YYMM.
Field14(expiry) == <<expiry[2], expiry[1]>>

\* Mutant: the year of the month that follows December is not carried.
EndOfMonthNoCarry(field14) ==
    [year |-> 2000 + field14[1], month |-> (field14[2] % 12) + 1]

\* The first month in which the card is no longer good.
EndOfMonth(field14) ==
    [year |-> 2000 + field14[1] + field14[2] \div 12, month |-> (field14[2] % 12) + 1]

IsExpired(field14, now) ==
    LET end == EndOfMonth(field14)
    IN  \/ now.year > end.year
        \/ now.year = end.year /\ now.month >= end.month

-----------------------------------------------------------------------------
(* decide_response *)

\* Two PINs are compared once both decodings succeeded.  Digits nobody chose
\* agree with nothing, but for chance.
Same(p, q) == p = q /\ p \notin {"garbled", "raises"}

Presented(r) == r.pin \in {"right", "typo"}

\* The PIN check may pass and may fail; a block that is missing where the
\* message promises one is a KeyError, and fails it.
Recovered(r, block, cardsGen, keysGen) ==
    Decode(block, r.pan, Key("transit", keysGen))
        \X Decode(AtRest(r.pan, cardsGen), r.pan, Key("storage", keysGen))

PinCanPass(r, block, cardsGen, keysGen) ==
    \/ r.pin = "none"
    \/ Presented(r) /\ \E pq \in Recovered(r, block, cardsGen, keysGen) : Same(pq[1], pq[2])

PinCanFail(r, block, cardsGen, keysGen) ==
    \/ r.pin = "unknown"
    \/ Presented(r) /\ \E pq \in Recovered(r, block, cardsGen, keysGen) : ~Same(pq[1], pq[2])

\* Mutant: a CVV that is missing passes.
CvvPassesMissing(r) == r.cvv # "typo"

CvvPasses(r) == r.cvv \in {"none", "right"}

\* "generic" is the weighted choice among the codes no check is for.
Decide(r, block, now, cardsGen, keysGen) ==
    IF r.pan \notin Vault THEN {"14"}
    ELSE IF IsExpired(Field14(r.expiry), now) THEN {"54"}
    ELSE {c \in {"55"} : PinCanFail(r, block, cardsGen, keysGen)}
         \cup {c \in {IF CvvPasses(r) THEN "generic" ELSE "82"} :
                  PinCanPass(r, block, cardsGen, keysGen)}

\* What the merchant may be answered, given whose keys and cards each party
\* has read.  A translation that raises ends in the gateway's 96.
Answers(r, now, merchantKeys, gatewayKeys, issuerCards, issuerKeys) ==
    LET typed == Encode(r.pin, r.pan, Key("terminal", merchantKeys))
    IN  IF Presented(r)
        THEN UNION {IF b.pin = "raises" THEN {"96"}
                    ELSE Decide(r, b, now, issuerCards, issuerKeys) :
                       b \in Translate(typed, r.pan, gatewayKeys)}
        ELSE Decide(r, typed, now, issuerCards, issuerKeys)

-----------------------------------------------------------------------------
(* What the answers are measured by *)

\* A card is good to the last day of the month on it.
InMonth(expiry, now) == 12 * now.year + now.month <= 12 * (2000 + expiry[2]) + expiry[1]

InOrder(r, now) ==
    /\ r.pan \in Vault
    /\ InMonth(r.expiry, now)
    /\ r.pin \in {"none", "right"}
    /\ r.cvv \in {"none", "right"}
=============================================================================
