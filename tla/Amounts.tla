------------------------------ MODULE Amounts ------------------------------
(***************************************************************************)
(* What happens to an amount between people: typed or received as a text,  *)
(* read into wats by one of three parsers (Amount::from_str of             *)
(* src/src/amount.rs, parse_decimal_to_wats of crates/webylib-core and     *)
(* parse_amount_str of crates/webylib-wasm), asked of a wallet that adds   *)
(* up coins for it, and printed into a webcash string that is read again.  *)
(*                                                                         *)
(* The base, the number of decimals, the width of the integer and what a   *)
(* float can hold are parameters.  A text is what the parsers tell apart   *)
(* in it, not its characters; of a float only how far it may be off.       *)
(***************************************************************************)
EXTENDS Integers

CONSTANTS
    Base,      \* 10
    Decimals,  \* 8
    MaxInt,    \* i64::MAX
    Precision, \* an f64 is off by one part in so many: 2^53
    MaxPower,  \* the largest power of the base that is a finite f64: 308
    MaxExp,    \* i32::MAX
    Typed,     \* texts that come from outside
    Held       \* amounts of the coins a wallet holds

Unit == Base^Decimals

Word == -MaxInt - 1 .. MaxInt

Sign == {"", "+", "-"}

\* [prefix][sign]whole[.[fsign]frac][Eexp]; frac has len digits.  A name takes
\* the place of the number: "inf", which also stands for more digits than a
\* float can hold, or "nan".
Text == [prefix : {"none", "e", "won"},
         named  : {"none", "inf", "nan"},
         sign   : Sign, digits : BOOLEAN, whole : Nat,
         points : 0 .. 2,
         fsign  : Sign, len : Nat, frac : Nat,
         exps   : 0 .. 1, exp : Int]

\* As printed: no prefix, sign or exponent.
Plain == [prefix |-> "none", named |-> "none", sign |-> "", digits |-> TRUE,
          whole |-> 0, points |-> 0, fsign |-> "", len |-> 0, frac |-> 0,
          exps |-> 0, exp |-> 0]

\* Fewer digits, smaller number; no digits, none; the second number is there
\* if the point is.
WellFormed(x) ==
    /\ x.digits \/ x.whole = 0
    /\ x.named # "none" => ~x.digits /\ x.points = 0
    /\ x.frac < Base^x.len
    /\ x.points # 1 => x.fsign = "" /\ x.len = 0
    /\ IF x.exps = 0 THEN x.exp = 0 ELSE x.len <= MaxPower

ASSUME AmountAssumption ==
    /\ Base \in Nat \ {0, 1} /\ Decimals \in Nat \ {0}
    /\ MaxInt \in Nat \ {0} /\ Precision \in Nat \ {0}
    /\ MaxExp \in Nat /\ MaxPower \in 0 .. MaxExp
    /\ \A k \in 0 .. Decimals : Base^k \in 1 .. MaxInt
    /\ Base^0 = 1
    /\ Typed \subseteq Text
    /\ \A x \in Typed : WellFormed(x)
    /\ Held \subseteq 1 .. MaxInt

Error == [ok |-> FALSE, wats |-> 0]

Ok(wats) == [ok |-> TRUE, wats |-> wats]

----------------------------------------------------------------------------
(* Reading *)

Signed(sign, n) == IF sign = "-" THEN -n ELSE n

Magnitude(n) == IF n < 0 THEN -n ELSE n

NoWhole(x) == x.sign = "" /\ ~x.digits /\ x.named = "none"

\* Characters after the point.
FracLength(x) == x.len + (IF x.fsign = "" THEN 0 ELSE 1)

\* The two parts are read as integers, each with a sign of its own.
PlainWats(x) ==
    Signed(x.sign, x.whole) * Unit +
        (IF FracLength(x) = 0 THEN 0
         ELSE Signed(x.fsign, x.frac) * Base^(Decimals - FracLength(x)))

\* What from_str and parse_amount_str refuse alike.
PlainRefused(x) ==
    \/ x.points = 2
    \/ ~NoWhole(x) /\ ~(x.digits /\ Signed(x.sign, x.whole) \in Word)
    \/ FracLength(x) > 0 /\ (FracLength(x) > Decimals \/ x.len = 0)
    \/ Signed(x.sign, x.whole) * Unit \notin Word
    \/ PlainWats(x) \notin Word \/ PlainWats(x) < 0

\* A name, or digits: one at least on one side of the point.
IsFloat(x) ==
    \/ x.named # "none"
    \/ x.points < 2 /\ x.fsign = "" /\ (x.digits \/ x.len > 0)

Digits(x) == x.whole * Base^x.len + x.frac

\* How far the last digit of the coefficient is from a wat.
Shift(x) == x.exp + Decimals - x.len

\* The number of wats it means, as a fraction.
Above(x) == Digits(x) * (IF Shift(x) >= 0 THEN Base^Shift(x) ELSE 1)
Below(x) == IF Shift(x) < 0 THEN Base^(-Shift(x)) ELSE 1

\* How far the float is off at most, in Precision-th parts of itself: as many
\* roundings as powi multiplies and three more, and once more for their products.
Slack(x) == 2 * Magnitude(x.exp) + 4

\* Mutant: `as i64` without round().
Truncated(x) ==
    {n \in 0 .. MaxInt : /\ n * Precision * Below(x) <= (Precision + Slack(x)) * Above(x)
                         /\ (Precision - Slack(x)) * Above(x) < (n + 1) * Precision * Below(x)}

\* round(), of any float that near, to n.
MayRoundTo(n, x) ==
    2 * Precision * Magnitude(Above(x) - n * Below(x))
        <= Precision * Below(x) + 2 * Slack(x) * Above(x)

\* `as i64` saturates, so the check for a result below zero finds nothing.
Rounded(x) ==
    {n \in 0 .. MaxInt : MayRoundTo(n, x)}
    \cup {n \in {MaxInt} : 2 * Precision * ((MaxInt + 1) * Below(x) - Above(x))
                              <= Precision * Below(x) + 2 * Slack(x) * Above(x)}

\* Zero, divided by an infinite power, or not a number: 0 as an integer.
Vanishes(x) ==
    \/ x.named = "nan"
    \/ x.named = "none" /\ Digits(x) = 0
    \/ x.exp \in -MaxExp .. -MaxPower - 1

\* Times an infinite power; in a release build the negation of i32::MIN wraps
\* around, and the power divided by is zero.
Infinite(x) == x.named = "inf" \/ x.exp > MaxPower \/ x.exp = -MaxExp - 1

\* What is below zero is refused, unless it is so small that it is -0.
NegativeOutcomes(x) ==
    {Error} \cup {o \in {Ok(0)} : ~Infinite(x) /\ x.len - x.exp > MaxPower}

parse_scientific_notation(x) ==
    IF ~IsFloat(x) \/ x.exp \notin -MaxExp - 1 .. MaxExp THEN {Error}
    ELSE IF Vanishes(x) THEN {Ok(0)}
    ELSE IF x.sign = "-" THEN NegativeOutcomes(x)
    ELSE IF Infinite(x) THEN {Ok(MaxInt)}
    ELSE {Ok(n) : n \in Rounded(x)}

\* from_str, of what comes behind this prefix or with it.  An exponent and the
\* prefix "e" look the same to it.
Native(prefix, x) ==
    IF x.exps = 1 \/ prefix = "e"
    THEN IF prefix # "none" THEN {Error} ELSE parse_scientific_notation(x)
    ELSE IF \/ prefix = "none" /\ NoWhole(x) /\ x.points = 0
            \/ NoWhole(x) /\ FracLength(x) > 0
            \/ PlainRefused(x)
    THEN {Error}
    ELSE {Ok(PlainWats(x))}

from_str(x) == Native(x.prefix, x)

\* The browser's: either prefix, a whole part or not, no exponent.
Browser(prefix, x) ==
    IF \/ x.exps = 1
       \/ prefix = "none" /\ NoWhole(x) /\ x.points = 0
       \/ PlainRefused(x)
    THEN Error
    ELSE Ok(PlainWats(x))

parse_amount_str(x) == Browser(x.prefix, x)

\* Mutant: nine digits are let through, and the padding loop does nothing.
DecimalsPlusOne(x) ==
    IF \/ x.prefix # "none" \/ x.exps = 1 \/ x.points = 2
       \/ x.sign = "+" \/ ~x.digits
       \/ x.fsign # "" \/ x.len > Decimals + 1
       \/ x.whole \notin Word
       \/ x.whole * Unit \notin Word \/ x.whole * Unit + x.frac \notin Word
    THEN Error
    ELSE Ok(Signed(x.sign, x.whole * Unit + x.frac *
              (IF x.len > Decimals THEN 1 ELSE Base^(Decimals - x.len))))

\* What recover() reads the server's amounts with.
parse_decimal_to_wats(x) ==
    LET frac == x.frac * Base^(Decimals - x.len) IN
    IF \/ x.prefix # "none" \/ x.exps = 1 \/ x.points = 2
       \/ x.sign = "+" \/ ~x.digits
       \/ x.fsign # "" \/ x.len > Decimals
       \/ x.whole \notin Word
       \/ x.whole * Unit \notin Word \/ x.whole * Unit + frac \notin Word
    THEN Error
    ELSE Ok(Signed(x.sign, x.whole * Unit + frac))

\* SecretWebcash::parse and PublicWebcash::parse, of strings that are otherwise
\* right: the prefix is theirs, the rest is for from_str.
SecretAmount(x) ==
    IF x.prefix = "e" THEN Native("none", x) ELSE {Error}

PublicAmount(x) == Native("none", x)

\* parse_webcash, in the browser.
BrowserAmount(x) ==
    IF x.prefix = "e" THEN Browser("none", x) ELSE Error

Reader == {"amount", "secret", "public", "core", "browser", "browser_secret"}

ReadBy(reader, x) ==
    CASE reader = "amount"         -> from_str(x)
      [] reader = "secret"         -> SecretAmount(x)
      [] reader = "public"         -> PublicAmount(x)
      [] reader = "core"           -> {parse_decimal_to_wats(x)}
      [] reader = "browser"        -> {parse_amount_str(x)}
      [] reader = "browser_secret" -> {BrowserAmount(x)}

----------------------------------------------------------------------------
(* Printing *)

\* Mutant: the fraction is printed without its leading zeros.
Unpadded(f) == {n \in 0 .. Decimals : f < Base^n}

\* How many of a fraction's digits to print for the rest to be zeros.
Enough(f) == {n \in 0 .. Decimals : f % Base^(Decimals - n) = 0}

\* trim_end_matches('0')
Trimmed(f) == CHOOSE n \in Enough(f) : \A m \in Enough(f) : n <= m

\* to_string_with_decimals: a whole part of zero has no sign.
Printed(prefix, wats) ==
    LET whole == Magnitude(wats) \div Unit
        frac == Magnitude(wats) % Unit
        len == Trimmed(frac)
    IN [Plain EXCEPT !.prefix = prefix,
                     !.sign = IF wats < 0 /\ whole > 0 THEN "-" ELSE "",
                     !.whole = whole,
                     !.points = IF frac = 0 THEN 0 ELSE 1,
                     !.len = len,
                     !.frac = frac \div Base^(Decimals - len)]

\* to_webcash_string
Webcash(wats) == Printed("e", wats)

----------------------------------------------------------------------------
(* Adding up *)

\* Mutant: the sum wraps around.
Wrapping(a, b) == IF a + b > MaxInt THEN a + b - 2 * (MaxInt + 1) ELSE a + b

Saturated(n) ==
    IF n > MaxInt THEN MaxInt ELSE IF n < -MaxInt - 1 THEN -MaxInt - 1 ELSE n

\* Amount's + and -
Add(a, b) == Saturated(a + b)

Sub(a, b) == Saturated(a - b)

----------------------------------------------------------------------------
VARIABLES
    text,      \* the amount as a text
    out,       \* what the latest reader made of it
    reader,
    asked,     \* amount asked of the wallet
    total,     \* what the coins selected for it add up to, in wats
    exact      \* auxiliary: what they do add up to

vars == <<text, out, reader, asked, total, exact>>

Init ==
    /\ text \in Typed
    /\ out = Error /\ reader = "none"
    /\ asked = 0 /\ total = 0 /\ exact = 0

\* Somebody reads the text.
Read(r) ==
    /\ reader = "none"
    /\ reader' = r
    /\ out' \in ReadBy(r, text)
    /\ UNCHANGED <<text, asked, total, exact>>

\* Whoever has read it hands it on as a webcash string.
HandOn ==
    /\ reader # "none" /\ out.ok
    /\ text' = Webcash(out.wats)
    /\ out' = Error /\ reader' = "none"
    /\ UNCHANGED <<asked, total, exact>>

\* pay is asked for it.
Ask ==
    /\ reader = "amount" /\ out.ok
    /\ asked' = out.wats
    /\ text' = Plain /\ out' = Error /\ reader' = "asked"
    /\ UNCHANGED <<total, exact>>

\* select_inputs takes another coin: one at least, and until they are enough.
Select(coin) ==
    /\ reader = "asked"
    /\ exact = 0 \/ total < asked
    /\ total' = Add(total, coin)
    /\ exact' = exact + coin
    /\ UNCHANGED <<text, out, reader, asked>>

\* Mutant: whether the coins are enough is not checked once there are no more.
ProposeAnyway ==
    /\ reader = "asked"
    /\ exact > 0
    /\ reader' = "proposed"
    /\ UNCHANGED <<text, out, asked, total, exact>>

\* The coins are enough: the request asks for the payment and the change.
Propose ==
    /\ reader = "asked"
    /\ exact > 0 /\ total >= asked
    /\ reader' = "proposed"
    /\ UNCHANGED <<text, out, asked, total, exact>>

Next ==
    \/ \E r \in Reader : Read(r)
    \/ HandOn
    \/ Ask
    \/ \E coin \in Held : Select(coin)
    \/ Propose

Spec == Init /\ [][Next]_vars

----------------------------------------------------------------------------
(* Properties *)

\* Every variable has its type.
TypeOK ==
    /\ text \in Text
    /\ out \in [ok : BOOLEAN, wats : Word]
    /\ reader \in Reader \cup {"none", "asked", "proposed"}
    /\ asked \in 0 .. MaxInt
    /\ total \in 0 .. MaxInt
    /\ exact \in Nat

\* A webcash string is worth to whoever reads it, in the native wallet, in the
\* browser or as the server's answer to recover(), what the wallet that printed
\* it took it for.
RoundTrip ==
    [][HandOn /\ out.wats >= 0 =>
        /\ SecretAmount(text') = {out} /\ PublicAmount(text') = {out}
        /\ BrowserAmount(text') = out
        /\ parse_decimal_to_wats(Printed("none", out.wats)) = out]_vars

IsUnsigned(x) == x.sign = "" /\ x.fsign = ""

\* The three parsers, written apart, read a text without signs alike if they
\* read it at all; what recover() can read the other two can, and where they
\* refuse what it means is out of range or the form is not recover()'s.
ParsersAgree ==
    /\ reader = "core" /\ out.ok /\ IsUnsigned(text) =>
         from_str(text) = {out} /\ parse_amount_str(text) = out
    /\ reader = "amount" /\ out.ok /\ IsUnsigned(text) /\ text.exps = 0 =>
         /\ parse_amount_str(text) = out
         /\ parse_decimal_to_wats(text) \in {out, Error}

\* A text with an exponent that means a whole number of wats is read as that
\* number, though it goes through floats, as long as what those are off by stays
\* under half a wat (in the code, up to 2^53 \div (4 * |exp| + 8) wats); and as
\* the largest number there is where it means more than that.
ExponentExact ==
    LET a == Above(text)
        b == Below(text)
    IN  /\ reader \in {"amount", "public"} /\ out.ok
        /\ text.exps = 1 /\ text.named = "none" /\ text.sign # "-"
        /\ Magnitude(text.exp) <= MaxPower
        /\ a % b = 0 /\ 2 * Slack(text) * a < Precision * b
        => \/ out.wats * b = a
           \/ out.wats = MaxInt /\ a > MaxInt * b

\* What pay asks the server to create, payment and change together, is what the
\* coins it offers add up to, or less where that is out of range; the change is
\* not negative.
OutputsBacked ==
    reader = "proposed" =>
        LET change == Sub(total, asked) IN
        /\ change >= 0
        /\ asked + change <= exact
        /\ exact <= MaxInt => asked + change = exact
============================================================================
