---------------------------- MODULE AmountProofs ----------------------------
(***************************************************************************)
(* What holds of Amounts for every base, number of decimals and integer    *)
(* width: a printed amount is read back as it was, and a pay asks for no   *)
(* more than its inputs.                                                   *)
(***************************************************************************)
EXTENDS Amounts, WellFoundedInduction, TLAPS

----------------------------------------------------------------------------
(* Arithmetic *)

\* A set of naturals that is not empty has a least element.
LEMMA LeastExists ==
  ASSUME NEW S \in SUBSET Nat, S # {}
  PROVE  \E n \in S : \A m \in S : n <= m
<1>1. IsWellFoundedOn(OpToRel(<, Nat), Nat)
  BY NatLessThanWellFounded
<1>2. \E n \in S : \A m \in S : ~ (<<m, n>> \in OpToRel(<, Nat))
  BY <1>1, WFMin
<1>3. \A m, n \in Nat : <<m, n>> \in OpToRel(<, Nat) <=> m < n
  BY DEF OpToRel
<1>4. PICK n \in S : \A m \in S : ~ (<<m, n>> \in OpToRel(<, Nat))
  BY <1>2
<1>5. \A m \in S : n <= m
  <2> TAKE m \in S
  <2>1. m \in Nat /\ n \in Nat /\ ~ (m < n)
    BY <1>3, <1>4
  <2> QED
    BY <2>1
<1> QED
  BY <1>5

\* Division with remainder.
LEMMA Division ==
  ASSUME NEW w \in Nat, NEW u \in Nat \ {0}
  PROVE  /\ w \div u \in Nat
         /\ w % u \in 0 .. u - 1
         /\ w = (w \div u) * u + (w % u)
  OBVIOUS

\* The powers that occur are positive and in range.
LEMMA Powers ==
  /\ Unit \in Nat \ {0} /\ Unit <= MaxInt
  /\ \A k \in 0 .. Decimals : Base^k \in Nat \ {0}
  /\ Base^0 = 1
  BY AmountAssumption DEF Unit

LEMMA Sizes == Decimals \in Nat /\ MaxInt \in Nat
  BY AmountAssumption

\* A fraction, cut where only zeros follow, is whole again when scaled.
LEMMA TrimmedScales ==
  ASSUME NEW f \in Nat
  PROVE  /\ Trimmed(f) \in 0 .. Decimals
         /\ f \div Base^(Decimals - Trimmed(f)) \in Nat
         /\ f = (f \div Base^(Decimals - Trimmed(f))) * Base^(Decimals - Trimmed(f))
<1>1. f % Base^(Decimals - Decimals) = 0
  <2>1. Decimals - Decimals = 0
    BY AmountAssumption
  <2>2. f % 1 = 0
    OBVIOUS
  <2> QED
    BY <2>1, <2>2, Powers
<1>2. Enough(f) \in SUBSET Nat /\ Decimals \in Enough(f)
  BY <1>1, AmountAssumption DEF Enough
<1>3. Trimmed(f) \in Enough(f)
  <2>1. \E n \in Enough(f) : \A m \in Enough(f) : n <= m
    BY <1>2, LeastExists
  <2> QED
    BY <2>1 DEF Trimmed
<1>4. Trimmed(f) \in 0 .. Decimals /\ f % Base^(Decimals - Trimmed(f)) = 0
  BY <1>3 DEF Enough
<1>5. PICK b \in Nat \ {0} : b = Base^(Decimals - Trimmed(f))
  BY <1>4, Powers, AmountAssumption
<1>6. f \div b \in Nat /\ f = (f \div b) * b + (f % b) /\ f % b = 0
  BY <1>4, <1>5, Division
<1>7. (f \div b) * b \in Nat
  BY <1>6
<1>8. f = (f \div b) * b
  BY <1>6, <1>7
<1> QED
  BY <1>4, <1>5, <1>6, <1>8

\* A fraction of nothing is printed without a point, any other with digits.
LEMMA TrimmedEmpty ==
  ASSUME NEW f \in 0 .. Unit - 1
  PROVE  f = 0 <=> Trimmed(f) = 0
<1>1. ASSUME f = 0 PROVE Trimmed(f) = 0
  <2>1. Decimals - 0 \in 0 .. Decimals
    BY AmountAssumption
  <2>2. 0 \in Enough(f)
    BY <1>1, <2>1, Powers, AmountAssumption DEF Enough
  <2>3. Enough(f) \in SUBSET Nat
    BY DEF Enough
  <2>4. \E n \in Enough(f) : \A m \in Enough(f) : n <= m
    BY <2>2, <2>3, LeastExists
  <2>5. Trimmed(f) \in Enough(f) /\ \A m \in Enough(f) : Trimmed(f) <= m
    BY <2>4 DEF Trimmed
  <2> QED
    BY <2>2, <2>3, <2>5
<1>2. ASSUME Trimmed(f) = 0 PROVE f = 0
  <2>1. f = (f \div Unit) * Unit
    BY <1>2, TrimmedScales, AmountAssumption DEF Unit
  <2>2. f \div Unit = 0
    BY Powers
  <2> QED
    BY <2>1, <2>2, Powers
<1> QED
  BY <1>1, <1>2
----------------------------------------------------------------------------
(* What the readers make of a printed amount *)

\* x is w taken apart.
PartsOf(x, w) ==
  /\ x.sign = "" /\ x.fsign = ""
  /\ x.digits = TRUE /\ x.exps = 0 /\ x.exp = 0
  /\ x.points \in 0 .. 1 /\ x.whole \in Nat /\ x.len \in 0 .. Decimals
  /\ x.frac \in Nat
  /\ x.whole * Unit \in 0 .. MaxInt
  /\ x.frac * Base^(Decimals - x.len) \in Nat
  /\ x.whole * Unit + x.frac * Base^(Decimals - x.len) = w
  /\ x.len = 0 => x.frac * Base^(Decimals - x.len) = 0

\* The parts of a printed amount give it back.
LEMMA PrintedParts ==
  ASSUME NEW w \in 0 .. MaxInt, NEW p
  PROVE  PartsOf(Printed(p, w), w) /\ Printed(p, w).prefix = p
<1> DEFINE x == Printed(p, w)
           f == w % Unit
           n == Trimmed(f)
           b == Base^(Decimals - n)
           q == w \div Unit
<1>1. w \in Nat /\ MaxInt \in Nat /\ Magnitude(w) = w
  BY AmountAssumption DEF Magnitude
<1>2. q \in Nat /\ f \in 0 .. Unit - 1 /\ w = q * Unit + f
  BY <1>1, Powers, Division
<1>3. f \in Nat
  BY <1>2, Powers
<1>4. n \in 0 .. Decimals /\ f \div b \in Nat /\ f = (f \div b) * b
  BY <1>3, TrimmedScales
<1>5. /\ x.sign = "" /\ x.fsign = ""
      /\ x.digits = TRUE /\ x.exps = 0 /\ x.exp = 0
      /\ x.points \in 0 .. 1 /\ x.whole = q /\ x.len = n /\ x.frac = f \div b
  BY <1>1 DEF Printed, Plain
<1>6. x.prefix = p
  BY DEF Printed, Plain
<1>7. q * Unit \in 0 .. MaxInt
  <2>1. q * Unit \in Nat
    BY <1>2, Powers
  <2> QED
    BY <1>1, <1>2, <1>3, <2>1
<1>8. n = 0 => f = 0
  BY <1>2, TrimmedEmpty
<1> HIDE DEF f, n, b, q, x
<1>9. x.frac * Base^(Decimals - x.len) = f
  BY <1>4, <1>5 DEF b
<1>10. x.whole * Unit + x.frac * Base^(Decimals - x.len) = w
  BY <1>2, <1>5, <1>9
<1> QED
  BY <1>2, <1>3, <1>4, <1>5, <1>6, <1>7, <1>8, <1>9, <1>10 DEF PartsOf, x

\* Neither part is too large to be read.
LEMMA InRange ==
  ASSUME NEW w \in 0 .. MaxInt, NEW x, PartsOf(x, w)
  PROVE  x.whole \in Word /\ x.whole * Unit \in Word
<1>1. PICK a : a = x.whole
  OBVIOUS
<1>2. PICK u : u = Unit
  OBVIOUS
<1>3. a \in Nat /\ u \in Nat \ {0} /\ a * u \in 0 .. MaxInt /\ MaxInt \in Nat
  BY <1>1, <1>2, Powers, AmountAssumption DEF PartsOf
<1>4. a <= a * u
  BY <1>3
<1> QED
  BY <1>1, <1>2, <1>3, <1>4 DEF Word

\* What the readers look at, apart from the numbers.
Form(x) ==
  /\ x.sign = "" /\ x.fsign = ""
  /\ x.digits = TRUE /\ x.exps = 0

LEMMA PartsForm ==
  ASSUME NEW w \in 0 .. MaxInt, NEW x, PartsOf(x, w)
  PROVE  /\ Form(x) /\ x.points # 2 /\ ~(x.len > Decimals)
         /\ x.len \in Nat /\ x.whole \in Nat
         /\ Signed(x.sign, x.whole) = x.whole /\ Signed(x.fsign, x.frac) = x.frac
         /\ Signed(x.sign, w) = w
<1>1. Form(x)
  BY DEF PartsOf, Form
<1>2. x.points \in 0 .. 1 /\ x.len \in 0 .. Decimals /\ x.whole \in Nat
  BY DEF PartsOf
<1>3. x.points # 2
  BY <1>2
<1>4. x.len \in Nat /\ ~(x.len > Decimals)
  BY <1>2, Sizes
<1>5. x.sign # "-" /\ x.fsign # "-"
  BY <1>1 DEF Form
<1> QED
  BY <1>1, <1>2, <1>3, <1>4, <1>5 DEF Signed

\* from_str and parse_amount_str read it back.
LEMMA PlainReads ==
  ASSUME NEW w \in 0 .. MaxInt, NEW x, PartsOf(x, w)
  PROVE  Native("none", x) = {Ok(w)} /\ Browser("none", x) = Ok(w)
<1>1. ~NoWhole(x)
  BY PartsForm, Zenon DEF NoWhole, Form
<1>2. FracLength(x) = x.len
  <2>1. x.len \in Nat /\ x.fsign = ""
    BY PartsForm DEF Form
  <2>2. FracLength(x) = x.len + 0
    BY <2>1, Zenon DEF FracLength
  <2>3. \A n \in Nat : n + 0 = n
    OBVIOUS
  <2> QED
    BY <2>1, <2>2, <2>3, Zenon
<1>3. PlainWats(x) = w
  <2>1. CASE x.len = 0
    <3>1. PlainWats(x) = x.whole * Unit + 0
      BY <1>2, PartsForm, <2>1, Zenon DEF PlainWats
    <3>2. x.whole * Unit + 0 = w
      BY <2>1 DEF PartsOf
    <3> QED
      BY <3>1, <3>2
  <2>2. CASE x.len # 0
    <3>1. PlainWats(x) = x.whole * Unit + x.frac * Base^(Decimals - x.len)
      BY <1>2, PartsForm, <2>2, Zenon DEF PlainWats
    <3> QED
      BY <3>1 DEF PartsOf
  <2> QED
    BY <2>1, <2>2
<1>4. x.whole \in Word /\ x.whole * Unit \in Word
  BY InRange
<1>5. w \in Word /\ ~(w < 0)
  BY Sizes DEF Word
<1>6. ~PlainRefused(x)
  <2>1. ~(x.len > 0 /\ (x.len > Decimals \/ x.len = 0))
    <3>1. x.len \in Nat /\ ~(x.len > Decimals)
      BY PartsForm
    <3> QED
      BY <3>1
  <2>2. x.digits /\ Signed(x.sign, x.whole) = x.whole /\ x.points # 2
    BY PartsForm, Zenon DEF Form
  <2> QED
    BY <1>2, <1>3, <1>4, <1>5, <2>1, <2>2, Zenon DEF PlainRefused
<1>7. ~(x.exps = 1 \/ "none" = "e")
  <2>1. x.exps = 0
    BY PartsForm DEF Form
  <2> QED
    BY <2>1
<1>8. Native("none", x) = {Ok(PlainWats(x))}
  BY <1>1, <1>6, <1>7, Zenon DEF Native
<1>9. Browser("none", x) = Ok(PlainWats(x))
  BY <1>1, <1>6, <1>7, Zenon DEF Browser
<1> QED
  BY <1>3, <1>8, <1>9, Zenon

\* So does parse_decimal_to_wats.
LEMMA CoreReads ==
  ASSUME NEW w \in 0 .. MaxInt, NEW x, PartsOf(x, w), x.prefix = "none"
  PROVE  parse_decimal_to_wats(x) = Ok(w)
<1>1. x.whole \in Word /\ x.whole * Unit \in Word
  BY InRange
<1>2. w \in Word
  BY Sizes DEF Word
<1>3. x.whole * Unit + x.frac * Base^(Decimals - x.len) = w
  BY DEF PartsOf
<1>4. ~(x.prefix # "none" \/ x.exps = 1)
  <2>1. x.exps = 0
    BY PartsForm DEF Form
  <2> QED
    BY <2>1
<1>5. ~(x.sign = "+" \/ ~x.digits) /\ ~(x.fsign # "")
  <2>1. x.sign = "" /\ x.fsign = ""
    BY PartsForm DEF Form
  <2>2. x.digits
    BY PartsForm, Zenon DEF Form
  <2>3. x.sign # "+"
    BY <2>1
  <2> QED
    BY <2>1, <2>2, <2>3, Zenon
<1>6. x.points # 2 /\ ~(x.len > Decimals) /\ Signed(x.sign, w) = w
  BY PartsForm
<1> QED
  BY <1>1, <1>2, <1>3, <1>4, <1>5, <1>6, Zenon DEF parse_decimal_to_wats

\* A webcash string is a printed amount behind its prefix.
LEMMA WebcashReads ==
  ASSUME NEW w \in 0 .. MaxInt
  PROVE  /\ SecretAmount(Webcash(w)) = {Ok(w)}
         /\ PublicAmount(Webcash(w)) = {Ok(w)}
         /\ BrowserAmount(Webcash(w)) = Ok(w)
         /\ parse_decimal_to_wats(Printed("none", w)) = Ok(w)
<1>1. PartsOf(Webcash(w), w) /\ Webcash(w).prefix = "e"
  BY PrintedParts, Zenon DEF Webcash
<1>2. Native("none", Webcash(w)) = {Ok(w)} /\ Browser("none", Webcash(w)) = Ok(w)
  BY <1>1, PlainReads, Zenon
<1>3. PartsOf(Printed("none", w), w) /\ Printed("none", w).prefix = "none"
  BY PrintedParts, Zenon
<1>4. parse_decimal_to_wats(Printed("none", w)) = Ok(w)
  BY <1>3, CoreReads, Zenon
<1> QED
  BY <1>1, <1>2, <1>4, Zenon DEF SecretAmount, PublicAmount, BrowserAmount

----------------------------------------------------------------------------
(* The behaviours *)

\* A sum of amounts is a number of 64 bits.
LEMMA Sums ==
  ASSUME NEW a \in 0 .. MaxInt, NEW c \in 1 .. MaxInt
  PROVE  Add(a, c) \in 0 .. MaxInt /\ Add(a, c) = IF a + c > MaxInt THEN MaxInt ELSE a + c
  BY Sizes DEF Add, Saturated

\* The parsers behind from_str, and the browser's, read a number of 64 bits
\* that is not negative.
LEMMA NativeRange ==
  ASSUME NEW x, NEW p, NEW o \in Native(p, x)
  PROVE  o = Error \/ \E n \in 0 .. MaxInt : o = Ok(n)
<1>1. CASE o \in parse_scientific_notation(x)
  <2>1. MaxInt \in 0 .. MaxInt /\ 0 \in 0 .. MaxInt
    BY Sizes
  <2>2. \A n \in Rounded(x) : n \in 0 .. MaxInt
    BY <2>1, Zenon DEF Rounded
  <2>3. \/ o = Error \/ o = Ok(0) \/ o = Ok(MaxInt)
        \/ \E n \in Rounded(x) : o = Ok(n)
    BY <1>1, Zenon DEF parse_scientific_notation, NegativeOutcomes
  <2> QED
    BY <2>1, <2>2, <2>3, Zenon
<1>2. CASE ~PlainRefused(x) /\ o = Ok(PlainWats(x))
  <2>1. PlainWats(x) \in Word /\ ~(PlainWats(x) < 0)
    BY <1>2, Zenon DEF PlainRefused
  <2>2. PlainWats(x) \in 0 .. MaxInt
    BY <2>1, Sizes DEF Word
  <2> QED
    BY <1>2, <2>2, Zenon
<1> QED
  BY <1>1, <1>2, Zenon DEF Native

LEMMA BrowserRange ==
  ASSUME NEW x, NEW p
  PROVE  Browser(p, x) = Error \/ \E n \in 0 .. MaxInt : Browser(p, x) = Ok(n)
<1>1. CASE ~PlainRefused(x) /\ Browser(p, x) = Ok(PlainWats(x))
  <2>1. PlainWats(x) \in Word /\ ~(PlainWats(x) < 0)
    BY <1>1, Zenon DEF PlainRefused
  <2>2. PlainWats(x) \in 0 .. MaxInt
    BY <2>1, Sizes DEF Word
  <2> QED
    BY <1>1, <2>2, Zenon
<1> QED
  BY <1>1, Zenon DEF Browser

\* parse_decimal_to_wats may read a negative one.
LEMMA CoreRange ==
  ASSUME NEW x \in Text
  PROVE  \/ parse_decimal_to_wats(x) = Error
         \/ \E n \in Word : parse_decimal_to_wats(x) = Ok(n)
<1> DEFINE n == x.whole * Unit + x.frac * Base^(Decimals - x.len)
<1>1. CASE parse_decimal_to_wats(x) = Error
  BY <1>1
<1>2. CASE parse_decimal_to_wats(x) # Error
  <2>1. /\ parse_decimal_to_wats(x) = Ok(Signed(x.sign, n))
        /\ ~(x.len > Decimals) /\ n \in Word
    BY <1>2, Zenon DEF parse_decimal_to_wats
  <2>2. x.len \in Nat /\ x.whole \in Nat /\ x.frac \in Nat
    BY DEF Text
  <2>3. Decimals - x.len \in 0 .. Decimals
    BY <2>1, <2>2, Sizes
  <2>4. Base^(Decimals - x.len) \in Nat
    BY <2>3, Powers
  <2>5. n \in Nat
    <3>1. x.whole * Unit \in Nat
      BY <2>2, Powers
    <3>2. x.frac * Base^(Decimals - x.len) \in Nat
      BY <2>2, <2>4
    <3> QED
      BY <3>1, <3>2
  <2> HIDE DEF n
  <2>6. Signed(x.sign, n) \in Word
    BY <2>1, <2>5, Sizes DEF Signed, Word
  <2> QED
    BY <2>1, <2>6, Zenon
<1> QED
  BY <1>1, <1>2

\* Whoever reads.
LEMMA ReadRange ==
  ASSUME NEW x \in Text, NEW r \in Reader, NEW o \in ReadBy(r, x)
  PROVE  o = Error \/ \E n \in Word : o = Ok(n)
<1>1. 0 .. MaxInt \subseteq Word
  BY Sizes DEF Word
<1>2. CASE r = "amount"
  BY <1>1, <1>2, NativeRange, Zenon DEF ReadBy, from_str
<1>3. CASE r = "secret"
  BY <1>1, <1>3, NativeRange DEF ReadBy, SecretAmount
<1>4. CASE r = "public"
  BY <1>1, <1>4, NativeRange DEF ReadBy, PublicAmount
<1>5. CASE r = "core"
  BY <1>5, CoreRange DEF ReadBy
<1>6. CASE r = "browser"
  BY <1>1, <1>6, BrowserRange DEF ReadBy, parse_amount_str
<1>7. CASE r = "browser_secret"
  BY <1>1, <1>7, BrowserRange DEF ReadBy, BrowserAmount
<1> QED
  BY <1>2, <1>3, <1>4, <1>5, <1>6, <1>7 DEF Reader

\* What is printed is a text.
LEMMA PrintedText ==
  ASSUME NEW w \in Word
  PROVE  Webcash(w) \in Text
<1> DEFINE x == Webcash(w)
           m == Magnitude(w)
           f == m % Unit
           n == Trimmed(f)
           q == m \div Unit
<1>1. m \in Nat
  BY Sizes DEF Word, Magnitude
<1>2. x = [Plain EXCEPT !.prefix = "e",
                        !.sign = IF w < 0 /\ q > 0 THEN "-" ELSE "",
                        !.whole = q,
                        !.points = IF f = 0 THEN 0 ELSE 1,
                        !.len = n,
                        !.frac = f \div Base^(Decimals - n)]
  BY Zenon DEF Webcash, Printed
<1> HIDE DEF m, x
<1>3. q \in Nat /\ f \in Nat
  <2>1. PICK u \in Nat \ {0} : u = Unit
    BY Powers
  <2>2. m \div u \in Nat /\ m % u \in 0 .. u - 1
    BY <1>1, Division
  <2> QED
    BY <2>1, <2>2
<1> HIDE DEF f, q
<1>4. n \in Nat /\ f \div Base^(Decimals - n) \in Nat
  BY <1>3, TrimmedScales
<1> HIDE DEF n
<1>5. PICK a, c, g : /\ a = (IF w < 0 /\ q > 0 THEN "-" ELSE "")
                     /\ c = (IF f = 0 THEN 0 ELSE 1)
                     /\ g = f \div Base^(Decimals - n)
  BY Zenon
<1>6. a \in Sign
  BY <1>5 DEF Sign
<1>8. c \in 0 .. 2
  <2>1. c = 0 \/ c = 1
    BY <1>5, Zenon
  <2> QED
    BY <2>1
<1>9. g \in Nat
  BY <1>4, <1>5
<1>7. x = [prefix |-> "e", named |-> "none", sign |-> a, digits |-> TRUE,
           whole |-> q, points |-> c, fsign |-> "", len |-> n, frac |-> g,
           exps |-> 0, exp |-> 0]
  BY <1>2, <1>5 DEF Plain
<1>10. "e" \in {"none", "e", "won"} /\ "none" \in {"none", "inf", "nan"} /\ "" \in Sign /\ TRUE \in BOOLEAN
       /\ 0 \in Nat /\ 0 \in 0 .. 1 /\ 0 \in Int
  BY DEF Sign
<1>11. x \in Text
  BY <1>3, <1>4, <1>6, <1>7, <1>8, <1>9, <1>10, Zenon DEF Text
<1> QED
  BY <1>11 DEF x

LEMMA ErrorTyped == Error \in [ok : BOOLEAN, wats : Word] /\ Plain \in Text
  BY Sizes DEF Error, Word, Plain, Text, Sign

\* What an amount asked for can be, and what the selected coins add up to: their
\* sum, or the largest number there is.
AmountInv ==
  /\ TypeOK
  /\ reader = "amount" /\ out.ok => out.wats \in 0 .. MaxInt
  /\ total = IF exact > MaxInt THEN MaxInt ELSE exact
  /\ reader = "proposed" => total >= asked

LEMMA AmountInit == Init => AmountInv
<1> SUFFICES ASSUME Init PROVE AmountInv
  OBVIOUS
<1>1. text \in Text
  BY AmountAssumption DEF Init
<1>2. out = Error /\ reader = "none" /\ asked = 0 /\ total = 0 /\ exact = 0
  BY DEF Init
<1>3. out \in [ok : BOOLEAN, wats : Word]
  BY <1>2, ErrorTyped
<1>4. TypeOK
  BY <1>1, <1>2, <1>3, Sizes DEF TypeOK
<1> QED
  BY <1>2, <1>4, Sizes DEF AmountInv

LEMMA AmountStep == AmountInv /\ [Next]_vars => AmountInv'
<1> SUFFICES ASSUME AmountInv, [Next]_vars PROVE AmountInv'
  OBVIOUS
<1>0. TypeOK
  BY DEF AmountInv
<1>1. ASSUME NEW r \in Reader, Read(r) PROVE AmountInv'
  <2>1. out' = Error \/ \E n \in Word : out' = Ok(n)
    BY <1>0, <1>1, ReadRange, Zenon DEF TypeOK, Read
  <2>2. \A n \in Word : Ok(n) \in [ok : BOOLEAN, wats : Word]
    BY DEF Ok
  <2>3. out' \in [ok : BOOLEAN, wats : Word]
    BY <2>1, <2>2, ErrorTyped, Zenon
  <2>4. CASE r = "amount"
    <3>1. out' \in Native(text.prefix, text)
      BY <1>1, <2>4 DEF Read, ReadBy, from_str
    <3>2. out' = Error \/ \E n \in 0 .. MaxInt : out' = Ok(n)
      BY <3>1, NativeRange, Zenon
    <3>3. out'.ok => out'.wats \in 0 .. MaxInt
      BY <3>2 DEF Error, Ok
    <3> QED
      BY <1>0, <1>1, <2>3, <2>4, <3>3 DEF AmountInv, TypeOK, Read, Reader
  <2>5. CASE r # "amount"
    BY <1>0, <1>1, <2>3, <2>5 DEF AmountInv, TypeOK, Read, Reader
  <2> QED
    BY <2>4, <2>5
<1>2. ASSUME HandOn PROVE AmountInv'
  <2>1. out.wats \in Word
    BY <1>0 DEF TypeOK
  <2>2. Webcash(out.wats) \in Text
    BY <2>1, PrintedText
  <2> QED
    BY <1>0, <1>2, <2>2, ErrorTyped DEF AmountInv, TypeOK, HandOn
<1>3. ASSUME Ask PROVE AmountInv'
  BY <1>0, <1>3, ErrorTyped DEF AmountInv, TypeOK, Ask
<1>4. ASSUME NEW coin \in Held, Select(coin) PROVE AmountInv'
  <2>1. coin \in 1 .. MaxInt
    BY AmountAssumption
  <2>2. total \in 0 .. MaxInt /\ exact \in Nat /\ total' = Add(total, coin) /\ exact' = exact + coin
    BY <1>0, <1>4 DEF TypeOK, Select
  <2>3. total' \in 0 .. MaxInt /\ exact' \in Nat
    BY <2>1, <2>2, Sums
  <2>4. total' = IF exact' > MaxInt THEN MaxInt ELSE exact'
    <3>1. total = IF exact > MaxInt THEN MaxInt ELSE exact
      BY DEF AmountInv
    <3> QED
      BY <2>1, <2>2, <3>1, Sums, Sizes
  <2> QED
    BY <1>0, <1>4, <2>3, <2>4 DEF AmountInv, TypeOK, Select
<1>5. ASSUME Propose PROVE AmountInv'
  BY <1>0, <1>5 DEF AmountInv, TypeOK, Propose
<1>6. ASSUME UNCHANGED vars PROVE AmountInv'
  BY <1>6 DEF AmountInv, TypeOK, vars
<1> QED
  BY <1>1, <1>2, <1>3, <1>4, <1>5, <1>6 DEF Next

LEMMA AmountInvariant == Spec => []AmountInv
  BY AmountInit, AmountStep, PTL DEF Spec

\* The variables have their types: no reader makes anything of a text that is
\* not a number of 64 bits, and what a wallet is asked for is not negative.
THEOREM TypeCorrect == Spec => []TypeOK
<1>1. AmountInv => TypeOK
  BY DEF AmountInv
<1> QED
  BY <1>1, AmountInvariant, PTL

\* Whatever base, decimals and width, an amount that is printed into a webcash
\* string is read back by every parser as the amount it was.
THEOREM RoundTripHolds == Spec => RoundTrip
<1> DEFINE Same == HandOn /\ out.wats >= 0 =>
        /\ SecretAmount(text') = {out} /\ PublicAmount(text') = {out}
        /\ BrowserAmount(text') = out
        /\ parse_decimal_to_wats(Printed("none", out.wats)) = out
<1>1. AmountInv /\ [Next]_vars => [Same]_vars
  <2> SUFFICES ASSUME AmountInv, HandOn, out.wats >= 0 PROVE Same
    OBVIOUS
  <2>1. out \in [ok : BOOLEAN, wats : Word] /\ out.ok /\ text' = Webcash(out.wats)
    BY DEF AmountInv, TypeOK, HandOn
  <2>2. out.wats \in 0 .. MaxInt
    BY <2>1, Sizes DEF Word
  <2>3. out = Ok(out.wats)
    BY <2>1 DEF Ok
  <2> QED
    BY <2>1, <2>2, <2>3, WebcashReads, Zenon
<1>2. Spec => [][Same]_vars
  BY <1>1, AmountInvariant, PTL DEF Spec
<1> QED
  BY <1>2 DEF RoundTrip

\* A pay never asks the server for more than its inputs are worth, even where
\* their sum is out of range.
THEOREM OutputsAreBacked == Spec => []OutputsBacked
<1>1. AmountInv => OutputsBacked
  BY Sizes DEF AmountInv, TypeOK, OutputsBacked, Sub, Saturated
<1> QED
  BY <1>1, AmountInvariant, PTL

----------------------------------------------------------------------------
(* The three parsers compared *)

\* Without digits behind the point there is no fraction.
Shaped(x) == x.len = 0 => x.frac = 0

\* What has been read is one reader's reading of the text.
ReadInv ==
  /\ TypeOK /\ Shaped(text)
  /\ reader \in Reader => out \in ReadBy(reader, text)

LEMMA WebcashShaped ==
  ASSUME NEW w \in Word
  PROVE  Shaped(Webcash(w))
<1>1. PICK u \in Nat \ {0} : u = Unit
  BY Powers
<1>2. PICK m \in Nat : m = Magnitude(w)
  BY Sizes DEF Word, Magnitude
<1>3. PICK f \in 0 .. Unit - 1 : f = m % Unit
  BY <1>1, <1>2, Division
<1>4. /\ Webcash(w).len = Trimmed(f) /\ Webcash(w).exps = 0
      /\ Webcash(w).frac = f \div Base^(Decimals - Trimmed(f))
  BY <1>2, <1>3 DEF Webcash, Printed, Plain
<1>5. ASSUME Trimmed(f) = 0
      PROVE  f \div Base^(Decimals - Trimmed(f)) = 0
  <2>1. f = 0
    BY <1>5, TrimmedEmpty
  <2>2. Base^(Decimals - 0) \in Nat \ {0}
    BY Powers, Sizes
  <2>3. \A b \in Nat \ {0} : 0 \div b = 0
    OBVIOUS
  <2> QED
    BY <1>5, <2>1, <2>2, <2>3
<1> QED
  BY <1>4, <1>5 DEF Shaped

LEMMA TypedShaped ==
  ASSUME NEW x \in Typed
  PROVE  Shaped(x)
<1>1. x.frac < Base^x.len /\ x.frac \in Nat
  BY AmountAssumption DEF WellFormed, Text
<1>2. x.len = 0 => x.frac = 0
  BY <1>1, Powers
<1> QED
  BY <1>2 DEF Shaped

LEMMA ReadInit == Init => ReadInv
<1> SUFFICES ASSUME Init PROVE ReadInv
  OBVIOUS
<1>1. TypeOK
  BY AmountInit DEF AmountInv
<1>2. text \in Typed /\ reader \notin Reader
  BY DEF Init, Reader
<1> QED
  BY <1>1, <1>2, TypedShaped DEF ReadInv

LEMMA ReadStep == ReadInv /\ TypeOK' /\ [Next]_vars => ReadInv'
<1> SUFFICES ASSUME ReadInv, TypeOK', [Next]_vars PROVE ReadInv'
  OBVIOUS
<1>1. ASSUME NEW r \in Reader, Read(r) PROVE ReadInv'
  BY <1>1, Zenon DEF ReadInv, Read
<1>2. ASSUME HandOn PROVE ReadInv'
  <2>1. out.wats \in Word
    BY DEF ReadInv, TypeOK
  <2>2. text' = Webcash(out.wats) /\ reader' = "none"
    BY <1>2 DEF HandOn
  <2>3. reader' \notin Reader
    BY <2>2 DEF Reader
  <2> QED
    BY <2>1, <2>2, <2>3, WebcashShaped DEF ReadInv
<1>3. ASSUME Ask PROVE ReadInv'
  <2>1. text' = Plain /\ reader' = "asked"
    BY <1>3 DEF Ask
  <2>2. Shaped(Plain)
    BY DEF Shaped, Plain
  <2>3. reader' \notin Reader
    BY <2>1 DEF Reader
  <2> QED
    BY <2>1, <2>2, <2>3 DEF ReadInv
<1>4. ASSUME NEW coin \in Held, Select(coin) PROVE ReadInv'
  <2>1. UNCHANGED <<text, out, reader>>
    BY <1>4 DEF Select
  <2> QED
    BY <2>1 DEF ReadInv
<1>5. ASSUME Propose PROVE ReadInv'
  <2>1. text' = text /\ reader' = "proposed"
    BY <1>5 DEF Propose
  <2>2. reader' \notin Reader
    BY <2>1 DEF Reader
  <2> QED
    BY <2>1, <2>2 DEF ReadInv
<1>6. ASSUME UNCHANGED vars PROVE ReadInv'
  BY <1>6 DEF ReadInv, vars
<1> QED
  BY <1>1, <1>2, <1>3, <1>4, <1>5, <1>6 DEF Next

LEMMA ReadInvariant == Spec => []ReadInv
<1>1. AmountInv => TypeOK
  BY DEF AmountInv
<1> QED
  BY <1>1, AmountInvariant, ReadInit, ReadStep, PTL DEF Spec

\* What the parsers look at in a text without signs and prefix.
LEMMA UnsignedParts ==
  ASSUME NEW x \in Text, Shaped(x), IsUnsigned(x), ~(x.len > Decimals)
  PROVE  /\ FracLength(x) = x.len /\ x.len \in 0 .. Decimals
         /\ Signed(x.sign, x.whole) = x.whole
         /\ x.whole * Unit \in Nat
         /\ PlainWats(x) = x.whole * Unit + x.frac * Base^(Decimals - x.len)
         /\ PlainWats(x) \in Nat
<1>1. x.len \in Nat /\ x.whole \in Nat /\ x.frac \in Nat
  BY DEF Text
<1>2. x.sign = "" /\ x.fsign = ""
  BY DEF IsUnsigned
<1>3. FracLength(x) = x.len /\ x.len \in 0 .. Decimals
  <2>1. FracLength(x) = x.len + 0
    BY <1>2, Zenon DEF FracLength
  <2> QED
    BY <1>1, <2>1, Sizes
<1>4. Signed(x.sign, x.whole) = x.whole /\ Signed(x.fsign, x.frac) = x.frac
  BY <1>2 DEF Signed
<1>5. x.whole * Unit \in Nat
  BY <1>1, Powers
<1>6. Base^(Decimals - x.len) \in Nat
  BY <1>3, Powers, Sizes
<1>7. x.frac * Base^(Decimals - x.len) \in Nat
  BY <1>1, <1>6
<1>8. CASE x.len = 0
  <2>1. x.frac * Base^(Decimals - x.len) = 0
    BY <1>6, <1>8 DEF Shaped
  <2>2. PlainWats(x) = x.whole * Unit + 0
    BY <1>3, <1>4, <1>8, Zenon DEF PlainWats
  <2> QED
    BY <1>3, <1>4, <1>5, <2>1, <2>2
<1>9. CASE x.len # 0
  <2>1. PlainWats(x) = x.whole * Unit + x.frac * Base^(Decimals - x.len)
    BY <1>3, <1>4, <1>9, Zenon DEF PlainWats
  <2> QED
    BY <1>3, <1>4, <1>5, <1>7, <2>1
<1> QED
  BY <1>8, <1>9

\* Where recover()'s parser reads an unsigned text the other two read the same.
LEMMA CoreReadsLikewise ==
  ASSUME NEW x \in Text, Shaped(x), IsUnsigned(x), parse_decimal_to_wats(x).ok
  PROVE  /\ from_str(x) = {parse_decimal_to_wats(x)}
         /\ parse_amount_str(x) = parse_decimal_to_wats(x)
<1>1. parse_decimal_to_wats(x) # Error
  BY DEF Error
<1>2. /\ x.prefix = "none" /\ x.exps # 1 /\ x.points # 2 /\ x.digits
      /\ ~(x.len > Decimals) /\ x.whole \in Word /\ x.whole * Unit \in Word
      /\ x.whole * Unit + x.frac * Base^(Decimals - x.len) \in Word
      /\ parse_decimal_to_wats(x) =
           Ok(Signed(x.sign, x.whole * Unit + x.frac * Base^(Decimals - x.len)))
  BY <1>1, Zenon DEF parse_decimal_to_wats
<1>3. /\ FracLength(x) = x.len /\ x.len \in 0 .. Decimals
      /\ Signed(x.sign, x.whole) = x.whole
      /\ PlainWats(x) = x.whole * Unit + x.frac * Base^(Decimals - x.len)
      /\ PlainWats(x) \in Nat
  BY <1>2, UnsignedParts, Zenon
<1>4. Signed(x.sign, PlainWats(x)) = PlainWats(x)
  BY DEF IsUnsigned, Signed
<1>5. parse_decimal_to_wats(x) = Ok(PlainWats(x))
  BY <1>2, <1>3, <1>4, Zenon
<1>6. ~(x.len > 0 /\ (x.len > Decimals \/ x.len = 0)) /\ ~(PlainWats(x) < 0)
  BY <1>2, <1>3
<1>7. ~PlainRefused(x) /\ ~NoWhole(x)
  BY <1>2, <1>3, <1>6, Zenon DEF PlainRefused, NoWhole
<1>8. ~(x.exps = 1 \/ x.prefix = "e")
  BY <1>2
<1>9. from_str(x) = {Ok(PlainWats(x))}
  BY <1>7, <1>8, Zenon DEF from_str, Native
<1>10. parse_amount_str(x) = Ok(PlainWats(x))
  BY <1>7, <1>8, Zenon DEF parse_amount_str, Browser
<1> QED
  BY <1>5, <1>9, <1>10

\* Where Amount::from_str reads a text without an exponent the browser reads the
\* same, and recover()'s parser nothing else.
LEMMA NativeReadsLikewise ==
  ASSUME NEW x \in Text, Shaped(x), IsUnsigned(x), x.exps = 0,
         NEW o \in from_str(x), o.ok
  PROVE  parse_amount_str(x) = o /\ parse_decimal_to_wats(x) \in {o, Error}
<1>1. o # Error
  BY DEF Error
<1>2. x.exps # 1
  OBVIOUS
<1>3. /\ ~(x.prefix = "none" /\ NoWhole(x) /\ x.points = 0)
      /\ ~PlainRefused(x) /\ o = Ok(PlainWats(x))
  BY <1>1, <1>2, Zenon DEF from_str, Native
<1>4. parse_amount_str(x) = o
  BY <1>2, <1>3, Zenon DEF parse_amount_str, Browser
<1>5. CASE parse_decimal_to_wats(x) = Error
  BY <1>4, <1>5
<1>6. CASE parse_decimal_to_wats(x) # Error
  <2>1. parse_decimal_to_wats(x) =
          Ok(Signed(x.sign, x.whole * Unit + x.frac * Base^(Decimals - x.len)))
    BY <1>6, Zenon DEF parse_decimal_to_wats
  <2>2. parse_decimal_to_wats(x).ok
    BY <2>1 DEF Ok
  <2>3. from_str(x) = {parse_decimal_to_wats(x)}
    BY <2>2, CoreReadsLikewise
  <2> QED
    BY <1>4, <2>3
<1> QED
  BY <1>5, <1>6

\* Whatever base, decimals and width: the parsers of the wallet, of recover()
\* and of the browser read a text without signs alike if they read it at all,
\* and the wallet's and the browser's read all that recover()'s can.
THEOREM ParsersAgreeAlways == Spec => []ParsersAgree
<1>1. ASSUME ReadInv PROVE ParsersAgree
  <2>1. text \in Text /\ Shaped(text)
    BY <1>1 DEF ReadInv, TypeOK
  <2>2. ASSUME reader = "core", out.ok, IsUnsigned(text)
        PROVE  from_str(text) = {out} /\ parse_amount_str(text) = out
    <3>1. out = parse_decimal_to_wats(text)
      BY <1>1, <2>2 DEF ReadInv, Reader, ReadBy
    <3> QED
      BY <2>1, <2>2, <3>1, CoreReadsLikewise
  <2>3. ASSUME reader = "amount", out.ok, IsUnsigned(text), text.exps = 0
        PROVE  /\ parse_amount_str(text) = out
               /\ parse_decimal_to_wats(text) \in {out, Error}
    <3>1. out \in from_str(text)
      BY <1>1, <2>3 DEF ReadInv, Reader, ReadBy
    <3> QED
      BY <2>1, <2>3, <3>1, NativeReadsLikewise
  <2> QED
    BY <2>2, <2>3 DEF ParsersAgree
<1> QED
  BY <1>1, ReadInvariant, PTL

----------------------------------------------------------------------------
(* Exponents *)

\* Arithmetic the provers do not have: a power of the base is positive.
PowersPositive == \A k \in Nat : Base^k \in Nat \ {0}

\* What a text means, as a fraction, and how far the float may be off.
LEMMA Meaning ==
  ASSUME PowersPositive, NEW x \in Text
  PROVE  /\ Digits(x) \in Nat /\ Above(x) \in Nat /\ Below(x) \in Nat \ {0}
         /\ Digits(x) = 0 => Above(x) = 0
         /\ Slack(x) \in Nat
<1>1. x.len \in Nat /\ x.whole \in Nat /\ x.frac \in Nat /\ x.exp \in Int
  BY DEF Text
<1>2. Shift(x) \in Int
  BY <1>1, Sizes DEF Shift
<1>3. PICK b \in Nat \ {0} : b = Base^x.len
  BY <1>1 DEF PowersPositive
<1>4. PICK c \in Nat : c = IF Shift(x) >= 0 THEN Base^Shift(x) ELSE 1
  BY <1>2 DEF PowersPositive
<1>5. PICK d \in Nat : d = Digits(x)
  <2>1. x.whole * b \in Nat
    BY <1>1, <1>3
  <2>2. x.whole * b + x.frac \in Nat
    BY <1>1, <2>1
  <2>3. Digits(x) = x.whole * b + x.frac
    BY <1>3, Zenon DEF Digits
  <2> QED
    BY <2>2, <2>3
<1>6. Above(x) = d * c
  BY <1>4, <1>5, Zenon DEF Above
<1>7. d * c \in Nat /\ (d = 0 => d * c = 0)
  BY <1>4, <1>5
<1>8. Below(x) \in Nat \ {0}
  <2>1. CASE Shift(x) < 0
    <3>1. -Shift(x) \in Nat
      BY <1>2, <2>1
    <3> QED
      BY <2>1, <3>1 DEF Below, PowersPositive
  <2>2. CASE ~(Shift(x) < 0)
    BY <2>2 DEF Below
  <2> QED
    BY <2>1, <2>2
<1>9. Slack(x) \in Nat
  BY <1>1 DEF Slack, Magnitude
<1> QED
  BY <1>5, <1>6, <1>7, <1>8, <1>9

\* Half a unit and an error under half a unit are less than one: a whole number
\* of units has no other whole number so near.
LEMMA NoOtherSoNear ==
  ASSUME NEW p \in Nat \ {0}, NEW b \in Nat \ {0}, NEW k \in Nat, NEW n \in Nat,
         NEW e \in Nat, e < p * b,
         2 * p * Magnitude(k * b - n * b) <= p * b + e
  PROVE  n = k
<1>1. PICK c \in Nat \ {0} : c = p * b
  OBVIOUS
<1>2. PICK m \in Nat : m = Magnitude(k - n)
  BY DEF Magnitude
<1>3. Magnitude(k * b - n * b) = m * b
  <2>1. k * b - n * b = (k - n) * b
    OBVIOUS
  <2>2. CASE k >= n
    <3>1. k - n \in Nat /\ (k - n) * b \in Nat
      BY <2>2
    <3> QED
      BY <1>2, <2>1, <3>1 DEF Magnitude
  <2>3. CASE k < n
    <3>1. n - k \in Nat \ {0} /\ (n - k) * b \in Nat \ {0}
      BY <2>3
    <3>2. (k - n) * b = -((n - k) * b) /\ m = n - k
      BY <1>2, <2>3 DEF Magnitude
    <3> QED
      BY <2>1, <3>1, <3>2 DEF Magnitude
  <2> QED
    BY <2>2, <2>3
<1>4. 2 * p * (m * b) = 2 * (m * c)
  BY <1>1, <1>2
<1>5. 2 * (m * c) < 2 * c
  BY <1>1, <1>3, <1>4
<1>6. m = 0
  <2>1. m # 0 => m * c >= c
    BY <1>1, <1>2
  <2> QED
    BY <1>1, <1>2, <1>5, <2>1
<1> QED
  BY <1>2, <1>6 DEF Magnitude

\* parse_scientific_notation reads a whole number of wats, or the largest.
LEMMA ExactReads ==
  ASSUME PowersPositive, NEW x \in Text,
         NEW o \in parse_scientific_notation(x), o.ok,
         x.named = "none", x.sign # "-", Magnitude(x.exp) <= MaxPower,
         Above(x) % Below(x) = 0, 2 * Slack(x) * Above(x) < Precision * Below(x)
  PROVE  \/ o.wats * Below(x) = Above(x)
         \/ o.wats = MaxInt /\ Above(x) > MaxInt * Below(x)
<1>1. PICK a \in Nat, b \in Nat \ {0} : a = Above(x) /\ b = Below(x)
  BY Meaning
<1>2. PICK e \in Nat : e = 2 * Slack(x) * Above(x)
  BY Meaning
<1>3. PICK k \in Nat : a = k * b
  <2>1. a % b = 0
    BY <1>1
  <2>2. a \div b \in Nat /\ a = (a \div b) * b + (a % b)
    BY <1>1, Division
  <2>3. (a \div b) * b \in Nat
    BY <1>1, <2>2
  <2> QED
    BY <2>1, <2>2, <2>3
<1>4. Precision \in Nat \ {0} /\ MaxInt \in Nat /\ MaxPower \in 0 .. MaxExp /\ MaxExp \in Nat
  BY AmountAssumption
<1>5. e < Precision * b
  BY <1>1, <1>2
<1>6. o # Error
  BY DEF Error
<1>7. x.exp \in Int /\ x.exp <= MaxPower /\ -x.exp <= MaxPower
  BY <1>4 DEF Text, Magnitude
<1>8. ~(x.exp \in -MaxExp .. -MaxPower - 1) /\ x.exp # -MaxExp - 1 /\ ~(x.exp > MaxPower)
  BY <1>4, <1>7
<1>9. ~Infinite(x) /\ (Vanishes(x) => Digits(x) = 0)
  BY <1>8 DEF Infinite, Vanishes
<1>10. \/ Digits(x) = 0 /\ o = Ok(0)
       \/ \E n \in Rounded(x) : o = Ok(n)
  BY <1>6, <1>9, Zenon DEF parse_scientific_notation
<1>11. CASE Digits(x) = 0 /\ o = Ok(0)
  <2>1. a = 0 /\ o.wats = 0
    BY <1>1, <1>11, Meaning DEF Ok
  <2> QED
    BY <1>1, <2>1
<1>12. ASSUME NEW n \in Rounded(x), o = Ok(n)
       PROVE  \/ o.wats * Below(x) = Above(x)
              \/ o.wats = MaxInt /\ Above(x) > MaxInt * Below(x)
  <2>1. o.wats = n
    BY <1>12 DEF Ok
  <2>2. CASE n \in 0 .. MaxInt /\ MayRoundTo(n, x)
    <3>1. 2 * Precision * Magnitude(a - n * b) <= Precision * b + e
      BY <1>1, <1>2, <2>2, Zenon DEF MayRoundTo
    <3>2. 2 * Precision * Magnitude(k * b - n * b) <= Precision * b + e /\ n \in Nat
      BY <1>3, <1>4, <2>2, <3>1
    <3>3. n = k
      BY <1>1, <1>4, <1>5, <3>2, NoOtherSoNear
    <3> QED
      BY <1>1, <1>3, <2>1, <3>3
  <2>3. CASE /\ n = MaxInt
             /\ 2 * Precision * ((MaxInt + 1) * Below(x) - Above(x))
                  <= Precision * Below(x) + 2 * Slack(x) * Above(x)
    <3>1. 2 * Precision * ((MaxInt + 1) * b - a) <= Precision * b + e
      BY <1>1, <1>2, <2>3, Zenon
    <3>2. ASSUME k <= MaxInt PROVE FALSE
      <4>1. PICK n1 \in Nat : n1 = MaxInt + 1
        BY <1>4
      <4>2. PICK d \in Nat : d = n1 * b - k * b
        <5>1. n1 - k \in Nat /\ n1 * b - k * b = (n1 - k) * b
          BY <1>1, <1>4, <3>2, <4>1
        <5>2. (n1 - k) * b \in Nat
          BY <1>1, <5>1
        <5> QED
          BY <5>1, <5>2
      <4>3. k * b - n1 * b = -d /\ Magnitude(-d) = d
        BY <1>1, <4>1, <4>2 DEF Magnitude
      <4>4. 2 * Precision * Magnitude(k * b - n1 * b) <= Precision * b + e
        BY <1>3, <3>1, <4>1, <4>2, <4>3
      <4>5. n1 = k
        BY <1>1, <1>4, <1>5, <4>4, NoOtherSoNear
      <4> QED
        BY <1>4, <3>2, <4>1, <4>5
    <3>3. k * b > MaxInt * b
      <4>1. PICK m \in Nat \ {0} : k = MaxInt + m
        <5>1. k - MaxInt \in Nat \ {0} /\ k = MaxInt + (k - MaxInt)
          BY <1>4, <3>2
        <5> QED
          BY <5>1
      <4>2. k * b = MaxInt * b + m * b /\ m * b \in Nat \ {0} /\ MaxInt * b \in Nat
        BY <1>1, <1>4, <4>1
      <4> QED
        BY <4>2
    <3> QED
      BY <1>1, <1>3, <2>1, <2>3, <3>3
  <2> QED
    BY <1>12, <2>2, <2>3, Zenon DEF Rounded
<1> QED
  BY <1>10, <1>11, <1>12

\* A text with an exponent that means a whole number of wats is read as that
\* number, or as the largest there is, as long as what floats are off by stays
\* under half a wat: whatever the base, the decimals, the widths and the exponent.
THEOREM ExponentExactAlways ==
  ASSUME PowersPositive
  PROVE  Spec => []ExponentExact
<1>1. ASSUME ReadInv PROVE ExponentExact
  <2> SUFFICES ASSUME reader \in {"amount", "public"}, out.ok, text.exps = 1,
                      text.named = "none", text.sign # "-",
                      Magnitude(text.exp) <= MaxPower,
                      Above(text) % Below(text) = 0,
                      2 * Slack(text) * Above(text) < Precision * Below(text)
               PROVE  \/ out.wats * Below(text) = Above(text)
                      \/ out.wats = MaxInt /\ Above(text) > MaxInt * Below(text)
    BY Zenon DEF ExponentExact
  <2>1. \E p : out \in Native(p, text)
    <3>1. CASE reader = "amount"
      BY <1>1, <3>1 DEF ReadInv, Reader, ReadBy, from_str
    <3>2. CASE reader = "public"
      BY <1>1, <3>2 DEF ReadInv, Reader, ReadBy, PublicAmount
    <3> QED
      BY <3>1, <3>2
  <2>2. PICK p : out \in Native(p, text)
    BY <2>1
  <2>3. out # Error
    BY DEF Error
  <2>4. out \in parse_scientific_notation(text)
    BY <2>2, <2>3, Zenon DEF Native
  <2>5. text \in Text
    BY <1>1 DEF ReadInv, TypeOK
  <2> QED
    BY <2>4, <2>5, ExactReads
<1> QED
  BY <1>1, ReadInvariant, PTL
============================================================================
