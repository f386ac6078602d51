-------------------------- MODULE RtcSettingProofs --------------------------
(***************************************************************************)
(* Setting the RTC for clocks and calendars of every size: what a setting  *)
(* without a fault leaves behind, wherever in it the RTC's own second      *)
(* begins.  A time is a number in a mixed radix, so that most of this is   *)
(* about quotients and remainders of products.                             *)
(***************************************************************************)
EXTENDS RtcSetting, TLAPS

-----------------------------------------------------------------------------
(* Quotients and remainders.                                               *)
LEMMA Product ==
    ASSUME NEW a \in Nat, NEW b \in Nat
    PROVE  a * b \in Nat /\ a * b = b * a
  OBVIOUS

LEMMA PositiveProduct ==
    ASSUME NEW a \in Nat \ {0}, NEW b \in Nat \ {0}
    PROVE  a * b \in Nat \ {0}
  <1>1. PICK c \in Nat : a = c + 1
    BY a - 1 \in Nat
  <1>2. a * b = c * b + b /\ c * b \in Nat
    BY <1>1
  <1> QED BY <1>2

LEMMA DivParts ==
    ASSUME NEW x \in Nat, NEW b \in Nat \ {0}
    PROVE  /\ x \div b \in Nat
           /\ x % b \in 0 .. b - 1
           /\ x = (x \div b) * b + (x % b)
  <1>1. x \div b \in Nat /\ x % b \in 0 .. b - 1
    OBVIOUS
  <1>2. x = b * (x \div b) + (x % b)
    OBVIOUS
  <1>3. b * (x \div b) = (x \div b) * b
    BY <1>1, Product
  <1> QED BY <1>1, <1>2, <1>3

(* There is one way to divide.                                             *)
LEMMA OneQuotient ==
    ASSUME NEW b \in Nat \ {0}, NEW q \in Nat, NEW p \in Nat,
           NEW r \in 0 .. b - 1, NEW s \in 0 .. b - 1,
           q * b + r = p * b + s
    PROVE  q = p /\ r = s
  <1>1. ASSUME NEW i \in Nat, NEW j \in Nat, NEW k \in 0 .. b - 1, NEW l \in 0 .. b - 1,
               i * b + k = j * b + l
        PROVE  ~(i < j)
    <2> SUFFICES ASSUME i < j PROVE FALSE
      OBVIOUS
    <2>1. PICK d \in Nat : j = (i + 1) + d
      BY j - (i + 1) \in Nat
    <2>2. j * b = i * b + b + d * b /\ i * b \in Nat /\ d * b \in Nat
      BY <2>1
    <2> QED BY <1>1, <2>2
  <1>2. ~(q < p) /\ ~(p < q)
    BY <1>1
  <1>3. q = p
    BY <1>2
  <1>4. q * b \in Nat
    OBVIOUS
  <1> QED BY <1>3, <1>4

LEMMA Divide ==
    ASSUME NEW x \in Nat, NEW b \in Nat \ {0}, NEW q \in Nat, NEW r \in 0 .. b - 1,
           x = q * b + r
    PROVE  x \div b = q /\ x % b = r
  <1> DEFINE p == x \div b
             s == x % b
  <1>1. p \in Nat /\ s \in 0 .. b - 1 /\ x = p * b + s
    BY DivParts
  <1> HIDE DEF p, s
  <1>2. p * b + s = q * b + r
    BY <1>1
  <1>3. p = q /\ s = r
    BY <1>1, <1>2, OneQuotient
  <1> QED BY <1>3 DEF p, s

(* Dividing by a product is dividing by its factors.                       *)
LEMMA Split ==
    ASSUME NEW x \in Nat, NEW a \in Nat \ {0}, NEW b \in Nat \ {0}
    PROVE  /\ (x \div a) \div b = x \div (a * b)
           /\ x % (a * b) = ((x \div a) % b) * a + (x % a)
  <1> DEFINE q == x \div a
             r == x % a
             p == q \div b
             d == q % b
  <1>1. q \in Nat /\ r \in 0 .. a - 1 /\ x = q * a + r
    BY DivParts
  <1>2. p \in Nat /\ d \in 0 .. b - 1 /\ q = p * b + d
    <2> HIDE DEF q
    <2> QED BY <1>1, DivParts
  <1> HIDE DEF q, r, p, d
  <1>3. a * b \in Nat \ {0}
    BY PositiveProduct
  <1>4. d * a + r \in 0 .. a * b - 1
    <2>1. PICK k \in Nat : b = (d + 1) + k
      BY <1>2, b - (d + 1) \in Nat
    <2>2. a * b = d * a + a + k * a /\ d * a \in Nat /\ k * a \in Nat
      BY <1>2, <2>1
    <2> QED BY <1>1, <2>2
  <1>5. x = p * (a * b) + (d * a + r)
    <2>1. (p * b + d) * a = p * (a * b) + d * a
      BY <1>2
    <2>2. d * a \in Nat /\ p * (a * b) \in Nat
      BY <1>2, <1>3
    <2> QED BY <1>1, <1>2, <2>1, <2>2
  <1>6. x \div (a * b) = p /\ x % (a * b) = d * a + r
    BY <1>2, <1>3, <1>4, <1>5, Divide
  <1> QED BY <1>6 DEF q, r, p, d

-----------------------------------------------------------------------------
(* The same of a register of weight w with b values, and c the weight of   *)
(* the next.  Quotients and remainders are named, so that no step below    *)
(* multiplies.                                                             *)
Quot(x, b) == x \div b
Rem(x, b) == x % b
Place(w, b, c) == /\ w \in Nat \ {0}
                  /\ b \in Nat \ {0}
                  /\ c \in Nat \ {0}
                  /\ c = w * b

LEMMA QuotRem ==
    ASSUME NEW x \in Nat, NEW b \in Nat \ {0}
    PROVE  Quot(x, b) \in Nat /\ Rem(x, b) \in 0 .. b - 1
  BY DivParts DEF Quot, Rem

LEMMA SameParts ==
    ASSUME NEW x \in Nat, NEW y \in Nat, NEW b \in Nat \ {0},
           Quot(x, b) = Quot(y, b), Rem(x, b) = Rem(y, b)
    PROVE  x = y
  <1>1. x = Quot(x, b) * b + Rem(x, b) /\ y = Quot(y, b) * b + Rem(y, b)
    BY DivParts DEF Quot, Rem
  <1> QED BY <1>1

LEMMA NothingAbove ==
    ASSUME NEW x \in Nat, NEW b \in Nat \ {0}
    PROVE  /\ x \in 0 .. b - 1 <=> Quot(x, b) = 0
           /\ x \in 0 .. b - 1 => Rem(x, b) = x
  <1> DEFINE q == Quot(x, b)
             r == Rem(x, b)
  <1>1. q \in Nat /\ r \in 0 .. b - 1 /\ x = q * b + r
    BY DivParts DEF Quot, Rem
  <1> HIDE DEF q, r
  <1>2. ASSUME q = 0 PROVE x = r
    BY <1>1, <1>2
  <1>3. ASSUME x \in 0 .. b - 1 PROVE q = 0
    <2>1. x = 0 * b + x
      OBVIOUS
    <2>2. 0 * b + x = q * b + r
      BY <1>1, <2>1
    <2> QED BY <1>1, <1>3, <2>2, OneQuotient
  <1> QED BY <1>1, <1>2, <1>3 DEF q, r

LEMMA Nested ==
    ASSUME NEW x \in Nat, NEW w, NEW b, NEW c, Place(w, b, c)
    PROVE  Quot(Quot(x, w), b) = Quot(x, c)
  BY Split DEF Quot, Place

LEMMA Joined ==
    ASSUME NEW x \in Nat, NEW w, NEW b, NEW c, Place(w, b, c)
    PROVE  Rem(x, c) = Rem(Quot(x, w), b) * w + Rem(x, w)
  BY Split DEF Quot, Rem, Place

(* What is below a register, and its digit, are what is below the next.    *)
LEMMA SameBelow ==
    ASSUME NEW x \in Nat, NEW y \in Nat, NEW w, NEW b, NEW c, Place(w, b, c)
    PROVE  Rem(x, c) = Rem(y, c)
             <=> Rem(x, w) = Rem(y, w) /\ Rem(Quot(x, w), b) = Rem(Quot(y, w), b)
  <1>1. /\ Rem(x, c) = Rem(Quot(x, w), b) * w + Rem(x, w)
        /\ Rem(y, c) = Rem(Quot(y, w), b) * w + Rem(y, w)
    BY Joined
  <1>2. /\ Quot(x, w) \in Nat /\ Rem(x, w) \in 0 .. w - 1
        /\ Quot(y, w) \in Nat /\ Rem(y, w) \in 0 .. w - 1
    BY QuotRem DEF Place
  <1>3. Rem(Quot(x, w), b) \in Nat /\ Rem(Quot(y, w), b) \in Nat
    <2> DEFINE q == Quot(x, w)
               p == Quot(y, w)
    <2>1. q \in Nat /\ p \in Nat
      BY <1>2
    <2> HIDE DEF q, p
    <2>2. Rem(q, b) \in 0 .. b - 1 /\ Rem(p, b) \in 0 .. b - 1
      BY <2>1, QuotRem DEF Place
    <2> QED BY <2>2 DEF q, p
  <1>4. ASSUME Rem(x, c) = Rem(y, c)
        PROVE  Rem(x, w) = Rem(y, w) /\ Rem(Quot(x, w), b) = Rem(Quot(y, w), b)
    <2>1. w \in Nat \ {0}
      BY DEF Place
    <2>2. \A i, j \in Nat, k, l \in 0 .. w - 1 :
              i * w + k = j * w + l => i = j /\ k = l
      BY <2>1, OneQuotient
    <2> QED BY <1>1, <1>2, <1>3, <1>4, <2>2
  <1> QED BY <1>1, <1>4

(* Another digit is put there: what is below and above stays.              *)
LEMMA PutDigit ==
    ASSUME NEW t \in Nat, NEW w, NEW b, NEW c, Place(w, b, c), NEW v \in 0 .. b - 1,
           NEW u, u = t + (v - Rem(Quot(t, w), b)) * w
    PROVE  /\ u \in Nat
           /\ Rem(u, w) = Rem(t, w)
           /\ Rem(Quot(u, w), b) = v
           /\ Quot(u, c) = Quot(t, c)
  <1> DEFINE q == Quot(t, w)
             r == Rem(t, w)
             p == Quot(q, b)
             d == Rem(q, b)
  <1> w \in Nat \ {0} /\ b \in Nat \ {0} /\ c \in Nat \ {0}
    BY DEF Place
  <1>1. q \in Nat /\ r \in 0 .. w - 1 /\ t = q * w + r
    BY DivParts DEF Quot, Rem
  <1>2. p \in Nat /\ d \in 0 .. b - 1 /\ q = p * b + d
    <2> HIDE DEF q
    <2> QED BY <1>1, DivParts DEF Quot, Rem
  <1>3. u = t + (v - d) * w
    OBVIOUS
  <1>4. p = Quot(t, c)
    BY Nested
  <1> HIDE DEF q, r, p, d
  <1>5. u = (p * b + v) * w + r /\ u \in Nat
    <2>1. p * b \in Nat
      BY <1>2
    <2>2. (q + (v - d)) * w = q * w + (v - d) * w /\ q * w \in Nat /\ (v - d) * w \in Int
      BY <1>1, <1>2
    <2>3. q + (v - d) = p * b + v
      BY <1>1, <1>2, <2>1
    <2>4. (p * b + v) * w \in Nat
      BY <2>1
    <2> QED BY <1>1, <1>3, <2>2, <2>3, <2>4
  <1>6. p * b + v \in Nat
    BY <1>2
  <1>7. Quot(u, w) = p * b + v /\ Rem(u, w) = r
    BY <1>1, <1>5, <1>6, Divide DEF Quot, Rem
  <1>8. Quot(Quot(u, w), b) = p /\ Rem(Quot(u, w), b) = v
    <2> DEFINE s == Quot(u, w)
    <2>1. s \in Nat /\ s = p * b + v
      BY <1>6, <1>7
    <2> HIDE DEF s
    <2>2. Quot(s, b) = p /\ Rem(s, b) = v
      BY <1>2, <2>1, Divide DEF Quot, Rem
    <2> QED BY <2>2 DEF s
  <1>9. Quot(Quot(u, w), b) = Quot(u, c)
    BY <1>5, Nested
  <1> QED BY <1>4, <1>5, <1>7, <1>8, <1>9 DEF r

(* A digit goes up by one, or to zero with one more above it.              *)
LEMMA Successor ==
    ASSUME NEW q \in Nat, NEW b \in Nat \ {0}
    PROVE  IF Rem(q, b) + 1 < b
           THEN Rem(q + 1, b) = Rem(q, b) + 1 /\ Quot(q + 1, b) = Quot(q, b)
           ELSE Rem(q + 1, b) = 0 /\ Quot(q + 1, b) = Quot(q, b) + 1
  <1> DEFINE p == Quot(q, b)
             d == Rem(q, b)
  <1>1. p \in Nat /\ d \in 0 .. b - 1 /\ q = p * b + d
    BY DivParts DEF Quot, Rem
  <1> HIDE DEF p, d
  <1>2. p * b \in Nat /\ (p + 1) * b = p * b + b
    BY <1>1
  <1>3. CASE d + 1 < b
    <2>1. q + 1 = p * b + (d + 1) /\ d + 1 \in 0 .. b - 1 /\ q + 1 \in Nat
      BY <1>1, <1>2, <1>3
    <2>2. Quot(q + 1, b) = p /\ Rem(q + 1, b) = d + 1
      BY <1>1, <2>1, Divide DEF Quot, Rem
    <2> QED BY <1>3, <2>2 DEF p, d
  <1>4. CASE ~(d + 1 < b)
    <2>1. q + 1 = (p + 1) * b + 0 /\ 0 \in 0 .. b - 1 /\ q + 1 \in Nat /\ p + 1 \in Nat
      BY <1>1, <1>2, <1>4
    <2>2. Quot(q + 1, b) = p + 1 /\ Rem(q + 1, b) = 0
      BY <2>1, Divide DEF Quot, Rem
    <2> QED BY <1>4, <2>2 DEF p, d
  <1> QED BY <1>3, <1>4

-----------------------------------------------------------------------------
(* The registers of the RTC.                                               *)
LEMMA Registers6 ==
    /\ Len(Registers) = 6
    /\ Register = {"hour", "min", "sec", "day", "month", "year"}
    /\ \A r \in Register : Radix[r] \in Nat \ {0}
  <1>1. Len(Registers) = 6
    BY DEF Registers
  <1>2. Register = {Registers[1], Registers[2], Registers[3],
                    Registers[4], Registers[5], Registers[6]}
    BY <1>1 DEF Register
  <1>3. Register = {"hour", "min", "sec", "day", "month", "year"}
    BY <1>2 DEF Registers
  <1> QED BY <1>1, <1>3, RtcSettingAssumption

LEMMA Places ==
    /\ Place(1, Radix["sec"], Minute)
    /\ Place(Minute, Radix["min"], Hour)
    /\ Place(Hour, Radix["hour"], Day)
    /\ Place(Day, Radix["day"], Month)
    /\ Place(Month, Radix["month"], Year)
    /\ Place(Year, Radix["year"], Total)
  <1>0. ASSUME NEW w \in Nat \ {0}, NEW b \in Nat \ {0}
        PROVE  Place(w, b, w * b)
    BY PositiveProduct DEF Place
  <1>r. \A r \in {"hour", "min", "sec", "day", "month", "year"} : Radix[r] \in Nat \ {0}
    BY Registers6
  <1>1. Place(1, Radix["sec"], Minute) /\ Minute \in Nat \ {0}
    BY <1>r DEF Place, Minute
  <1>2. Place(Minute, Radix["min"], Hour) /\ Hour \in Nat \ {0}
    <2>1. Place(Minute, Radix["min"], Minute * Radix["min"])
      BY <1>0, <1>1, <1>r
    <2> QED BY <2>1 DEF Hour, Place
  <1>3. Place(Hour, Radix["hour"], Day) /\ Day \in Nat \ {0}
    <2>1. Place(Hour, Radix["hour"], Hour * Radix["hour"])
      BY <1>0, <1>2, <1>r
    <2> QED BY <2>1 DEF Day, Place
  <1>4. Place(Day, Radix["day"], Month) /\ Month \in Nat \ {0}
    <2>1. Place(Day, Radix["day"], Day * Radix["day"])
      BY <1>0, <1>3, <1>r
    <2> QED BY <2>1 DEF Month, Place
  <1>5. Place(Month, Radix["month"], Year) /\ Year \in Nat \ {0}
    <2>1. Place(Month, Radix["month"], Month * Radix["month"])
      BY <1>0, <1>4, <1>r
    <2> QED BY <2>1 DEF Year, Place
  <1>6. Place(Year, Radix["year"], Total)
    <2>1. Place(Year, Radix["year"], Year * Radix["year"])
      BY <1>0, <1>5, <1>r
    <2> QED BY <2>1 DEF Total
  <1> QED BY <1>1, <1>2, <1>3, <1>4, <1>5, <1>6

LEMMA Weights ==
    /\ Minute \in Nat \ {0} /\ Hour \in Nat \ {0} /\ Day \in Nat \ {0}
    /\ Month \in Nat \ {0} /\ Year \in Nat \ {0} /\ Total \in Nat \ {0}
    /\ Radix["sec"] = Minute
    /\ Radix["min"] \in Nat \ {0} /\ Radix["hour"] \in Nat \ {0}
    /\ Radix["day"] \in Nat \ {0} /\ Radix["month"] \in Nat \ {0}
    /\ Radix["year"] \in Nat \ {0}
  BY Places DEF Place, Minute

LEMMA Digits ==
    ASSUME NEW t \in Nat
    PROVE  /\ Digit(t, "sec") = Rem(t, Minute)
           /\ Digit(t, "min") = Rem(Quot(t, Minute), Radix["min"])
           /\ Digit(t, "hour") = Rem(Quot(t, Hour), Radix["hour"])
           /\ Digit(t, "day") = Rem(Quot(t, Day), Radix["day"])
           /\ Digit(t, "month") = Rem(Quot(t, Month), Radix["month"])
           /\ Digit(t, "year") = Rem(Quot(t, Year), Radix["year"])
           /\ TimeOfDay(t) = Rem(t, Day)
           /\ Quot(t, 1) = t
  <1>1. t \div 1 = t
    OBVIOUS
  <1> QED BY <1>1, Weights DEF Digit, Weight, Quot, Rem, TimeOfDay

LEMMA DigitRange ==
    ASSUME NEW t \in Nat, NEW r \in Register
    PROVE  Digit(t, r) \in 0 .. Radix[r] - 1
  <1> DEFINE q == Quot(t, Weight[r])
  <1>1. Weight[r] \in Nat \ {0}
    BY Weights, Registers6 DEF Weight
  <1>2. q \in Nat
    BY <1>1, QuotRem
  <1>3. Digit(t, r) = Rem(q, Radix[r])
    BY DEF Digit, Quot, Rem
  <1> HIDE DEF q
  <1> QED BY <1>2, <1>3, Registers6, QuotRem

(* The same time of day is the same hour, minute and second.               *)
LEMMA SameTimeOfDay ==
    ASSUME NEW x \in Nat, NEW y \in Nat
    PROVE  TimeOfDay(x) = TimeOfDay(y)
             <=> /\ Rem(x, Minute) = Rem(y, Minute)
                 /\ Digit(x, "min") = Digit(y, "min")
                 /\ Digit(x, "hour") = Digit(y, "hour")
  <1>1. Rem(x, Day) = Rem(y, Day)
          <=> Rem(x, Hour) = Rem(y, Hour) /\ Digit(x, "hour") = Digit(y, "hour")
    BY SameBelow, Places, Digits
  <1>2. Rem(x, Hour) = Rem(y, Hour)
          <=> Rem(x, Minute) = Rem(y, Minute) /\ Digit(x, "min") = Digit(y, "min")
    BY SameBelow, Places, Digits
  <1> QED BY <1>1, <1>2, Digits

(* The same number of days is the same year, month and day.                *)
LEMMA SameDate ==
    ASSUME NEW x \in 0 .. Total - 1, NEW y \in 0 .. Total - 1,
           Digit(x, "day") = Digit(y, "day"),
           Digit(x, "month") = Digit(y, "month"),
           Digit(x, "year") = Digit(y, "year")
    PROVE  Quot(x, Day) = Quot(y, Day)
  <1> x \in Nat /\ y \in Nat
    BY Weights
  <1>0. ASSUME NEW w, NEW b, NEW c, Place(w, b, c),
               Quot(x, c) = Quot(y, c), Rem(Quot(x, w), b) = Rem(Quot(y, w), b)
        PROVE  Quot(x, w) = Quot(y, w)
    <2>1. Quot(Quot(x, w), b) = Quot(x, c) /\ Quot(Quot(y, w), b) = Quot(y, c)
      BY <1>0, Nested
    <2>2. Quot(x, w) \in Nat /\ Quot(y, w) \in Nat /\ b \in Nat \ {0}
      BY <1>0, QuotRem DEF Place
    <2> QED BY <1>0, <2>1, <2>2, SameParts
  <1>1. Quot(x, Total) = 0 /\ Quot(y, Total) = 0
    BY Weights, NothingAbove
  <1>2. Quot(x, Year) = Quot(y, Year)
    BY <1>0, <1>1, Places, Digits
  <1>3. Quot(x, Month) = Quot(y, Month)
    BY <1>0, <1>2, Places, Digits
  <1> QED BY <1>0, <1>3, Places, Digits

-----------------------------------------------------------------------------
(* What a register that is written leaves as it was.                       *)
LEMMA PutTypes ==
    ASSUME NEW t \in 0 .. Total - 1, NEW r \in Register, NEW v \in 0 .. Radix[r] - 1
    PROVE  WithDigit(t, r, v) \in 0 .. Total - 1
  <1> DEFINE u == WithDigit(t, r, v)
  <1>0. t \in Nat /\ Quot(t, Total) = 0
    BY Weights, NothingAbove
  <1>1. \E c : /\ u \in Nat
               /\ Quot(u, c) = Quot(t, c)
               /\ c \in {Minute, Hour, Day, Month, Year, Total}
    <2>1. ASSUME NEW c, Place(Weight[r], Radix[r], c)
          PROVE  u \in Nat /\ Quot(u, c) = Quot(t, c)
      <3>1. u = t + (v - Rem(Quot(t, Weight[r]), Radix[r])) * Weight[r]
        BY DEF WithDigit, Digit, Quot, Rem
      <3> HIDE DEF u
      <3> QED BY <1>0, <2>1, <3>1, PutDigit
    <2>2. \E c \in {Minute, Hour, Day, Month, Year, Total} : Place(Weight[r], Radix[r], c)
      BY Places, Registers6 DEF Weight
    <2> HIDE DEF u
    <2> QED BY <2>1, <2>2
  <1> HIDE DEF u
  <1>2. u \in Nat
    BY <1>1
  <1>3. ASSUME NEW w, NEW b, NEW c, Place(w, b, c), Quot(u, w) = Quot(t, w)
        PROVE  Quot(u, c) = Quot(t, c)
    <2>1. Quot(Quot(u, w), b) = Quot(u, c) /\ Quot(Quot(t, w), b) = Quot(t, c)
      BY <1>0, <1>2, <1>3, Nested
    <2> QED BY <1>3, <2>1
  <1>4. Quot(u, Total) = Quot(t, Total)
    BY <1>1, <1>3, Places
  <1> QED BY <1>0, <1>2, <1>4, Weights, NothingAbove DEF u

LEMMA PutTime ==
    ASSUME NEW t \in 0 .. Total - 1
    PROVE  /\ \A v \in 0 .. Radix["hour"] - 1 :
                LET u == WithDigit(t, "hour", v)
                IN  Digit(u, "hour") = v /\ Rem(u, Hour) = Rem(t, Hour)
           /\ \A v \in 0 .. Radix["min"] - 1 :
                LET u == WithDigit(t, "min", v)
                IN  /\ Digit(u, "min") = v
                    /\ Rem(u, Minute) = Rem(t, Minute)
                    /\ Quot(u, Hour) = Quot(t, Hour)
           /\ \A v \in 0 .. Radix["sec"] - 1 :
                LET u == WithDigit(t, "sec", v)
                IN  Digit(u, "sec") = v /\ Quot(u, Minute) = Quot(t, Minute)
  <1>0. t \in Nat
    BY Weights
  <1>1. ASSUME NEW v \in 0 .. Radix["hour"] - 1, NEW u, u = WithDigit(t, "hour", v)
        PROVE  Digit(u, "hour") = v /\ Rem(u, Hour) = Rem(t, Hour)
    <2>1. u = t + (v - Rem(Quot(t, Hour), Radix["hour"])) * Hour
      BY <1>1 DEF WithDigit, Digit, Weight, Quot, Rem
    <2>2. u \in Nat /\ Rem(u, Hour) = Rem(t, Hour) /\ Rem(Quot(u, Hour), Radix["hour"]) = v
      BY <1>0, <2>1, PutDigit, Places
    <2> QED BY <2>2, Digits
  <1>2. ASSUME NEW v \in 0 .. Radix["min"] - 1, NEW u, u = WithDigit(t, "min", v)
        PROVE  /\ Digit(u, "min") = v
               /\ Rem(u, Minute) = Rem(t, Minute)
               /\ Quot(u, Hour) = Quot(t, Hour)
    <2>1. u = t + (v - Rem(Quot(t, Minute), Radix["min"])) * Minute
      BY <1>2 DEF WithDigit, Digit, Weight, Quot, Rem
    <2>2. /\ u \in Nat /\ Rem(u, Minute) = Rem(t, Minute)
          /\ Rem(Quot(u, Minute), Radix["min"]) = v
          /\ Quot(u, Hour) = Quot(t, Hour)
      BY <1>0, <2>1, PutDigit, Places
    <2> QED BY <2>2, Digits
  <1>3. ASSUME NEW v \in 0 .. Radix["sec"] - 1, NEW u, u = WithDigit(t, "sec", v)
        PROVE  Digit(u, "sec") = v /\ Quot(u, Minute) = Quot(t, Minute)
    <2>1. u = t + (v - Rem(Quot(t, 1), Radix["sec"])) * 1
      BY <1>3 DEF WithDigit, Digit, Weight, Quot, Rem
    <2>2. /\ u \in Nat
          /\ Rem(Quot(u, 1), Radix["sec"]) = v
          /\ Quot(u, Minute) = Quot(t, Minute)
      BY <1>0, <2>1, PutDigit, Places
    <2> QED BY <2>2, Digits, Weights
  <1> QED BY <1>1, <1>2, <1>3

LEMMA PutDate ==
    ASSUME NEW t \in 0 .. Total - 1
    PROVE  /\ \A v \in 0 .. Radix["day"] - 1 :
                LET u == WithDigit(t, "day", v)
                IN  Digit(u, "day") = v /\ Rem(u, Day) = Rem(t, Day)
           /\ \A v \in 0 .. Radix["month"] - 1 :
                LET u == WithDigit(t, "month", v)
                IN  Digit(u, "month") = v /\ Rem(u, Month) = Rem(t, Month)
           /\ \A v \in 0 .. Radix["year"] - 1 :
                LET u == WithDigit(t, "year", v)
                IN  Digit(u, "year") = v /\ Rem(u, Year) = Rem(t, Year)
  <1>0. t \in Nat
    BY Weights
  <1>1. ASSUME NEW v \in 0 .. Radix["day"] - 1, NEW u, u = WithDigit(t, "day", v)
        PROVE  Digit(u, "day") = v /\ Rem(u, Day) = Rem(t, Day)
    <2>1. u = t + (v - Rem(Quot(t, Day), Radix["day"])) * Day
      BY <1>1 DEF WithDigit, Digit, Weight, Quot, Rem
    <2>2. u \in Nat /\ Rem(u, Day) = Rem(t, Day) /\ Rem(Quot(u, Day), Radix["day"]) = v
      BY <1>0, <2>1, PutDigit, Places
    <2> QED BY <2>2, Digits
  <1>2. ASSUME NEW v \in 0 .. Radix["month"] - 1, NEW u, u = WithDigit(t, "month", v)
        PROVE  Digit(u, "month") = v /\ Rem(u, Month) = Rem(t, Month)
    <2>1. u = t + (v - Rem(Quot(t, Month), Radix["month"])) * Month
      BY <1>2 DEF WithDigit, Digit, Weight, Quot, Rem
    <2>2. u \in Nat /\ Rem(u, Month) = Rem(t, Month) /\ Rem(Quot(u, Month), Radix["month"]) = v
      BY <1>0, <2>1, PutDigit, Places
    <2> QED BY <2>2, Digits
  <1>3. ASSUME NEW v \in 0 .. Radix["year"] - 1, NEW u, u = WithDigit(t, "year", v)
        PROVE  Digit(u, "year") = v /\ Rem(u, Year) = Rem(t, Year)
    <2>1. u = t + (v - Rem(Quot(t, Year), Radix["year"])) * Year
      BY <1>3 DEF WithDigit, Digit, Weight, Quot, Rem
    <2>2. u \in Nat /\ Rem(u, Year) = Rem(t, Year) /\ Rem(Quot(u, Year), Radix["year"]) = v
      BY <1>0, <2>1, PutDigit, Places
    <2> QED BY <2>2, Digits
  <1> QED BY <1>1, <1>2, <1>3

-----------------------------------------------------------------------------
(* The digits of a time and of one a second, a minute or an hour later.    *)
NextHour(t) == (Digit(t, "hour") + 1) % Radix["hour"]

LEMMA NextDigit ==
    ASSUME NEW q \in Nat, NEW b \in Nat \ {0}
    PROVE  Rem(q + 1, b) = (Rem(q, b) + 1) % b
  <1>1. Rem(q, b) \in 0 .. b - 1
    BY QuotRem
  <1>2. CASE Rem(q, b) + 1 < b
    <2>1. Rem(q, b) + 1 \in 0 .. b - 1
      BY <1>1, <1>2
    <2>2. Rem(Rem(q, b) + 1, b) = Rem(q, b) + 1
      BY <2>1, NothingAbove
    <2> QED BY <1>2, <2>2, Successor DEF Rem
  <1>3. CASE ~(Rem(q, b) + 1 < b)
    <2>1. Rem(q, b) + 1 = 1 * b + 0
      BY <1>1, <1>3
    <2>2. Rem(Rem(q, b) + 1, b) = 0
      <3> DEFINE d == Rem(q, b) + 1
      <3>1. d \in Nat /\ d = 1 * b + 0
        BY <1>1, <2>1
      <3> HIDE DEF d
      <3>2. d % b = 0
        BY <3>1, Divide
      <3> QED BY <3>2 DEF d, Rem
    <2> QED BY <1>3, <2>2, Successor DEF Rem
  <1> QED BY <1>2, <1>3

(* One more minute: the hour goes on when the minutes begin again.         *)
LEMMA MinuteGoesOn ==
    ASSUME NEW x \in Nat, NEW y \in Nat, Quot(y, Minute) = Quot(x, Minute) + 1
    PROVE  IF Digit(x, "min") + 1 < Radix["min"]
           THEN Digit(y, "min") = Digit(x, "min") + 1 /\ Digit(y, "hour") = Digit(x, "hour")
           ELSE Digit(y, "min") = 0 /\ Digit(y, "hour") = NextHour(x)
  <1>1. Quot(x, Minute) \in Nat /\ Quot(x, Hour) \in Nat
    BY Weights, QuotRem
  <1>2. /\ Quot(Quot(x, Minute), Radix["min"]) = Quot(x, Hour)
        /\ Quot(Quot(y, Minute), Radix["min"]) = Quot(y, Hour)
    BY Places, Nested
  <1>3. IF Rem(Quot(x, Minute), Radix["min"]) + 1 < Radix["min"]
        THEN /\ Rem(Quot(x, Minute) + 1, Radix["min"]) = Rem(Quot(x, Minute), Radix["min"]) + 1
             /\ Quot(Quot(x, Minute) + 1, Radix["min"]) = Quot(Quot(x, Minute), Radix["min"])
        ELSE /\ Rem(Quot(x, Minute) + 1, Radix["min"]) = 0
             /\ Quot(Quot(x, Minute) + 1, Radix["min"]) = Quot(Quot(x, Minute), Radix["min"]) + 1
    BY <1>1, Weights, Successor
  <1>4. Rem(Quot(x, Hour) + 1, Radix["hour"]) = NextHour(x)
    BY <1>1, Weights, Digits, NextDigit DEF NextHour
  <1> QED BY <1>2, <1>3, <1>4, Digits

LEMMA OneMore ==
    ASSUME NEW x \in Nat, NEW b \in Nat \ {0}
    PROVE  /\ x + b \in Nat
           /\ Rem(x + b, b) = Rem(x, b)
           /\ Quot(x + b, b) = Quot(x, b) + 1
  <1> DEFINE q == Quot(x, b)
             r == Rem(x, b)
             y == x + b
  <1>1. q \in Nat /\ r \in 0 .. b - 1 /\ x = q * b + r
    BY DivParts DEF Quot, Rem
  <1> HIDE DEF q, r
  <1>2. (q + 1) * b = q * b + b /\ q * b \in Nat
    BY <1>1
  <1>3. y = (q + 1) * b + r /\ y \in Nat /\ q + 1 \in Nat
    BY <1>1, <1>2
  <1> HIDE DEF y
  <1>4. y \div b = q + 1 /\ y % b = r
    BY <1>1, <1>3, Divide
  <1> QED BY <1>3, <1>4 DEF q, r, y, Quot, Rem

LEMMA HourLater ==
    ASSUME NEW x \in Nat
    PROVE  /\ x + Hour \in Nat
           /\ Rem(x + Hour, Minute) = Rem(x, Minute)
           /\ Digit(x + Hour, "min") = Digit(x, "min")
           /\ Digit(x + Hour, "hour") = NextHour(x)
  <1>1. /\ x + Hour \in Nat
        /\ Rem(x + Hour, Hour) = Rem(x, Hour)
        /\ Quot(x + Hour, Hour) = Quot(x, Hour) + 1
    BY Weights, OneMore
  <1>2. /\ Rem(x + Hour, Minute) = Rem(x, Minute)
        /\ Digit(x + Hour, "min") = Digit(x, "min")
    BY <1>1, SameBelow, Places, Digits
  <1>3. Quot(x, Hour) \in Nat
    BY Weights, QuotRem
  <1>4. Rem(Quot(x, Hour) + 1, Radix["hour"]) = NextHour(x)
    BY <1>3, Weights, Digits, NextDigit DEF NextHour
  <1> QED BY <1>1, <1>2, <1>4, Digits

(* The RTC's own next second, also when its calendar starts again.         *)
LEMMA NextSecond ==
    ASSUME NEW x \in 0 .. Total - 1, NEW y, y = (x + 1) % Total
    PROVE  /\ y \in 0 .. Total - 1
           /\ Rem(y, Minute) = Rem(x + 1, Minute)
           /\ Rem(x, Minute) + 1 < Minute =>
                 Digit(y, "min") = Digit(x, "min") /\ Digit(y, "hour") = Digit(x, "hour")
           /\ ~(Rem(x, Minute) + 1 < Minute) =>
                 IF Digit(x, "min") + 1 < Radix["min"]
                 THEN Digit(y, "min") = Digit(x, "min") + 1 /\ Digit(y, "hour") = Digit(x, "hour")
                 ELSE Digit(y, "min") = 0 /\ Digit(y, "hour") = NextHour(x)
  <1> DEFINE z == x + 1
  <1>1. x \in Nat /\ z \in Nat
    BY Weights
  <1>2. y \in 0 .. Total - 1 /\ y \in Nat /\ y = Rem(z, Total)
    <2>1. y = Rem(z, Total)
      BY DEF Rem
    <2> HIDE DEF z
    <2>2. y \in 0 .. Total - 1
      BY <1>1, <2>1, Weights, QuotRem
    <2> QED BY <2>1, <2>2, Weights
  <1>3. Quot(x, Minute) \in Nat /\ Rem(x, Minute) \in 0 .. Minute - 1
    BY <1>1, Weights, QuotRem
  <1>4. IF Rem(x, Minute) + 1 < Minute
        THEN Rem(z, Minute) = Rem(x, Minute) + 1 /\ Quot(z, Minute) = Quot(x, Minute)
        ELSE Rem(z, Minute) = 0 /\ Quot(z, Minute) = Quot(x, Minute) + 1
    BY <1>1, Weights, Successor
  <1> HIDE DEF z
  <1>5. Rem(y, Total) = Rem(z, Total)
    BY <1>2, Weights, NothingAbove
  <1>6. Rem(y, Year) = Rem(z, Year)
    BY <1>1, <1>2, <1>5, Places, SameBelow
  <1>7. Rem(y, Month) = Rem(z, Month)
    BY <1>1, <1>2, <1>6, Places, SameBelow
  <1>8. Rem(y, Day) = Rem(z, Day)
    BY <1>1, <1>2, <1>7, Places, SameBelow
  <1>9. /\ Rem(y, Minute) = Rem(z, Minute)
        /\ Digit(y, "min") = Digit(z, "min")
        /\ Digit(y, "hour") = Digit(z, "hour")
    BY <1>1, <1>2, <1>8, SameTimeOfDay, Digits
  <1>10. ASSUME Rem(x, Minute) + 1 < Minute
         PROVE  Digit(z, "min") = Digit(x, "min") /\ Digit(z, "hour") = Digit(x, "hour")
    <2>1. Quot(z, Minute) = Quot(x, Minute)
      BY <1>4, <1>10
    <2>2. Quot(z, Hour) = Quot(x, Hour)
      <3>1. /\ Quot(Quot(x, Minute), Radix["min"]) = Quot(x, Hour)
            /\ Quot(Quot(z, Minute), Radix["min"]) = Quot(z, Hour)
        BY <1>1, Places, Nested
      <3> QED BY <2>1, <3>1
    <2> QED BY <1>1, <2>1, <2>2, Digits
  <1>11. ASSUME ~(Rem(x, Minute) + 1 < Minute)
         PROVE  IF Digit(x, "min") + 1 < Radix["min"]
                THEN Digit(z, "min") = Digit(x, "min") + 1 /\ Digit(z, "hour") = Digit(x, "hour")
                ELSE Digit(z, "min") = 0 /\ Digit(z, "hour") = NextHour(x)
    BY <1>1, <1>4, <1>11, MinuteGoesOn
  <1>12. Rem(y, Minute) = Rem(x + 1, Minute)
    BY <1>9 DEF z
  <1> QED BY <1>2, <1>9, <1>10, <1>11, <1>12

-----------------------------------------------------------------------------
(* The inductive invariant.  A setting that was not spoilt has put each    *)
(* register that was written at what the sentence says.  The RTC's own     *)
(* second is the only thing that comes between, and only before the        *)
(* seconds are written: hour and minute are then what a carry makes of     *)
(* them.                                                                   *)
TypeInv ==
    /\ now \in 0 .. Total - 1
    /\ rtc \in 0 .. Total - 1
    /\ lines \in Seq(0 .. Total - 1)
    /\ sentence \in 0 .. Total - 1
    /\ rolled \in BOOLEAN
    /\ next \in 0 .. Written
    /\ setting \in {"exact", "carried", "spoilt"}

Carry == rolled /\ setting = "carried"

HourWritten ==
    \/ Digit(rtc, "hour") = Digit(sentence, "hour")
    \/ Carry /\ Digit(rtc, "hour") = NextHour(sentence)

MinuteWritten ==
    \/ HourWritten /\ Digit(rtc, "min") = Digit(sentence, "min")
    \/ /\ Carry
       /\ IF Digit(sentence, "min") + 1 < Radix["min"]
          THEN /\ Digit(rtc, "min") = Digit(sentence, "min") + 1
               /\ Digit(rtc, "hour") = Digit(sentence, "hour")
          ELSE Digit(rtc, "min") = 0 /\ Digit(rtc, "hour") = NextHour(sentence)

TimeWritten ==
    \/ TimeOfDay(rtc) = TimeOfDay(sentence)
    \/ /\ setting = "carried"
       /\ TimeOfDay(rtc) \in {TimeOfDay(sentence + d) : d \in {Minute, Hour}}

WrittenInv ==
    setting # "spoilt" =>
        /\ next = 2 => HourWritten
        /\ next = 3 => MinuteWritten
        /\ next >= 4 => rolled /\ TimeWritten
        /\ next >= 5 => Digit(rtc, "day") = Digit(sentence, "day")
        /\ next >= 6 => Digit(rtc, "month") = Digit(sentence, "month")
        /\ next >= 7 => Digit(rtc, "year") = Digit(sentence, "year")

SettingInv == TypeInv /\ WrittenInv

LEMMA Naturals ==
    ASSUME NEW t \in 0 .. Total - 1
    PROVE  t \in Nat
  BY Weights

LEMMA InitSettingInv ==
    ASSUME Init
    PROVE  SettingInv
  <1>1. TypeInv
    BY Weights, Registers6 DEF Init, TypeInv, Written
  <1> QED BY <1>1 DEF Init, SettingInv, WrittenInv

(* What is written keeps within the register; unless it was misread, it is *)
(* the digit of the sentence.                                              *)
LEMMA WrittenTypes ==
    ASSUME NEW r \in Register, NEW w \in Nat, NEW u, NEW t \in 0 .. Total - 1,
           u = WithDigit(t, r, w % Radix[r])
    PROVE  u \in 0 .. Total - 1
  <1>1. Radix[r] \in Nat \ {0}
    BY Registers6
  <1>2. w % Radix[r] \in 0 .. Radix[r] - 1
    BY <1>1
  <1> QED BY <1>2, PutTypes

LEMMA WrittenDigit ==
    ASSUME TypeInv, WriteRegister
    PROVE  /\ next \in 1 .. 6
           /\ LET r == Registers[next] IN
              /\ r \in Register
              /\ rtc' \in 0 .. Total - 1
              /\ rolled' = (rolled \/ r = "sec")
              /\ setting' = "spoilt" \/
                    /\ setting' = setting
                    /\ Digit(sentence, r) \in 0 .. Radix[r] - 1
                    /\ rtc' = WithDigit(rtc, r, Digit(sentence, r))
           /\ next' = next + 1
           /\ UNCHANGED <<now, lines, sentence>>
  <1> DEFINE r == Registers[next]
             v == Digit(sentence, r)
  <1>1. next \in 1 .. 6 /\ r \in Register
    BY Registers6 DEF WriteRegister, Register
  <1>2. v \in 0 .. Radix[r] - 1
    BY <1>1, Naturals, DigitRange DEF TypeInv
  <1>3. v % Radix[r] = v
    <2> HIDE DEF v, r
    <2>1. v \in Nat /\ Radix[r] \in Nat \ {0}
      BY <1>1, <1>2, Registers6
    <2>2. Rem(v, Radix[r]) = v
      BY <1>2, <2>1, NothingAbove
    <2> QED BY <2>2 DEF Rem
  <1>4. PICK w \in {v} \cup Misreads :
          /\ Put(r, w)
          /\ setting' = IF w = v THEN setting ELSE "spoilt"
    BY DEF WriteRegister
  <1>5. next' = next + 1 /\ UNCHANGED <<now, lines, sentence>>
    BY DEF WriteRegister
  <1> HIDE DEF v, r
  <1>6. rtc' = WithDigit(rtc, r, w % Radix[r]) /\ rolled' = (rolled \/ r = "sec")
    BY <1>4 DEF Put
  <1>7. w \in Nat
    <2>1. v \in Nat
      BY <1>1, <1>2, Registers6
    <2> QED BY <1>4, <2>1, RtcSettingAssumption
  <1>8. rtc' \in 0 .. Total - 1
    BY <1>1, <1>6, <1>7, WrittenTypes DEF TypeInv
  <1>9. w = v => setting' = setting /\ rtc' = WithDigit(rtc, r, v)
    BY <1>3, <1>4, <1>6
  <1>10. w # v => setting' = "spoilt"
    BY <1>4
  <1> QED BY <1>1, <1>2, <1>5, <1>6, <1>8, <1>9, <1>10 DEF v, r

LEMMA Waiting ==
    ASSUME NEW T, NEW q \in Seq(T), NEW e \in T
    PROVE  /\ Append(q, e) \in Seq(T)
           /\ q # <<>> => Head(q) \in T /\ Tail(q) \in Seq(T)
  OBVIOUS

LEMMA StepTypes ==
    ASSUME TypeInv, Next
    PROVE  TypeInv'
  <1> USE DEF TypeInv
  <1>w. Written = 7
    BY Registers6 DEF Written
  <1>n. ASSUME NEW t \in 0 .. Total - 1
        PROVE  (t + 1) % Total \in 0 .. Total - 1
    BY NextSecond
  <1>1. CASE SentencePulse \/ OtherPulse
    <2>1. now' = (now + 1) % Total /\ rolled' = FALSE
          /\ UNCHANGED <<rtc, sentence, next, setting>>
      BY <1>1 DEF SentencePulse, OtherPulse, Pulse
    <2>2. lines' = lines \/ lines' = Append(lines, now)
      BY <1>1 DEF SentencePulse, OtherPulse
    <2>3. lines' \in Seq(0 .. Total - 1)
      BY <2>2, Waiting
    <2>4. now' \in 0 .. Total - 1
      BY <2>1, <1>n
    <2> QED BY <2>1, <2>3, <2>4
  <1>2. CASE ReadSentence
    <2>1. /\ Head(lines) \in 0 .. Total - 1 /\ Tail(lines) \in Seq(0 .. Total - 1)
          /\ sentence' = Head(lines) /\ lines' = Tail(lines) /\ next' = 1
          /\ UNCHANGED <<now, rtc, rolled, setting>>
      BY <1>2, Waiting DEF ReadSentence
    <2> QED BY <2>1, <1>w
  <1>3. CASE Roll
    <2>1. rtc' \in 0 .. Total - 1 /\ rolled' = TRUE
          /\ UNCHANGED <<now, lines, sentence, next>>
      BY <1>3, <1>n DEF Roll
    <2>2. setting' \in {"exact", "carried", "spoilt"}
      BY <1>3 DEF Roll
    <2> QED BY <2>1, <2>2
  <1>4. CASE WriteRegister
    <2>1. /\ next \in 1 .. 6 /\ next' = next + 1
          /\ rtc' \in 0 .. Total - 1 /\ rolled' \in BOOLEAN
          /\ setting' \in {"exact", "carried", "spoilt"}
          /\ UNCHANGED <<now, lines, sentence>>
      BY <1>4, WrittenDigit
    <2> QED BY <2>1, <1>w
  <1>5. CASE WriteFails
    <2>1. "sec" \in Register /\ 0 \in Nat
      BY Registers6
    <2>2. Put("sec", 0) => rtc' \in 0 .. Total - 1 /\ rolled' \in BOOLEAN
      BY <2>1, WrittenTypes DEF Put
    <2>3. rtc' \in 0 .. Total - 1 /\ rolled' \in BOOLEAN
      BY <1>5, <2>2 DEF WriteFails
    <2>4. next' \in 0 .. 7
      BY <1>5, <1>w DEF WriteFails
    <2> QED BY <1>5, <1>w, <2>3, <2>4 DEF WriteFails
  <1>6. CASE Settled
    <2>1. 0 \in 0 .. Total - 1 /\ 0 \in 0 .. Written
      BY <1>w, Weights
    <2> QED BY <1>6, <2>1 DEF Settled
  <1> QED BY <1>1, <1>2, <1>3, <1>4, <1>5, <1>6 DEF Next

(* The RTC's own second can only carry into the minutes when it ends the   *)
(* minute, which the history notes.                                        *)
LEMMA RollWritten ==
    ASSUME TypeInv, WrittenInv, Roll
    PROVE  WrittenInv'
  <1>1. /\ rolled = FALSE /\ rolled' = TRUE /\ rtc' = (rtc + 1) % Total
        /\ UNCHANGED <<sentence, next>>
        /\ setting' = IF next \in 2 .. 3 /\ EndsMinute /\ setting = "exact"
                      THEN "carried" ELSE setting
    BY DEF Roll, TypeInv
  <1> SUFFICES ASSUME setting # "spoilt", next \in {2, 3}
               PROVE  (next = 2 => HourWritten') /\ (next = 3 => MinuteWritten')
    <2>1. setting # "spoilt" => ~(next >= 4)
      BY <1>1 DEF WrittenInv
    <2>2. next \in Int /\ (setting' # "spoilt" => setting # "spoilt")
      BY <1>1 DEF TypeInv
    <2> QED BY <1>1, <2>1, <2>2 DEF WrittenInv
  <1>2. rtc \in Nat /\ sentence \in Nat
    BY Naturals DEF TypeInv
  <1>3. Digit(rtc, "hour") = Digit(sentence, "hour")
    BY <1>1 DEF WrittenInv, HourWritten, MinuteWritten, Carry
  <1>4. next = 3 => Digit(rtc, "min") = Digit(sentence, "min")
    BY <1>1 DEF WrittenInv, MinuteWritten, Carry
  <1>5. CASE Rem(rtc, Minute) + 1 < Minute
    <2>1. Digit(rtc', "min") = Digit(rtc, "min") /\ Digit(rtc', "hour") = Digit(rtc, "hour")
      BY <1>1, <1>5, NextSecond DEF TypeInv
    <2> QED BY <1>1, <1>3, <1>4, <2>1 DEF HourWritten, MinuteWritten
  <1>6. CASE ~(Rem(rtc, Minute) + 1 < Minute)
    <2>1. EndsMinute
      <3>1. Rem(rtc, Minute) \in 0 .. Minute - 1 /\ Minute \in Nat
        BY <1>2, Weights, QuotRem
      <3>2. Rem(rtc, Minute) = Minute - 1
        BY <1>6, <3>1
      <3> QED BY <1>2, <3>2, Digits, Weights DEF EndsMinute
    <2>2. IF Digit(rtc, "min") + 1 < Radix["min"]
          THEN Digit(rtc', "min") = Digit(rtc, "min") + 1 /\ Digit(rtc', "hour") = Digit(rtc, "hour")
          ELSE Digit(rtc', "min") = 0 /\ Digit(rtc', "hour") = NextHour(rtc)
      BY <1>1, <1>6, NextSecond DEF TypeInv
    <2>3. NextHour(rtc) = NextHour(sentence)
      BY <1>3 DEF NextHour
    <2>4. Carry'
      BY <1>1, <2>1 DEF Carry, TypeInv
    <2> QED BY <1>1, <1>3, <1>4, <2>2, <2>3, <2>4 DEF HourWritten, MinuteWritten
  <1> QED BY <1>5, <1>6

(* With the second of the sentence in its place, the time of day is that   *)
(* of the sentence, or one that a carry explains.                          *)
LEMMA TimeIsWritten ==
    ASSUME NEW s \in 0 .. Total - 1, NEW u \in 0 .. Total - 1,
           NEW c \in BOOLEAN,
           Digit(u, "sec") = Digit(s, "sec"),
           \/ /\ Digit(u, "min") = Digit(s, "min")
              /\ \/ Digit(u, "hour") = Digit(s, "hour")
                 \/ c /\ Digit(u, "hour") = NextHour(s)
           \/ /\ c
              /\ IF Digit(s, "min") + 1 < Radix["min"]
                 THEN Digit(u, "min") = Digit(s, "min") + 1 /\ Digit(u, "hour") = Digit(s, "hour")
                 ELSE Digit(u, "min") = 0 /\ Digit(u, "hour") = NextHour(s)
    PROVE  \/ TimeOfDay(u) = TimeOfDay(s)
           \/ /\ c
              /\ TimeOfDay(u) \in {TimeOfDay(s + d) : d \in {Minute, Hour}}
  <1>1. s \in Nat /\ u \in Nat
    BY Naturals
  <1>2. Rem(u, Minute) = Rem(s, Minute)
    BY <1>1, Digits
  <1>3. ASSUME Digit(u, "min") = Digit(s, "min"), Digit(u, "hour") = NextHour(s)
        PROVE  TimeOfDay(u) = TimeOfDay(s + Hour)
    BY <1>1, <1>2, <1>3, HourLater, SameTimeOfDay
  <1>4. ASSUME IF Digit(s, "min") + 1 < Radix["min"]
               THEN Digit(u, "min") = Digit(s, "min") + 1 /\ Digit(u, "hour") = Digit(s, "hour")
               ELSE Digit(u, "min") = 0 /\ Digit(u, "hour") = NextHour(s)
        PROVE  TimeOfDay(u) = TimeOfDay(s + Minute)
    <2> DEFINE y == s + Minute
    <2>1. /\ y \in Nat
          /\ Rem(y, Minute) = Rem(s, Minute)
          /\ Quot(y, Minute) = Quot(s, Minute) + 1
      BY <1>1, Weights, OneMore
    <2> HIDE DEF y
    <2>2. IF Digit(s, "min") + 1 < Radix["min"]
          THEN Digit(y, "min") = Digit(s, "min") + 1 /\ Digit(y, "hour") = Digit(s, "hour")
          ELSE Digit(y, "min") = 0 /\ Digit(y, "hour") = NextHour(s)
      BY <1>1, <2>1, MinuteGoesOn
    <2>3. Digit(u, "min") = Digit(y, "min") /\ Digit(u, "hour") = Digit(y, "hour")
      BY <1>4, <2>2
    <2>4. TimeOfDay(u) = TimeOfDay(y)
      BY <1>1, <1>2, <2>1, <2>3, SameTimeOfDay
    <2> QED BY <2>4 DEF y
  <1>5. CASE Digit(u, "min") = Digit(s, "min") /\ Digit(u, "hour") = Digit(s, "hour")
    BY <1>1, <1>2, <1>5, SameTimeOfDay
  <1> QED BY <1>3, <1>4, <1>5

LEMMA WriteWritten ==
    ASSUME TypeInv, WrittenInv, WriteRegister
    PROVE  WrittenInv'
  <1>1. /\ next \in 1 .. 6 /\ next' = next + 1
        /\ UNCHANGED sentence
    BY WrittenDigit
  <1>2. /\ rtc \in 0 .. Total - 1 /\ sentence \in 0 .. Total - 1
        /\ rtc \in Nat /\ sentence \in Nat
    BY Naturals DEF TypeInv
  <1> SUFFICES ASSUME setting' # "spoilt"
               PROVE  WrittenInv'
    BY DEF WrittenInv
  <1>3. ASSUME NEW r \in Register, Registers[next] = r
        PROVE  /\ Digit(sentence, r) \in 0 .. Radix[r] - 1
               /\ rtc' = WithDigit(rtc, r, Digit(sentence, r))
               /\ rolled' = (rolled \/ r = "sec")
               /\ rtc' \in 0 .. Total - 1
               /\ rtc' \in Nat
    BY <1>3, WrittenDigit, Naturals
  <1>0. setting' = setting /\ setting # "spoilt"
    BY WrittenDigit
  <1>4. CASE next = 1
    <2>1. Digit(rtc', "hour") = Digit(sentence, "hour")
      BY <1>2, <1>3, <1>4, Registers6, PutTime DEF Registers
    <2> QED BY <1>0, <1>1, <1>4, <2>1 DEF WrittenInv, HourWritten
  <1>5. CASE next = 2
    <2>1. /\ Digit(rtc', "min") = Digit(sentence, "min")
          /\ Quot(rtc', Hour) = Quot(rtc, Hour)
          /\ rtc' \in Nat
          /\ rolled' = rolled
      BY <1>2, <1>3, <1>5, Registers6, PutTime DEF Registers, TypeInv
    <2>2. Digit(rtc', "hour") = Digit(rtc, "hour")
      BY <1>2, <2>1, Digits
    <2>3. HourWritten'
      BY <1>0, <1>1, <1>5, <2>1, <2>2 DEF WrittenInv, HourWritten, Carry
    <2> QED BY <1>0, <1>1, <1>5, <2>1, <2>3 DEF WrittenInv, MinuteWritten
  <1>6. CASE next = 3
    <2>1. /\ Digit(rtc', "sec") = Digit(sentence, "sec")
          /\ Quot(rtc', Minute) = Quot(rtc, Minute)
          /\ rtc' \in 0 .. Total - 1 /\ rtc' \in Nat
          /\ rolled' = TRUE
      <3>1. "sec" \in Register /\ Registers[next] = "sec"
        BY <1>6, Registers6 DEF Registers
      <3>2. /\ Digit(sentence, "sec") \in 0 .. Radix["sec"] - 1
            /\ rtc' = WithDigit(rtc, "sec", Digit(sentence, "sec"))
            /\ rtc' \in 0 .. Total - 1 /\ rtc' \in Nat
            /\ rolled' = TRUE
        BY <1>3, <3>1
      <3> QED BY <1>2, <3>2, PutTime
    <2>2. Quot(rtc', Hour) = Quot(rtc, Hour)
      <3>1. /\ Quot(Quot(rtc, Minute), Radix["min"]) = Quot(rtc, Hour)
            /\ Quot(Quot(rtc', Minute), Radix["min"]) = Quot(rtc', Hour)
        BY <1>2, <2>1, Places, Nested
      <3> QED BY <2>1, <3>1
    <2>3. /\ Digit(rtc', "min") = Digit(rtc, "min")
          /\ Digit(rtc', "hour") = Digit(rtc, "hour")
      BY <1>2, <2>1, <2>2, Digits
    <2>4. MinuteWritten
      BY <1>0, <1>6 DEF WrittenInv
    <2>5. TimeWritten'
      <3> DEFINE c == setting = "carried"
      <3>1. c \in BOOLEAN
        OBVIOUS
      <3>2. \/ /\ Digit(rtc', "min") = Digit(sentence, "min")
               /\ \/ Digit(rtc', "hour") = Digit(sentence, "hour")
                  \/ c /\ Digit(rtc', "hour") = NextHour(sentence)
            \/ /\ c
               /\ IF Digit(sentence, "min") + 1 < Radix["min"]
                  THEN /\ Digit(rtc', "min") = Digit(sentence, "min") + 1
                       /\ Digit(rtc', "hour") = Digit(sentence, "hour")
                  ELSE Digit(rtc', "min") = 0 /\ Digit(rtc', "hour") = NextHour(sentence)
        BY <2>3, <2>4 DEF MinuteWritten, HourWritten, Carry
      <3> HIDE DEF c
      <3>3. \/ TimeOfDay(rtc') = TimeOfDay(sentence)
            \/ c /\ TimeOfDay(rtc') \in {TimeOfDay(sentence + d) : d \in {Minute, Hour}}
        BY <1>2, <2>1, <3>1, <3>2, TimeIsWritten
      <3> QED BY <1>0, <1>1, <3>3 DEF TimeWritten, c
    <2> QED BY <1>1, <1>6, <2>1, <2>5 DEF WrittenInv
  <1>7. ASSUME next >= 4, rolled' = rolled, TimeOfDay(rtc') = TimeOfDay(rtc)
        PROVE  rolled' /\ TimeWritten'
    BY <1>0, <1>1, <1>7 DEF WrittenInv, TimeWritten
  <1>8. CASE next = 4
    <2>1. /\ Digit(rtc', "day") = Digit(sentence, "day")
          /\ Rem(rtc', Day) = Rem(rtc, Day)
          /\ rtc' \in Nat /\ rolled' = rolled
      BY <1>2, <1>3, <1>8, Registers6, PutDate DEF Registers, TypeInv
    <2>2. TimeOfDay(rtc') = TimeOfDay(rtc)
      BY <1>2, <2>1, Digits
    <2> QED BY <1>0, <1>1, <1>7, <1>8, <2>1, <2>2 DEF WrittenInv
  <1>9. CASE next = 5
    <2>1. /\ Digit(rtc', "month") = Digit(sentence, "month")
          /\ Rem(rtc', Month) = Rem(rtc, Month)
          /\ rtc' \in Nat /\ rolled' = rolled
      BY <1>2, <1>3, <1>9, Registers6, PutDate DEF Registers, TypeInv
    <2>2. Rem(rtc', Day) = Rem(rtc, Day) /\ Digit(rtc', "day") = Digit(rtc, "day")
      BY <1>2, <2>1, SameBelow, Places, Digits
    <2>3. TimeOfDay(rtc') = TimeOfDay(rtc)
      BY <1>2, <2>1, <2>2, Digits
    <2>4. Digit(rtc, "day") = Digit(sentence, "day")
      BY <1>0, <1>9 DEF WrittenInv
    <2> QED BY <1>0, <1>1, <1>7, <1>9, <2>1, <2>2, <2>3, <2>4 DEF WrittenInv
  <1>10. CASE next = 6
    <2>1. /\ Digit(rtc', "year") = Digit(sentence, "year")
          /\ Rem(rtc', Year) = Rem(rtc, Year)
          /\ rtc' \in Nat /\ rolled' = rolled
      BY <1>2, <1>3, <1>10, Registers6, PutDate DEF Registers, TypeInv
    <2>2. Rem(rtc', Month) = Rem(rtc, Month) /\ Digit(rtc', "month") = Digit(rtc, "month")
      BY <1>2, <2>1, SameBelow, Places, Digits
    <2>3. Rem(rtc', Day) = Rem(rtc, Day) /\ Digit(rtc', "day") = Digit(rtc, "day")
      BY <1>2, <2>1, <2>2, SameBelow, Places, Digits
    <2>4. TimeOfDay(rtc') = TimeOfDay(rtc)
      BY <1>2, <2>1, <2>3, Digits
    <2>5. /\ Digit(rtc, "day") = Digit(sentence, "day")
          /\ Digit(rtc, "month") = Digit(sentence, "month")
      BY <1>0, <1>10 DEF WrittenInv
    <2> QED BY <1>0, <1>1, <1>7, <1>10, <2>1, <2>2, <2>3, <2>4, <2>5 DEF WrittenInv
  <1> QED BY <1>1, <1>4, <1>5, <1>6, <1>8, <1>9, <1>10

LEMMA StepWritten ==
    ASSUME SettingInv, Next
    PROVE  WrittenInv'
  <1> USE DEF SettingInv
  <1>1. CASE SentencePulse \/ OtherPulse
    <2>1. next' = 0
      BY <1>1 DEF SentencePulse, OtherPulse, Pulse
    <2> QED BY <2>1 DEF WrittenInv
  <1>2. CASE ReadSentence
    BY <1>2 DEF ReadSentence, WrittenInv
  <1>3. CASE Roll
    BY <1>3, RollWritten
  <1>4. CASE WriteRegister
    BY <1>4, WriteWritten
  <1>5. CASE WriteFails
    BY <1>5 DEF WriteFails, WrittenInv
  <1>6. CASE Settled
    BY <1>6 DEF Settled, WrittenInv
  <1> QED BY <1>1, <1>2, <1>3, <1>4, <1>5, <1>6 DEF Next

LEMMA StepSettingInv ==
    ASSUME SettingInv, [Next]_vars
    PROVE  SettingInv'
  <1>1. CASE Next
    BY <1>1, StepTypes, StepWritten DEF SettingInv
  <1>2. CASE UNCHANGED vars
    BY <1>2 DEF vars, SettingInv, TypeInv, WrittenInv,
                TimeWritten, MinuteWritten, HourWritten, Carry
  <1> QED BY <1>1, <1>2

LEMMA WrittenIsExactOrCarried ==
    ASSUME SettingInv
    PROVE  SettingIsExactOrCarried
  <1> SUFFICES ASSUME next = Written, setting # "spoilt"
               PROVE  rtc = sentence \/ (setting = "carried" /\ TooFar)
    BY DEF SettingIsExactOrCarried
  <1>1. /\ rtc \in 0 .. Total - 1 /\ sentence \in 0 .. Total - 1
        /\ rtc \in Nat /\ sentence \in Nat
    BY Naturals DEF SettingInv, TypeInv
  <1>2. /\ TimeWritten
        /\ Digit(rtc, "day") = Digit(sentence, "day")
        /\ Digit(rtc, "month") = Digit(sentence, "month")
        /\ Digit(rtc, "year") = Digit(sentence, "year")
    BY Registers6 DEF SettingInv, WrittenInv, Written
  <1>3. Quot(rtc, Day) = Quot(sentence, Day)
    BY <1>1, <1>2, SameDate
  <1>4. CASE TimeOfDay(rtc) = TimeOfDay(sentence)
    BY <1>1, <1>3, <1>4, Digits, Weights, SameParts
  <1>5. CASE TimeOfDay(rtc) # TimeOfDay(sentence)
    BY <1>2, <1>3, <1>5 DEF TimeWritten, TooFar, Quot
  <1> QED BY <1>4, <1>5

(* Whatever the registers hold, however old the sentence is, whatever      *)
(* strtol made of earlier ones, and wherever in a setting the RTC's own    *)
(* second begins: when no transfer of this setting failed and no digit was *)
(* misread, the RTC is left at the second of the sentence, or a minute or  *)
(* an hour of the day later, and that only if a minute of the RTC ended    *)
(* between its hours and its seconds.                                      *)
THEOREM SettingsAreExactOrCarried == Spec => []SettingIsExactOrCarried
  <1>1. Init => SettingInv
    BY InitSettingInv
  <1>2. SettingInv /\ [Next]_vars => SettingInv'
    BY StepSettingInv
  <1>3. SettingInv => SettingIsExactOrCarried
    BY WrittenIsExactOrCarried
  <1> QED BY <1>1, <1>2, <1>3, PTL DEF Spec

=============================================================================
