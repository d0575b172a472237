----------------------------- MODULE ClockProofs -----------------------------
(***************************************************************************)
(* Proofs about the master's clock: the discipline, for any correction      *)
(* period, bounds and GPS errors; the receiver, for any number of sentences, *)
(* lost bytes and periods; and the dates of RMC sentences.                  *)
(***************************************************************************)
EXTENDS MCClockDiscipline, FiniteSetTheorems, SequenceTheorems, WellFoundedInduction, TLAPS

(***************************************************************************)
(* Division towards zero.                                                   *)
(***************************************************************************)
LEMMA Scaled ==
  ASSUME NEW x \in Int, NEW y \in Int, NEW z \in Nat, x =< y
  PROVE  x * z =< y * z
  OBVIOUS

\* What a quotient is: the remainder has the sign of the dividend.
LEMMA QuotientIs ==
  ASSUME NEW a \in Int, NEW b \in Nat \ {0}
  PROVE  /\ Quotient(a, b) \in Int
         /\ a >= 0 => Quotient(a, b) * b =< a /\ a < Quotient(a, b) * b + b
         /\ a >= 0 => Quotient(a, b) >= 0
         /\ a < 0 => Quotient(a, b) * b >= a /\ a > Quotient(a, b) * b - b
         /\ a < 0 => Quotient(a, b) =< 0
<1>1. ASSUME NEW n \in Nat
      PROVE  n \div b \in Nat /\ (n \div b) * b =< n /\ n < (n \div b) * b + b
  OBVIOUS
<1>2. CASE a >= 0
  BY <1>1, <1>2 DEF Quotient
<1>3. CASE a < 0
  <2> DEFINE q == (-a) \div b
  <2>1. q \in Nat /\ q * b =< -a /\ -a < q * b + b
    BY <1>1, <1>3
  <2>2. Quotient(a, b) = -q
    BY <1>3 DEF Quotient
  <2> HIDE DEF q
  <2>3. (-q) * b = -(q * b)
    BY <2>1
  <2> QED
    BY <2>1, <2>2, <2>3, <1>3
<1> QED
  BY <1>2, <1>3

\* A product below a product of the same positive factor.
LEMMA Below ==
  ASSUME NEW x \in Int, NEW y \in Int, NEW b \in Nat \ {0}, x * b < y * b + b
  PROVE  x =< y
<1> SUFFICES ASSUME y + 1 =< x PROVE FALSE
  OBVIOUS
<1>1. (y + 1) * b =< x * b
  BY Scaled
<1>2. (y + 1) * b = y * b + b
  OBVIOUS
<1> QED
  BY <1>1, <1>2

\* It is monotone, and a dividend less by no more than the divisor costs at most one.
LEMMA QuotientFalls ==
  ASSUME NEW a \in Int, NEW c \in Int, NEW b \in Nat \ {0}, NEW k \in {0, 1},
         a =< c + k * b
  PROVE  Quotient(a, b) =< Quotient(c, b) + k
<1> DEFINE p == Quotient(a, b)
           q == Quotient(c, b)
<1>1. /\ p \in Int
      /\ a >= 0 => p * b =< a /\ a < p * b + b
      /\ a >= 0 => p >= 0
      /\ a < 0 => p * b >= a /\ a > p * b - b
      /\ a < 0 => p =< 0
  BY QuotientIs
<1>2. /\ q \in Int
      /\ c >= 0 => q * b =< c /\ c < q * b + b
      /\ c >= 0 => q >= 0
      /\ c < 0 => q * b >= c /\ c > q * b - b
      /\ c < 0 => q =< 0
  BY QuotientIs
<1> HIDE DEF p, q
<1>3. (q + k) * b = q * b + k * b
  BY <1>2
<1>4. CASE a >= 0 /\ c >= 0
  <2>1. p * b < (q + k) * b + b
    BY <1>1, <1>2, <1>3, <1>4
  <2> QED
    BY <2>1, <1>1, <1>2, Below DEF p, q
<1>5. CASE a < 0 /\ c < 0
  <2>1. p * b < (q + k) * b + b
    BY <1>1, <1>2, <1>3, <1>5
  <2> QED
    BY <2>1, <1>1, <1>2, Below DEF p, q
<1>6. CASE a < 0 /\ c >= 0
  BY <1>1, <1>2, <1>6 DEF p, q
<1>7. CASE a >= 0 /\ c < 0
  <2>1. k = 1 /\ a < b
    BY <1>7
  <2>2. p * b < 0 * b + b
    BY <2>1, <1>1, <1>7
  <2>3. p =< 0
    BY <2>2, <1>1, Below
  <2>4. (-q) * b < 1 * b + b
    <3>1. c >= -b
      BY <1>7, <2>1
    <3>2. (-q) * b = -(q * b)
      BY <1>2
    <3> QED
      BY <3>1, <3>2, <1>2, <1>7
  <2>5. -q =< 1
    BY <2>4, <1>2, Below
  <2>6. CASE q = 0
    BY <2>3, <2>1, <2>6, <1>1 DEF p, q
  <2>7. CASE q = -1
    BY <2>3, <2>1, <2>7, <1>1 DEF p, q
  <2> QED
    BY <2>5, <2>6, <2>7, <1>2, <1>7
<1> QED
  BY <1>4, <1>5, <1>6, <1>7

\* A part of a correction is between nothing and the whole of it.
LEMMA PartOf ==
  ASSUME NEW c \in Int, NEW b \in Nat \ {0}, NEW m \in 0 .. b
  PROVE  /\ Quotient(c * m, b) \in Int
         /\ c >= 0 => Quotient(c * m, b) \in 0 .. c
         /\ c =< 0 => Quotient(c * m, b) \in c .. 0
<1> DEFINE p == Quotient(c * m, b)
           n == c * m
<1>0. n \in Int
  OBVIOUS
<1>1. /\ p \in Int
      /\ n >= 0 => p * b =< n /\ n < p * b + b
      /\ n >= 0 => p >= 0
      /\ n < 0 => p * b >= n /\ n > p * b - b
      /\ n < 0 => p =< 0
  BY <1>0, QuotientIs
<1>2. ASSUME c >= 0 PROVE n >= 0 /\ n =< c * b
  BY <1>2
<1>3. ASSUME c =< 0 PROVE n =< 0 /\ n >= c * b
  BY <1>3
<1> HIDE DEF n, p
<1>4. CASE c >= 0
  <2>1. p * b < c * b + b
    BY <1>0, <1>1, <1>2, <1>4
  <2>2. p =< c
    BY <2>1, <1>1, Below
  <2>3. p \in 0 .. c
    BY <2>2, <1>0, <1>1, <1>2, <1>4
  <2>4. CASE c = 0
    <3>1. p \in c .. 0
      BY <2>3, <2>4
    <3> QED
      BY <2>3, <3>1, <1>1 DEF p, n
  <2>5. CASE c # 0
    BY <2>3, <2>5, <1>4, <1>1 DEF p, n
  <2> QED
    BY <2>4, <2>5
<1>5. CASE c < 0
  <2>1. c * b < p * b + b
    BY <1>0, <1>1, <1>3, <1>5
  <2>2. c =< p
    BY <2>1, <1>1, Below
  <2>3. p =< 0
    <3>1. CASE n = 0
      <4>1. p * b < 0 * b + b
        BY <1>0, <1>1, <3>1
      <4> QED
        BY <4>1, <1>1, Below
    <3>2. CASE n < 0
      BY <3>2, <1>1
    <3> QED
      BY <3>1, <3>2, <1>0, <1>3, <1>5
  <2> QED
    BY <2>2, <2>3, <1>1, <1>5 DEF p, n
<1> QED
  BY <1>4, <1>5

(***************************************************************************)
(* The discipline.  Both ends of its line, the anchor and the anchor with    *)
(* all of the correction, stay within the errors GPS has had: an observation *)
(* puts the line from a point of the old one to its own value.              *)
(***************************************************************************)
Within(x) == \E low, high \in GpsErrors : low =< x /\ x =< high

\* A synchronized clock's anchor is no later than the start of the burst being read.
AnchorFirst == burst # NoBurst /\ synchronized => burst =< elapsed

EndsWithin == synchronized => Within(anchor) /\ Within(anchor + correction)

ClockInv == TypeOK /\ AnchorFirst /\ EndsWithin

\* What lies between two values within the errors is within them.
LEMMA BetweenWithin ==
  ASSUME NEW x \in Int, NEW y \in Int, NEW z \in Int, Within(x), Within(y),
         (x =< z /\ z =< y) \/ (y =< z /\ z =< x)
  PROVE  Within(z)
<1>1. PICK low1 \in GpsErrors, high1 \in GpsErrors : low1 =< x /\ x =< high1
  BY DEF Within
<1>2. PICK low2 \in GpsErrors, high2 \in GpsErrors : low2 =< y /\ y =< high2
  BY DEF Within
<1>3. {low1, high1, low2, high2} \subseteq Int
  BY ErrorsAssumption
<1>4. \E low \in {low1, low2}, high \in {high1, high2} : low =< z /\ z =< high
  BY <1>1, <1>2, <1>3
<1> QED
  BY <1>4 DEF Within

\* The estimate is between the ends of the line.
LEMMA EstimateBetween ==
  ASSUME TypeOK, NEW t \in Nat
  PROVE  /\ clock_discipline_utc_us(t) \in Int
         /\ \/ anchor =< clock_discipline_utc_us(t)
               /\ clock_discipline_utc_us(t) =< anchor + correction
            \/ anchor + correction =< clock_discipline_utc_us(t)
               /\ clock_discipline_utc_us(t) =< anchor
<1> DEFINE m == AtMost(t, Correction)
           p == Quotient(correction * m, Correction)
<1>1. m \in 0 .. Correction /\ Correction \in Nat \ {0}
  BY TimesAssumption DEF AtMost
<1>2. anchor \in Int /\ correction \in Int
  BY TimesAssumption DEF TypeOK
<1> HIDE DEF m
<1>3. /\ p \in Int
      /\ correction >= 0 => p \in 0 .. correction
      /\ correction =< 0 => p \in correction .. 0
  BY <1>1, <1>2, PartOf
<1>4. clock_discipline_utc_us(t) = anchor + p
  BY DEF clock_discipline_utc_us, m
<1> HIDE DEF p
<1> QED
  BY <1>2, <1>3, <1>4

LEMMA EstimateWithin ==
  ASSUME TypeOK, EndsWithin, synchronized, NEW t \in Nat
  PROVE  Within(clock_discipline_utc_us(t))
<1>1. anchor \in Int /\ anchor + correction \in Int
  BY TimesAssumption DEF TypeOK
<1>2. Within(anchor) /\ Within(anchor + correction)
  BY DEF EndsWithin
<1> QED
  BY <1>1, <1>2, EstimateBetween, BetweenWithin

LEMMA ClockInitially == Init => ClockInv
<1> SUFFICES ASSUME Init PROVE ClockInv
  OBVIOUS
<1> USE TimesAssumption, ErrorsAssumption
<1>1. synchronized \in BOOLEAN /\ ~synchronized
  BY DEF Init
<1>2. /\ elapsed = 0 /\ anchor = 0 /\ correction = 0 /\ rejected = 0 /\ rejecting = 0
      /\ burst = NoBurst /\ quiet = Period /\ gps = 0
  BY DEF Init
<1>3. TypeOK
  BY <1>1, <1>2 DEF TypeOK, ElapsedCap, RejectingCap
<1> QED
  BY <1>1, <1>3 DEF ClockInv, AnchorFirst, EndsWithin

LEMMA ErrorTyped == ASSUME NEW e \in GpsErrors PROVE e \in Int /\ Within(e)
<1>1. e \in Int
  BY ErrorsAssumption
<1> QED
  BY <1>1 DEF Within

\* The jump of the first observation and of a step.
LEMMA JumpKeeps ==
  ASSUME ClockInv, NEW e \in GpsErrors, Observes(e), jump_to(e)
  PROVE  ClockInv'
<1> USE TimesAssumption
<1>1. TypeOK'
  BY ErrorTyped DEF ClockInv, TypeOK, Observes, jump_to, NoBurst, ElapsedCap, RejectingCap
<1>2. AnchorFirst'
  BY DEF AnchorFirst, Observes
<1>3. anchor' = e /\ anchor' + correction' = e
  BY ErrorTyped DEF jump_to
<1>4. EndsWithin'
  BY <1>3, ErrorTyped DEF EndsWithin, Within
<1> QED
  BY <1>1, <1>2, <1>4 DEF ClockInv

LEMMA EstimateTyped ==
  ASSUME ClockInv, burst # NoBurst, synchronized
  PROVE  Estimate \in Int /\ Within(Estimate) /\ elapsed - burst \in Nat
<1>1. elapsed - burst \in Nat
  BY TimesAssumption DEF ClockInv, TypeOK, AnchorFirst, ElapsedCap, NoBurst
<1>2. TypeOK /\ EndsWithin
  BY DEF ClockInv
<1> QED
  BY <1>1, <1>2, EstimateBetween, EstimateWithin DEF Estimate

LEMMA CorrectedKeeps ==
  ASSUME ClockInv, NEW e \in GpsErrors, Corrected(e)
  PROVE  ClockInv'
<1> USE TimesAssumption
<1>1. Estimate \in Int /\ Within(Estimate) /\ e \in Int /\ Within(e)
  BY EstimateTyped, ErrorTyped DEF Corrected, Observes
<1>2. anchor' = Estimate /\ correction' = e - Estimate /\ e - Estimate \in -MaxError .. MaxError
  <2> DEFINE x == Estimate
  <2>1. x \in Int /\ e \in Int /\ Abs(e - x) =< MaxError
    BY <1>1 DEF Corrected
  <2> HIDE DEF x
  <2>2. e - x \in -MaxError .. MaxError
    BY <2>1 DEF Abs
  <2> QED
    BY <2>2 DEF x, Corrected
<1> HIDE DEF Estimate
<1>3. TypeOK'
  <2>1. anchor' \in Int /\ correction' \in -MaxError .. MaxError
    BY <1>1, <1>2
  <2>2. /\ elapsed' = burst /\ burst \in 0 .. MaxDelay /\ burst' = NoBurst /\ gps' = e
        /\ rejected' = 0 /\ UNCHANGED <<synchronized, rejecting, quiet>>
    BY DEF Corrected, Observes, ClockInv, TypeOK
  <2> QED
    BY <2>1, <2>2 DEF ClockInv, TypeOK, ElapsedCap
<1>4. AnchorFirst'
  BY DEF Corrected, AnchorFirst, Observes
<1>5. anchor' + correction' = e
  BY <1>1, <1>2
<1>6. EndsWithin'
  BY <1>1, <1>2, <1>5 DEF EndsWithin, Within
<1> QED
  BY <1>3, <1>4, <1>6 DEF ClockInv

LEMMA RejectedKeeps ==
  ASSUME ClockInv, NEW e \in GpsErrors, Rejected(e)
  PROVE  ClockInv'
<1> USE TimesAssumption
<1>1. burst \in 0 .. MaxDelay /\ UNCHANGED line /\ UNCHANGED quiet /\ burst' = NoBurst /\ gps' = e
  BY DEF Rejected, Observes, ClockInv, TypeOK
<1>2. rejected' \in 0 .. CountMax /\ rejecting' \in 0 .. RejectingCap
  BY <1>1 DEF Rejected, Count, Since, AtMost, ClockInv, TypeOK, RejectingCap
<1> QED
  BY <1>1, <1>2 DEF ClockInv, TypeOK, AnchorFirst, EndsWithin, Within, line

LEMMA ClockStays == ClockInv /\ [Next]_vars => ClockInv'
<1> SUFFICES ASSUME ClockInv, [Next]_vars PROVE ClockInv'
  OBVIOUS
<1> USE TimesAssumption
<1>1. CASE Tick
  <2>1. TypeOK'
    BY <1>1 DEF Tick, ClockInv, TypeOK, AtMost, NoBurst, ElapsedCap, RejectingCap
  <2>2. AnchorFirst'
    BY <1>1 DEF Tick, ClockInv, TypeOK, AnchorFirst, AtMost, NoBurst, ElapsedCap
  <2> QED
    BY <1>1, <2>1, <2>2 DEF Tick, ClockInv, EndsWithin, Within
<1>2. CASE BurstStarts
  BY <1>2 DEF BurstStarts, ClockInv, TypeOK, AnchorFirst, EndsWithin, Within, line, reject,
              NoBurst
<1>3. CASE BurstUnused
  BY <1>3 DEF BurstUnused, ClockInv, TypeOK, AnchorFirst, EndsWithin, Within, line, reject
<1>4. CASE RmcParsed
  BY <1>4, JumpKeeps, CorrectedKeeps, RejectedKeeps
     DEF RmcParsed, absolute_clock_observe_utc, Anchored, Stepped
<1>5. CASE UNCHANGED vars
  BY <1>5 DEF vars, line, reject, ClockInv, TypeOK, AnchorFirst, EndsWithin, Within
<1> QED
  BY <1>1, <1>2, <1>3, <1>4, <1>5 DEF Next

LEMMA ClockAlways == Spec => []ClockInv
BY ClockInitially, ClockStays, PTL DEF Spec

\* Observations that cut each other's corrections off never add up to an overshoot: the
\* estimate is between errors that GPS values had.
THEOREM NothingOvershoots == Spec => []NoOvershoot
<1>1. ClockInv => NoOvershoot
  <2> SUFFICES ASSUME ClockInv, synchronized PROVE Within(Error)
    BY DEF NoOvershoot, Within
  <2>1. elapsed \in Nat
    BY TimesAssumption DEF ClockInv, TypeOK, ElapsedCap
  <2> QED
    BY <2>1, EstimateWithin DEF Error, ClockInv
<1> QED
  BY ClockAlways, <1>1, PTL

(***************************************************************************)
(* How far the estimate can fall.                                           *)
(***************************************************************************)
\* The correction taken after t ticks.
Taken(c, t) == Quotient(c * AtMost(t, Correction), Correction)

\* A tick later the correction taken is less by at most one, for it is no more than a
\* tick per tick.
LEMMA TakenNext ==
  ASSUME NEW c \in -MaxError .. MaxError, NEW t \in Nat, NEW u \in Nat, u = t \/ u = t + 1
  PROVE  /\ Taken(c, t) \in Int /\ Taken(c, u) \in Int
         /\ Taken(c, t) =< Taken(c, u) + 1
<1> USE TimesAssumption
<1> DEFINE m == AtMost(t, Correction)
           n == AtMost(u, Correction)
<1>1. m \in 0 .. Correction /\ n \in 0 .. Correction /\ (n = m \/ n = m + 1)
  BY DEF AtMost
<1>2. c \in Int /\ -Correction =< c /\ c =< Correction
  OBVIOUS
<1> HIDE DEF m, n
<1>3. c * m \in Int /\ c * n \in Int
  BY <1>1, <1>2
<1>4. c * m =< c * n + 1 * Correction
  <2>1. CASE n = m
    BY <2>1, <1>1, <1>2, <1>3
  <2>2. CASE n = m + 1
    <3>1. c * n = c * m + c
      BY <2>2, <1>1, <1>2
    <3> QED
      BY <3>1, <1>2, <1>3
  <2> QED
    BY <1>1, <2>1, <2>2
<1>5. Quotient(c * m, Correction) =< Quotient(c * n, Correction) + 1
  BY <1>3, <1>4, QuotientFalls
<1> QED
  BY <1>3, <1>5, QuotientIs DEF Taken, m, n

\* From t ticks on to t + d ones a correction takes off less than d times its size, rounded
\* up, and a new one does in d ticks.
LEMMA TakenBack ==
  ASSUME NEW c \in -MaxError .. MaxError, NEW f \in -MaxError .. MaxError,
         NEW t \in Nat, NEW d \in 0 .. MaxDelay
  PROVE  /\ Taken(c, t + d) \in Int /\ Taken(c, t) \in Int /\ Taken(f, d) \in Int
         /\ Taken(c, t + d) - Taken(c, t) - Taken(f, d) =< Slip
<1> USE TimesAssumption
<1> DEFINE m0 == AtMost(t + d, Correction)
           m1 == AtMost(t, Correction)
           m2 == AtMost(d, Correction)
           A == Taken(c, t + d)
           B == Taken(c, t)
           E == Taken(f, d)
           W == MaxError * MaxDelay
<1>1. /\ m0 \in Nat /\ m1 \in Nat /\ m2 \in Nat
      /\ m1 =< m0 /\ m0 =< m1 + MaxDelay /\ m2 =< MaxDelay
  BY DEF AtMost
<1>2. /\ A = Quotient(c * m0, Correction) /\ B = Quotient(c * m1, Correction)
      /\ E = Quotient(f * m2, Correction)
  BY DEF Taken
<1>3. c \in Int /\ f \in Int /\ MaxError \in Nat /\ MaxDelay \in Nat /\ Correction \in Nat \ {0}
  OBVIOUS
<1> HIDE DEF m0, m1, m2, A, B, E
<1>4. ASSUME NEW g \in -MaxError .. MaxError, NEW k \in 0 .. MaxDelay
      PROVE  g * k \in Int /\ g * k =< W /\ -(g * k) =< W
  <2>1. MaxError * k =< W
    BY <1>3
  <2>2. g * k =< MaxError * k
    BY <1>3, Scaled
  <2>3. (-g) * k =< MaxError * k
    BY <1>3, Scaled
  <2>4. (-g) * k = -(g * k) /\ g * k \in Int /\ MaxError * k \in Int /\ W \in Int
    BY <1>3
  <2> QED
    BY <2>1, <2>2, <2>3, <2>4
<1>5. c * m0 - c * m1 =< W
  <2>1. m0 - m1 \in 0 .. MaxDelay
    BY <1>1, <1>3
  <2>2. c * (m0 - m1) =< W
    BY <2>1, <1>4
  <2>3. c * (m0 - m1) = c * m0 - c * m1
    BY <1>1, <1>3
  <2> QED
    BY <2>2, <2>3
<1>6. -(f * m2) =< W
  BY <1>1, <1>4
<1> DEFINE a == c * m0
           b == c * m1
           e == f * m2
<1>7. a \in Int /\ b \in Int /\ e \in Int /\ W \in Nat
  BY <1>1, <1>3
<1>8. a - b =< W /\ -e =< W
  BY <1>5, <1>6
<1>9. (a >= 0 /\ b >= 0) \/ (a =< 0 /\ b =< 0)
  BY <1>1, <1>3
<1>10. /\ A = Quotient(a, Correction) /\ B = Quotient(b, Correction)
       /\ E = Quotient(e, Correction)
  BY <1>2
<1> HIDE DEF a, b, e, W
<1>11. /\ A \in Int
       /\ a >= 0 => A * Correction =< a /\ a < A * Correction + Correction
       /\ a < 0 => A * Correction >= a /\ a > A * Correction - Correction
  BY <1>7, <1>10, QuotientIs
<1>12. /\ B \in Int
       /\ b >= 0 => B * Correction =< b /\ b < B * Correction + Correction
       /\ b < 0 => B * Correction >= b /\ b > B * Correction - Correction
  BY <1>7, <1>10, QuotientIs
<1>13. /\ E \in Int
       /\ e >= 0 => E * Correction =< e /\ E >= 0
       /\ e < 0 => E * Correction >= e
  BY <1>7, <1>10, QuotientIs
<1> DEFINE AC == A * Correction
           BC == B * Correction
           EC == E * Correction
<1>14. AC \in Int /\ BC \in Int /\ EC \in Int
  BY <1>3, <1>11, <1>12, <1>13
<1>15. AC - BC =< W + Correction - 1
  <2>1. CASE a >= 0 /\ b >= 0
    <3> HIDE DEF AC, BC
    <3>1. AC =< a /\ b < BC + Correction
      BY <2>1, <1>11, <1>12 DEF AC, BC
    <3> QED
      BY <3>1, <1>3, <1>7, <1>8, <1>14
  <2>2. CASE a =< 0 /\ b =< 0
    <3>1. AC < a + Correction
      BY <2>2, <1>3, <1>7, <1>11
    <3>2. BC >= b
      <4>1. CASE b = 0
        BY <4>1, <1>3, <1>12, <1>10, <1>14 DEF Quotient
      <4>2. CASE b < 0
        BY <4>2, <1>12
      <4> QED
        BY <2>2, <4>1, <4>2, <1>7
    <3> HIDE DEF AC, BC
    <3> QED
      BY <3>1, <3>2, <1>3, <1>7, <1>8, <1>14
  <2> QED
    BY <1>9, <2>1, <2>2
<1>16. -EC =< W
  <2>1. CASE e >= 0
    <3>1. EC >= 0
      BY <2>1, <1>3, <1>13
    <3> QED
      BY <3>1, <1>7, <1>14
  <2>2. CASE e < 0
    <3>1. EC >= e
      BY <2>2, <1>13
    <3> HIDE DEF EC
    <3> QED
      BY <3>1, <1>7, <1>8, <1>14
  <2> QED
    BY <1>7, <2>1, <2>2
<1> DEFINE S == (2 * W + Correction - 1) \div Correction
<1>17. S \in Int /\ 2 * W + Correction - 1 < S * Correction + Correction
  BY <1>3, <1>7
<1>18. (A - B - E) * Correction < S * Correction + Correction
  <2>1. (A - B - E) * Correction = AC - BC - EC
    BY <1>3, <1>11, <1>12, <1>13
  <2> HIDE DEF AC, BC, EC, S
  <2> QED
    BY <2>1, <1>3, <1>7, <1>14, <1>15, <1>16, <1>17
<1>19. A - B - E =< S
  <2> HIDE DEF S
  <2> QED
    BY <1>3, <1>11, <1>12, <1>13, <1>17, <1>18, Below
<1>20. Slip = S
  BY <1>3 DEF Slip, W
<1> QED
  BY <1>11, <1>12, <1>13, <1>19, <1>20 DEF A, B, E

LEMMA SlipTyped == Slip \in Nat
<1>1. 2 * MaxError * MaxDelay + Correction - 1 \in Nat
  BY TimesAssumption
<1> DEFINE n == 2 * MaxError * MaxDelay + Correction - 1
<1>2. ASSUME NEW k \in Nat PROVE k \div Correction \in Nat
  BY TimesAssumption
<1> QED
  BY <1>1, <1>2 DEF Slip

LEMMA ErrorIs == Error = anchor + Taken(correction, elapsed)
BY DEF Error, clock_discipline_utc_us, Taken

LEMMA EstimateIs == Estimate = anchor + Taken(correction, elapsed - burst)
BY DEF Estimate, clock_discipline_utc_us, Taken

LEMMA TickFalls == ASSUME ClockInv, Tick PROVE Error' + 1 >= Error
<1> USE TimesAssumption
<1> DEFINE c == correction
           u == elapsed'
<1>1. elapsed \in Nat /\ anchor \in Int /\ c \in -MaxError .. MaxError
  BY DEF ClockInv, TypeOK, ElapsedCap
<1>2. u \in Nat /\ (u = elapsed \/ u = elapsed + 1)
  BY DEF Tick, AtMost, ClockInv, TypeOK, ElapsedCap
<1>3. anchor' = anchor /\ correction' = correction
  BY DEF Tick
<1>4. Error = anchor + Taken(c, elapsed)
  BY ErrorIs
<1>5. Error' = anchor + Taken(c, u)
  <2>1. Error' = anchor' + Taken(correction', elapsed')
    BY DEF Error, clock_discipline_utc_us, Taken
  <2> QED
    BY <2>1, <1>3
<1> HIDE DEF c, u
<1>6. /\ Taken(c, elapsed) \in Int /\ Taken(c, u) \in Int
      /\ Taken(c, elapsed) =< Taken(c, u) + 1
  BY <1>1, <1>2, TakenNext
<1> DEFINE v == Error'
           p == Taken(c, elapsed)
           q == Taken(c, u)
<1>7. v = anchor + q /\ Error = anchor + p /\ p \in Int /\ q \in Int /\ p =< q + 1
  BY <1>4, <1>5, <1>6
<1> HIDE DEF v, p, q
<1>8. v + 1 >= Error
  BY <1>1, <1>7
<1> QED
  BY <1>8 DEF v

LEMMA CorrectedFalls ==
  ASSUME ClockInv, NEW e \in GpsErrors, Corrected(e)
  PROVE  Error' + Slip >= Error
<1> USE TimesAssumption
<1> DEFINE c == correction
           f == correction'
           t == elapsed - burst
<1>1. /\ anchor \in Int /\ c \in -MaxError .. MaxError
      /\ burst \in 0 .. MaxDelay /\ t \in Nat /\ elapsed = t + burst
  BY DEF ClockInv, TypeOK, AnchorFirst, Corrected, Observes, ElapsedCap, NoBurst
<1>2. f \in -MaxError .. MaxError
  BY CorrectedKeeps DEF ClockInv, TypeOK
<1>3. Error = anchor + Taken(c, t + burst)
  BY <1>1, ErrorIs
<1>4. Error' = (anchor + Taken(c, t)) + Taken(f, burst)
  <2>1. Error' = anchor' + Taken(correction', elapsed')
    BY DEF Error, clock_discipline_utc_us, Taken
  <2>2. anchor' = Estimate /\ elapsed' = burst
    BY DEF Corrected
  <2> QED
    BY <2>1, <2>2, EstimateIs
<1> HIDE DEF c, f, t
<1>5. /\ Taken(c, t + burst) \in Int /\ Taken(c, t) \in Int /\ Taken(f, burst) \in Int
      /\ Taken(c, t + burst) - Taken(c, t) - Taken(f, burst) =< Slip
  BY <1>1, <1>2, TakenBack
<1> DEFINE v == Error'
           A == Taken(c, t + burst)
           B == Taken(c, t)
           E == Taken(f, burst)
           S == Slip
<1>6. /\ v = (anchor + B) + E /\ Error = anchor + A
      /\ A \in Int /\ B \in Int /\ E \in Int /\ S \in Int /\ A - B - E =< S
  BY <1>3, <1>4, <1>5, SlipTyped
<1> HIDE DEF v, A, B, E, S
<1>7. v + S >= Error
  BY <1>1, <1>6
<1> QED
  BY <1>7 DEF v, S

LEMMA LineFalls == ASSUME ClockInv, UNCHANGED line PROVE Error' + Slip >= Error
<1>1. Error' = Error
  BY DEF line, Error, clock_discipline_utc_us
<1>2. Error \in Int
  BY TimesAssumption, EstimateBetween DEF Error, ClockInv, TypeOK, ElapsedCap
<1> QED
  BY <1>1, <1>2, SlipTyped

\* Except for a step the estimate hardly runs backwards: in a tick it loses no more than
\* that tick, and when an observation restarts its line no more than Slip.
THEOREM TimeHardlyFalls == Spec => HardlyBackwards
<1>1. ASSUME ClockInv, Next, synchronized, ~(\E e \in GpsErrors : Stepped(e))
      PROVE  IF Tick THEN Error' + 1 >= Error ELSE Error' + Slip >= Error
  <2>1. CASE Tick
    BY <2>1, <1>1, TickFalls
  <2>2. CASE ~Tick
    <3>1. UNCHANGED line \/ \E e \in GpsErrors : Corrected(e)
      BY <2>2, <1>1 DEF Next, BurstStarts, BurstUnused, RmcParsed, absolute_clock_observe_utc,
                        Anchored, Rejected
    <3> QED
      BY <3>1, <2>2, <1>1, CorrectedFalls, LineFalls
  <2> QED
    BY <2>1, <2>2
<1>2. ClockInv /\ [Next]_vars => [FallsAtMost(Slip)]_vars
  BY <1>1 DEF FallsAtMost
<1> QED
  BY <1>2, ClockAlways, PTL DEF Spec, HardlyBackwards

(***************************************************************************)
(* The receiver's configuration: no command is counted twice.               *)
(***************************************************************************)
\* The inductive invariant.
GpsInv ==
    /\ command \in 1 .. Unused + 2 /\ attempt \in {1, 2} /\ acknowledged \in Nat
    /\ sentences \subseteq 1 .. Unused /\ fast \in BOOLEAN
    /\ acknowledged < command

LEMMA GpsInitially == GpsInit => GpsInv
<1> SUFFICES ASSUME GpsInit PROVE GpsInv
  OBVIOUS
<1>1. command = 1 /\ acknowledged = 0 /\ sentences = 1 .. Unused
  BY DEF GpsInit
<1>2. fast \in BOOLEAN /\ attempt \in {1, 2}
  BY DEF GpsInit
<1>3. Unused \in Nat
  BY GpsTiming
<1> QED
  BY <1>1, <1>2, <1>3 DEF GpsInv

LEMMA CommandKeeps == ASSUME GpsInv, Command PROVE GpsInv'
<1>1. command =< Unused + 1
  BY DEF Command
<1>2. PICK arrives \in BOOLEAN, answers \in BOOLEAN, in_time \in BOOLEAN, stale \in BOOLEAN :
        /\ IF arrives THEN Applied ELSE UNCHANGED <<sentences, fast>>
        /\ Proceed(in_time \/ stale)
  BY DEF Command
<1>3. /\ command' \in 1 .. Unused + 2 /\ attempt' \in {1, 2} /\ acknowledged' \in Nat
      /\ acknowledged' < command'
  BY <1>1, <1>2, GpsTiming DEF GpsInv, Proceed
<1>4. sentences' \subseteq 1 .. Unused /\ fast' \in BOOLEAN
  BY <1>2 DEF Applied, GpsInv
<1> QED
  BY <1>3, <1>4 DEF GpsInv

LEMMA GpsStays == GpsInv /\ [GpsNext]_gpsVars => GpsInv'
<1> SUFFICES ASSUME GpsInv, [GpsNext]_gpsVars PROVE GpsInv'
  OBVIOUS
<1>1. CASE Command
  BY <1>1, CommandKeeps
<1>2. CASE UNCHANGED setup
  BY <1>2 DEF setup, GpsInv
<1>3. Command \/ UNCHANGED setup
  BY DEF GpsNext, Flush, NextTick, read_sentences, Text, Sentence, Others, StreamEnds, gpsVars
<1> QED
  BY <1>1, <1>2, <1>3

(***************************************************************************)
(* The types of the receiver's variables.                                   *)
(***************************************************************************)
GpsTypes == GpsTypeOK /\ (stage = "read" => measured # 0)

LEMMA GpsNumbers ==
  /\ Unused \in Nat /\ Parts \in Nat \ {0} /\ LineMax \in Nat /\ Parts =< LineMax
  /\ BurstGap \in Nat /\ MaxLag \in Nat /\ MaxGarbled \in Nat /\ MaxBursts \in Nat \ {0}
  /\ FastPeriod \in Nat /\ SlowPeriod \in Nat
  /\ MaxGarbled =< Parts /\ 1 + MaxGarbled + MaxLag < BurstGap
  /\ FastPeriod >= Parts + BurstGap + MaxLag
  /\ SlowPeriod >= (Parts + 1) * (Unused + 1) - 1 + BurstGap + MaxLag
BY GpsTiming

LEMMA SentencesCounted ==
  ASSUME GpsTypeOK
  PROVE  Cardinality(sentences) \in 0 .. Unused
<1>1. sentences \subseteq 1 .. Unused /\ 1 \in Int /\ Unused \in Int
  BY GpsNumbers DEF GpsTypeOK
<1>2. IsFiniteSet(1 .. Unused) /\ Cardinality(1 .. Unused) = Unused
  BY <1>1, GpsNumbers, FS_Interval
<1>3. IsFiniteSet(sentences) /\ Cardinality(sentences) =< Cardinality(1 .. Unused)
  BY <1>1, <1>2, FS_Subset
<1>4. Cardinality(sentences) \in Nat
  BY <1>3, FS_CardinalityType
<1> QED
  BY <1>2, <1>3, <1>4, GpsNumbers

\* Quotient and remainder by the length of a sentence.
LEMMA Divided ==
  ASSUME NEW n \in Nat, NEW d \in Nat \ {0}
  PROVE  /\ n \div d \in Nat /\ n % d \in 0 .. d - 1
         /\ n = d * (n \div d) + (n % d)
  OBVIOUS

LEMMA ByteTyped ==
  ASSUME GpsTypes, stage = "read", Sends(phase)
  PROVE  ByteAt(phase) \in Byte
<1> DEFINE c == Cardinality(sentences)
           q == phase \div (Parts + 1)
           r == phase % (Parts + 1)
           t == (r + 1) % (Parts + 1)
<1>1. q \in Nat /\ r \in Nat
  <2>1. phase \in Nat /\ Parts + 1 \in Nat \ {0}
    BY GpsNumbers DEF GpsTypes, GpsTypeOK
  <2>2. q \in Nat /\ r \in 0 .. (Parts + 1) - 1
    BY <2>1, Divided
  <2> QED
    BY <2>1, <2>2
<1>2. t \in 0 .. Parts
  BY <1>1, GpsNumbers
<1>3. q =< c /\ c =< Unused /\ c \in Nat
  BY SentencesCounted, GpsNumbers DEF Sends, GpsTypes
<1>4. measured \in Bursts
  BY GpsNumbers DEF GpsTypes, GpsTypeOK, Bursts
<1> HIDE DEF c, q
<1>5. q + 1 \in 1 .. Unused + 1
  BY <1>1, <1>3, GpsNumbers
<1> QED
  BY <1>2, <1>4, <1>5 DEF ByteAt, Byte, q

LEMMA NulTyped == Nul \in Byte
BY DEF Byte

LEMMA TypesInitially == GpsInit => GpsTypes
<1> SUFFICES ASSUME GpsInit PROVE GpsTypes
  OBVIOUS
<1>1. overflow \in BOOLEAN /\ fast \in BOOLEAN
  BY DEF GpsInit
<1>2. /\ stage \in {"configure", "read"} /\ stage # "read"
      /\ command \in 1 .. Unused + 2 /\ attempt \in 1 .. 2 /\ acknowledged \in 0 .. Unused + 1
      /\ sentences \in SUBSET (1 .. Unused) /\ late_acks \in Nat
      /\ phase \in Nat /\ measured \in 0 .. MaxBursts /\ tick \in Nat
      /\ garbled \in 0 .. MaxGarbled /\ burst_start \in Nat /\ previous_byte \in Nat
  BY GpsNumbers DEF GpsInit
<1>3. /\ uart \in Seq([byte : Byte, at : Nat]) /\ text \in Seq(Byte) /\ since \in Seq(Byte)
      /\ Len(text) =< LineMax
  BY GpsNumbers DEF GpsInit
<1>4. first \in [Bursts -> Nat] /\ observed \in [Bursts -> Seq(Nat)] /\ heard \subseteq Bursts
  BY DEF GpsInit
<1> QED
  BY <1>1, <1>2, <1>3, <1>4 DEF GpsTypes, GpsTypeOK

LEMMA CommandTypes == ASSUME GpsTypes, GpsInv, Command PROVE GpsTypes'
<1>1. command =< Unused + 1 /\ MayRaise /\ stage = "configure"
  BY DEF Command
<1>2. PICK arrives \in BOOLEAN, answers \in BOOLEAN, in_time \in BOOLEAN, stale \in BOOLEAN :
        /\ in_time => answers
        /\ stale => late_acks > 0 /\ command =< Unused
        /\ IF arrives THEN Applied ELSE UNCHANGED <<sentences, fast>>
        /\ Proceed(in_time \/ stale)
        /\ late_acks' = IF command > Unused THEN late_acks
                        ELSE late_acks + (IF answers THEN 1 ELSE 0)
                                       - (IF in_time \/ stale THEN 1 ELSE 0)
  BY DEF Command
<1>3. GpsInv'
  BY CommandKeeps
<1>4. /\ command' \in 1 .. Unused + 2 /\ attempt' \in 1 .. 2 /\ acknowledged' \in 0 .. Unused + 1
      /\ sentences' \in SUBSET (1 .. Unused) /\ fast' \in BOOLEAN
  <2>1. command' \in 1 .. Unused + 2 /\ acknowledged' \in Nat /\ acknowledged' < command'
    BY <1>3 DEF GpsInv
  <2>2. acknowledged' \in 0 .. Unused + 1
    <3> DEFINE a == acknowledged'
               c == command'
    <3> HIDE DEF a, c
    <3>1. c \in 1 .. Unused + 2 /\ a \in Nat /\ a < c
      BY <2>1 DEF a, c
    <3>2. a \in 0 .. Unused + 1
      BY <3>1, GpsNumbers
    <3> QED
      BY <3>2 DEF a
  <2>3. attempt' \in 1 .. 2
    BY <1>3 DEF GpsInv
  <2>4. sentences' \in SUBSET (1 .. Unused) /\ fast' \in BOOLEAN
    BY <1>3 DEF GpsInv
  <2> QED
    BY <2>1, <2>2, <2>3, <2>4
<1>5. late_acks' \in Nat
  BY <1>2 DEF GpsTypes, GpsTypeOK
<1>6. /\ stage' = "configure"
      /\ UNCHANGED <<receiver, uart, assembly, garbled, since, first, heard, observed>>
  BY <1>1 DEF Command, ReadFrame
<1> QED
  BY <1>4, <1>5, <1>6 DEF GpsTypes, GpsTypeOK, receiver, assembly

LEMMA FlushTypes == ASSUME GpsTypes, Flush PROVE GpsTypes'
<1>1. /\ stage' = "read" /\ measured' = 1
      /\ UNCHANGED <<setup, tick, uart, assembly, garbled, since, first, heard, observed>>
  BY DEF Flush
<1>2. phase' \in Nat /\ measured' \in 0 .. MaxBursts
  BY GpsNumbers DEF Flush
<1> QED
  BY <1>1, <1>2 DEF GpsTypes, GpsTypeOK, setup, assembly

LEMMA NextTickTypes == ASSUME GpsTypes, NextTick PROVE GpsTypes'
<1>1. /\ stage = "read" /\ tick' = tick + 1
      /\ UNCHANGED <<stage, setup, assembly, since, heard, observed>>
  BY DEF NextTick
<1>2. phase' \in Nat /\ measured' \in 1 .. MaxBursts
  <2>1. \/ phase' = phase + 1 /\ measured' = measured
        \/ measured < MaxBursts /\ phase' = 0 /\ measured' = measured + 1
    BY DEF NextTick
  <2> QED
    BY <2>1, <1>1, GpsNumbers DEF GpsTypes, GpsTypeOK
<1>3. garbled' \in 0 .. MaxGarbled
  <2>1. garbled' = garbled \/ (garbled < MaxGarbled /\ garbled' = garbled + 1)
    BY DEF NextTick
  <2> QED
    BY <2>1, GpsNumbers DEF GpsTypes, GpsTypeOK
<1>4. ASSUME NEW byte \in Byte, Arrives(byte)
      PROVE  uart' \in Seq([byte : Byte, at : Nat]) /\ first' \in [Bursts -> Nat]
  <2>1. [byte |-> byte, at |-> tick + 1] \in [byte : Byte, at : Nat]
    BY DEF GpsTypes, GpsTypeOK
  <2>2. uart' = Append(uart, [byte |-> byte, at |-> tick + 1])
    BY <1>4 DEF Arrives
  <2>3. first' \in [Bursts -> Nat]
    <3>1. first \in [Bursts -> Nat] /\ tick + 1 \in Nat
      BY DEF GpsTypes, GpsTypeOK
    <3>2. first' = [first EXCEPT ![measured] = tick + 1] \/ first' = first
      BY <1>4 DEF Arrives
    <3> QED
      BY <3>1, <3>2
  <2> QED
    BY <2>1, <2>2, <2>3 DEF GpsTypes, GpsTypeOK
<1>5. uart' \in Seq([byte : Byte, at : Nat]) /\ first' \in [Bursts -> Nat]
  <2>1. \/ Sends(phase) /\ Arrives(ByteAt(phase))
        \/ Arrives(Nul)
        \/ UNCHANGED <<uart, first>>
    BY DEF NextTick
  <2> QED
    BY <2>1, <1>1, <1>4, ByteTyped, NulTyped DEF GpsTypes, GpsTypeOK
<1>6. tick' \in Nat
  BY <1>1 DEF GpsTypes, GpsTypeOK
<1> QED
  BY <1>1, <1>2, <1>3, <1>5, <1>6 DEF GpsTypes, GpsTypeOK, setup, assembly

LEMMA HeadTyped ==
  ASSUME NEW S, NEW q \in Seq(S), q # <<>>
  PROVE  Head(q) \in S /\ Tail(q) \in Seq(S) /\ Len(q) \in Nat \ {0} /\ Head(q) = q[1]
  OBVIOUS

LEMMA TakeTypes ==
  ASSUME GpsTypes, Take
  PROVE  /\ Head(uart) \in [byte : Byte, at : Nat] /\ Head(uart) = uart[1]
         /\ uart' \in Seq([byte : Byte, at : Nat]) /\ uart' = Tail(uart)
         /\ previous_byte' = tick /\ tick \in Nat
         /\ Len(uart) \in Nat \ {0} /\ stage = "read"
<1>1. uart \in Seq([byte : Byte, at : Nat]) /\ uart # <<>> /\ stage = "read"
  BY DEF GpsTypes, GpsTypeOK, Take
<1>2. tick \in Nat
  BY DEF GpsTypes, GpsTypeOK
<1> QED
  BY <1>1, <1>2, HeadTyped DEF Take

LEMMA StartTyped == ASSUME GpsTypes PROVE Start \in Nat
BY DEF GpsTypes, GpsTypeOK, Start

LEMMA Appended ==
  ASSUME NEW S, NEW q \in Seq(S), NEW x \in S
  PROVE  Append(q, x) \in Seq(S) /\ Len(Append(q, x)) = Len(q) + 1
  OBVIOUS

LEMMA TextTypes == ASSUME GpsTypes, Text PROVE GpsTypes'
<1>1. Take /\ burst_start' = Start /\ UNCHANGED <<heard, observed>> /\ Others
  BY DEF Text
<1>2. /\ Head(uart) \in [byte : Byte, at : Nat] /\ uart' \in Seq([byte : Byte, at : Nat])
      /\ previous_byte' \in Nat
  BY <1>1, TakeTypes
<1> DEFINE x == Head(uart).byte
<1>3. x \in Byte
  BY <1>2
<1>4. /\ text' = IF Fits(x) THEN Append(text, x) ELSE text
      /\ overflow' = (overflow \/ ~Fits(x))
      /\ since' = Append(since, x)
  BY DEF Text
<1> HIDE DEF x
<1>5. text' \in Seq(Byte) /\ Len(text') =< LineMax
  BY <1>3, <1>4, Appended, GpsNumbers DEF Fits, GpsTypes, GpsTypeOK
<1>6. since' \in Seq(Byte)
  BY <1>3, <1>4, Appended DEF GpsTypes, GpsTypeOK
<1>7. overflow' \in BOOLEAN
  BY <1>4
<1> QED
  BY <1>1, <1>2, <1>5, <1>6, <1>7, StartTyped
     DEF Others, GpsTypes, GpsTypeOK, setup, receiver

LEMMA SentenceTypes == ASSUME GpsTypes, Sentence PROVE GpsTypes'
<1>1. Take /\ text' = <<>> /\ overflow' = FALSE /\ since' = <<>> /\ Others
  BY DEF Sentence
<1>2. uart' \in Seq([byte : Byte, at : Nat]) /\ previous_byte' \in Nat
  BY <1>1, TakeTypes
<1>3. heard' \subseteq Bursts
  BY DEF Sentence, GpsTypes, GpsTypeOK
<1>4. burst_start' \in Nat
  BY StartTyped DEF Sentence
<1>5. observed' \in [Bursts -> Seq(Nat)]
  <2>1. CASE UNCHANGED observed
    BY <2>1 DEF GpsTypes, GpsTypeOK
  <2>2. CASE observed' = [b \in Bursts |->
                  IF Parsed(b) THEN Append(observed[b], Start) ELSE observed[b]]
    <3>1. ASSUME NEW b \in Bursts
          PROVE  observed[b] \in Seq(Nat) /\ Append(observed[b], Start) \in Seq(Nat)
      BY StartTyped, Appended DEF GpsTypes, GpsTypeOK
    <3> QED
      BY <2>2, <3>1
  <2> QED
    BY <2>1, <2>2 DEF Sentence
<1>6. text' \in Seq(Byte) /\ since' \in Seq(Byte) /\ Len(text') =< LineMax
  <2>1. <<>> \in Seq(Byte) /\ Len(<<>>) = 0
    OBVIOUS
  <2>2. 0 =< LineMax
    BY GpsNumbers
  <2>3. text' = <<>> /\ since' = <<>>
    BY <1>1
  <2> QED
    BY <2>1, <2>2, <2>3
<1>7. overflow' \in BOOLEAN
  BY <1>1
<1> QED
  BY <1>1, <1>2, <1>3, <1>4, <1>5, <1>6, <1>7
     DEF Others, GpsTypes, GpsTypeOK, setup, receiver

LEMMA TypesStay == GpsTypes /\ GpsInv /\ [GpsNext]_gpsVars => GpsTypes'
<1> SUFFICES ASSUME GpsTypes, GpsInv, [GpsNext]_gpsVars PROVE GpsTypes'
  OBVIOUS
<1>1. CASE UNCHANGED gpsVars
  BY <1>1 DEF gpsVars, setup, receiver, assembly, GpsTypes, GpsTypeOK
<1> QED
  BY <1>1, CommandTypes, FlushTypes, NextTickTypes, TextTypes, SentenceTypes
     DEF GpsNext, read_sentences, StreamEnds

(***************************************************************************)
(* The byte stream.  Everything is told from Origin, when the present        *)
(* measurement's phase was 0: each byte not read yet is one of this burst,   *)
(* at the place its arrival says; a burst has begun for the reader when it   *)
(* has read a byte since Origin.                                            *)
(***************************************************************************)
PeriodNow == IF fast THEN FastPeriod ELSE SlowPeriod
Origin == tick - phase

\* The phase of the last byte of a burst, and the bytes of this one sent so far.
LastByte == (Parts + 1) * (Cardinality(sentences) + 1) - 1
Gone == AtMost(phase, LastByte + 1)

Begun == previous_byte # 0 /\ Origin < previous_byte
NextAt == uart[1].at
LastAt == uart[Len(uart)].at

\* The first byte of a burst.
Opening == [burst |-> measured, sentence |-> 1, part |-> 1]

Measuring ==
    /\ measured \in Bursts /\ phase \in 0 .. PeriodNow - 1 /\ Quiet
    /\ tick \in Nat \ {0}

\* What has been received is of this burst, and fresh.
Timely(r) ==
    /\ Origin < r.at /\ r.at =< Origin + LastByte + 1
    /\ r.at =< tick /\ tick =< r.at + MaxLag
    /\ r.byte = Nul \/ r.byte = ByteAt(r.at - Origin - 1)
AllTimely == \A k \in 1 .. Len(uart) : Timely(uart[k])
Increasing == \A j, k \in 1 .. Len(uart) : j < k => uart[j].at < uart[k].at

\* What is missing in between was lost.
Continuous == \A k \in 1 .. Len(uart) - 1 : uart[k + 1].at =< uart[k].at + 1 + garbled
UpToNow ==
    /\ uart # <<>> => Origin + Gone =< LastAt + garbled
    /\ Begun /\ uart = <<>> => Origin + Gone =< previous_byte + garbled
FromThere == Begun /\ uart # <<>> => NextAt =< previous_byte + 1 + garbled

\* Before a burst there is silence.
Silence ==
    /\ previous_byte =< tick
    /\ Begun => previous_byte =< Origin + LastByte + 1 + MaxLag
    /\ previous_byte # 0 /\ ~Begun => previous_byte + BurstGap =< Origin + 1

Firsts ==
    /\ \A b \in Bursts : measured < b => first[b] = 0
    /\ first[measured] = 0 <=> uart = <<>> /\ ~Begun
    /\ uart # <<>> /\ ~Begun => first[measured] = NextAt

StartKept ==
    Begun => IF burst_start = 0 THEN measured \in heard
             ELSE burst_start - first[measured] \in 0 .. MaxLag

\* The line as it was sent, or one that is no RMC sentence.
LineKept ==
    /\ ~overflow => text = since
    /\ overflow => LineMax < Len(since) \/ \E i \in 1 .. Len(since) : since[i] = Nul

\* A burst's RMC sentence is heard once.
HeardOnce ==
    /\ heard \subseteq 1 .. measured
    /\ \A i \in 1 .. Len(since) : since[i].burst =< measured
    /\ measured \in heard =>
        /\ Begun
        /\ \A i \in 1 .. Len(since) : since[i] # Opening
        /\ \A k \in 1 .. Len(uart) : uart[k].byte # Opening

\* An RMC sentence whose newline is missing: what would have ended it was lost.
LeftOpen ==
    \A b \in Bursts : since = Rmc(b) =>
        /\ b < measured =>
            ~Begun /\ garbled > (IF uart = <<>> THEN Gone ELSE NextAt - Origin - 1)
        /\ b = measured /\ garbled = 0 =>
            IF uart = <<>> THEN phase = Parts ELSE NextAt = Origin + Parts + 1

ReadInv ==
    /\ Measuring
    /\ AllTimely /\ Increasing
    /\ Continuous /\ UpToNow /\ FromThere
    /\ Silence /\ Firsts /\ StartKept
    /\ LineKept /\ HeardOnce /\ LeftOpen
    /\ ObservedAtItsStart

LEMMA SpanOf ==
  ASSUME NEW n \in Nat, NEW d \in Nat \ {0}, NEW c \in Nat
  PROVE  /\ d * (c + 1) - 1 \in Nat /\ d * (c + 1) - 1 >= d - 1
         /\ n \div d =< c <=> n =< d * (c + 1) - 1
<1> DEFINE q == n \div d
           r == n % d
<1>1. q \in Nat /\ r \in 0 .. d - 1 /\ n = d * q + r
  BY Divided
<1> HIDE DEF q, r
<1>2. d * (c + 1) = d * c + d /\ d * c \in Nat /\ d * q \in Nat
  BY <1>1
<1>3. ASSUME q =< c PROVE n =< d * (c + 1) - 1
  <2>1. q * d =< c * d
    BY <1>1, <1>3, Scaled
  <2> QED
    BY <2>1, <1>1, <1>2
<1>4. ASSUME c + 1 =< q PROVE n > d * (c + 1) - 1
  <2>1. (c + 1) * d =< q * d
    BY <1>1, <1>4, Scaled
  <2> QED
    BY <2>1, <1>1, <1>2
<1>5. q =< c <=> n =< d * (c + 1) - 1
  BY <1>1, <1>2, <1>3, <1>4
<1>6. d * (c + 1) - 1 \in Nat /\ d * (c + 1) - 1 >= d - 1
  BY <1>2
<1> QED
  BY <1>5, <1>6 DEF q

\* Between the end of a burst and the next one there is a silence longer than BurstGap.
LEMMA Geometry ==
  ASSUME GpsTypes, Measuring
  PROVE  /\ tick \in Nat \ {0} /\ phase \in Nat /\ Origin \in Int /\ tick = Origin + phase
         /\ LastByte \in Nat /\ Parts =< LastByte
         /\ PeriodNow \in Nat /\ LastByte + BurstGap + MaxLag =< PeriodNow
         /\ phase < PeriodNow /\ measured \in Bursts /\ measured \in Nat \ {0}
         /\ Gone \in Nat /\ Gone =< phase /\ Gone =< LastByte + 1
         /\ phase =< LastByte => Gone = phase
         /\ phase > LastByte => Gone = LastByte + 1
         /\ \A p \in Nat : Sends(p) <=> p =< LastByte
<1> DEFINE c == Cardinality(sentences)
           d == Parts + 1
<1>1. c \in 0 .. Unused /\ d \in Nat \ {0} /\ Unused \in Nat
  BY SentencesCounted, GpsNumbers DEF GpsTypes
<1>2. fast => c = 0
  BY FS_EmptySet DEF Measuring, Quiet
<1>3. LastByte = d * (c + 1) - 1
  BY DEF LastByte
<1> HIDE DEF c
<1>4. /\ LastByte \in Nat /\ LastByte >= d - 1
  BY <1>1, <1>3, SpanOf
<1>5. \A p \in Nat : Sends(p) <=> p =< LastByte
  <2> TAKE p \in Nat
  <2>1. p \div d =< c <=> p =< d * (c + 1) - 1
    BY <1>1, SpanOf
  <2> QED
    BY <2>1, <1>3 DEF Sends, c
<1>6. PeriodNow \in Nat /\ LastByte + BurstGap + MaxLag =< PeriodNow
  <2>1. CASE fast
    <3>1. LastByte = Parts
      BY <2>1, <1>2, <1>3, GpsNumbers
    <3> QED
      BY <2>1, <3>1, GpsNumbers DEF PeriodNow
  <2>2. CASE ~fast
    <3>1. (c + 1) * d =< (Unused + 1) * d
      BY <1>1, Scaled
    <3>2. (c + 1) * d = d * (c + 1) /\ (Unused + 1) * d = (Parts + 1) * (Unused + 1)
      BY <1>1
    <3>3. LastByte =< (Parts + 1) * (Unused + 1) - 1
      <4> DEFINE u == (Unused + 1) * d
                 v == (c + 1) * d
      <4>1. u \in Int /\ v \in Int
        BY <1>1
      <4>2. LastByte = v - 1 /\ (Parts + 1) * (Unused + 1) = u /\ v =< u
        BY <1>3, <3>1, <3>2
      <4> HIDE DEF u, v
      <4> QED
        BY <4>1, <4>2
    <3>4. (Parts + 1) * (Unused + 1) \in Int
      BY <1>1, GpsNumbers
    <3>5. PeriodNow = SlowPeriod
      BY <2>2 DEF PeriodNow
    <3> DEFINE w == (Parts + 1) * (Unused + 1)
    <3>6. w \in Int /\ LastByte =< w - 1 /\ SlowPeriod >= w - 1 + BurstGap + MaxLag
      BY <3>3, <3>4, GpsNumbers
    <3> HIDE DEF w
    <3> QED
      BY <3>5, <3>6, <1>4, GpsNumbers
  <2> QED
    BY <2>1, <2>2
<1>7. phase \in Nat /\ phase < PeriodNow /\ tick \in Nat \ {0}
  BY <1>6 DEF Measuring
<1>8. Origin \in Int /\ tick = Origin + phase
  BY <1>7 DEF Origin
<1>9. measured \in Bursts /\ measured \in Nat \ {0}
  BY GpsNumbers DEF Measuring, Bursts
<1>10. /\ Gone \in Nat /\ Gone =< phase /\ Gone =< LastByte + 1
       /\ phase =< LastByte => Gone = phase
       /\ phase > LastByte => Gone = LastByte + 1
  BY <1>4, <1>7 DEF Gone, AtMost
<1>11. Parts =< LastByte
  BY <1>4, GpsNumbers
<1> QED
  BY <1>4, <1>5, <1>6, <1>7, <1>8, <1>9, <1>10, <1>11

\* What a byte's place in its burst says about it.
LEMMA PlaceOf ==
  ASSUME GpsTypes, Measuring, NEW p \in Nat
  PROVE  /\ ByteAt(p) # Nul /\ ByteAt(p).burst = measured
         /\ ByteAt(p).part = 0 => Parts =< p
         /\ ByteAt(p) = Opening => p = 0
         /\ ByteAt(p).sentence = 1 /\ ByteAt(p).part = Parts => p = Parts - 1
<1> DEFINE d == Parts + 1
           q == p \div d
           r == p % d
           t == (r + 1) % d
<1>1. d \in Nat \ {0} /\ d >= 2
  BY GpsNumbers
<1>2. q \in Nat /\ r \in 0 .. d - 1 /\ p = d * q + r
  BY <1>1, Divided
<1>3. ByteAt(p) = [burst |-> measured, sentence |-> q + 1, part |-> t]
  BY DEF ByteAt
<1> HIDE DEF q, r
<1>4. r + 1 < d => t = r + 1
  BY <1>1, <1>2
<1>5. r + 1 = d => t = 0
  BY <1>1, <1>2
<1> HIDE DEF t
<1>6. ASSUME q = 0 PROVE p = r
  BY <1>1, <1>2, <1>6
<1>0. r \in Nat /\ r + 1 =< d
  BY <1>1, <1>2
<1>7. t = 0 => r = Parts
  BY <1>0, <1>1, <1>4, <1>5, GpsNumbers
<1>8. t = 0 => Parts =< p
  <2>1. d * q \in Nat
    BY <1>1, <1>2
  <2> QED
    BY <2>1, <1>2, <1>7, GpsNumbers
<1>9. t = 1 => r = 0
  BY <1>1, <1>2, <1>4, <1>5
<1>10. t = Parts => r = Parts - 1
  BY <1>1, <1>2, <1>4, <1>5, GpsNumbers
<1>11. measured # 0
  BY Geometry
<1>12. ByteAt(p) = Opening => q + 1 = 1 /\ t = 1
  BY <1>3 DEF Opening
<1>13. q + 1 = 1 => q = 0
  BY <1>2
<1> HIDE DEF d
<1>14. ByteAt(p).burst = measured /\ ByteAt(p).part = t /\ ByteAt(p).sentence = q + 1
  BY <1>3
<1>15. ByteAt(p) # Nul
  BY <1>11, <1>14 DEF Nul
<1> QED
  BY <1>6, <1>8, <1>9, <1>10, <1>12, <1>13, <1>14, <1>15

\* An RMC sentence.
LEMMA RmcIs ==
  ASSUME NEW b \in Bursts
  PROVE  /\ Len(Rmc(b)) = Parts /\ Rmc(b) # <<>> /\ Parts >= 1 /\ b \in Nat \ {0}
         /\ \A i \in 1 .. Parts : /\ Rmc(b)[i] = [burst |-> b, sentence |-> 1, part |-> i]
                                  /\ Rmc(b)[i] # Nul /\ Rmc(b)[i].burst = b
<1>1. Parts \in Nat \ {0} /\ b \in Nat \ {0}
  BY GpsNumbers DEF Bursts
<1>2. Len(Rmc(b)) = Parts
  BY <1>1 DEF Rmc
<1>3. \A i \in 1 .. Parts : Rmc(b)[i] = [burst |-> b, sentence |-> 1, part |-> i]
  BY DEF Rmc
<1>4. \A i \in 1 .. Parts : Rmc(b)[i].burst = b
  <2> TAKE i \in 1 .. Parts
  <2>1. Rmc(b)[i] = [burst |-> b, sentence |-> 1, part |-> i]
    BY <1>3
  <2> QED
    BY <2>1
<1>5. \A i \in 1 .. Parts : Rmc(b)[i] # Nul
  BY <1>1, <1>4 DEF Nul
<1>6. Rmc(b) # <<>>
  BY <1>1, <1>2
<1> QED
  BY <1>1, <1>2, <1>3, <1>4, <1>5, <1>6

(***************************************************************************)
(* A tick of the receiver keeps the invariant.                              *)
(***************************************************************************)
\* Nothing is left to read when the next burst begins.
LEMMA AtWrap ==
  ASSUME GpsTypes, ReadInv, NextTick, ~(phase + 1 < PeriodNow)
  PROVE  uart = <<>> /\ phase > LastByte /\ phase + 1 = PeriodNow
<1>1. /\ tick = Origin + phase /\ Origin \in Int /\ phase \in Nat /\ PeriodNow \in Nat
      /\ LastByte + BurstGap + MaxLag =< PeriodNow /\ phase < PeriodNow /\ LastByte \in Nat
  BY Geometry DEF ReadInv
<1>2. \A k \in 1 .. Len(uart) : tick - uart[k].at < MaxLag
  BY DEF NextTick
<1>3. uart = <<>>
  <2> SUFFICES ASSUME uart # <<>> PROVE FALSE
    OBVIOUS
  <2>1. 1 \in 1 .. Len(uart)
    BY HeadTyped DEF GpsTypes, GpsTypeOK
  <2>2. uart[1].at =< Origin + LastByte + 1 /\ tick - uart[1].at < MaxLag
    BY <1>2, <2>1 DEF ReadInv, AllTimely, Timely
  <2>3. uart[1].at \in Int
    <3>1. uart[1] \in [byte : Byte, at : Nat]
      BY <2>1, ElementOfSeq DEF GpsTypes, GpsTypeOK
    <3> QED
      BY <3>1
  <2> QED
    BY <1>1, <2>2, <2>3, GpsNumbers
<1> QED
  BY <1>1, <1>3, GpsNumbers

\* What a tick does.
Grown == \E byte \in {Nul, ByteAt(phase)} : Arrives(byte)

LEMMA NextTickIs ==
  ASSUME GpsTypes, ReadInv, NextTick
  PROVE  /\ tick' = tick + 1 /\ LastByte' = LastByte /\ PeriodNow' = PeriodNow
         /\ UNCHANGED <<stage, setup, assembly, since, heard, observed>>
         /\ garbled \in Nat /\ garbled' \in Nat
         /\ \/ /\ phase' = phase + 1 /\ phase + 1 < PeriodNow /\ measured' = measured
               /\ Origin' = Origin
               /\ \/ phase =< LastByte /\ Grown /\ (garbled' = garbled \/ garbled' = garbled + 1)
                  \/ phase =< LastByte /\ garbled' = garbled + 1 /\ UNCHANGED <<uart, first>>
                  \/ phase > LastByte /\ UNCHANGED <<uart, first, garbled>>
            \/ /\ phase' = 0 /\ measured' = measured + 1 /\ measured + 1 \in Bursts
               /\ Origin' = tick + 1 /\ phase > LastByte /\ uart = <<>>
               /\ UNCHANGED <<uart, first, garbled>>
<1>1. /\ tick' = tick + 1 /\ UNCHANGED <<stage, setup, assembly, since, heard, observed>>
  BY DEF NextTick
<1>2. LastByte' = LastByte /\ PeriodNow' = PeriodNow
  BY <1>1 DEF setup, LastByte, PeriodNow
<1>3. garbled \in Nat /\ garbled' \in Nat
  <2>1. garbled' \in 0 .. MaxGarbled
    BY NextTickTypes DEF GpsTypes, GpsTypeOK
  <2> QED
    BY <2>1, GpsNumbers DEF GpsTypes, GpsTypeOK
<1>4. \/ phase + 1 < PeriodNow /\ phase' = phase + 1 /\ measured' = measured
      \/ ~(phase + 1 < PeriodNow) /\ measured < MaxBursts /\ phase' = 0 /\ measured' = measured + 1
  BY DEF NextTick, PeriodNow
<1>5. /\ phase \in Nat /\ tick \in Nat /\ measured \in Nat \ {0}
      /\ Sends(phase) <=> phase =< LastByte
      /\ tick = Origin + phase /\ Origin \in Int /\ LastByte \in Nat
  BY Geometry DEF ReadInv
<1>6. \/ phase =< LastByte /\ Grown /\ (garbled' = garbled \/ garbled' = garbled + 1)
      \/ phase =< LastByte /\ garbled' = garbled + 1 /\ UNCHANGED <<uart, first>>
      \/ phase > LastByte /\ UNCHANGED <<uart, first, garbled>>
  <2>1. \/ Sends(phase) /\ Arrives(ByteAt(phase)) /\ garbled' = garbled
        \/ Sends(phase) /\ garbled' = garbled + 1 /\ (Arrives(Nul) \/ UNCHANGED <<uart, first>>)
        \/ ~Sends(phase) /\ UNCHANGED <<uart, first, garbled>>
    BY DEF NextTick
  <2> QED
    BY <2>1, <1>5 DEF Grown
<1>7. CASE phase + 1 < PeriodNow
  <2>1. Origin' = Origin
    <3>1. Origin' = tick' - phase'
      BY DEF Origin
    <3> QED
      BY <3>1, <1>1, <1>4, <1>5, <1>7
  <2> QED
    BY <2>1, <1>1, <1>2, <1>3, <1>4, <1>6, <1>7
<1>8. CASE ~(phase + 1 < PeriodNow)
  <2>1. uart = <<>> /\ phase > LastByte
    BY <1>8, AtWrap
  <2>2. Origin' = tick + 1
    <3>1. Origin' = tick' - phase'
      BY DEF Origin
    <3> QED
      BY <3>1, <1>1, <1>4, <1>5, <1>8
  <2>3. measured + 1 \in Bursts
    BY <1>4, <1>5, <1>8, GpsNumbers DEF Bursts
  <2>4. UNCHANGED <<uart, first, garbled>>
    BY <2>1, <1>5, <1>6
  <2> QED
    BY <2>1, <2>2, <2>3, <2>4, <1>1, <1>2, <1>3, <1>4, <1>8
<1> QED
  BY <1>7, <1>8

\* Bytes that have been received, and one more.
LEMMA GrownIs ==
  ASSUME GpsTypes, ReadInv, Grown
  PROVE  \E byte \in {Nul, ByteAt(phase)} :
            /\ Len(uart') = Len(uart) + 1 /\ uart' # <<>>
            /\ \A k \in 1 .. Len(uart) : uart'[k] = uart[k]
            /\ uart'[Len(uart) + 1] = [byte |-> byte, at |-> tick + 1]
            /\ first' = IF first[measured] = 0 THEN [first EXCEPT ![measured] = tick + 1]
                        ELSE first
<1>1. PICK byte \in {Nul, ByteAt(phase)} : Arrives(byte)
  BY DEF Grown
<1> DEFINE r == [byte |-> byte, at |-> tick + 1]
<1>2. uart' = Append(uart, r)
  BY <1>1 DEF Arrives
<1> HIDE DEF r
<1>3. uart \in Seq([byte : Byte, at : Nat])
  BY DEF GpsTypes, GpsTypeOK
<1>4. ASSUME NEW S, NEW q \in Seq(S), NEW x
      PROVE  /\ Len(Append(q, x)) = Len(q) + 1 /\ Append(q, x) # <<>>
             /\ \A k \in 1 .. Len(q) : Append(q, x)[k] = q[k]
             /\ Append(q, x)[Len(q) + 1] = x
  OBVIOUS
<1>5. /\ Len(uart') = Len(uart) + 1 /\ uart' # <<>>
      /\ \A k \in 1 .. Len(uart) : uart'[k] = uart[k]
      /\ uart'[Len(uart) + 1] = r
  BY <1>2, <1>3, <1>4
<1>6. first' = IF first[measured] = 0 THEN [first EXCEPT ![measured] = tick + 1] ELSE first
  BY <1>1 DEF Arrives
<1> QED
  BY <1>5, <1>6 DEF r

LEMMA UartTyped ==
  ASSUME GpsTypes
  PROVE  /\ Len(uart) \in Nat /\ (uart # <<>> <=> Len(uart) >= 1)
         /\ \A k \in 1 .. Len(uart) : uart[k].at \in Nat /\ uart[k].byte \in Byte
<1>1. uart \in Seq([byte : Byte, at : Nat])
  BY DEF GpsTypes, GpsTypeOK
<1>2. \A k \in 1 .. Len(uart) : uart[k] \in [byte : Byte, at : Nat]
  BY <1>1, ElementOfSeq
<1>3. Len(uart) \in Nat /\ (uart # <<>> <=> Len(uart) >= 1)
  BY <1>1
<1>4. \A k \in 1 .. Len(uart) : uart[k].at \in Nat /\ uart[k].byte \in Byte
  BY <1>2
<1> QED
  BY <1>3, <1>4

\* A tick within a period: what follows Origin', measured' and LastByte' follows the
\* old ones.
LEMMA TimelyNext ==
  ASSUME GpsTypes, ReadInv, NextTick, Origin' = Origin, measured' = measured, phase' = phase + 1,
         Grown => phase =< LastByte, Grown \/ UNCHANGED uart
  PROVE  AllTimely'
<1>1. /\ tick' = tick + 1 /\ LastByte' = LastByte /\ tick \in Nat /\ Origin \in Int
      /\ tick = Origin + phase /\ phase \in Nat /\ LastByte \in Nat /\ MaxLag \in Nat
  BY NextTickIs, Geometry, GpsNumbers DEF ReadInv
<1>2. ASSUME NEW k \in 1 .. Len(uart), NEW r, r = uart[k]
      PROVE  /\ Origin < r.at /\ r.at =< Origin + LastByte + 1
             /\ r.at =< tick + 1 /\ tick + 1 =< r.at + MaxLag
             /\ r.byte = Nul \/ r.byte = ByteAt(r.at - Origin - 1)
  <2>1. Timely(r) /\ tick - r.at < MaxLag /\ r.at \in Nat
    BY <1>2, UartTyped DEF ReadInv, AllTimely, NextTick
  <2>2. r.at =< tick /\ Origin < r.at /\ r.at =< Origin + LastByte + 1
    BY <2>1 DEF Timely
  <2>3. r.byte = Nul \/ r.byte = ByteAt(r.at - Origin - 1)
    BY <2>1 DEF Timely
  <2>4. r.at =< tick + 1 /\ tick + 1 =< r.at + MaxLag
    BY <2>1, <2>2, <1>1
  <2> QED
    BY <2>2, <2>3, <2>4
<1>3. ASSUME NEW r, r.at = tick + 1, r.byte \in {Nul, ByteAt(phase)}, phase =< LastByte
      PROVE  /\ Origin < r.at /\ r.at =< Origin + LastByte + 1
             /\ r.at =< tick + 1 /\ tick + 1 =< r.at + MaxLag
             /\ r.byte = Nul \/ r.byte = ByteAt(r.at - Origin - 1)
  <2>1. r.at - Origin - 1 = phase
    BY <1>1, <1>3
  <2>2. r.byte = Nul \/ r.byte = ByteAt(r.at - Origin - 1)
    BY <2>1, <1>3
  <2>3. /\ Origin < r.at /\ r.at =< Origin + LastByte + 1
        /\ r.at =< tick + 1 /\ tick + 1 =< r.at + MaxLag
    BY <1>1, <1>3
  <2> QED
    BY <2>2, <2>3
<1>4. ASSUME NEW k \in 1 .. Len(uart'), NEW r, r = uart'[k]
      PROVE  /\ Origin < r.at /\ r.at =< Origin + LastByte + 1
             /\ r.at =< tick + 1 /\ tick + 1 =< r.at + MaxLag
             /\ r.byte = Nul \/ r.byte = ByteAt(r.at - Origin - 1)
  <2>1. CASE UNCHANGED uart
    <3>1. k \in 1 .. Len(uart) /\ r = uart[k]
      BY <2>1, <1>4
    <3> QED
      BY <3>1, <1>2
  <2>2. CASE Grown
    <3>1. PICK byte \in {Nul, ByteAt(phase)} :
            /\ Len(uart') = Len(uart) + 1
            /\ \A j \in 1 .. Len(uart) : uart'[j] = uart[j]
            /\ uart'[Len(uart) + 1] = [byte |-> byte, at |-> tick + 1]
      BY <2>2, GrownIs
    <3>2. CASE k \in 1 .. Len(uart)
      <4>1. r = uart[k]
        BY <3>1, <3>2, <1>4
      <4> QED
        BY <4>1, <3>2, <1>2
    <3>3. CASE k = Len(uart) + 1
      <4>1. r = [byte |-> byte, at |-> tick + 1]
        BY <3>1, <3>3, <1>4
      <4>2. r.at = tick + 1 /\ r.byte \in {Nul, ByteAt(phase)}
        BY <4>1
      <4> QED
        BY <4>2, <1>3, <2>2
    <3> QED
      BY <3>1, <3>2, <3>3, UartTyped
  <2> QED
    BY <2>1, <2>2
<1>5. ASSUME NEW k \in 1 .. Len(uart') PROVE Timely(uart[k])'
  <2> DEFINE r == uart'[k]
  <2>1. /\ Origin < r.at /\ r.at =< Origin + LastByte + 1
        /\ r.at =< tick + 1 /\ tick + 1 =< r.at + MaxLag
        /\ r.byte = Nul \/ r.byte = ByteAt(r.at - Origin - 1)
    BY <1>4
  <2> QED
    BY <2>1, <1>1 DEF Timely, ByteAt
<1> QED
  BY <1>5 DEF AllTimely

\* The order of what was received, and what is missing in it.
LEMMA OrderNext ==
  ASSUME GpsTypes, ReadInv, NextTick, Grown \/ UNCHANGED uart
  PROVE  Increasing'
<1>1. CASE UNCHANGED uart
  BY <1>1 DEF ReadInv, Increasing
<1>2. CASE Grown
  <2>1. PICK byte \in {Nul, ByteAt(phase)} :
          /\ Len(uart') = Len(uart) + 1
          /\ \A j \in 1 .. Len(uart) : uart'[j] = uart[j]
          /\ uart'[Len(uart) + 1] = [byte |-> byte, at |-> tick + 1]
    BY <1>2, GrownIs
  <2>2. uart'[Len(uart) + 1].at = tick + 1
    BY <2>1
  <2>3. \A j \in 1 .. Len(uart) : uart[j].at =< tick /\ uart[j].at \in Nat
    BY UartTyped DEF ReadInv, AllTimely, Timely
  <2>4. tick \in Nat
    BY DEF GpsTypes, GpsTypeOK
  <2>5. ASSUME NEW j \in 1 .. Len(uart'), NEW k \in 1 .. Len(uart'), j < k
        PROVE  uart'[j].at < uart'[k].at
    <3>1. j \in 1 .. Len(uart) /\ uart'[j] = uart[j]
      BY <2>1, <2>5, UartTyped
    <3>2. CASE k = Len(uart) + 1
      BY <3>1, <3>2, <2>2, <2>3, <2>4
    <3>3. CASE k \in 1 .. Len(uart)
      BY <3>1, <3>3, <2>1, <2>5 DEF ReadInv, Increasing
    <3> QED
      BY <3>2, <3>3, <2>1, <2>5, UartTyped
  <2> QED
    BY <2>5 DEF Increasing
<1> QED
  BY <1>1, <1>2

LEMMA LossesNext ==
  ASSUME GpsTypes, ReadInv, NextTick, Origin' = Origin, phase' = phase + 1
  PROVE  Continuous' /\ UpToNow' /\ FromThere' /\ (Begun' <=> Begun)
<1> DEFINE g == garbled'
<1>1. /\ tick = Origin + phase /\ Origin \in Int /\ phase \in Nat /\ tick \in Nat
      /\ LastByte \in Nat
      /\ phase =< LastByte => Gone = phase
      /\ phase > LastByte => Gone = LastByte + 1
  BY Geometry DEF ReadInv
<1>2. /\ garbled \in Nat /\ g \in Nat /\ garbled =< g /\ LastByte' = LastByte
      /\ previous_byte' = previous_byte /\ previous_byte \in Nat
      /\ \/ phase =< LastByte /\ Grown
         \/ phase =< LastByte /\ g = garbled + 1 /\ UNCHANGED uart
         \/ phase > LastByte /\ UNCHANGED uart
  <2>1. /\ garbled \in Nat /\ g \in Nat /\ LastByte' = LastByte /\ UNCHANGED assembly
    BY NextTickIs
  <2>2. phase' # 0 /\ phase + 1 # 0
    BY <1>1
  <2>3. \/ phase =< LastByte /\ Grown /\ (g = garbled \/ g = garbled + 1)
        \/ phase =< LastByte /\ g = garbled + 1 /\ UNCHANGED <<uart, first>>
        \/ phase > LastByte /\ UNCHANGED <<uart, first, garbled>>
    BY <2>2, NextTickIs
  <2>4. \/ phase =< LastByte /\ Grown
        \/ phase =< LastByte /\ g = garbled + 1 /\ UNCHANGED uart
        \/ phase > LastByte /\ UNCHANGED uart
    BY <2>3
  <2>5. g = garbled \/ g = garbled + 1
    BY <2>3
  <2> HIDE DEF g
  <2>6. garbled =< g
    BY <2>1, <2>5
  <2> QED
    BY <2>1, <2>4, <2>6 DEF assembly, GpsTypes, GpsTypeOK
<1>3. Begun' <=> Begun
  BY <1>2 DEF Begun
<1>4. Gone' = IF phase < LastByte + 1 THEN phase + 1 ELSE LastByte + 1
  BY <1>1, <1>2 DEF Gone, AtMost
<1>5. /\ phase =< LastByte => Gone' = Gone + 1 /\ Gone = phase
      /\ phase > LastByte => Gone' = Gone
  BY <1>1, <1>4
<1>6. Gone \in Nat /\ Len(uart) \in Nat /\ (uart # <<>> <=> Len(uart) >= 1)
  BY UartTyped, Geometry DEF ReadInv
<1> DEFINE o == Origin
           h == Gone'
<1>7. CASE Grown /\ phase =< LastByte
  <2>1. PICK byte \in {Nul, ByteAt(phase)} :
          /\ Len(uart') = Len(uart) + 1 /\ uart' # <<>>
          /\ \A j \in 1 .. Len(uart) : uart'[j] = uart[j]
          /\ uart'[Len(uart) + 1] = [byte |-> byte, at |-> tick + 1]
    BY <1>7, GrownIs
  <2>2. uart'[Len(uart) + 1].at = tick + 1
    BY <2>1
  <2>3. UpToNow'
    <3>1. LastAt' = tick + 1
      BY <2>1, <2>2 DEF LastAt
    <3>2. Origin' + Gone' = tick + 1
      BY <1>1, <1>5, <1>7
    <3>3. tick + 1 =< tick + 1 + g
      <4> HIDE DEF g
      <4> QED
        BY <1>1, <1>2
    <3> QED
      BY <2>1, <3>1, <3>2, <3>3 DEF UpToNow
  <2>4. uart # <<>> => tick + 1 =< LastAt + 1 + g
    <3> SUFFICES ASSUME uart # <<>> PROVE tick + 1 =< LastAt + 1 + g
      OBVIOUS
    <3>1. Origin + Gone =< LastAt + garbled /\ LastAt \in Nat
      BY UartTyped DEF ReadInv, UpToNow, LastAt
    <3>2. Gone = phase
      BY <1>5, <1>7
    <3> HIDE DEF g
    <3> QED
      BY <3>1, <3>2, <1>1, <1>2
  <2>5. Begun /\ uart = <<>> => tick + 1 =< previous_byte + 1 + g
    <3> SUFFICES ASSUME Begun, uart = <<>> PROVE tick + 1 =< previous_byte + 1 + g
      OBVIOUS
    <3>1. Origin + Gone =< previous_byte + garbled
      BY DEF ReadInv, UpToNow
    <3>2. Gone = phase
      BY <1>5, <1>7
    <3> HIDE DEF g
    <3> QED
      BY <3>1, <3>2, <1>1, <1>2
  <2>6. Continuous'
    <3> SUFFICES ASSUME NEW k \in 1 .. Len(uart') - 1
                 PROVE  uart'[k + 1].at =< uart'[k].at + 1 + g
      BY DEF Continuous
    <3>1. k \in 1 .. Len(uart) /\ uart'[k] = uart[k] /\ uart[k].at \in Nat
      BY <2>1, <1>6, UartTyped
    <3>2. CASE k = Len(uart)
      <4>1. uart # <<>> /\ LastAt = uart[k].at
        BY <3>1, <3>2, <1>6 DEF LastAt
      <4> QED
        BY <4>1, <3>1, <3>2, <2>2, <2>4
    <3>3. CASE k # Len(uart)
      <4>1. k \in 1 .. Len(uart) - 1 /\ k + 1 \in 1 .. Len(uart)
        BY <3>1, <3>3, <1>6
      <4>2. uart[k + 1].at =< uart[k].at + 1 + garbled /\ uart[k + 1].at \in Nat
        BY <4>1, UartTyped DEF ReadInv, Continuous
      <4>3. uart'[k + 1] = uart[k + 1]
        BY <4>1, <2>1
      <4> DEFINE u == uart[k + 1].at
                 v == uart[k].at
      <4>4. u =< v + 1 + garbled /\ u \in Nat /\ v \in Nat
        BY <4>2, <3>1
      <4> HIDE DEF u, v, g
      <4>5. u =< v + 1 + g
        BY <4>4, <1>2
      <4> QED
        BY <4>5, <4>3, <3>1 DEF u, v
    <3> QED
      BY <3>2, <3>3
  <2>7. FromThere'
    <3> SUFFICES ASSUME Begun PROVE uart'[1].at =< previous_byte + 1 + g
      BY <1>2, <1>3 DEF FromThere, NextAt
    <3>1. CASE uart = <<>>
      BY <3>1, <1>6, <2>1, <2>2, <2>5
    <3>2. CASE uart # <<>>
      <4>1. uart[1].at =< previous_byte + 1 + garbled /\ uart[1].at \in Nat /\ uart'[1] = uart[1]
        BY <3>2, <1>6, <2>1, UartTyped DEF ReadInv, FromThere, NextAt
      <4> HIDE DEF g
      <4> QED
        BY <4>1, <1>2
    <3> QED
      BY <3>1, <3>2
  <2> QED
    BY <1>3, <2>3, <2>6, <2>7
<1>8. CASE UNCHANGED uart /\ (phase > LastByte \/ g = garbled + 1)
  <2>1. h =< Gone + (g - garbled) /\ h \in Nat
    <3> HIDE DEF g, h
    <3>1. /\ phase =< LastByte => h = Gone + 1
          /\ phase > LastByte => h = Gone
      BY <1>5 DEF h
    <3> QED
      BY <3>1, <1>1, <1>2, <1>6, <1>8 DEF h
  <2>2. UpToNow'
    <3>1. ASSUME NEW x \in Int, Origin + Gone =< x + garbled
          PROVE  Origin + h =< x + g
      <4> HIDE DEF g, h
      <4> QED
        BY <3>1, <2>1, <1>1, <1>2, <1>6
    <3>2. uart # <<>> => Origin + h =< LastAt + g
      <4>1. uart # <<>> => LastAt \in Int /\ Origin + Gone =< LastAt + garbled
        BY UartTyped DEF ReadInv, UpToNow, LastAt
      <4> QED
        BY <4>1, <3>1
    <3>3. Begun /\ uart = <<>> => Origin + h =< previous_byte + g
      <4>1. Begun /\ uart = <<>> => Origin + Gone =< previous_byte + garbled
        BY DEF ReadInv, UpToNow
      <4> QED
        BY <4>1, <3>1, <1>2
    <3>4. LastAt' = LastAt
      BY <1>8 DEF LastAt
    <3> QED
      BY <3>2, <3>3, <3>4, <1>2, <1>3, <1>8 DEF UpToNow
  <2>3. ASSUME NEW x \in Nat, NEW y \in Nat, y =< x + 1 + garbled
        PROVE  y =< x + 1 + g
    <3> HIDE DEF g
    <3> QED
      BY <2>3, <1>2
  <2>4. Continuous'
    <3> SUFFICES ASSUME NEW k \in 1 .. Len(uart) - 1
                 PROVE  uart[k + 1].at =< uart[k].at + 1 + g
      BY <1>8 DEF Continuous
    <3>1. k \in 1 .. Len(uart) /\ k + 1 \in 1 .. Len(uart)
      BY <1>6
    <3>2. /\ uart[k + 1].at \in Nat /\ uart[k].at \in Nat
          /\ uart[k + 1].at =< uart[k].at + 1 + garbled
      BY <3>1, UartTyped DEF ReadInv, Continuous
    <3> QED
      BY <3>2, <2>3
  <2>5. FromThere'
    <3>1. uart # <<>> => NextAt \in Nat
      BY <1>6, UartTyped DEF NextAt
    <3>2. Begun /\ uart # <<>> => NextAt =< previous_byte + 1 + g
      BY <3>1, <2>3, <1>2 DEF ReadInv, FromThere
    <3>3. NextAt' = NextAt
      BY <1>8 DEF NextAt
    <3> QED
      BY <3>2, <3>3, <1>2, <1>3, <1>8 DEF FromThere
  <2> QED
    BY <1>3, <2>2, <2>4, <2>5
<1> QED
  BY <1>2, <1>7, <1>8

\* The reader's part of the invariant, within a burst.
LEMMA ReaderNext ==
  ASSUME GpsTypes, ReadInv, NextTick, Origin' = Origin, phase' = phase + 1,
         phase + 1 < PeriodNow, measured' = measured
  PROVE  Measuring' /\ Silence' /\ Firsts' /\ StartKept' /\ LineKept' /\ HeardOnce'
         /\ ObservedAtItsStart'
<1>1. /\ tick = Origin + phase /\ Origin \in Int /\ phase \in Nat /\ tick \in Nat \ {0}
      /\ LastByte \in Nat /\ PeriodNow \in Nat /\ measured \in Bursts /\ measured \in Nat
      /\ Bursts \subseteq Nat
  BY Geometry DEF ReadInv, Bursts
<1>2. /\ UNCHANGED <<setup, assembly, since, heard, observed>>
      /\ LastByte' = LastByte /\ PeriodNow' = PeriodNow /\ tick' = tick + 1
      /\ Grown \/ UNCHANGED <<uart, first>>
  <2>1. phase' # 0
    BY <1>1
  <2> QED
    BY <2>1, NextTickIs
<1>3. /\ previous_byte' = previous_byte /\ burst_start' = burst_start /\ text' = text
      /\ overflow' = overflow /\ since' = since /\ heard' = heard /\ observed' = observed
      /\ sentences' = sentences /\ fast' = fast
  BY <1>2 DEF assembly, setup
<1>4. Begun' <=> Begun
  BY <1>3 DEF Begun
<1>5. Measuring'
  <2>1. phase' \in 0 .. PeriodNow' - 1
    BY <1>1, <1>2
  <2>2. tick' \in Nat \ {0}
    BY <1>1, <1>2
  <2>3. Quiet'
    BY <1>3 DEF Quiet, ReadInv, Measuring
  <2> QED
    BY <2>1, <2>2, <2>3, <1>1 DEF Measuring
<1>6. Silence'
  <2>1. previous_byte =< tick /\ previous_byte \in Nat
    BY DEF ReadInv, Silence, GpsTypes, GpsTypeOK
  <2>2. previous_byte' =< tick'
    BY <2>1, <1>1, <1>2, <1>3
  <2> QED
    BY <2>2, <1>2, <1>3, <1>4 DEF ReadInv, Silence
<1>7. first' = first \/ (first[measured] = 0 /\ first' = [first EXCEPT ![measured] = tick + 1])
  <2>1. CASE Grown
    <3>1. first' = IF first[measured] = 0 THEN [first EXCEPT ![measured] = tick + 1] ELSE first
      BY <2>1, GrownIs
    <3> QED
      BY <3>1
  <2> QED
    BY <2>1, <1>2
<1>8. first \in [Bursts -> Nat]
  BY DEF GpsTypes, GpsTypeOK
<1>9. /\ \A b \in Bursts : b # measured => first'[b] = first[b]
      /\ first[measured] # 0 => first' = first
  BY <1>1, <1>7, <1>8
<1>10. Firsts'
  <2>1. \A b \in Bursts : measured' < b => first'[b] = 0
    BY <1>1, <1>9 DEF ReadInv, Firsts
  <2>2. CASE Grown
    <3>1. PICK byte \in {Nul, ByteAt(phase)} :
            /\ Len(uart') = Len(uart) + 1 /\ uart' # <<>>
            /\ \A j \in 1 .. Len(uart) : uart'[j] = uart[j]
            /\ uart'[Len(uart) + 1] = [byte |-> byte, at |-> tick + 1]
            /\ first' = IF first[measured] = 0 THEN [first EXCEPT ![measured] = tick + 1]
                        ELSE first
      BY <2>2, GrownIs
    <3>2. Len(uart) \in Nat /\ (uart # <<>> <=> Len(uart) >= 1)
      BY UartTyped
    <3>3. first'[measured] # 0
      BY <3>1, <1>1, <1>8
    <3>4. ASSUME ~Begun PROVE first'[measured] = uart'[1].at
      <4>1. CASE uart = <<>>
        <5>1. first[measured] = 0
          BY <3>4, <4>1 DEF ReadInv, Firsts
        <5>2. uart'[1] = [byte |-> byte, at |-> tick + 1]
          BY <3>1, <3>2, <4>1
        <5> QED
          BY <5>1, <5>2, <3>1, <1>1, <1>8
      <4>2. CASE uart # <<>>
        <5>1. first[measured] # 0 /\ first[measured] = NextAt
          BY <3>4, <4>2 DEF ReadInv, Firsts
        <5>2. uart'[1] = uart[1]
          BY <3>1, <3>2, <4>2
        <5> QED
          BY <5>1, <5>2, <1>9 DEF NextAt
      <4> QED
        BY <4>1, <4>2
    <3> QED
      BY <2>1, <3>1, <3>3, <3>4, <1>4 DEF Firsts, NextAt
  <2>3. CASE UNCHANGED <<uart, first>>
    BY <2>1, <2>3, <1>4 DEF ReadInv, Firsts, NextAt
  <2> QED
    BY <2>2, <2>3, <1>2
<1>11. StartKept'
  <2>1. Begun => first' = first
    BY <1>9 DEF ReadInv, Firsts
  <2> QED
    BY <2>1, <1>3, <1>4 DEF ReadInv, StartKept
<1>12. LineKept'
  BY <1>3 DEF ReadInv, LineKept
<1>13. HeardOnce'
  <2>1. Opening' = Opening
    BY DEF Opening
  <2>2. ASSUME measured \in heard, NEW k \in 1 .. Len(uart')
        PROVE  uart'[k].byte # Opening
    <3>1. \A j \in 1 .. Len(uart) : uart[j].byte # Opening
      BY <2>2 DEF ReadInv, HeardOnce
    <3>2. CASE UNCHANGED <<uart, first>>
      BY <3>1, <3>2
    <3>3. CASE Grown
      <4>1. PICK byte \in {Nul, ByteAt(phase)} :
              /\ Len(uart') = Len(uart) + 1
              /\ \A j \in 1 .. Len(uart) : uart'[j] = uart[j]
              /\ uart'[Len(uart) + 1] = [byte |-> byte, at |-> tick + 1]
        BY <3>3, GrownIs
      <4>2. CASE k \in 1 .. Len(uart)
        BY <4>1, <4>2, <3>1
      <4>3. CASE k = Len(uart) + 1
        <5>1. uart'[k].byte = byte
          BY <4>1, <4>3
        <5>2. phase # 0
          <6>1. Begun
            BY <2>2 DEF ReadInv, HeardOnce
          <6>2. previous_byte =< tick /\ previous_byte \in Nat /\ Origin < previous_byte
            BY <6>1 DEF ReadInv, Silence, Begun, GpsTypes, GpsTypeOK
          <6> QED
            BY <6>2, <1>1
        <5>3. ByteAt(phase) # Opening
          BY <5>2, <1>1, PlaceOf DEF ReadInv
        <5>4. Nul # Opening
          <6>1. Nul.burst = 0 /\ Opening.burst = measured /\ measured # 0
            BY Geometry DEF ReadInv, Nul, Opening
          <6> QED
            BY <6>1
        <5> QED
          BY <5>1, <5>3, <5>4
      <4> QED
        BY <2>2, <4>1, <4>2, <4>3, UartTyped
    <3> QED
      BY <3>2, <3>3, <1>2
  <2> QED
    BY <2>1, <2>2, <1>3, <1>4 DEF ReadInv, HeardOnce
<1>14. ObservedAtItsStart'
  <2>1. ASSUME NEW b \in heard PROVE first'[b] = first[b]
    <3>1. b \in Bursts
      BY DEF GpsTypes, GpsTypeOK
    <3>2. CASE b # measured
      BY <3>1, <3>2, <1>9
    <3>3. CASE b = measured
      <4>1. Begun
        BY <3>3 DEF ReadInv, HeardOnce
      <4>2. first[measured] # 0
        BY <4>1 DEF ReadInv, Firsts
      <4> QED
        BY <4>2, <1>9
    <3> QED
      BY <3>2, <3>3
  <2> QED
    BY <2>1, <1>3 DEF ReadInv, ObservedAtItsStart
<1> QED
  BY <1>5, <1>6, <1>10, <1>11, <1>12, <1>13, <1>14

\* What was heard of an earlier burst is none of a later one's.
LEMMA NoneLater ==
  ASSUME ReadInv, GpsTypes, NEW b \in Bursts, measured < b
  PROVE  since # Rmc(b)
<1> SUFFICES ASSUME since = Rmc(b) PROVE FALSE
  OBVIOUS
<1>1. 1 \in 1 .. Len(since) /\ since[1].burst = b
  <2>1. Len(Rmc(b)) = Parts /\ 1 \in 1 .. Parts
    BY RmcIs, GpsNumbers
  <2>2. Rmc(b)[1].burst = b
    BY <2>1, RmcIs
  <2> QED
    BY <2>1, <2>2
<1>2. since[1].burst =< measured
  BY <1>1 DEF ReadInv, HeardOnce
<1>3. measured \in Nat /\ b \in Nat
  BY RmcIs DEF GpsTypes, GpsTypeOK
<1> QED
  BY <1>1, <1>2, <1>3

LEMMA LeftOpenNext ==
  ASSUME GpsTypes, ReadInv, NextTick, Origin' = Origin, phase' = phase + 1,
         measured' = measured
  PROVE  LeftOpen'
<1> DEFINE g == garbled'
           h == Gone'
<1>1. /\ tick = Origin + phase /\ Origin \in Int /\ phase \in Nat /\ tick \in Nat
      /\ LastByte \in Nat /\ Parts =< LastByte /\ Parts \in Nat /\ Gone \in Nat
      /\ phase =< LastByte => Gone = phase
      /\ phase > LastByte => Gone = LastByte + 1
  BY Geometry, GpsNumbers DEF ReadInv
<1>2. /\ garbled \in Nat /\ g \in Nat /\ LastByte' = LastByte
      /\ UNCHANGED <<setup, assembly, since, heard, observed>>
      /\ \/ phase =< LastByte /\ Grown /\ (g = garbled \/ g = garbled + 1)
         \/ phase =< LastByte /\ g = garbled + 1 /\ UNCHANGED uart
         \/ phase > LastByte /\ UNCHANGED uart /\ g = garbled
  <2>1. phase' # 0
    BY <1>1
  <2> QED
    BY <2>1, NextTickIs
<1>3. Begun' <=> Begun
  BY <1>2 DEF Begun, assembly
<1>4. h = IF phase < LastByte + 1 THEN phase + 1 ELSE LastByte + 1
  BY <1>1, <1>2 DEF Gone, AtMost
<1>5. /\ uart # <<>> => uart' # <<>> /\ NextAt' = NextAt /\ NextAt \in Nat
      /\ uart = <<>> /\ Grown => uart' # <<>> /\ NextAt' = tick + 1
  <2>1. Len(uart) \in Nat /\ (uart # <<>> <=> Len(uart) >= 1)
    BY UartTyped
  <2>2. uart # <<>> => NextAt \in Nat
    BY <2>1, UartTyped DEF NextAt
  <2>3. CASE Grown
    <3>1. PICK byte \in {Nul, ByteAt(phase)} :
            /\ uart' # <<>>
            /\ \A j \in 1 .. Len(uart) : uart'[j] = uart[j]
            /\ uart'[Len(uart) + 1] = [byte |-> byte, at |-> tick + 1]
      BY <2>3, GrownIs
    <3>2. uart # <<>> => uart'[1] = uart[1]
      BY <2>1, <3>1
    <3>3. uart = <<>> => uart'[1].at = tick + 1
      <4> SUFFICES ASSUME uart = <<>> PROVE uart'[1].at = tick + 1
        OBVIOUS
      <4>1. Len(uart) + 1 = 1
        BY <2>1
      <4> QED
        BY <4>1, <3>1
    <3> QED
      BY <2>2, <3>1, <3>2, <3>3 DEF NextAt
  <2>4. CASE ~Grown
    BY <2>2, <2>4, <1>2 DEF NextAt
  <2> QED
    BY <2>3, <2>4
<1> SUFFICES ASSUME NEW b \in Bursts, since = Rmc(b)
             PROVE  /\ b < measured =>
                        ~Begun /\ g > (IF uart' = <<>> THEN h ELSE NextAt' - Origin - 1)
                    /\ b = measured /\ g = 0 =>
                        IF uart' = <<>> THEN phase + 1 = Parts ELSE NextAt' = Origin + Parts + 1
  BY <1>2, <1>3 DEF LeftOpen
<1>6. /\ b < measured => ~Begun /\ garbled > (IF uart = <<>> THEN Gone ELSE NextAt - Origin - 1)
      /\ b = measured /\ garbled = 0 =>
            IF uart = <<>> THEN phase = Parts ELSE NextAt = Origin + Parts + 1
  BY DEF ReadInv, LeftOpen
<1>7. ASSUME b < measured
      PROVE  g > (IF uart' = <<>> THEN h ELSE NextAt' - Origin - 1)
  <2> DEFINE n == NextAt'
  <2>1. CASE uart # <<>>
    <3>1. garbled > NextAt - Origin - 1 /\ n = NextAt /\ uart' # <<>> /\ NextAt \in Nat
      BY <1>5, <1>6, <1>7, <2>1
    <3>2. g = garbled \/ g = garbled + 1
      BY <1>2
    <3> HIDE DEF g, n
    <3>3. g > n - Origin - 1
      BY <3>1, <3>2, <1>1, <1>2
    <3> QED
      BY <3>1, <3>3 DEF n
  <2>2. CASE uart = <<>>
    <3>1. garbled > Gone
      BY <1>6, <1>7, <2>2
    <3>2. CASE Grown
      <4>1. uart' # <<>> /\ n = tick + 1
        BY <1>5, <2>2, <3>2
      <4>2. phase =< LastByte \/ (phase > LastByte /\ UNCHANGED uart)
        BY <1>2
      <4>3. phase =< LastByte /\ (g = garbled \/ g = garbled + 1)
        BY <4>1, <4>2, <1>2, <2>2
      <4> HIDE DEF g, n
      <4>4. g > n - Origin - 1
        BY <4>1, <4>3, <3>1, <1>1, <1>2
      <4> QED
        BY <4>1, <4>4 DEF n
    <3>3. CASE ~Grown
      <4>1. uart' = <<>>
        BY <3>3, <1>2, <2>2
      <4>2. \/ phase =< LastByte /\ g = garbled + 1
            \/ phase > LastByte /\ g = garbled
        BY <1>2, <3>3
      <4> HIDE DEF g, h
      <4>3. g > h
        BY <4>2, <3>1, <1>1, <1>2, <1>4
      <4> QED
        BY <4>1, <4>3
    <3> QED
      BY <3>2, <3>3
  <2> QED
    BY <2>1, <2>2
<1>8. ASSUME b = measured, g = 0
      PROVE  IF uart' = <<>> THEN phase + 1 = Parts ELSE NextAt' = Origin + Parts + 1
  <2>1. garbled = 0 /\ (phase =< LastByte => Grown) /\ (phase > LastByte => UNCHANGED uart)
    <3> HIDE DEF g
    <3>1. g # garbled + 1
      BY <1>2, <1>8
    <3>2. g = garbled
      BY <3>1, <1>2
    <3>3. (phase =< LastByte => Grown) /\ (phase > LastByte => UNCHANGED uart)
      BY <3>1, <1>1, <1>2
    <3> QED
      BY <3>2, <3>3, <1>8
  <2>2. CASE uart # <<>>
    BY <2>1, <2>2, <1>5, <1>6, <1>8
  <2>3. CASE uart = <<>>
    <3>1. phase = Parts
      BY <2>1, <2>3, <1>6, <1>8
    <3>2. Grown
      BY <3>1, <2>1, <1>1
    <3>3. uart' # <<>> /\ NextAt' = tick + 1
      BY <3>2, <2>3, <1>5
    <3>4. tick + 1 = Origin + Parts + 1
      BY <3>1, <1>1
    <3> QED
      BY <3>3, <3>4
  <2> QED
    BY <2>2, <2>3
<1> QED
  BY <1>6, <1>7, <1>8

LEMMA BurstOf == ASSUME NEW x \in Byte PROVE x.burst \in Nat
<1>1. CASE x = Nul
  BY <1>1 DEF Nul
<1>2. CASE x # Nul
  <2>1. x \in [burst : Bursts, sentence : 1 .. Unused + 1, part : 0 .. Parts]
    BY <1>2 DEF Byte
  <2>2. x.burst \in Bursts
    BY <2>1
  <2> QED
    BY <2>2, GpsNumbers DEF Bursts
<1> QED
  BY <1>1, <1>2

\* The next burst.
LEMMA WrapKeeps ==
  ASSUME GpsTypes, ReadInv, NextTick, ~(phase + 1 < PeriodNow)
  PROVE  ReadInv'
<1>1. /\ uart = <<>> /\ phase > LastByte /\ phase + 1 = PeriodNow
  BY AtWrap
<1>2. /\ tick = Origin + phase /\ Origin \in Int /\ phase \in Nat /\ tick \in Nat \ {0}
      /\ LastByte \in Nat /\ Parts =< LastByte /\ PeriodNow \in Nat /\ Gone \in Nat
      /\ LastByte + BurstGap + MaxLag =< PeriodNow
      /\ measured \in Bursts /\ measured \in Nat /\ Bursts \subseteq Nat
      /\ BurstGap \in Nat /\ MaxLag \in Nat /\ Parts \in Nat /\ BurstGap > 0
  BY Geometry, GpsNumbers DEF ReadInv, Bursts
<1>3. /\ phase' = 0 /\ measured' = measured + 1 /\ measured + 1 \in Bursts
      /\ Origin' = tick + 1 /\ tick' = tick + 1 /\ LastByte' = LastByte /\ PeriodNow' = PeriodNow
      /\ UNCHANGED <<uart, first, garbled, setup, assembly, since, heard, observed>>
      /\ garbled \in Nat
  BY <1>1, NextTickIs
<1>4. /\ previous_byte' = previous_byte /\ burst_start' = burst_start /\ text' = text
      /\ overflow' = overflow /\ since' = since /\ heard' = heard /\ observed' = observed
      /\ sentences' = sentences /\ fast' = fast /\ uart' = <<>> /\ garbled' = garbled
      /\ first' = first
  BY <1>1, <1>3 DEF assembly, setup
<1>5. previous_byte \in Nat /\ previous_byte =< tick
  BY DEF ReadInv, Silence, GpsTypes, GpsTypeOK
<1>6. ~Begun'
  <2>1. ~(tick + 1 < previous_byte)
    BY <1>2, <1>5
  <2> QED
    BY <2>1, <1>3, <1>4 DEF Begun
<1>7. Measuring'
  <2>1. phase' \in 0 .. PeriodNow' - 1 /\ tick' \in Nat \ {0}
    BY <1>1, <1>2, <1>3
  <2>2. Quiet'
    BY <1>4 DEF Quiet, ReadInv, Measuring
  <2> QED
    BY <2>1, <2>2, <1>3 DEF Measuring
<1>8. Len(uart') = 0
  BY <1>4
<1>9. AllTimely' /\ Increasing' /\ Continuous' /\ UpToNow' /\ FromThere'
  BY <1>4, <1>6, <1>8 DEF AllTimely, Increasing, Continuous, UpToNow, FromThere
<1>10. Silence'
  <2>1. previous_byte' =< tick'
    BY <1>2, <1>3, <1>4, <1>5
  <2>2. previous_byte # 0 => previous_byte + BurstGap =< tick + 2
    <3>1. CASE Begun
      <4>1. previous_byte =< Origin + LastByte + 1 + MaxLag
        BY <3>1 DEF ReadInv, Silence
      <4> QED
        BY <4>1, <1>1, <1>2, <1>5
    <3>2. CASE ~Begun /\ previous_byte # 0
      <4>1. previous_byte + BurstGap =< Origin + 1
        BY <3>2 DEF ReadInv, Silence
      <4> QED
        BY <4>1, <1>1, <1>2, <1>5
    <3> QED
      BY <3>1, <3>2
  <2>3. Origin' + 1 = tick + 2
    BY <1>2, <1>3
  <2> QED
    BY <2>1, <2>2, <2>3, <1>4, <1>6 DEF Silence
<1>11. Firsts'
  <2>1. \A b \in Bursts : measured + 1 =< b => first[b] = 0
    BY <1>2 DEF ReadInv, Firsts
  <2>2. first[measured + 1] = 0
    BY <2>1, <1>2, <1>3
  <2>3. \A b \in Bursts : measured + 1 < b => first[b] = 0
    BY <2>1, <1>2
  <2> QED
    BY <2>2, <2>3, <1>3, <1>4, <1>6 DEF Firsts
<1>12. StartKept'
  BY <1>6 DEF StartKept
<1>13. LineKept'
  BY <1>4 DEF ReadInv, LineKept
<1>14. HeardOnce'
  <2>1. heard \subseteq 1 .. measured /\ measured + 1 \notin heard
    BY <1>2 DEF ReadInv, HeardOnce
  <2>2. \A i \in 1 .. Len(since) : since[i].burst =< measured + 1
    <3> TAKE i \in 1 .. Len(since)
    <3>1. since[i].burst =< measured
      BY DEF ReadInv, HeardOnce
    <3>2. since[i].burst \in Nat
      <4>1. since[i] \in Byte
        BY ElementOfSeq DEF GpsTypes, GpsTypeOK
      <4> QED
        BY <4>1, BurstOf
    <3> QED
      BY <3>1, <3>2, <1>2
  <2>3. heard \subseteq 1 .. measured + 1
    BY <2>1, <1>2
  <2> QED
    BY <2>1, <2>2, <2>3, <1>3, <1>4 DEF HeardOnce
<1>15. LeftOpen'
  <2>1. Gone' = 0
    BY <1>2, <1>3 DEF Gone, AtMost
  <2>2. ASSUME NEW b \in Bursts, since = Rmc(b)
        PROVE  b < measured + 1 /\ garbled > 0
    <3>1. ~(measured < b) /\ b \in Nat
      BY <2>2, NoneLater, RmcIs
    <3>2. CASE b < measured
      <4>1. garbled > Gone
        BY <3>2, <2>2, <1>1 DEF ReadInv, LeftOpen
      <4> QED
        BY <4>1, <3>2, <3>1, <1>2, <1>3
    <3>3. CASE b = measured
      <4>1. garbled = 0 => phase = Parts
        BY <3>3, <2>2, <1>1 DEF ReadInv, LeftOpen
      <4>2. phase # Parts
        BY <1>1, <1>2
      <4>3. garbled > 0
        BY <4>1, <4>2, <1>3
      <4> QED
        BY <4>3, <3>3, <1>2
    <3> QED
      BY <3>1, <3>2, <3>3, <1>2
  <2>3. ASSUME NEW b \in Bursts, since = Rmc(b)
        PROVE  b # measured + 1 /\ garbled > 0
    <3>1. b < measured + 1 /\ garbled > 0 /\ b \in Nat
      BY <2>2, <2>3, RmcIs
    <3> QED
      BY <3>1, <1>2
  <2> QED
    BY <2>1, <2>3, <1>3, <1>4, <1>6 DEF LeftOpen
<1>16. ObservedAtItsStart'
  BY <1>4 DEF ReadInv, ObservedAtItsStart
<1> QED
  BY <1>7, <1>9, <1>10, <1>11, <1>12, <1>13, <1>14, <1>15, <1>16 DEF ReadInv

LEMMA NextTickKeeps ==
  ASSUME GpsTypes, ReadInv, NextTick
  PROVE  ReadInv'
<1>1. CASE ~(phase + 1 < PeriodNow)
  BY <1>1, WrapKeeps
<1>2. CASE phase + 1 < PeriodNow
  <2>1. phase \in Nat /\ PeriodNow \in Nat
    BY Geometry DEF ReadInv
  <2>2. phase' = phase + 1 /\ measured' = measured
    BY <1>2 DEF NextTick, PeriodNow
  <2>3. phase' # 0
    BY <2>1, <2>2
  <2>4. /\ Origin' = Origin
        /\ \/ phase =< LastByte /\ Grown
           \/ phase =< LastByte /\ UNCHANGED uart
           \/ phase > LastByte /\ UNCHANGED uart
    BY <2>3, NextTickIs
  <2>5. Grown \/ UNCHANGED uart
    BY <2>4
  <2>6. Grown => phase =< LastByte
    <3> SUFFICES ASSUME Grown, UNCHANGED uart PROVE FALSE
      BY <2>4
    <3>1. Len(uart') = Len(uart) + 1 /\ Len(uart) \in Nat
      BY GrownIs, UartTyped
    <3> QED
      BY <3>1
  <2>7. AllTimely'
    BY <2>2, <2>4, <2>5, <2>6, TimelyNext
  <2>8. Increasing'
    BY <2>5, OrderNext
  <2>9. Continuous' /\ UpToNow' /\ FromThere'
    BY <2>2, <2>4, LossesNext
  <2>10. /\ Measuring' /\ Silence' /\ Firsts' /\ StartKept' /\ LineKept' /\ HeardOnce'
         /\ ObservedAtItsStart'
    BY <1>2, <2>2, <2>4, ReaderNext
  <2>11. LeftOpen'
    BY <2>2, <2>4, LeftOpenNext
  <2> QED
    BY <2>7, <2>8, <2>9, <2>10, <2>11 DEF ReadInv
<1> QED
  BY <1>1, <1>2

(***************************************************************************)
(* Reading a byte keeps the invariant.                                      *)
(***************************************************************************)
\* The byte that is read, and what is left.
LEMMA TakeIs ==
  ASSUME GpsTypes, ReadInv, Take, Others
  PROVE  /\ Len(uart) \in Nat \ {0} /\ uart # <<>> /\ Len(uart') = Len(uart) - 1
         /\ \A k \in 1 .. Len(uart) - 1 : uart'[k] = uart[k + 1] /\ k + 1 \in 1 .. Len(uart)
         /\ Head(uart) = uart[1] /\ Head(uart).byte \in Byte
         /\ Head(uart).byte = Nul \/ Head(uart).byte = ByteAt(NextAt - Origin - 1)
         /\ NextAt \in Nat /\ Origin < NextAt /\ NextAt =< tick /\ tick =< NextAt + MaxLag
         /\ NextAt =< Origin + LastByte + 1
         /\ uart' # <<>> <=> Len(uart) > 1
         /\ UNCHANGED <<tick, phase, measured, garbled, first, sentences, fast, stage>>
         /\ previous_byte' = tick
<1>1. /\ Head(uart) \in [byte : Byte, at : Nat] /\ Head(uart) = uart[1]
      /\ uart' = Tail(uart) /\ previous_byte' = tick /\ Len(uart) \in Nat \ {0}
      /\ uart \in Seq([byte : Byte, at : Nat])
  BY TakeTypes DEF GpsTypes, GpsTypeOK
<1>2. ASSUME NEW S, NEW q \in Seq(S), Len(q) \in Nat \ {0}
      PROVE  /\ Len(Tail(q)) = Len(q) - 1
             /\ \A k \in 1 .. Len(q) - 1 : Tail(q)[k] = q[k + 1] /\ k + 1 \in 1 .. Len(q)
             /\ Tail(q) # <<>> <=> Len(q) > 1
             /\ q # <<>>
  <2>1. q # <<>>
    BY <1>2
  <2>2. Tail(q) \in Seq(S) /\ Len(Tail(q)) = Len(q) - 1
    BY <1>2, <2>1
  <2>3. Tail(q) # <<>> <=> Len(Tail(q)) > 0
    <3> DEFINE t == Tail(q)
    <3>1. t \in Seq(S)
      BY <2>2
    <3> HIDE DEF t
    <3>2. t # <<>> <=> Len(t) > 0
      BY <3>1
    <3> QED
      BY <3>2 DEF t
  <2>4. \A k \in 1 .. Len(q) - 1 : k + 1 \in 1 .. Len(q)
    BY <1>2
  <2>5. \A k \in 1 .. Len(q) - 1 : Tail(q)[k] = q[k + 1]
    BY <1>2, <2>1
  <2>6. Len(q) - 1 > 0 <=> Len(q) > 1
    BY <1>2
  <2> QED
    BY <2>1, <2>2, <2>3, <2>4, <2>5, <2>6
<1>3. /\ Len(uart') = Len(uart) - 1
      /\ \A k \in 1 .. Len(uart) - 1 : uart'[k] = uart[k + 1] /\ k + 1 \in 1 .. Len(uart)
      /\ uart' # <<>> <=> Len(uart) > 1
      /\ uart # <<>>
  BY <1>1, <1>2
<1>4. Timely(uart[1])
  <2>1. 1 \in 1 .. Len(uart)
    BY <1>1
  <2> QED
    BY <2>1 DEF ReadInv, AllTimely
<1>5. /\ UNCHANGED <<tick, phase, measured, garbled, first, sentences, fast, stage>>
  BY DEF Others, setup, receiver
<1>6. Head(uart).byte \in Byte /\ uart[1].at \in Nat
  BY <1>1
<1>7. /\ uart[1].byte = Nul \/ uart[1].byte = ByteAt(NextAt - Origin - 1)
      /\ Origin < NextAt /\ NextAt =< tick /\ tick =< NextAt + MaxLag
      /\ NextAt =< Origin + LastByte + 1
  BY <1>4 DEF Timely, NextAt
<1> QED
  BY <1>1, <1>3, <1>5, <1>6, <1>7 DEF NextAt

\* What the stream looks like from the origin does not change.
LEMMA TakeSame ==
  ASSUME GpsTypes, ReadInv, Take, Others
  PROVE  /\ Origin' = Origin /\ LastByte' = LastByte /\ PeriodNow' = PeriodNow
         /\ Gone' = Gone /\ Opening' = Opening /\ Begun'
<1>1. UNCHANGED <<tick, phase, measured, sentences, fast>> /\ previous_byte' = tick
  BY TakeIs
<1>2. Origin' = Origin /\ LastByte' = LastByte /\ PeriodNow' = PeriodNow
  BY <1>1 DEF Origin, LastByte, PeriodNow
<1>3. Gone' = Gone /\ Opening' = Opening
  BY <1>1, <1>2 DEF Gone, Opening
<1>4. tick # 0 /\ Origin < tick
  <2>1. Origin < NextAt /\ NextAt =< tick /\ NextAt \in Nat
    BY TakeIs
  <2> QED
    BY <2>1, Geometry DEF ReadInv
<1>5. Begun'
  BY <1>1, <1>2, <1>4 DEF Begun
<1> QED
  BY <1>2, <1>3, <1>5

\* The first byte that is read of a burst, and only that one, is seen as its start.
LEMMA StartIs ==
  ASSUME GpsTypes, ReadInv, Take, Others
  PROVE  /\ Start \in Nat /\ first[measured] # 0
         /\ IF Start = 0 THEN measured \in heard ELSE Start - first[measured] \in 0 .. MaxLag
<1>1. /\ NextAt \in Nat /\ Origin < NextAt /\ NextAt =< tick /\ tick =< NextAt + MaxLag
      /\ uart # <<>>
  BY TakeIs
<1>2. /\ tick \in Nat \ {0} /\ Origin \in Int /\ previous_byte \in Nat
      /\ MaxLag \in Nat /\ BurstGap \in Nat /\ garbled \in Nat /\ MaxGarbled \in Nat
      /\ garbled =< MaxGarbled /\ 1 + MaxGarbled + MaxLag < BurstGap
  BY Geometry, GpsNumbers DEF ReadInv, GpsTypes, GpsTypeOK
<1>3. first[measured] # 0
  BY <1>1 DEF ReadInv, Firsts
<1>4. CASE Begun
  <2>1. NextAt =< previous_byte + 1 + garbled /\ previous_byte # 0
    BY <1>1, <1>4 DEF ReadInv, FromThere, Begun
  <2>2. ~starts_new_burst(tick, previous_byte)
    BY <2>1, <1>1, <1>2 DEF starts_new_burst
  <2>3. Start = burst_start
    BY <2>2 DEF Start
  <2> QED
    BY <2>3, <1>3, <1>4, StartTyped DEF ReadInv, StartKept
<1>5. CASE ~Begun
  <2>1. previous_byte # 0 => previous_byte + BurstGap =< Origin + 1
    BY <1>5 DEF ReadInv, Silence
  <2>2. starts_new_burst(tick, previous_byte)
    BY <2>1, <1>1, <1>2 DEF starts_new_burst
  <2>3. Start = tick
    BY <2>2 DEF Start
  <2>4. first[measured] = NextAt
    BY <1>1, <1>5 DEF ReadInv, Firsts
  <2>5. tick - NextAt \in 0 .. MaxLag
    BY <1>1, <1>2
  <2> QED
    BY <2>3, <2>4, <2>5, <1>2, <1>3
<1> QED
  BY <1>4, <1>5

LEMMA TakeKeeps ==
  ASSUME GpsTypes, ReadInv, Take, Others
  PROVE  /\ Measuring' /\ AllTimely' /\ Increasing' /\ Continuous' /\ UpToNow' /\ FromThere'
         /\ Silence' /\ Firsts'
<1>1. /\ Len(uart) \in Nat \ {0} /\ uart # <<>> /\ Len(uart') = Len(uart) - 1
      /\ \A k \in 1 .. Len(uart) - 1 : uart'[k] = uart[k + 1] /\ k + 1 \in 1 .. Len(uart)
      /\ NextAt \in Nat /\ Origin < NextAt /\ NextAt =< tick /\ tick =< NextAt + MaxLag
      /\ NextAt =< Origin + LastByte + 1
      /\ uart' # <<>> <=> Len(uart) > 1
      /\ UNCHANGED <<tick, phase, measured, garbled, first, sentences, fast>>
      /\ previous_byte' = tick
  BY TakeIs
<1>2. /\ Origin' = Origin /\ LastByte' = LastByte /\ PeriodNow' = PeriodNow
      /\ Gone' = Gone /\ Begun'
  BY TakeSame
<1>3. /\ tick \in Nat /\ Origin \in Int /\ Gone \in Nat /\ tick = Origin + phase /\ Gone =< phase
      /\ phase \in Nat /\ garbled \in Nat /\ MaxLag \in Nat /\ LastByte \in Nat
      /\ \A k \in 1 .. Len(uart) : uart[k].at \in Nat
  <2>1. /\ tick \in Nat /\ Origin \in Int /\ Gone \in Nat /\ tick = Origin + phase
        /\ Gone =< phase /\ phase \in Nat /\ LastByte \in Nat
    BY Geometry DEF ReadInv
  <2>2. garbled \in Nat /\ MaxLag \in Nat
    BY GpsNumbers DEF GpsTypes, GpsTypeOK
  <2>3. \A k \in 1 .. Len(uart) : uart[k].at \in Nat
    BY UartTyped
  <2> QED
    BY <2>1, <2>2, <2>3
<1>4. Measuring'
  BY <1>1, <1>2 DEF ReadInv, Measuring, Quiet
<1>5. AllTimely'
  <2> SUFFICES ASSUME NEW k \in 1 .. Len(uart) - 1 PROVE Timely(uart[k])'
    BY <1>1 DEF AllTimely
  <2> DEFINE r == uart[k + 1]
  <2>1. uart'[k] = r
    BY <1>1
  <2>2. Timely(r)
    BY <1>1 DEF ReadInv, AllTimely
  <2>3. /\ Origin < r.at /\ r.at =< Origin + LastByte + 1
        /\ r.at =< tick /\ tick =< r.at + MaxLag
        /\ r.byte = Nul \/ r.byte = ByteAt(r.at - Origin - 1)
    BY <2>2 DEF Timely
  <2> HIDE DEF r
  <2> QED
    BY <2>1, <2>3, <1>1, <1>2 DEF Timely, ByteAt
<1>6. Increasing'
  <2> SUFFICES ASSUME NEW j \in 1 .. Len(uart) - 1, NEW k \in 1 .. Len(uart) - 1, j < k
               PROVE  uart'[j].at < uart'[k].at
    BY <1>1 DEF Increasing
  <2>1. j + 1 \in 1 .. Len(uart) /\ k + 1 \in 1 .. Len(uart) /\ j + 1 < k + 1
    BY <1>1
  <2> QED
    BY <2>1, <1>1 DEF ReadInv, Increasing
<1>7. Continuous'
  <2> SUFFICES ASSUME NEW k \in 1 .. (Len(uart) - 1) - 1
               PROVE  uart'[k + 1].at =< uart'[k].at + 1 + garbled
    BY <1>1 DEF Continuous
  <2>1. k \in 1 .. Len(uart) - 1 /\ k + 1 \in 1 .. Len(uart) - 1
    BY <1>1
  <2> QED
    BY <2>1, <1>1 DEF ReadInv, Continuous
<1>8. UpToNow'
  <2>1. uart' # <<>> => LastAt' = LastAt
    <3> SUFFICES ASSUME Len(uart) > 1 PROVE LastAt' = LastAt
      BY <1>1
    <3>1. Len(uart) - 1 \in 1 .. Len(uart) - 1 /\ (Len(uart) - 1) + 1 = Len(uart)
      BY <1>1
    <3>2. uart'[Len(uart) - 1] = uart[Len(uart)]
      BY <3>1, <1>1
    <3> QED
      BY <3>2, <1>1 DEF LastAt
  <2>2. Origin + Gone =< tick + garbled
    BY <1>3
  <2> QED
    BY <2>1, <2>2, <1>1, <1>2 DEF ReadInv, UpToNow
<1>9. FromThere'
  <2> SUFFICES ASSUME Len(uart) > 1 PROVE uart'[1].at =< tick + 1 + garbled
    BY <1>1 DEF FromThere, NextAt
  <2>1. 1 \in 1 .. Len(uart) - 1 /\ 1 + 1 = 2 /\ 2 \in 1 .. Len(uart)
    BY <1>1
  <2>2. uart'[1] = uart[2] /\ uart[2].at =< uart[1].at + 1 + garbled
    BY <2>1, <1>1 DEF ReadInv, Continuous
  <2>3. uart[1].at =< tick /\ uart[1].at \in Nat /\ uart[2].at \in Nat
    BY <2>1, <1>1, <1>3 DEF NextAt
  <2> QED
    BY <2>2, <2>3, <1>3
<1>10. Silence'
  <2>1. tick =< Origin + LastByte + 1 + MaxLag /\ tick =< tick
    BY <1>1, <1>3
  <2> QED
    BY <2>1, <1>1, <1>2 DEF Silence
<1>11. Firsts'
  <2>1. first[measured] # 0
    BY StartIs
  <2> QED
    BY <2>1, <1>1, <1>2 DEF ReadInv, Firsts
<1> QED
  BY <1>4, <1>5, <1>6, <1>7, <1>8, <1>9, <1>10, <1>11

LEMMA TextKeeps ==
  ASSUME GpsTypes, ReadInv, Text
  PROVE  ReadInv'
<1> DEFINE x == Head(uart).byte
<1>1. /\ Take /\ Others /\ UNCHANGED <<heard, observed>> /\ burst_start' = Start
      /\ text' = IF Fits(x) THEN Append(text, x) ELSE text
      /\ overflow' = (overflow \/ ~Fits(x))
      /\ since' = Append(since, x)
  BY DEF Text
<1>2. /\ Measuring' /\ AllTimely' /\ Increasing' /\ Continuous' /\ UpToNow' /\ FromThere'
      /\ Silence' /\ Firsts'
  BY <1>1, TakeKeeps
<1>3. /\ Origin' = Origin /\ Gone' = Gone /\ Opening' = Opening /\ Begun'
      /\ UNCHANGED <<tick, phase, measured, garbled, first>>
  BY <1>1, TakeSame, TakeIs
<1>4. x \in Byte /\ (x = Nul \/ x = ByteAt(NextAt - Origin - 1)) /\ x = uart[1].byte
  BY <1>1, TakeIs
<1>5. /\ NextAt \in Nat /\ Origin < NextAt /\ Origin \in Int /\ NextAt - Origin - 1 \in Nat
      /\ measured \in Nat \ {0}
  <2>1. NextAt \in Nat /\ Origin < NextAt /\ Origin \in Int /\ measured \in Nat \ {0}
    BY <1>1, TakeIs, Geometry DEF ReadInv
  <2> QED
    BY <2>1
<1>6. since \in Seq(Byte) /\ text \in Seq(Byte) /\ Len(text) \in Nat /\ Len(since) \in Nat
  BY DEF GpsTypes, GpsTypeOK
<1> HIDE DEF x
<1>7. /\ Len(since') = Len(since) + 1 /\ since'[Len(since) + 1] = x
      /\ \A i \in 1 .. Len(since) : since'[i] = since[i]
      /\ since' \in Seq(Byte)
  <2>1. ASSUME NEW S, NEW q \in Seq(S), NEW y \in S
        PROVE  /\ Len(Append(q, y)) = Len(q) + 1 /\ Append(q, y) \in Seq(S)
               /\ \A k \in 1 .. Len(q) : Append(q, y)[k] = q[k]
               /\ Append(q, y)[Len(q) + 1] = y
    OBVIOUS
  <2> QED
    BY <2>1, <1>1, <1>4, <1>6
<1>8. StartKept'
  <2>1. IF Start = 0 THEN measured \in heard ELSE Start - first[measured] \in 0 .. MaxLag
    BY <1>1, StartIs
  <2> QED
    BY <2>1, <1>1, <1>3 DEF StartKept
<1>9. LineKept'
  <2>1. ASSUME ~overflow' PROVE text' = since'
    BY <1>1, <2>1 DEF ReadInv, LineKept
  <2>2. ASSUME overflow'
        PROVE  LineMax < Len(since') \/ \E i \in 1 .. Len(since') : since'[i] = Nul
    <3>1. CASE \E i \in 1 .. Len(since) : since[i] = Nul
      <4>1. PICK i \in 1 .. Len(since) : since[i] = Nul
        BY <3>1
      <4>2. i \in 1 .. Len(since') /\ since'[i] = Nul
        BY <4>1, <1>6, <1>7
      <4> QED
        BY <4>2
    <3>2. CASE x = Nul
      <4>1. Len(since) + 1 \in 1 .. Len(since')
        BY <1>6, <1>7
      <4> QED
        BY <4>1, <3>2, <1>7
    <3>3. CASE ~(\E i \in 1 .. Len(since) : since[i] = Nul) /\ x # Nul
      <4>1. overflow => LineMax < Len(since)
        BY <3>3 DEF ReadInv, LineKept
      <4>2. ~overflow => text = since /\ ~(Len(text) < LineMax)
        BY <3>3, <2>2, <1>1 DEF Fits, ReadInv, LineKept
      <4>3. LineMax =< Len(since)
        BY <4>1, <4>2, <1>6, GpsNumbers
      <4>4. LineMax < Len(since) + 1
        BY <4>3, <1>6, GpsNumbers
      <4> QED
        BY <4>4, <1>7
    <3> QED
      BY <3>1, <3>2, <3>3
  <2> QED
    BY <2>1, <2>2 DEF LineKept
<1>10. HeardOnce'
  <2>1. x.burst =< measured
    BY <1>4, <1>5, PlaceOf DEF ReadInv, Nul
  <2>2. ASSUME NEW i \in 1 .. Len(since')
        PROVE  since'[i].burst =< measured
    <3>1. CASE i \in 1 .. Len(since)
      BY <3>1, <1>7 DEF ReadInv, HeardOnce
    <3>2. CASE i = Len(since) + 1
      BY <3>2, <2>1, <1>7
    <3> QED
      BY <3>1, <3>2, <1>6, <1>7
  <2>3. ASSUME measured \in heard
        PROVE  /\ \A i \in 1 .. Len(since') : since'[i] # Opening
               /\ \A k \in 1 .. Len(uart') : uart'[k].byte # Opening
    <3>1. /\ \A i \in 1 .. Len(since) : since[i] # Opening
          /\ \A k \in 1 .. Len(uart) : uart[k].byte # Opening
      BY <2>3 DEF ReadInv, HeardOnce
    <3>2. x # Opening
      <4>1. 1 \in 1 .. Len(uart)
        BY <1>1, TakeIs
      <4> QED
        BY <4>1, <3>1, <1>4
    <3>3. ASSUME NEW i \in 1 .. Len(since') PROVE since'[i] # Opening
      <4>1. CASE i \in 1 .. Len(since)
        BY <4>1, <3>1, <1>7
      <4>2. CASE i = Len(since) + 1
        BY <4>2, <3>2, <1>7
      <4> QED
        BY <4>1, <4>2, <1>6, <1>7
    <3>4. ASSUME NEW k \in 1 .. Len(uart') PROVE uart'[k].byte # Opening
      <4>1. k \in 1 .. Len(uart) - 1
        BY <1>1, TakeIs
      <4> QED
        BY <4>1, <3>1, <1>1, TakeIs
    <3> QED
      BY <3>3, <3>4
  <2> QED
    BY <2>2, <2>3, <1>1, <1>3 DEF ReadInv, HeardOnce
<1>11. LeftOpen'
  <2> SUFFICES ASSUME NEW b \in Bursts, since' = Rmc(b)
               PROVE  /\ b = measured
                      /\ garbled = 0 =>
                           IF uart' = <<>> THEN phase = Parts ELSE NextAt' = Origin + Parts + 1
    <3>1. measured \in Nat
      BY <1>5
    <3> QED
      BY <3>1, <1>3 DEF LeftOpen
  <2>1. x = [burst |-> b, sentence |-> 1, part |-> Parts] /\ x # Nul /\ x.burst = b
    <3>1. Len(Rmc(b)) = Parts /\ Parts \in 1 .. Parts
      BY RmcIs, GpsNumbers
    <3>2. Parts = Len(since) + 1
      BY <3>1, <1>7
    <3>3. x = Rmc(b)[Parts]
      BY <3>2, <1>7
    <3>4. Rmc(b)[Parts] = [burst |-> b, sentence |-> 1, part |-> Parts] /\ Rmc(b)[Parts] # Nul
      BY <3>1, RmcIs
    <3>5. x.burst = b
      BY <3>3, <3>4
    <3> QED
      BY <3>3, <3>4, <3>5
  <2> DEFINE p == NextAt - Origin - 1
  <2>2. x = ByteAt(p) /\ p \in Nat
    BY <2>1, <1>4, <1>5
  <2>3. x.sentence = 1 /\ x.part = Parts
    BY <2>1
  <2> HIDE DEF p
  <2>4. b = measured /\ p = Parts - 1
    BY <2>1, <2>2, <2>3, PlaceOf DEF ReadInv
  <2>5. NextAt = Origin + Parts
    BY <2>4, <1>5, GpsNumbers DEF p
  <2>6. ASSUME garbled = 0, uart' = <<>> PROVE phase = Parts
    <3>1. Len(uart) = 1
      BY <2>6, <1>1, TakeIs
    <3>2. LastAt = NextAt
      BY <3>1 DEF LastAt, NextAt
    <3>3. Origin + Gone =< LastAt + garbled
      BY <1>1, TakeIs DEF ReadInv, UpToNow
    <3>4. NextAt =< tick
      BY <1>1, TakeIs
    <3>5. /\ tick = Origin + phase /\ Origin \in Int /\ phase \in Nat /\ LastByte \in Nat
          /\ Parts =< LastByte /\ Gone \in Nat
          /\ phase =< LastByte => Gone = phase
          /\ phase > LastByte => Gone = LastByte + 1
      BY Geometry DEF ReadInv
    <3> QED
      BY <2>5, <2>6, <3>2, <3>3, <3>4, <3>5, GpsNumbers
  <2>7. ASSUME garbled = 0, uart' # <<>> PROVE NextAt' = Origin + Parts + 1
    <3>1. Len(uart) > 1 /\ Len(uart) \in Nat
      BY <2>7, <1>1, TakeIs
    <3>2. 1 \in 1 .. Len(uart) - 1 /\ 1 + 1 = 2 /\ 1 \in 1 .. Len(uart) /\ 2 \in 1 .. Len(uart)
      BY <3>1
    <3>3. uart'[1] = uart[2]
      BY <3>2, <1>1, TakeIs
    <3>4. uart[2].at =< uart[1].at + 1 + garbled /\ uart[1].at < uart[2].at
      BY <3>2 DEF ReadInv, Continuous, Increasing
    <3>5. uart[2].at \in Nat /\ uart[1].at \in Nat
      BY <3>2, UartTyped
    <3>6. uart[2].at = Origin + Parts + 1
      BY <3>4, <3>5, <2>5, <2>7, <1>5, GpsNumbers DEF NextAt
    <3> QED
      BY <3>3, <3>6 DEF NextAt
  <2> QED
    BY <2>4, <2>6, <2>7
<1>12. ObservedAtItsStart'
  BY <1>1, <1>3 DEF ReadInv, ObservedAtItsStart
<1> QED
  BY <1>2, <1>8, <1>9, <1>10, <1>11, <1>12 DEF ReadInv

\* What is parsed is what was sent.
LEMMA ParsedIs ==
  ASSUME GpsTypes, ReadInv, NEW b \in Bursts
  PROVE  Parsed(b) <=> since = Rmc(b)
<1>1. ASSUME overflow PROVE since # Rmc(b)
  <2>1. LineMax < Len(since) \/ \E i \in 1 .. Len(since) : since[i] = Nul
    BY <1>1 DEF ReadInv, LineKept
  <2>2. Len(Rmc(b)) = Parts /\ \A i \in 1 .. Parts : Rmc(b)[i] # Nul
    BY RmcIs
  <2>3. ~(LineMax < Parts)
    BY GpsNumbers
  <2> QED
    BY <2>1, <2>2, <2>3
<1>2. ASSUME ~overflow PROVE text = since
  BY <1>2 DEF ReadInv, LineKept
<1> QED
  BY <1>1, <1>2 DEF Parsed

\* The newline that ends an RMC sentence is of its own burst.
LEMMA OwnNewline ==
  ASSUME GpsTypes, ReadInv, Sentence, NEW b \in Bursts, since = Rmc(b)
  PROVE  b = measured
<1>1. Take /\ Others /\ Head(uart).byte # Nul /\ Head(uart).byte.part = 0
  BY DEF Sentence
<1> DEFINE p == NextAt - Origin - 1
<1>2. Head(uart).byte = ByteAt(p) /\ uart # <<>>
  BY <1>1, TakeIs
<1>3. /\ p \in Nat
  <2>1. NextAt \in Nat /\ Origin < NextAt /\ Origin \in Int
    BY <1>1, TakeIs, Geometry DEF ReadInv
  <2> QED
    BY <2>1
<1>4. Parts =< p
  <2> HIDE DEF p
  <2> QED
    BY <1>1, <1>2, <1>3, PlaceOf DEF ReadInv
<1>5. b < measured => garbled > p
  BY <1>2 DEF ReadInv, LeftOpen
<1>6. garbled \in Nat /\ garbled =< Parts /\ Parts \in Nat
  <2>1. garbled \in Nat /\ garbled =< MaxGarbled
    BY GpsNumbers DEF GpsTypes, GpsTypeOK
  <2> QED
    BY <2>1, GpsNumbers
<1>7. ~(b < measured)
  <2> HIDE DEF p
  <2> QED
    BY <1>3, <1>4, <1>5, <1>6
<1>8. ~(measured < b) /\ b \in Nat /\ measured \in Nat
  BY NoneLater, RmcIs DEF GpsTypes, GpsTypeOK
<1> QED
  BY <1>7, <1>8

\* And it is heard for the first time.
LEMMA NotYetHeard ==
  ASSUME GpsTypes, ReadInv, measured \in Bursts, since = Rmc(measured)
  PROVE  measured \notin heard
<1>1. 1 \in 1 .. Len(since) /\ since[1] = Opening
  <2>1. Len(Rmc(measured)) = Parts /\ 1 \in 1 .. Parts
    BY RmcIs, GpsNumbers
  <2>2. Rmc(measured)[1] = Opening
    BY <2>1, RmcIs DEF Opening
  <2> QED
    BY <2>1, <2>2
<1> QED
  BY <1>1 DEF ReadInv, HeardOnce

LEMMA SentenceKeeps ==
  ASSUME GpsTypes, ReadInv, Sentence
  PROVE  ReadInv'
<1>1. /\ Take /\ Others /\ text' = <<>> /\ overflow' = FALSE /\ since' = <<>>
      /\ heard' = heard \cup {b \in Bursts : since = Rmc(b)}
      /\ IF Start # 0 /\ \E b \in Bursts : Parsed(b)
         THEN /\ observed' = [b \in Bursts |->
                    IF Parsed(b) THEN Append(observed[b], Start) ELSE observed[b]]
              /\ burst_start' = 0
         ELSE burst_start' = Start /\ UNCHANGED observed
  BY DEF Sentence
<1>2. /\ Measuring' /\ AllTimely' /\ Increasing' /\ Continuous' /\ UpToNow' /\ FromThere'
      /\ Silence' /\ Firsts'
  BY <1>1, TakeKeeps
<1>3. /\ Origin' = Origin /\ Opening' = Opening /\ Begun'
      /\ UNCHANGED <<tick, phase, measured, garbled, first>>
  BY <1>1, TakeSame, TakeIs
<1>4. /\ Start \in Nat
      /\ IF Start = 0 THEN measured \in heard ELSE Start - first[measured] \in 0 .. MaxLag
  BY <1>1, StartIs
<1>5. measured \in Bursts /\ measured \in Nat \ {0}
  BY Geometry DEF ReadInv
<1>6. \A b \in Bursts : Parsed(b) <=> (b = measured /\ since = Rmc(measured))
  BY ParsedIs, OwnNewline
<1>7. heard' = heard \cup (IF since = Rmc(measured) THEN {measured} ELSE {})
  <2>1. \A b \in Bursts : since = Rmc(b) <=> (b = measured /\ since = Rmc(measured))
    BY OwnNewline
  <2> QED
    BY <2>1, <1>1, <1>5
<1>8. since = Rmc(measured) => Start # 0 /\ measured \notin heard
  BY <1>4, <1>5, NotYetHeard
<1>9. StartKept'
  <2>1. CASE since = Rmc(measured)
    <3>1. burst_start' = 0
      BY <2>1, <1>1, <1>5, <1>6, <1>8
    <3>2. measured' \in heard'
      BY <2>1, <1>3, <1>7
    <3> QED
      BY <3>1, <3>2 DEF StartKept
  <2>2. CASE since # Rmc(measured)
    <3>1. burst_start' = Start /\ heard' = heard
      BY <2>2, <1>1, <1>6, <1>7
    <3> QED
      BY <3>1, <1>3, <1>4 DEF StartKept
  <2> QED
    BY <2>1, <2>2
<1>10. Len(since') = 0
  BY <1>1
<1>11. LineKept'
  BY <1>1 DEF LineKept
<1>12. HeardOnce'
  <2>1. heard' \subseteq 1 .. measured
    BY <1>5, <1>7 DEF ReadInv, HeardOnce
  <2>2. ASSUME measured \in heard', NEW k \in 1 .. Len(uart')
        PROVE  uart'[k].byte # Opening
    <3>1. k \in 1 .. Len(uart) - 1 /\ uart'[k] = uart[k + 1] /\ k + 1 \in 1 .. Len(uart)
          /\ Len(uart) \in Nat /\ 1 \in 1 .. Len(uart) /\ 1 < k + 1
      BY <1>1, TakeIs
    <3>2. CASE measured \in heard
      BY <3>1, <3>2 DEF ReadInv, HeardOnce
    <3>3. CASE measured \notin heard
      <4> DEFINE p == uart[k + 1].at - Origin - 1
      <4>1. uart[1].at < uart[k + 1].at /\ Timely(uart[k + 1])
        BY <3>1 DEF ReadInv, Increasing, AllTimely
      <4>2. uart[k + 1].byte = Nul \/ uart[k + 1].byte = ByteAt(p)
        BY <4>1 DEF Timely
      <4>3. p \in Nat /\ p # 0
        <5>1. Origin < uart[1].at /\ uart[1].at \in Nat /\ uart[k + 1].at \in Nat /\ Origin \in Int
          BY <3>1, <1>1, TakeIs, UartTyped, Geometry DEF ReadInv, NextAt
        <5> QED
          BY <5>1, <4>1
      <4> HIDE DEF p
      <4>4. ByteAt(p) # Opening
        BY <4>3, PlaceOf DEF ReadInv
      <4>5. Nul # Opening
        <5>1. Nul.burst = 0 /\ Opening.burst = measured /\ measured # 0
          BY <1>5 DEF Nul, Opening
        <5> QED
          BY <5>1
      <4> QED
        BY <3>1, <4>2, <4>4, <4>5
    <3> QED
      BY <3>2, <3>3
  <2> QED
    BY <2>1, <2>2, <1>3, <1>10 DEF HeardOnce
<1>13. LeftOpen'
  BY <1>1, RmcIs DEF LeftOpen
<1>14. ObservedAtItsStart'
  <2>1. ASSUME since # Rmc(measured) PROVE ObservedAtItsStart'
    <3>1. heard' = heard /\ observed' = observed /\ first' = first
      BY <2>1, <1>1, <1>3, <1>6, <1>7
    <3> QED
      BY <3>1 DEF ReadInv, ObservedAtItsStart
  <2>2. ASSUME since = Rmc(measured) PROVE ObservedAtItsStart'
    <3>1. /\ observed' = [b \in Bursts |->
                IF b = measured THEN Append(observed[b], Start) ELSE observed[b]]
      BY <2>2, <1>1, <1>5, <1>6, <1>8
    <3>2. heard' = heard \cup {measured} /\ first' = first /\ measured \notin heard
      BY <2>2, <1>3, <1>7, <1>8
    <3>3. ASSUME NEW b \in Bursts
          PROVE  IF b \in heard'
                 THEN Len(observed'[b]) = 1 /\ observed'[b][1] - first'[b] \in 0 .. MaxLag
                 ELSE observed'[b] = <<>>
      <4>1. CASE b = measured
        <5>1. observed[b] = <<>>
          BY <4>1, <3>2, <1>5 DEF ReadInv, ObservedAtItsStart
        <5>2. observed'[b] = Append(<<>>, Start)
          BY <4>1, <3>1, <5>1
        <5>3. Len(Append(<<>>, Start)) = 1 /\ Append(<<>>, Start)[1] = Start
          OBVIOUS
        <5> QED
          BY <4>1, <5>2, <5>3, <3>2, <1>4, <1>8, <2>2
      <4>2. CASE b # measured
        <5>1. observed'[b] = observed[b] /\ (b \in heard' <=> b \in heard)
          BY <4>2, <3>1, <3>2
        <5> QED
          BY <5>1, <3>2 DEF ReadInv, ObservedAtItsStart
      <4> QED
        BY <4>1, <4>2
    <3> QED
      BY <3>3 DEF ObservedAtItsStart
  <2> QED
    BY <2>1, <2>2
<1> QED
  BY <1>2, <1>9, <1>11, <1>12, <1>13, <1>14 DEF ReadInv

LEMMA FlushReads ==
  ASSUME GpsTypes, Flush,
         /\ tick = 1 /\ uart = <<>> /\ text = <<>> /\ overflow = FALSE /\ burst_start = 0
         /\ previous_byte = 0 /\ garbled = 0 /\ since = <<>> /\ heard = {}
         /\ first = [b \in Bursts |-> 0] /\ observed = [b \in Bursts |-> <<>>]
  PROVE  ReadInv'
<1>1. /\ tick' = 1 /\ uart' = <<>> /\ text' = <<>> /\ ~overflow' /\ burst_start' = 0
      /\ previous_byte' = 0 /\ garbled' = 0 /\ since' = <<>> /\ heard' = {}
      /\ first' = [b \in Bursts |-> 0] /\ observed' = [b \in Bursts |-> <<>>]
      /\ measured' = 1 /\ fast' = fast /\ sentences' = sentences
      /\ phase' \in 0 .. PeriodNow - 1 /\ Quiet
  BY DEF Flush, setup, assembly, PeriodNow
<1>2. 1 \in Bursts
  BY GpsNumbers DEF Bursts
<1>3. ~Begun' /\ Len(uart') = 0 /\ Len(since') = 0
  BY <1>1 DEF Begun
<1>4. Measuring'
  BY <1>1, <1>2 DEF Measuring, PeriodNow, Quiet
<1>5. AllTimely' /\ Increasing' /\ Continuous' /\ UpToNow' /\ FromThere'
  BY <1>1, <1>3 DEF AllTimely, Increasing, Continuous, UpToNow, FromThere
<1>6. Silence'
  BY <1>1, <1>3 DEF Silence
<1>7. Firsts'
  BY <1>1, <1>2, <1>3 DEF Firsts
<1>8. StartKept' /\ LineKept'
  BY <1>1, <1>3 DEF StartKept, LineKept
<1>9. HeardOnce'
  BY <1>1, <1>3 DEF HeardOnce
<1>10. LeftOpen'
  BY <1>1, RmcIs DEF LeftOpen
<1>11. ObservedAtItsStart'
  BY <1>1 DEF ObservedAtItsStart
<1> QED
  BY <1>4, <1>5, <1>6, <1>7, <1>8, <1>9, <1>10, <1>11 DEF ReadInv

Unread ==
    /\ tick = 1 /\ uart = <<>> /\ text = <<>> /\ overflow = FALSE /\ burst_start = 0
    /\ previous_byte = 0 /\ garbled = 0 /\ since = <<>> /\ heard = {}
    /\ first = [b \in Bursts |-> 0] /\ observed = [b \in Bursts |-> <<>>]

\* The inductive invariant of the receiver.
ReceiverInv ==
    /\ GpsInv /\ GpsTypes
    /\ IF stage = "read" THEN ReadInv ELSE Unread

LEMMA ReceiverInitially == GpsInit => ReceiverInv
<1> SUFFICES ASSUME GpsInit PROVE ReceiverInv
  OBVIOUS
<1>1. stage = "configure" /\ Unread
  BY DEF GpsInit, Unread
<1> QED
  BY <1>1, GpsInitially, TypesInitially DEF ReceiverInv

LEMMA ReadUnchanged == ASSUME ReadInv, UNCHANGED gpsVars PROVE ReadInv'
<1>1. /\ UNCHANGED <<tick, phase, measured, uart, garbled, since, first, heard, observed>>
      /\ UNCHANGED <<fast, sentences, text, overflow, burst_start, previous_byte>>
  BY DEF gpsVars, setup, receiver, assembly
<1>2. Origin' = Origin /\ LastByte' = LastByte /\ PeriodNow' = PeriodNow /\ Opening' = Opening
  BY <1>1 DEF Origin, LastByte, PeriodNow, Opening
<1>3. Gone' = Gone /\ NextAt' = NextAt /\ LastAt' = LastAt /\ (Begun' <=> Begun)
  BY <1>1, <1>2 DEF Gone, NextAt, LastAt, Begun
<1>4. Measuring' /\ Increasing' /\ Continuous' /\ UpToNow' /\ FromThere' /\ Silence'
  BY <1>1, <1>2, <1>3
     DEF ReadInv, Measuring, Quiet, Increasing, Continuous, UpToNow, FromThere, Silence
<1>5. AllTimely'
  BY <1>1, <1>2 DEF ReadInv, AllTimely, Timely, ByteAt
<1>6. Firsts' /\ StartKept' /\ LineKept' /\ HeardOnce' /\ LeftOpen' /\ ObservedAtItsStart'
  BY <1>1, <1>2, <1>3
     DEF ReadInv, Firsts, StartKept, LineKept, HeardOnce, LeftOpen, ObservedAtItsStart
<1> QED
  BY <1>4, <1>5, <1>6 DEF ReadInv

LEMMA ReceiverStays == ReceiverInv /\ [GpsNext]_gpsVars => ReceiverInv'
<1> SUFFICES ASSUME ReceiverInv, [GpsNext]_gpsVars PROVE ReceiverInv'
  OBVIOUS
<1>1. GpsInv' /\ GpsTypes'
  BY GpsStays, TypesStay DEF ReceiverInv
<1>2. CASE Command
  BY <1>1, <1>2 DEF Command, ReadFrame, receiver, assembly, ReceiverInv, Unread
<1>3. CASE Flush
  <2>1. stage' = "read" /\ Unread
    BY <1>3 DEF Flush, ReceiverInv
  <2>2. ReadInv'
    BY <2>1, <1>3, FlushReads DEF ReceiverInv, Unread
  <2> QED
    BY <2>1, <2>2, <1>1 DEF ReceiverInv
<1>4. CASE NextTick
  BY <1>1, <1>4, NextTickKeeps DEF ReceiverInv, NextTick
<1>5. CASE Text
  BY <1>1, <1>5, TextKeeps DEF ReceiverInv, Text, Take, Others
<1>6. CASE Sentence
  BY <1>1, <1>6, SentenceKeeps DEF ReceiverInv, Sentence, Take, Others
<1>7. CASE UNCHANGED gpsVars
  <2>1. stage' = stage /\ (Unread => Unread')
    BY <1>7 DEF gpsVars, assembly, receiver, Unread
  <2> QED
    BY <2>1, <1>1, <1>7, ReadUnchanged DEF ReceiverInv
<1> QED
  BY <1>2, <1>3, <1>4, <1>5, <1>6, <1>7 DEF GpsNext, read_sentences, StreamEnds

LEMMA ReceiverAlways == GpsSpec => []ReceiverInv
BY ReceiverInitially, ReceiverStays, PTL DEF GpsSpec

\* Whatever bytes are lost or read late, read_sentences gives each measurement whose RMC
\* sentence came whole to absolute_clock_observe_utc once, with the start of its own burst.
THEOREM StartsAreRight == GpsSpec => []ObservedAtItsStart
<1>1. ReceiverInv => ObservedAtItsStart
  BY DEF ReceiverInv, ReadInv, Unread, ObservedAtItsStart
<1> QED
  BY ReceiverAlways, <1>1, PTL

(***************************************************************************)
(* The instances that are checked together.                                 *)
(***************************************************************************)
LEMMA UnitsInitially == UnitsInit => ClockInv /\ ReceiverInv
BY ClockInitially, ReceiverInitially DEF UnitsInit

LEMMA UnitsStay ==
  ClockInv /\ ReceiverInv /\ [UnitsNext]_<<vars, gpsVars, dateVars, unit>>
      => ClockInv' /\ ReceiverInv'
<1> SUFFICES ASSUME ClockInv, ReceiverInv, [UnitsNext]_<<vars, gpsVars, dateVars, unit>>
             PROVE  ClockInv' /\ ReceiverInv'
  OBVIOUS
<1>1. [Next]_vars /\ [GpsNext]_gpsVars
  BY DEF UnitsNext
<1> QED
  BY <1>1, ClockStays, ReceiverStays

\* The variables of the clock and of the receiver stay within their sizes: the count of
\* rejections, the time since the anchor, the line of the receiver and its queue.
THEOREM UnitsTyped == UnitsSpec => []UnitTypes
<1>1. ClockInv /\ ReceiverInv => UnitTypes
  BY DEF ClockInv, ReceiverInv, GpsTypes, UnitTypes
<1> QED
  BY UnitsInitially, UnitsStay, <1>1, PTL DEF UnitsSpec

(***************************************************************************)
(* The dates of RMC sentences.  The sums that parse_utc adds up have closed  *)
(* forms: a year is 365 days, and from 1970 to 2099 every fourth year has    *)
(* one more.                                                                *)
(***************************************************************************)
YearDays(y) == (y - 1970) * 365 + (y - 1969) \div 4

\* The years that are counted, and those a date of two digits can have.
Counted == 1970 .. 2099
Dated == 2000 .. 2099

LEMMA Counting ==
  /\ Counted \subseteq Nat /\ 1970 \in Counted
  /\ \A year \in Counted : \A y \in 1970 .. year : y \in Nat /\ y \in Counted
  /\ \A year \in Counted : year \in 1970 .. year /\ 1970 \in 1970 .. year
  /\ \A year \in Counted : \A y \in 1970 .. year : y # 1970 =>
        y - 1 \in 1970 .. year /\ (y - 1) + 1 = y /\ ~(y =< y - 1)
  /\ \A year \in Dated : year \in Counted /\ year \in Nat
BY SMT DEF Counted, Dated

LEMMA LeapYears ==
  ASSUME NEW y \in Counted
  PROVE  /\ leap_year(y) <=> y % 4 = 0
         /\ YearDays(y + 1) = YearDays(y) + 365 + (IF leap_year(y) THEN 1 ELSE 0)
         /\ YearDays(y) \in Nat /\ YearDays(1970) = 0
BY SMT DEF leap_year, YearDays, Counted

\* A set of numbers has a least one, for the sets of the numbers below are well-founded.
LEMMA LeastNat ==
  ASSUME NEW T \in SUBSET Nat, T # {}
  PROVE  \E n \in T : \A m \in T : n =< m
<1> DEFINE U == {0 .. n - 1 : n \in T}
<1>1. U \subseteq FiniteSubsetsOf(Nat) /\ U # {}
  <2>1. ASSUME NEW n \in T PROVE IsFiniteSet(0 .. n - 1) /\ 0 .. n - 1 \subseteq Nat
    BY FS_Interval
  <2> QED
    BY <2>1 DEF FiniteSubsetsOf
<1>2. IsWellFoundedOn(StrictSubsetOrdering(Nat), FiniteSubsetsOf(Nat))
  BY FS_StrictSubsetOrderingWellFounded
<1>3. \E x \in U : \A y \in U : ~ (<<y, x>> \in StrictSubsetOrdering(Nat))
  BY <1>1, <1>2, WFMin
<1>4. PICK n \in T : \A m \in T : ~ (<<0 .. m - 1, 0 .. n - 1>> \in StrictSubsetOrdering(Nat))
  BY <1>3
<1>5. ASSUME NEW m \in T, m < n PROVE FALSE
  <2>1. 0 .. m - 1 \subseteq 0 .. n - 1 /\ n - 1 \in 0 .. n - 1 /\ n - 1 \notin 0 .. m - 1
    BY <1>5
  <2>2. \A A, B \in SUBSET Nat :
            A \subseteq B /\ A # B => <<A, B>> \in StrictSubsetOrdering(Nat)
    BY DEF StrictSubsetOrdering
  <2>3. 0 .. m - 1 \in SUBSET Nat /\ 0 .. n - 1 \in SUBSET Nat /\ 0 .. m - 1 # 0 .. n - 1
    BY <2>1
  <2>4. <<0 .. m - 1, 0 .. n - 1>> \in StrictSubsetOrdering(Nat)
    BY <2>1, <2>2, <2>3, Zenon
  <2> QED
    BY <2>4, <1>4
<1> QED
  BY <1>4, <1>5

\* What the recursive function of YearsBefore is, and its values.
YearStep(f, y) ==
    IF y = 1970 THEN 0 ELSE f[y - 1] + 365 + (IF leap_year(y - 1) THEN 1 ELSE 0)
Span(year) == 1970 .. year
IsYears(f, year) == f = [y \in Span(year) |-> YearStep(f, y)]

YearTable(year) == [y \in 1970 .. year |-> YearDays(y)]

LEMMA YearsExist ==
  ASSUME NEW year \in Counted
  PROVE  IsYears(YearTable(year), year)
<1> DEFINE g == YearTable(year)
<1>1. ASSUME NEW y \in 1970 .. year
      PROVE  YearDays(y) = YearStep(g, y)
  <2>1. CASE y = 1970
    BY SMT, <2>1 DEF YearDays, YearStep
  <2>2. CASE y # 1970
    <3>1. y - 1 \in 1970 .. year /\ y - 1 \in Counted /\ (y - 1) + 1 = y
      BY SMT, <2>2 DEF Counted
    <3>2. g[y - 1] = YearDays(y - 1)
      BY <3>1 DEF YearTable
    <3>3. YearDays(y) = YearDays(y - 1) + 365 + (IF leap_year(y - 1) THEN 1 ELSE 0)
      BY <3>1, LeapYears
    <3> QED
      BY <2>2, <3>2, <3>3 DEF YearStep
  <2> QED
    BY <2>1, <2>2
<1> HIDE DEF g
<1>2. g = [y \in 1970 .. year |-> YearDays(y)]
  BY DEF g, YearTable
<1>3. IsYears(g, year)
  BY SMT, <1>1, <1>2 DEF IsYears, Span
<1> QED
  BY <1>3 DEF g

LEMMA YearValue ==
  ASSUME NEW year, NEW f, IsYears(f, year), NEW y \in Span(year)
  PROVE  f[y] = YearStep(f, y)
BY Zenon DEF IsYears

LEMMA YearsAre ==
  ASSUME NEW year \in Counted, NEW f, IsYears(f, year)
  PROVE  f[year] = YearDays(year)
<1> DEFINE Wrong == {y \in 1970 .. year : f[y] # YearDays(y)}
<1>1. ASSUME NEW y \in Wrong, \A z \in Wrong : y =< z PROVE FALSE
  <2>1. /\ y \in 1970 .. year /\ f[y] # YearDays(y)
        /\ f[y] = IF y = 1970 THEN 0 ELSE f[y - 1] + 365 + (IF leap_year(y - 1) THEN 1 ELSE 0)
    <3>1. y \in Span(year) /\ f[y] # YearDays(y)
      BY DEF Span
    <3>2. f[y] = YearStep(f, y)
      BY <3>1, YearValue
    <3> QED
      BY <3>1, <3>2 DEF YearStep, Span
  <2>2. y # 1970
    BY SMT, <2>1 DEF YearDays
  <2>3. y - 1 \in 1970 .. year /\ y - 1 \in Counted /\ (y - 1) + 1 = y /\ ~(y =< y - 1)
    BY SMT, <2>1, <2>2 DEF Counted
  <2>4. f[y - 1] = YearDays(y - 1)
    BY <1>1, <2>3
  <2>5. YearDays(y) = YearDays(y - 1) + 365 + (IF leap_year(y - 1) THEN 1 ELSE 0)
    BY <2>3, LeapYears
  <2> QED
    BY <2>1, <2>2, <2>4, <2>5
<1>2. Wrong \in SUBSET Nat
  <2>1. 1970 .. year \subseteq Nat
    BY SMT DEF Counted
  <2> QED
    BY <2>1
<1>3. Wrong = {}
  <2> HIDE DEF Wrong
  <2> QED
    BY <1>1, <1>2, LeastNat
<1>4. year \in 1970 .. year
  BY SMT DEF Counted
<1> QED
  BY <1>3, <1>4

\* The years are added up one by one.
LEMMA YearsAdded ==
  ASSUME NEW year \in Counted
  PROVE  YearsBefore(year) = YearDays(year)
<1> DEFINE days == CHOOSE f : IsYears(f, year)
<1>1. IsYears(days, year)
  <2>1. \E f : IsYears(f, year)
    BY YearsExist
  <2> QED
    BY <2>1
<1>2. YearsBefore(year) = days[year]
  BY DEF YearsBefore, IsYears, YearStep, Span
<1> HIDE DEF days
<1> QED
  BY <1>1, <1>2, YearsAre

\* The days of the months before: 153 in five months, from March on.
MonthDays(m, year) ==
    IF m =< 2 THEN 31 * (m - 1)
    ELSE (153 * (m - 3) + 2) \div 5 + 59 + (IF leap_year(year) THEN 1 ELSE 0)

LEMMA MonthsOfYear ==
  ASSUME NEW m \in 1 .. 12, NEW year \in Nat
  PROVE  /\ Month(m, year) \in 28 .. 31 /\ MonthDays(m, year) \in Nat
         /\ m # 12 => MonthDays(m + 1, year) = MonthDays(m, year) + Month(m, year)
         /\ m = 12 => MonthDays(m, year) + Month(m, year)
                        = 365 + (IF leap_year(year) THEN 1 ELSE 0)
<1>1. m \in 1 .. 6 \/ m \in 7 .. 12
  OBVIOUS
<1>2. CASE m = 1
  BY <1>2 DEF Month, MonthDays, month_days
<1>3. CASE m = 2
  BY <1>3 DEF Month, MonthDays, month_days
<1>4. CASE m = 3
  BY <1>4 DEF Month, MonthDays, month_days
<1>5. CASE m = 4
  BY <1>5 DEF Month, MonthDays, month_days
<1>6. CASE m = 5
  BY <1>6 DEF Month, MonthDays, month_days
<1>7. CASE m = 6
  BY <1>7 DEF Month, MonthDays, month_days
<1>8. CASE m = 7
  BY <1>8 DEF Month, MonthDays, month_days
<1>9. CASE m = 8
  BY <1>9 DEF Month, MonthDays, month_days
<1>10. CASE m = 9
  BY <1>10 DEF Month, MonthDays, month_days
<1>11. CASE m = 10
  BY <1>11 DEF Month, MonthDays, month_days
<1>12. CASE m = 11
  BY <1>12 DEF Month, MonthDays, month_days
<1>13. CASE m = 12
  BY <1>13 DEF Month, MonthDays, month_days
<1> QED
  BY <1>1, <1>2, <1>3, <1>4, <1>5, <1>6, <1>7, <1>8, <1>9, <1>10, <1>11, <1>12, <1>13

IsMonths(f, month, year) ==
    f = [m \in 1 .. month |-> IF m = 1 THEN 0 ELSE f[m - 1] + Month(m - 1, year)]

MonthTable(month, year) == [m \in 1 .. month |-> MonthDays(m, year)]

LEMMA MonthsExist ==
  ASSUME NEW month \in 1 .. 12, NEW year \in Nat
  PROVE  IsMonths(MonthTable(month, year), month, year)
<1> DEFINE g == MonthTable(month, year)
<1>1. ASSUME NEW m \in 1 .. month
      PROVE  MonthDays(m, year) = IF m = 1 THEN 0 ELSE g[m - 1] + Month(m - 1, year)
  <2>1. CASE m = 1
    BY <2>1 DEF MonthDays
  <2>2. CASE m # 1
    <3>1. m - 1 \in 1 .. month /\ m - 1 \in 1 .. 12 /\ (m - 1) + 1 = m /\ m - 1 # 12
      BY <2>2
    <3>2. g[m - 1] = MonthDays(m - 1, year)
      BY <3>1 DEF MonthTable
    <3>3. MonthDays(m, year) = MonthDays(m - 1, year) + Month(m - 1, year)
      <4> DEFINE n == m - 1
      <4>1. n \in 1 .. 12 /\ n # 12 /\ n + 1 = m
        BY <3>1
      <4> HIDE DEF n
      <4>2. MonthDays(n + 1, year) = MonthDays(n, year) + Month(n, year)
        BY <4>1, MonthsOfYear
      <4> QED
        BY <4>1, <4>2 DEF n
    <3> QED
      BY <2>2, <3>2, <3>3
  <2> QED
    BY <2>1, <2>2
<1> HIDE DEF g
<1>2. g = [m \in 1 .. month |-> IF m = 1 THEN 0 ELSE g[m - 1] + Month(m - 1, year)]
  BY <1>1 DEF g, MonthTable
<1> QED
  BY <1>2 DEF IsMonths, g

LEMMA MonthsAre ==
  ASSUME NEW month \in 1 .. 12, NEW year \in Nat, NEW f, IsMonths(f, month, year)
  PROVE  f[month] = MonthDays(month, year)
<1> DEFINE Wrong == {m \in 1 .. month : f[m] # MonthDays(m, year)}
<1>1. ASSUME NEW m \in Wrong, \A z \in Wrong : m =< z PROVE FALSE
  <2>1. /\ m \in 1 .. month /\ f[m] # MonthDays(m, year)
        /\ f[m] = IF m = 1 THEN 0 ELSE f[m - 1] + Month(m - 1, year)
    BY DEF IsMonths
  <2>2. m # 1
    BY <2>1 DEF MonthDays
  <2>3. m - 1 \in 1 .. month /\ m - 1 \in 1 .. 12 /\ (m - 1) + 1 = m /\ ~(m =< m - 1) /\ m - 1 # 12
    BY <2>1, <2>2
  <2>4. f[m - 1] = MonthDays(m - 1, year)
    BY <1>1, <2>3
  <2>5. MonthDays(m, year) = MonthDays(m - 1, year) + Month(m - 1, year)
    <3> DEFINE n == m - 1
    <3>1. n \in 1 .. 12 /\ n # 12 /\ n + 1 = m
      BY <2>3
    <3> HIDE DEF n
    <3>2. MonthDays(n + 1, year) = MonthDays(n, year) + Month(n, year)
      BY <3>1, MonthsOfYear
    <3> QED
      BY <3>1, <3>2 DEF n
  <2> QED
    BY <2>1, <2>2, <2>4, <2>5
<1>2. Wrong \in SUBSET Nat
  OBVIOUS
<1>3. Wrong = {}
  <2> HIDE DEF Wrong
  <2> QED
    BY <1>1, <1>2, LeastNat
<1>4. month \in 1 .. month
  OBVIOUS
<1> QED
  BY <1>3, <1>4

LEMMA MonthsAdded ==
  ASSUME NEW month \in 1 .. 12, NEW year \in Nat
  PROVE  MonthsBefore(month, year) = MonthDays(month, year)
<1> DEFINE days == CHOOSE f : IsMonths(f, month, year)
<1>1. IsMonths(days, month, year)
  <2>1. \E f : IsMonths(f, month, year)
    BY MonthsExist
  <2> QED
    BY <2>1
<1>2. MonthsBefore(month, year) = days[month]
  BY DEF MonthsBefore, IsMonths
<1> HIDE DEF days
<1> QED
  BY <1>1, <1>2, MonthsAre

\* The days of the calendar's years, which begin in March.
Era(y) == (y \div 400) * 146097 + (y % 400) * 365 + (y % 400) \div 4 - (y % 400) \div 100

EraDays(y) == 730484 + (y - 2000) * 365 + (y - 1996) \div 4
Marched == 1999 .. 2099

LEMMA EraIs ==
  ASSUME NEW y \in Marched
  PROVE  Era(y) = EraDays(y)
<1> USE DEF Marched, EraDays
<1>1. CASE y = 1999
  <2>1. /\ 1999 \div 400 = 4 /\ 1999 % 400 = 399
        /\ 399 \div 4 = 99 /\ 399 \div 100 = 3
    BY SMT
  <2>2. Era(1999) = 730484 + (1999 - 2000) * 365 + (1999 - 1996) \div 4
    BY SMT, <2>1 DEF Era
  <2> QED
    BY SMT, <1>1, <2>2
<1>2. CASE y # 1999
  <2>1. y \div 400 = 5 /\ y % 400 = y - 2000
    BY SMT, <1>2
  <2>2. (y - 2000) \div 100 = 0 /\ (y - 1996) \div 4 = (y - 2000) \div 4 + 1
    BY SMT, <1>2
  <2> QED
    BY SMT, <2>1, <2>2 DEF Era
<1> QED
  BY SMT, <1>1, <1>2

\* The quarters of a year up to its end, and to its beginning.
LEMMA Quarters ==
  ASSUME NEW year \in Dated
  PROVE  /\ (year - 1996) \div 4 + 7
                = (year - 1969) \div 4 + (IF leap_year(year) THEN 1 ELSE 0)
         /\ (year - 1997) \div 4 + 7 = (year - 1969) \div 4
         /\ year \in Int /\ (year - 1969) \div 4 \in Int
<1>1. year \in Counted
  BY SMT DEF Dated, Counted
<1>2. leap_year(year) <=> year % 4 = 0
  BY <1>1, LeapYears
<1> QED
  BY SMT, <1>2 DEF Dated

\* How the days of the years that begin in March come out for the years of January.
LEMMA Eras ==
  ASSUME NEW year \in Dated
  PROVE  /\ Era(year) - 719468 + 306
                = YearDays(year) + 365 + (IF leap_year(year) THEN 1 ELSE 0)
         /\ Era(year - 1) - 719468 + 306 = YearDays(year)
         /\ YearDays(year) \in Int /\ Era(year) \in Int /\ Era(year - 1) \in Int
<1> DEFINE L == IF leap_year(year) THEN 1 ELSE 0
           z == year - 1
<1>1. year \in Marched /\ z \in Marched /\ z - 2000 = year - 2001
      /\ z - 1996 = year - 1997 /\ year \in Int /\ z \in Int
  BY SMT DEF Dated, Marched
<1>2. L \in Int
  BY SMT
<1> DEFINE p == (year - 1996) \div 4
           q == (year - 1997) \div 4
           t == (year - 1969) \div 4
<1>3. p + 7 = t + L /\ q + 7 = t /\ t \in Int
  BY Quarters
<1>4. p \in Int /\ q \in Int
  BY SMT DEF Dated
<1> HIDE DEF z
<1>5. Era(year) = 730484 + (year - 2000) * 365 + p
  <2>1. Era(year) = EraDays(year)
    BY <1>1, EraIs
  <2> QED
    BY SMT, <2>1 DEF EraDays
<1>6. Era(z) = EraDays(z)
  BY <1>1, EraIs
<1>7. Era(z) = 730484 + (year - 2001) * 365 + q
  BY SMT, <1>1, <1>6 DEF EraDays
<1>8. YearDays(year) = (year - 1970) * 365 + t
  BY DEF YearDays
<1> HIDE DEF L, p, q, t
<1>9. Era(year) - 719468 + 306 = YearDays(year) + 365 + L
  BY SMT, <1>1, <1>2, <1>3, <1>4, <1>5, <1>8
<1>10. Era(z) - 719468 + 306 = YearDays(year)
  BY SMT, <1>1, <1>2, <1>3, <1>4, <1>7, <1>8
<1>11. YearDays(year) \in Int /\ Era(year) \in Int /\ Era(z) \in Int
  BY SMT, <1>1, <1>3, <1>4, <1>5, <1>7, <1>8
<1> QED
  BY SMT, <1>9, <1>10, <1>11 DEF z, L

\* The number of a day from the years counted from January.
LEMMA DayNumberIs ==
  ASSUME NEW day \in Nat, NEW month \in 1 .. 12, NEW year \in Dated
  PROVE  /\ DayNumber(day, month, year) = day - 1 + YearDays(year) + MonthDays(month, year)
         /\ DayNumber(1, 1, year + 1)
                = YearDays(year) + 365 + (IF leap_year(year) THEN 1 ELSE 0)
<1> DEFINE L == IF leap_year(year) THEN 1 ELSE 0
           Y == YearDays(year)
           E == Era(year)
           P == Era(year - 1)
<1>1. /\ E - 719468 + 306 = Y + 365 + L /\ P - 719468 + 306 = Y
      /\ Y \in Int /\ E \in Int /\ P \in Int
  BY Eras
<1>2. L \in Int
  BY SMT
<1>3. year \in Int
  BY SMT DEF Dated
<1>4. ASSUME month \in 3 .. 12
      PROVE  DayNumber(day, month, year) = day - 1 + Y + MonthDays(month, year)
  <2> DEFINE s == (153 * (month - 3) + 2) \div 5
  <2>1. (month + 9) % 12 = month - 3 /\ s \in Nat
    BY SMT, <1>4
  <2>2. DayNumber(day, month, year) = E + (s + day - 1) - 719468
    BY SMT, <1>4, <2>1 DEF DayNumber, Era
  <2>3. MonthDays(month, year) = s + 59 + L
    BY SMT, <1>4 DEF MonthDays
  <2> HIDE DEF s, L, Y, E, P
  <2> QED
    BY SMT, <1>1, <1>2, <2>1, <2>2, <2>3
<1>5. ASSUME month \in 1 .. 2
      PROVE  DayNumber(day, month, year) = day - 1 + Y + MonthDays(month, year)
  <2> DEFINE s == IF month = 1 THEN 306 ELSE 337
  <2>1. (153 * ((month + 9) % 12) + 2) \div 5 = s
    <3>1. month = 1 \/ month = 2
      BY SMT, <1>5
    <3>2. (153 * ((1 + 9) % 12) + 2) \div 5 = 306 /\ (153 * ((2 + 9) % 12) + 2) \div 5 = 337
      BY SMT
    <3> QED
      BY SMT, <3>1, <3>2
  <2>2. DayNumber(day, month, year) = P + (s + day - 1) - 719468
    BY SMT, <1>5, <2>1 DEF DayNumber, Era
  <2>3. MonthDays(month, year) = s - 306
    BY SMT, <1>5 DEF MonthDays
  <2>4. s \in Int
    BY SMT
  <2> HIDE DEF s, L, Y, E, P
  <2> QED
    BY SMT, <1>1, <2>2, <2>3, <2>4
<1>6. DayNumber(1, 1, year + 1) = Y + 365 + L
  <2>1. (153 * ((1 + 9) % 12) + 2) \div 5 = 306
    BY SMT
  <2>2. (year + 1) - 1 = year
    BY SMT, <1>3
  <2>3. DayNumber(1, 1, year + 1) = E + (306 + 1 - 1) - 719468
    BY SMT, <2>1, <2>2 DEF DayNumber, Era
  <2> HIDE DEF L, Y, E, P
  <2> QED
    BY SMT, <1>1, <1>2, <2>3
<1>7. month \in 1 .. 2 \/ month \in 3 .. 12
  BY SMT
<1> QED
  BY SMT, <1>4, <1>5, <1>6, <1>7

\* A day exists if and only if its month has it.
LEMMA ExistsIs ==
  ASSUME date \in Fields
  PROVE  LET year == 2000 + date.short_year IN
         /\ year \in Dated /\ date.day \in Nat
         /\ Exists(date) <=> /\ date.month \in 1 .. 12
                             /\ date.day \in 1 .. Month(date.month, year)
<1> DEFINE year == 2000 + date.short_year
           m == date.month
           d == date.day
<1>1. year \in Dated /\ d \in Nat /\ m \in Nat
  <2>1. date.short_year \in 0 .. 99 /\ d \in Nat /\ m \in Nat
    BY FieldsOfTwoDigits DEF Fields
  <2> QED
    BY SMT, <2>1 DEF Dated
<1>2. Exists(date) <=>
        /\ m \in 1 .. 12 /\ d > 0
        /\ DayNumber(d, m, year) <
              IF m = 12 THEN DayNumber(1, 1, year + 1) ELSE DayNumber(1, m + 1, year)
  BY DEF Exists
<1> HIDE DEF year, m, d
<1>3. ASSUME m \in 1 .. 12
      PROVE  (DayNumber(d, m, year) <
                  IF m = 12 THEN DayNumber(1, 1, year + 1) ELSE DayNumber(1, m + 1, year))
             <=> d - 1 < Month(m, year)
  <2>1. DayNumber(d, m, year) = d - 1 + YearDays(year) + MonthDays(m, year)
    BY <1>1, <1>3, DayNumberIs
  <2>2. YearDays(year) \in Nat /\ year \in Nat
    BY <1>1, LeapYears, Counting
  <2>3. Month(m, year) \in 28 .. 31 /\ MonthDays(m, year) \in Nat
    BY <1>3, <2>2, MonthsOfYear
  <2>4. CASE m = 12
    <3>1. DayNumber(1, 1, year + 1) = YearDays(year) + (MonthDays(m, year) + Month(m, year))
      <4>1. MonthDays(m, year) + Month(m, year) = 365 + (IF leap_year(year) THEN 1 ELSE 0)
        BY <1>3, <2>2, <2>4, MonthsOfYear
      <4>2. DayNumber(1, 1, year + 1)
                = YearDays(year) + 365 + (IF leap_year(year) THEN 1 ELSE 0)
        BY <1>1, DayNumberIs, 1 \in 1 .. 12, 1 \in Nat
      <4> QED
        BY <4>1, <4>2, <2>2
    <3> QED
      BY <2>1, <2>2, <2>3, <2>4, <3>1, <1>1
  <2>5. CASE m # 12
    <3>1. m + 1 \in 1 .. 12
      BY <1>3, <2>5
    <3>2. DayNumber(1, m + 1, year) = 1 - 1 + YearDays(year) + MonthDays(m + 1, year)
      BY <1>1, <3>1, DayNumberIs
    <3>3. MonthDays(m + 1, year) = MonthDays(m, year) + Month(m, year)
      BY <1>3, <2>2, <2>5, MonthsOfYear
    <3> QED
      BY <2>1, <2>2, <2>3, <2>5, <3>2, <3>3, <1>1
  <2> QED
    BY <2>4, <2>5
<1>4. ASSUME m \in 1 .. 12 PROVE (d > 0 /\ d - 1 < Month(m, year)) <=> d \in 1 .. Month(m, year)
  <2>1. year \in Nat
    BY <1>1, Counting
  <2>2. Month(m, year) \in 28 .. 31
    BY <1>4, <2>1, MonthsOfYear
  <2> QED
    BY <2>2, <1>1
<1>5. Exists(date) <=> m \in 1 .. 12 /\ d \in 1 .. Month(m, year)
  BY <1>2, <1>3, <1>4
<1> QED
  BY <1>1, <1>5 DEF year, m, d

\* parse_utc takes the dates from 2020 on that exist, and numbers them by the calendar.
LEMMA ParsedRight == date \in Fields => DatesAreRight
<1> SUFFICES ASSUME date \in Fields PROVE DatesAreRight
  OBVIOUS
<1> DEFINE year == 2000 + date.short_year
           m == date.month
           d == date.day
<1>1. /\ year \in Dated /\ d \in Nat
      /\ Exists(date) <=> (m \in 1 .. 12 /\ d \in 1 .. Month(m, year))
  BY ExistsIs
<1> HIDE DEF year, m, d
<1>2. parse_utc(date) = IF date.short_year >= 20 /\ m \in 1 .. 12 /\ d \in 1 .. Month(m, year)
                        THEN d - 1 + YearsBefore(year) + MonthsBefore(m, year)
                        ELSE Refused
  BY DEF parse_utc, year, m, d
<1>3. ASSUME m \in 1 .. 12
      PROVE  d - 1 + YearsBefore(year) + MonthsBefore(m, year) = DayNumber(d, m, year)
  <2>1. YearsBefore(year) = YearDays(year)
    BY <1>1, YearsAdded, Counting
  <2>2. MonthsBefore(m, year) = MonthDays(m, year)
    BY <1>1, <1>3, MonthsAdded, Counting
  <2>3. DayNumber(d, m, year) = d - 1 + YearDays(year) + MonthDays(m, year)
    BY <1>1, <1>3, DayNumberIs
  <2> QED
    BY <2>1, <2>2, <2>3
<1>4. parse_utc(date) = IF date.short_year >= 20 /\ Exists(date)
                        THEN DayNumber(d, m, year) ELSE Refused
  BY <1>1, <1>2, <1>3
<1> QED
  BY <1>4 DEF DatesAreRight, year, m, d

LEMMA FieldsKept == date \in Fields /\ [DateNext]_dateVars => (date \in Fields)'
<1> SUFFICES ASSUME date \in Fields, [DateNext]_dateVars PROVE date' \in Fields
  OBVIOUS
<1>1. LastDay \in Nat /\ LastMonth \in Nat
  BY FieldsOfTwoDigits
<1>2. /\ date.day \in 0 .. LastDay /\ date.month \in 0 .. LastMonth
      /\ date.short_year \in 0 .. LastYear
      /\ date = [day |-> date.day, month |-> date.month, short_year |-> date.short_year]
  BY DEF Fields
<1>3. CASE NextDay
  <2>1. date' = [date EXCEPT !.day = date.day + 1] /\ date.day + 1 \in 0 .. LastDay
    BY <1>1, <1>2, <1>3 DEF NextDay
  <2> QED
    BY <2>1 DEF Fields
<1>4. CASE NextMonth
  <2>1. /\ date' = [date EXCEPT !.day = 0, !.month = (date.month + 1) % (LastMonth + 1)]
        /\ 0 \in 0 .. LastDay
    BY <1>1, <1>4 DEF NextMonth
  <2>2. (date.month + 1) % (LastMonth + 1) \in 0 .. LastMonth
    BY <1>1, <1>2
  <2> QED
    BY <2>1, <2>2 DEF Fields
<1>5. CASE UNCHANGED dateVars
  BY <1>5 DEF dateVars
<1> QED
  BY <1>3, <1>4, <1>5 DEF DateNext

\* parse_utc refuses every date that does not exist, and numbers the others by the
\* Gregorian calendar, for all fields of two digits.
THEOREM DatesRight == DateSpec => []DatesAreRight
<1>1. DateInit => date \in Fields
  <2>1. 0 \in 0 .. LastDay /\ 0 \in 0 .. LastMonth
    BY FieldsOfTwoDigits
  <2> QED
    BY <2>1 DEF DateInit, Fields
<1> QED
  BY <1>1, FieldsKept, ParsedRight, PTL DEF DateSpec

================================================================================
