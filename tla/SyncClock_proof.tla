--------------------------- MODULE SyncClock_proof ---------------------------
(***************************************************************************)
(* Proof that the devices of a synchronisation tree agree on the extended  *)
(* windows, for every tree of any depth, every size of the windows and of  *)
(* the words that count them and any loss of frames: to within a time unit *)
(* and a delay for each hop, and what follows from it where that is less   *)
(* than the guard.                                                         *)
(*                                                                         *)
(* The code computes with remainders: the count of windows wraps with      *)
(* aw_counter, the time since the last synchronisation with the 32-bit     *)
(* microseconds, and what is sent is rounded to time units.  The proof     *)
(* gives every device a clock without wraps, of which the code's values    *)
(* are the digits (ClockDigits to PositionIs), and bounds by how much that *)
(* clock is behind the root's (ClockInv).                                  *)
(***************************************************************************)
EXTENDS SyncClock, TLAPS

-----------------------------------------------------------------------------
(* Quotients and remainders.                                               *)

Positive == Nat \ {0}

\* The quotient and the remainder, which is never negative.
LEMMA DivMod ==
  ASSUME NEW a \in Int, NEW b \in Positive
  PROVE  /\ a \div b \in Int
         /\ a % b \in 0 .. b - 1
         /\ a = b * (a \div b) + (a % b)
  BY DEF Positive

\* There is only one quotient with a remainder below the divisor.
LEMMA DivModUnique ==
  ASSUME NEW a \in Int, NEW b \in Positive, NEW q \in Int, NEW r \in 0 .. b - 1,
         a = b * q + r
  PROVE  a \div b = q /\ a % b = r
  <1>1. a \div b \in Int /\ a % b \in 0 .. b - 1 /\ a = b * (a \div b) + (a % b)
    BY DivMod
  <1>2. b * ((a \div b) - q) = r - (a % b)
    BY <1>1 DEF Positive
  <1>3. (a \div b) - q >= 1 => b * ((a \div b) - q) >= b
    BY <1>1 DEF Positive
  <1>4. (a \div b) - q <= -1 => b * ((a \div b) - q) <= -b
    BY <1>1 DEF Positive
  <1>5. a \div b = q
    BY <1>1, <1>2, <1>3, <1>4 DEF Positive
  <1>6. b * (a \div b) = b * q
    BY <1>5
  <1>7. QED
    BY <1>1, <1>5, <1>6 DEF Positive

\* Whole multiples of the divisor move the quotient alone.
LEMMA ModShift ==
  ASSUME NEW a \in Int, NEW b \in Positive, NEW k \in Int
  PROVE  (a + b * k) % b = a % b /\ (a + b * k) \div b = (a \div b) + k
  <1>1. a \div b \in Int /\ a % b \in 0 .. b - 1 /\ a = b * (a \div b) + (a % b)
    BY DivMod
  <1> DEFINE q == a \div b
             r == a % b
  <1>2. a + b * k \in Int /\ q + k \in Int /\ b * q \in Int /\ b * k \in Int /\ r \in Int
    BY <1>1 DEF Positive
  <1>3. b * (q + k) = b * q + b * k
    BY <1>1 DEF Positive
  <1>4. a + b * k = b * (q + k) + r
    BY <1>1, <1>2, <1>3
  <1> HIDE DEF q, r
  <1>5. QED
    BY <1>1, <1>2, <1>4, DivModUnique DEF q, r

\* A value below the divisor is its own remainder.
LEMMA ModSmall ==
  ASSUME NEW b \in Positive, NEW r \in 0 .. b - 1
  PROVE  r % b = r /\ r \div b = 0
  BY DivModUnique, r = b * 0 + r DEF Positive

\* A remainder is no larger than what it is the remainder of.
LEMMA ModBelow ==
  ASSUME NEW a \in Nat, NEW b \in Positive
  PROVE  a % b <= a
  <1>1. a \div b \in Int /\ a % b \in 0 .. b - 1 /\ a = b * (a \div b) + (a % b)
    BY DivMod
  <1>2. a \div b >= 0
    <2>1. SUFFICES ASSUME a \div b <= -1 PROVE FALSE
      BY <1>1
    <2>2. b * (a \div b) <= -b
      BY <1>1, <2>1 DEF Positive
    <2>3. QED
      BY <1>1, <2>2 DEF Positive
  <1>3. b * (a \div b) >= 0
    BY <1>1, <1>2 DEF Positive
  <1>4. QED
    BY <1>1, <1>3 DEF Positive

\* Adding adds no more than it says, round the modulus.
LEMMA ModAdd ==
  ASSUME NEW a \in Int, NEW b \in Positive, NEW k \in Nat
  PROVE  (a + k) % b <= (a % b) + k
  <1>1. a \div b \in Int /\ a % b \in 0 .. b - 1 /\ a = b * (a \div b) + (a % b)
    BY DivMod
  <1>2. (a % b) + k \in Nat
    BY <1>1 DEF Positive
  <1>3. a + k = ((a % b) + k) + b * (a \div b)
    BY <1>1 DEF Positive
  <1>4. (a + k) % b = ((a % b) + k) % b
    BY <1>1, <1>2, <1>3, ModShift
  <1>5. QED
    BY <1>2, <1>4, ModBelow

\* A summand may be reduced before the sum is.
LEMMA ModOfSum ==
  ASSUME NEW a \in Int, NEW b \in Positive, NEW k \in Int
  PROVE  ((a % b) + k) % b = (a + k) % b
  <1>1. a \div b \in Int /\ a % b \in 0 .. b - 1 /\ a = b * (a \div b) + (a % b)
    BY DivMod
  <1>2. (a % b) + k \in Int
    BY <1>1 DEF Positive
  <1>3. a + k = ((a % b) + k) + b * (a \div b)
    BY <1>1 DEF Positive
  <1>4. QED
    BY <1>1, <1>2, <1>3, ModShift

\* So may what is subtracted.
LEMMA ModOfDifference ==
  ASSUME NEW a \in Int, NEW b \in Positive, NEW k \in Int
  PROVE  (k - (a % b)) % b = (k - a) % b
  <1>1. a \div b \in Int /\ a % b \in 0 .. b - 1 /\ a = b * (a \div b) + (a % b)
    BY DivMod
  <1>2. k - a \in Int /\ k - (a % b) \in Int
    BY <1>1 DEF Positive
  <1>3. k - (a % b) = (k - a) + b * (a \div b)
    BY <1>1 DEF Positive
  <1>4. QED
    BY <1>1, <1>2, <1>3, ModShift

\* Digits: dividing by b and then by c is dividing by their product.
LEMMA DivDiv ==
  ASSUME NEW a \in Int, NEW b \in Positive, NEW c \in Positive
  PROVE  /\ a \div (b * c) = (a \div b) \div c
         /\ (a % (b * c)) \div b = (a \div b) % c
         /\ (a % (b * c)) % b = a % b
  <1> DEFINE q == a \div b
             r == a % b
             u == q \div c
             v == q % c
  <1>1. q \in Int /\ r \in 0 .. b - 1 /\ a = b * q + r
    BY DivMod
  <1>2. u \in Int /\ v \in 0 .. c - 1 /\ q = c * u + v
    BY <1>1, DivMod
  <1> HIDE DEF q, r, u, v
  <1>3. b * c \in Positive /\ b * v \in Int
    BY <1>2 DEF Positive
  <1>4. b * v + r \in 0 .. b * c - 1
    <2>1. b * v >= 0
      BY <1>2 DEF Positive
    <2>2. b * v <= b * (c - 1)
      BY <1>2 DEF Positive
    <2>3. b * (c - 1) = b * c - b
      BY DEF Positive
    <2>4. QED
      BY <1>1, <1>3, <2>1, <2>2, <2>3 DEF Positive
  <1>5. b * q = (b * c) * u + b * v
    <2>1. b * q = b * (c * u) + b * v
      BY <1>2 DEF Positive
    <2>2. b * (c * u) = (b * c) * u
      BY <1>2 DEF Positive
    <2>3. QED
      BY <2>1, <2>2
  <1>6. a = (b * c) * u + (b * v + r)
    <2>1. (b * c) * u \in Int
      BY <1>2, <1>3 DEF Positive
    <2>2. QED
      BY <1>1, <1>3, <1>5, <2>1 DEF Positive
  <1>7. a \div (b * c) = u /\ a % (b * c) = b * v + r
    BY <1>2, <1>3, <1>4, <1>6, DivModUnique
  <1>8. v \in Int /\ b * v + r \in Int
    BY <1>1, <1>2, <1>3 DEF Positive
  <1>9. (b * v + r) \div b = v /\ (b * v + r) % b = r
    BY <1>1, <1>8, DivModUnique
  <1>10. QED
    BY <1>7, <1>9 DEF q, r, u, v

-----------------------------------------------------------------------------
(* The clock of a device.                                                  *)

\* The microseconds after which the count of extended windows is back where it was.
Round == EawWord * Eaw

\* The sizes of the windows and of the words that count them: whole extended windows
\* fit into aw_counter, and whole rounds of those into the microseconds.
LEMMA Sizes ==
  /\ {Tu, AwPeriod, PresenceMode, SeqLength, EawTu, Eaw, EawWord, Round} \subseteq Positive
  /\ CounterWord = PresenceMode * EawWord
  /\ \E c \in Positive : UsecWord = Eaw * (EawWord * c)
  /\ EawTu = AwPeriod * PresenceMode /\ Eaw = Tu * EawTu /\ Round = Eaw * EawWord
  <1>1. {Tu, AwPeriod, PresenceMode, SeqLength, CounterWord, UsecWord} \subseteq Positive
    BY ClockAssumption DEF Positive
  <1>2. EawTu \in Positive /\ EawTu = AwPeriod * PresenceMode
    BY <1>1 DEF Positive, EawTu
  <1>3. Eaw \in Positive /\ Eaw = Tu * EawTu
    BY <1>1, <1>2 DEF Positive, Eaw
  <1>4. EawWord \in Positive /\ CounterWord = PresenceMode * EawWord
    <2> DEFINE j == CounterWord \div (PresenceMode * SeqLength)
    <2>1. PresenceMode * SeqLength \in Positive
      BY <1>1 DEF Positive
    <2>2. j \in Int /\ CounterWord = (PresenceMode * SeqLength) * j
      <3>1. CounterWord \in Int /\ CounterWord % (PresenceMode * SeqLength) = 0
        BY <1>1, ClockAssumption DEF Positive
      <3>2. /\ j \in Int
            /\ CounterWord = (PresenceMode * SeqLength) * j
                             + (CounterWord % (PresenceMode * SeqLength))
        BY <2>1, <3>1, DivMod
      <3> HIDE DEF j
      <3>3. (PresenceMode * SeqLength) * j \in Int
        BY <2>1, <3>2 DEF Positive
      <3>4. QED
        BY <3>1, <3>2, <3>3
    <2> HIDE DEF j
    <2>3. SeqLength * j \in Int /\ CounterWord = PresenceMode * (SeqLength * j)
      BY <1>1, <2>2 DEF Positive
    <2>4. EawWord = SeqLength * j
      <3>1. CounterWord = PresenceMode * (SeqLength * j) + 0 /\ 0 \in 0 .. PresenceMode - 1
        BY <1>1, <2>3 DEF Positive
      <3>2. QED
        BY <1>1, <2>3, <3>1, DivModUnique DEF EawWord, Positive
    <2>5. SeqLength * j >= 1
      <3>1. SUFFICES ASSUME SeqLength * j <= 0 PROVE FALSE
        BY <2>3
      <3>2. PresenceMode * (SeqLength * j) <= 0
        BY <1>1, <2>3, <3>1 DEF Positive
      <3>3. QED
        BY <1>1, <2>3, <3>2 DEF Positive
    <2>6. QED
      BY <2>3, <2>4, <2>5 DEF Positive
  <1>5. Round \in Positive /\ Round = Eaw * EawWord
    BY <1>3, <1>4 DEF Positive, Round
  <1>6. \E c \in Positive : UsecWord = Eaw * (EawWord * c)
    <2> DEFINE c == UsecWord \div Round
    <2>1. UsecWord % Round = 0
      BY <1>3, <1>4, ClockAssumption DEF Positive, Round
    <2>2. c \in Int /\ UsecWord = Round * c
      <3>1. UsecWord \in Int
        BY <1>1 DEF Positive
      <3>2. c \in Int /\ UsecWord = Round * c + (UsecWord % Round)
        BY <1>5, <3>1, DivMod
      <3> HIDE DEF c
      <3>3. Round * c \in Int
        BY <1>5, <3>2 DEF Positive
      <3>4. QED
        BY <2>1, <3>2, <3>3
    <2> HIDE DEF c
    <2>3. c >= 1
      <3>1. SUFFICES ASSUME c <= 0 PROVE FALSE
        BY <2>2
      <3>2. Round * c <= 0
        BY <1>5, <2>2, <3>1 DEF Positive
      <3>3. QED
        BY <1>1, <2>2, <3>2 DEF Positive
    <2>4. Round * c = Eaw * (EawWord * c)
      BY <1>3, <1>4, <1>5, <2>2 DEF Positive
    <2>5. QED
      BY <2>2, <2>3, <2>4 DEF Positive
  <1>7. QED
    BY <1>1, <1>2, <1>3, <1>4, <1>5, <1>6

\* Rounding to time units loses less than one of them, and the wrap of the 32-bit
\* microseconds loses nothing.
LEMMA SinceTuIs ==
  ASSUME NEW d, NEW t, Since(d, t) \in Int
  PROVE  /\ SinceTu(d, t) \in Int
         /\ SinceTu(d, t) % EawTu = (Since(d, t) % Eaw) \div Tu
         /\ (SinceTu(d, t) \div EawTu) % EawWord = (Since(d, t) \div Eaw) % EawWord
  <1> DEFINE s == Since(d, t)
             u == s % UsecWord
  <1>1. PICK c \in Positive : UsecWord = Eaw * (EawWord * c)
    BY Sizes
  <1>2. /\ Tu \in Positive /\ EawTu \in Positive /\ Eaw \in Positive /\ EawWord \in Positive
        /\ EawWord * c \in Positive /\ UsecWord \in Positive /\ Eaw = Tu * EawTu
    BY <1>1, Sizes, ClockAssumption DEF Positive
  <1>3. u \in Int /\ SinceTu(d, t) = u \div Tu
    BY <1>2, DivMod DEF SinceTu
  <1>4. u % Eaw = s % Eaw /\ u \div Eaw = (s \div Eaw) % (EawWord * c)
    <2>1. u = s % (Eaw * (EawWord * c))
      BY <1>1
    <2> HIDE DEF s, u
    <2>2. QED
      BY <1>2, <2>1, DivDiv, s \in Int DEF s
  <1>5. s \div Eaw \in Int /\ u \div Tu \in Int
    BY <1>2, <1>3, DivMod
  <1>6. ((s \div Eaw) % (EawWord * c)) % EawWord = (s \div Eaw) % EawWord
    <2> DEFINE v == s \div Eaw
    <2>1. v \in Int
      BY <1>5
    <2> HIDE DEF v
    <2>2. (v % (EawWord * c)) % EawWord = v % EawWord
      <3>1. c \in Positive /\ EawWord \in Positive
        BY <1>1, <1>2
      <3>2. QED
        BY <2>1, <3>1, DivDiv
    <2>3. QED
      BY <2>2 DEF v
  <1> HIDE DEF s, u
  <1>7. u \div Eaw = (u \div Tu) \div EawTu /\ (u % Eaw) \div Tu = (u \div Tu) % EawTu
    BY <1>2, <1>3, DivDiv
  <1>8. QED
    BY <1>3, <1>4, <1>5, <1>6, <1>7 DEF s

\* The reading of the clock of d before it is reduced to the counter's range: whole
\* windows counted at the last synchronisation, and the time since then.
Clock(d, t) == (counter[d] \div PresenceMode) * Eaw + Since(d, t)

\* A count that awdl_sync_update_last has masked, and a time of synchronisation.
Settled(d) ==
    /\ last[d] \in Int
    /\ counter[d] \in Int
    /\ counter[d] % PresenceMode = 0

\* The clock is a whole number of windows and the time within one.
LEMMA ClockDigits ==
  ASSUME NEW d, NEW t \in Int, Settled(d)
  PROVE  /\ Since(d, t) \in Int /\ Clock(d, t) \in Int
         /\ Clock(d, t) \div Eaw = (counter[d] \div PresenceMode) + (Since(d, t) \div Eaw)
         /\ Clock(d, t) % Eaw = Since(d, t) % Eaw
  <1> DEFINE k == counter[d] \div PresenceMode
             s == Since(d, t)
  <1>1. PresenceMode \in Positive /\ Eaw \in Positive
    BY Sizes
  <1>2. s \in Int
    BY DEF Settled, Since
  <1>3. k \in Int
    BY <1>1, DivMod DEF Settled
  <1>4. Clock(d, t) = k * Eaw + s
    BY DEF Clock
  <1> HIDE DEF k, s
  <1>5. k * Eaw + s = s + Eaw * k
    BY <1>1, <1>2, <1>3 DEF Positive
  <1>6. s + Eaw * k \in Int
    BY <1>1, <1>2, <1>3 DEF Positive
  <1>7. (s + Eaw * k) % Eaw = s % Eaw /\ (s + Eaw * k) \div Eaw = (s \div Eaw) + k
    BY <1>1, <1>2, <1>3, ModShift
  <1>8. s \div Eaw \in Int
    BY <1>1, <1>2, DivMod
  <1>9. (s \div Eaw) + k = k + (s \div Eaw)
    BY <1>3, <1>8
  <1>10. QED
    BY <1>2, <1>4, <1>5, <1>6, <1>7, <1>9 DEF k, s

\* awdl_sync_current_eaw counts the windows of the clock, round the counter.
LEMMA CurrentEawIs ==
  ASSUME NEW d, NEW t \in Int, Settled(d)
  PROVE  /\ CurrentAw(d, t) \in Int
         /\ CurrentEaw(d, t) = (Clock(d, t) \div Eaw) % EawWord
  <1> DEFINE k == counter[d] \div PresenceMode
             s == Since(d, t)
             h == SinceTu(d, t) % EawTu
             a == h \div AwPeriod
             q == SinceTu(d, t) \div EawTu
             x == counter[d] + a + PresenceMode * q
             w == s \div Eaw
  <1>1. /\ PresenceMode \in Positive /\ AwPeriod \in Positive /\ EawTu \in Positive
        /\ Eaw \in Positive /\ EawWord \in Positive /\ CounterWord = PresenceMode * EawWord
        /\ EawTu = AwPeriod * PresenceMode
    BY Sizes
  <1>2. s \in Int /\ Clock(d, t) \div Eaw = k + w
    BY ClockDigits
  <1>3. SinceTu(d, t) \in Int /\ q % EawWord = w % EawWord
    BY <1>2, SinceTuIs
  <1>4. q \in Int /\ w \in Int
    BY <1>1, <1>2, <1>3, DivMod
  <1>5. a \in 0 .. PresenceMode - 1
    <2>1. a = (SinceTu(d, t) \div AwPeriod) % PresenceMode
      BY <1>1, <1>3, DivDiv
    <2>2. SinceTu(d, t) \div AwPeriod \in Int
      BY <1>1, <1>3, DivMod
    <2> HIDE DEF a
    <2>3. QED
      BY <1>1, <2>1, <2>2, DivMod
  <1>6. k \in Int /\ counter[d] = PresenceMode * k
    <2>1. /\ k \in Int
          /\ counter[d] = PresenceMode * k + (counter[d] % PresenceMode)
      BY <1>1, DivMod DEF Settled
    <2> HIDE DEF k
    <2>2. PresenceMode * k \in Int
      BY <1>1, <2>1 DEF Positive
    <2>3. QED
      BY <2>1, <2>2 DEF Settled
  <1>7. CurrentAw(d, t) = x % CounterWord
    BY DEF CurrentAw
  <1> HIDE DEF k, s, h, a, q, w
  <1>8. x = PresenceMode * (k + q) + a
    <2>1. PresenceMode * (k + q) = PresenceMode * k + PresenceMode * q
      BY <1>1, <1>4, <1>6 DEF Positive
    <2>2. PresenceMode * k \in Int /\ PresenceMode * q \in Int /\ a \in Int
      BY <1>1, <1>4, <1>5, <1>6 DEF Positive
    <2>3. QED
      BY <1>6, <2>1, <2>2
  <1>9. x \in Int /\ k + q \in Int
    BY <1>1, <1>4, <1>5, <1>6, <1>8 DEF Positive
  <1> HIDE DEF x
  <1>10. x \div PresenceMode = k + q
    BY <1>1, <1>5, <1>8, <1>9, DivModUnique
  <1>11. (x % CounterWord) \div PresenceMode = (x \div PresenceMode) % EawWord
    <2>1. PresenceMode \in Positive /\ EawWord \in Positive
      BY <1>1
    <2>2. (x % (PresenceMode * EawWord)) \div PresenceMode = (x \div PresenceMode) % EawWord
      BY <1>9, <2>1, DivDiv
    <2>3. QED
      BY <1>1, <2>2
  <1>12. (k + q) % EawWord = (k + w) % EawWord
    <2>1. EawWord \in Positive /\ k + q = q + k /\ k + w = w + k
      BY <1>1, <1>4, <1>6
    <2>2. ((q % EawWord) + k) % EawWord = (q + k) % EawWord
      BY <1>4, <1>6, <2>1, ModOfSum
    <2>3. ((w % EawWord) + k) % EawWord = (w + k) % EawWord
      BY <1>4, <1>6, <2>1, ModOfSum
    <2>4. QED
      BY <1>3, <2>1, <2>2, <2>3
  <1>13. x % CounterWord \in Int
    <2>1. CounterWord \in Positive
      BY <1>1 DEF Positive
    <2>2. x % CounterWord \in 0 .. CounterWord - 1
      BY <1>9, <2>1, DivMod
    <2>3. QED
      BY <2>1, <2>2 DEF Positive
  <1>14. QED
    BY <1>2, <1>7, <1>10, <1>11, <1>12, <1>13 DEF CurrentEaw

\* The position is the clock, round the counter.
LEMMA PositionIs ==
  ASSUME NEW d, NEW t \in Int, Settled(d)
  PROVE  CurrentEaw(d, t) * Eaw + (Since(d, t) % Eaw) = Clock(d, t) % Round
  <1> DEFINE c == Clock(d, t)
             p == c % Round
  <1>1. Eaw \in Positive /\ EawWord \in Positive /\ Round \in Positive /\ Round = Eaw * EawWord
    BY Sizes
  <1>2. c \in Int /\ c % Eaw = Since(d, t) % Eaw /\ CurrentEaw(d, t) = (c \div Eaw) % EawWord
    BY ClockDigits, CurrentEawIs
  <1> HIDE DEF c
  <1>3. p \div Eaw = (c \div Eaw) % EawWord /\ p % Eaw = c % Eaw
    BY <1>1, <1>2, DivDiv
  <1>4. p \in Int
    BY <1>1, <1>2, DivMod DEF Positive
  <1> HIDE DEF p
  <1>5. /\ p \div Eaw \in Int /\ p % Eaw \in 0 .. Eaw - 1
        /\ p = Eaw * (p \div Eaw) + (p % Eaw)
    BY <1>1, <1>4, DivMod
  <1>6. Eaw * (p \div Eaw) = (p \div Eaw) * Eaw
    BY <1>1, <1>5 DEF Positive
  <1>7. QED
    BY <1>2, <1>3, <1>5, <1>6 DEF c, p

-----------------------------------------------------------------------------
(* The invariant.                                                          *)

\* By how much a synchronised device may be behind, and by how much it is.
Bound(d) == Depth[d] * (Tu - 1 + MaxDelay)

Behind(d) == (now - Clock(d, now)) % Round

\* The clock of a node that takes over frame f at the time at which it was sent.
FrameClock(f) ==
    (f.next_aw_seq \div PresenceMode) * Eaw + Tu * (EawTu - f.tx_down_counter)

SyncFrame == [ next_aw_seq : Int, tx_down_counter : Int, sent : Int, synced : BOOLEAN ]

ClockTypeOK ==
    /\ now \in Int
    /\ last \in [Device -> Int]
    /\ counter \in [Device -> Int]
    /\ synced \subseteq Device
    /\ air \in [Device -> SUBSET SyncFrame]

\* The root's clock is the time; a synchronised clock is behind it by its bound at
\* most, and what a frame says by that of its sender and the rounding.
ClockInv ==
    /\ ClockTypeOK
    /\ \A d \in Device : counter[d] % PresenceMode = 0
    /\ last[Root] = 0 /\ counter[Root] = 0
    /\ \A d \in synced : Behind(d) <= Bound(d)
    /\ \A d \in Device : \A f \in air[d] :
          /\ f.sent <= now /\ now - f.sent <= MaxDelay
          /\ f.synced => (f.sent - FrameClock(f)) % Round <= Bound(d) + (Tu - 1)

\* What the invariant says of a device, in the form the lemmas ask for.
LEMMA AllSettled ==
  ASSUME ClockTypeOK, \A d \in Device : counter[d] % PresenceMode = 0, NEW d \in Device
  PROVE  Settled(d)
  BY DEF ClockTypeOK, Settled

\* The bounds and what they are made of are natural numbers.
LEMMA BoundType ==
  ASSUME NEW d \in Device
  PROVE  Bound(d) \in Nat /\ Tu \in Nat /\ Tu >= 1 /\ MaxDelay \in Nat
  <1>1. Depth[d] \in Nat /\ Tu \in Nat /\ Tu >= 1 /\ MaxDelay \in Nat
    BY ClockAssumption
  <1>2. QED
    BY <1>1 DEF Bound

\* The root's clock is the time itself.
LEMMA RootClock ==
  ASSUME NEW t \in Int, last[Root] = 0, counter[Root] = 0
  PROVE  Clock(Root, t) = t
  <1>1. PresenceMode \in Positive /\ Eaw \in Positive
    BY Sizes
  <1>2. 0 \in 0 .. PresenceMode - 1
    BY <1>1 DEF Positive
  <1>3. counter[Root] \div PresenceMode = 0
    BY <1>1, <1>2, ModSmall
  <1>4. 0 * Eaw = 0 /\ t - 0 = t
    BY <1>1 DEF Positive
  <1>5. QED
    BY <1>3, <1>4 DEF Clock, Since

\* At the start only the root counts as synchronised.
LEMMA ClockInit == Init => ClockInv
  <1> SUFFICES ASSUME Init PROVE ClockInv
    OBVIOUS
  <1>1. Eaw \in Positive /\ PresenceMode \in Positive /\ Round \in Positive
    BY Sizes
  <1>2. now \in Int
    BY <1>1 DEF Init, Positive
  <1>3. last \in [Device -> Int] /\ last[Root] = 0
    <2>1. {0, Eaw - 1} \subseteq Int
      BY <1>1 DEF Positive
    <2>2. QED
      BY <2>1 DEF Init
  <1>4. ClockTypeOK
    BY <1>2, <1>3 DEF Init, ClockTypeOK, Device
  <1>5. counter[Root] = 0 /\ \A d \in Device : counter[d] = 0
    BY DEF Init, Device
  <1>6. 0 % PresenceMode = 0
    BY <1>1, ModSmall, 0 \in 0 .. PresenceMode - 1 DEF Positive
  <1>7. Behind(Root) <= Bound(Root)
    <2>1. Clock(Root, now) = now
      BY <1>2, <1>3, <1>5, RootClock
    <2>2. 0 % Round = 0
      BY <1>1, ModSmall, 0 \in 0 .. Round - 1 DEF Positive
    <2>3. Behind(Root) = 0
      BY <1>2, <2>1, <2>2 DEF Behind
    <2>4. QED
      BY <2>3, BoundType DEF Device
  <1>8. QED
    BY <1>3, <1>4, <1>5, <1>6, <1>7 DEF Init, ClockInv

\* Time passes for the root and for every other device alike.
LEMMA TickStep ==
  ASSUME ClockInv, Tick
  PROVE  ClockInv'
  <1>1. now \in Int /\ now' = now + 1 /\ UNCHANGED << last, counter, synced, air >>
    BY DEF Tick, ClockInv, ClockTypeOK
  <1>2. ClockTypeOK'
    BY <1>1 DEF ClockInv, ClockTypeOK
  <1>3. ASSUME NEW d \in synced PROVE Behind(d)' = Behind(d)
    <2>1. d \in Device
      BY <1>3 DEF ClockInv, ClockTypeOK
    <2>2. Clock(d, now) \in Int /\ Since(d, now) \in Int
      BY <1>1, <2>1, AllSettled, ClockDigits DEF ClockInv
    <2>3. (counter[d] \div PresenceMode) * Eaw \in Int
      <3>1. PresenceMode \in Positive /\ Eaw \in Positive /\ counter[d] \in Int
        BY <2>1, Sizes DEF ClockInv, ClockTypeOK
      <3>2. counter[d] \div PresenceMode \in Int
        BY <3>1, DivMod
      <3>3. QED
        BY <3>1, <3>2 DEF Positive
    <2>4. Clock(d, now)' = Clock(d, now) + 1
      <3>1. last[d] \in Int
        BY <2>1 DEF ClockInv, ClockTypeOK
      <3>2. QED
        BY <1>1, <2>3, <3>1 DEF Clock, Since
    <2>5. now' - Clock(d, now)' = now - Clock(d, now)
      BY <1>1, <2>2, <2>4
    <2>6. QED
      BY <2>5 DEF Behind
  <1>4. ASSUME NEW d \in Device, NEW f \in air[d]
        PROVE  f.sent <= now' /\ now' - f.sent <= MaxDelay
    <2>1. f.sent \in Int /\ f.sent <= now /\ now - f.sent < MaxDelay
      BY <1>4 DEF ClockInv, ClockTypeOK, SyncFrame, Tick
    <2>2. QED
      BY <1>1, <2>1, ClockAssumption
  <1>5. \A d \in synced' : Behind(d)' <= Bound(d)
    BY <1>1, <1>3 DEF ClockInv
  <1>6. QED
    BY <1>1, <1>2, <1>4, <1>5 DEF ClockInv, Bound, FrameClock

\* What a frame says is the sender's clock, rounded down to a time unit.
LEMMA SentIs ==
  ASSUME NEW d, NEW t \in Int, Settled(d), NEW f,
         f.next_aw_seq = CurrentAw(d, t), f.tx_down_counter = NextAwTu(d, t)
  PROVE  /\ f.tx_down_counter \in Int
         /\ FrameClock(f) = (Clock(d, t) % Round) - ((Clock(d, t) % Eaw) % Tu)
  <1> DEFINE o == Clock(d, t) % Eaw
  <1>1. /\ Tu \in Positive /\ EawTu \in Positive /\ Eaw \in Positive /\ EawWord \in Positive
    BY Sizes
  <1>2. Since(d, t) \in Int /\ Clock(d, t) \in Int /\ Since(d, t) % Eaw = o
    BY ClockDigits
  <1>3. SinceTu(d, t) % EawTu = o \div Tu
    BY <1>2, SinceTuIs
  <1>4. o \in Int
    BY <1>1, <1>2, DivMod DEF Positive
  <1>5. CurrentEaw(d, t) * Eaw + o = Clock(d, t) % Round
    BY <1>2, PositionIs
  <1>6. CurrentEaw(d, t) \in Int
    <2>1. Clock(d, t) \div Eaw \in Int
      BY <1>1, <1>2, DivMod
    <2>2. CurrentEaw(d, t) \in 0 .. EawWord - 1
      BY <1>1, <2>1, CurrentEawIs, DivMod
    <2>3. QED
      BY <1>1, <2>2 DEF Positive
  <1> HIDE DEF o
  <1>7. /\ o \div Tu \in Int /\ o % Tu \in 0 .. Tu - 1
        /\ o = Tu * (o \div Tu) + (o % Tu)
    BY <1>1, <1>4, DivMod
  <1>8. f.tx_down_counter \in Int /\ EawTu - f.tx_down_counter = o \div Tu
    BY <1>1, <1>3, <1>7 DEF NextAwTu, Positive
  <1>9. FrameClock(f) = CurrentEaw(d, t) * Eaw + Tu * (o \div Tu)
    BY <1>8 DEF FrameClock, CurrentEaw
  <1>10. CurrentEaw(d, t) * Eaw \in Int /\ Tu * (o \div Tu) \in Int /\ o % Tu \in Int
    BY <1>1, <1>6, <1>7 DEF Positive
  <1>11. QED
    BY <1>5, <1>7, <1>8, <1>9, <1>10 DEF o

\* A frame is behind by as much as its sender, and the rounding to time units.
LEMMA SendStep ==
  ASSUME ClockInv, NEW d \in Device, SendAction(d)
  PROVE  ClockInv'
  <1> DEFINE f == [ next_aw_seq |-> CurrentAw(d, now), tx_down_counter |-> NextAwTu(d, now),
                    sent |-> now, synced |-> d \in synced ]
             c == Clock(d, now)
             e == (c % Eaw) % Tu
  <1>1. /\ air' = [air EXCEPT ![d] = {f}]
        /\ UNCHANGED << now, last, counter, synced >>
    BY DEF SendAction
  <1>2. now \in Int /\ Settled(d)
    BY AllSettled DEF ClockInv, ClockTypeOK
  <1>3. CurrentAw(d, now) \in Int /\ c \in Int
    BY <1>2, CurrentEawIs, ClockDigits
  <1>4. f.tx_down_counter \in Int /\ FrameClock(f) = (c % Round) - e
    <2>1. f.next_aw_seq = CurrentAw(d, now) /\ f.tx_down_counter = NextAwTu(d, now)
      OBVIOUS
    <2> HIDE DEF f, c
    <2>2. QED
      BY <1>2, <2>1, SentIs DEF c
  <1>5. f \in SyncFrame
    BY <1>2, <1>3, <1>4 DEF SyncFrame
  <1>6. f.sent = now /\ (f.synced <=> d \in synced)
    OBVIOUS
  <1>7. Tu \in Positive /\ Eaw \in Positive /\ Round \in Positive
    BY Sizes
  <1>8. e \in 0 .. Tu - 1 /\ c % Round \in Int
    <2> HIDE DEF c
    <2>1. c % Eaw \in Int /\ c % Round \in Int
      BY <1>3, <1>7, DivMod DEF Positive
    <2>2. QED
      BY <1>7, <2>1, DivMod
  <1> HIDE DEF f, c, e
  <1>9. d \in synced => (now - FrameClock(f)) % Round <= Bound(d) + (Tu - 1)
    <2> SUFFICES ASSUME d \in synced
                 PROVE  (now - FrameClock(f)) % Round <= Bound(d) + (Tu - 1)
      OBVIOUS
    <2>1. (now - c) % Round <= Bound(d) /\ (now - c) % Round \in Int /\ now - c \in Int
      <3>1. now - c \in Int
        BY <1>2, <1>3
      <3>2. (now - c) % Round \in Int
        BY <1>7, <3>1, DivMod DEF Positive
      <3>3. QED
        BY <3>1, <3>2 DEF ClockInv, Behind, c
    <2>2. now - FrameClock(f) = (now + e) - (c % Round)
      BY <1>2, <1>4, <1>7, <1>8 DEF Positive
    <2>3. e \in Nat /\ now + e \in Int /\ e <= Tu - 1
      BY <1>2, <1>7, <1>8 DEF Positive
    <2>4. ((now + e) - (c % Round)) % Round = ((now + e) - c) % Round
      BY <1>3, <1>7, <2>3, ModOfDifference
    <2>5. (now + e) - c = (now - c) + e
      BY <1>2, <1>3, <2>3
    <2>6. ((now - c) + e) % Round <= ((now - c) % Round) + e
      BY <1>7, <2>1, <2>3, ModAdd
    <2>7. (now - FrameClock(f)) % Round <= ((now - c) % Round) + e
      BY <2>2, <2>4, <2>5, <2>6
    <2>8. (now - FrameClock(f)) % Round \in Int
      <3>1. (now + e) - c \in Int
        BY <1>3, <2>3
      <3>2. ((now + e) - c) % Round \in Int
        BY <1>7, <3>1, DivMod DEF Positive
      <3>3. QED
        BY <2>2, <2>4, <3>2
    <2>9. QED
      BY <2>1, <2>3, <2>7, <2>8, BoundType
  <1>10. air' \in [Device -> SUBSET SyncFrame]
    BY <1>1, <1>5 DEF ClockInv, ClockTypeOK
  <1>11. \A x \in Device : air'[x] = IF x = d THEN {f} ELSE air[x]
    BY <1>1 DEF ClockInv, ClockTypeOK
  <1>12. ASSUME NEW x \in Device, NEW g \in air'[x]
         PROVE  /\ g.sent <= now' /\ now' - g.sent <= MaxDelay
                /\ g.synced => (g.sent - FrameClock(g)) % Round <= Bound(x) + (Tu - 1)
    <2>1. CASE x = d
      <3>1. g = f
        BY <1>11, <1>12, <2>1
      <3>2. now <= now /\ now - now <= MaxDelay
        BY <1>2, ClockAssumption
      <3>3. QED
        BY <1>1, <1>6, <1>9, <2>1, <3>1, <3>2
    <2>2. CASE x # d
      BY <1>1, <1>11, <1>12, <2>2 DEF ClockInv
    <2>3. QED
      BY <2>1, <2>2
  <1>13. \A x \in synced' : Behind(x)' <= Bound(x)
    BY <1>1 DEF ClockInv, Behind, Clock, Since
  <1>14. ClockTypeOK'
    BY <1>1, <1>10 DEF ClockInv, ClockTypeOK
  <1>15. QED
    BY <1>1, <1>12, <1>13, <1>14 DEF ClockInv, FrameClock, Bound

\* A frame is behind by as much as it was and its delay, and so is the clock of a node
\* that takes it over.
LEMMA HandleStep ==
  ASSUME ClockInv, NEW n \in Node, NEW f \in air[Parent[n]], HandleSyncParams(n, f)
  PROVE  ClockInv'
  <1> DEFINE m == Parent[n]
             k == f.next_aw_seq \div PresenceMode
  <1>1. /\ last' = [last EXCEPT ![n] = now - Tu * (EawTu - f.tx_down_counter)]
        /\ counter' = [counter EXCEPT ![n] = f.next_aw_seq - (f.next_aw_seq % PresenceMode)]
        /\ synced' = IF f.synced THEN synced \cup {n} ELSE synced \ {n}
        /\ UNCHANGED << now, air >>
    BY DEF HandleSyncParams, UpdateLast
  <1>2. n \in Device /\ m \in Device /\ n # Root /\ Depth[n] = Depth[m] + 1
    BY ClockAssumption DEF Device
  <1>3. now \in Int /\ f.next_aw_seq \in Int /\ f.tx_down_counter \in Int /\ f.sent \in Int
    BY <1>2 DEF ClockInv, ClockTypeOK, SyncFrame
  <1>4. /\ PresenceMode \in Positive /\ Tu \in Positive /\ EawTu \in Positive
        /\ Eaw \in Positive /\ Round \in Positive
    BY Sizes
  <1>5. k \in Int /\ f.next_aw_seq = PresenceMode * k + (f.next_aw_seq % PresenceMode)
        /\ f.next_aw_seq % PresenceMode \in Int
    BY <1>3, <1>4, DivMod DEF Positive
  <1> HIDE DEF m, k
  <1>6. /\ PresenceMode * k \in Int
        /\ f.next_aw_seq - (f.next_aw_seq % PresenceMode) = PresenceMode * k
    BY <1>3, <1>4, <1>5 DEF Positive
  <1>7. (PresenceMode * k) \div PresenceMode = k /\ (PresenceMode * k) % PresenceMode = 0
    BY <1>4, <1>5, <1>6, DivModUnique, PresenceMode * k = PresenceMode * k + 0,
       0 \in 0 .. PresenceMode - 1 DEF Positive
  <1>8. Tu * (EawTu - f.tx_down_counter) \in Int /\ k * Eaw \in Int
    BY <1>3, <1>4, <1>5 DEF Positive
  <1>9. ClockTypeOK'
    BY <1>1, <1>2, <1>3, <1>6, <1>8 DEF ClockInv, ClockTypeOK
  <1>10. counter'[n] = PresenceMode * k /\ last'[n] = now - Tu * (EawTu - f.tx_down_counter)
    BY <1>1, <1>2, <1>6 DEF ClockInv, ClockTypeOK
  <1>11. \A d \in Device : d # n => counter'[d] = counter[d] /\ last'[d] = last[d]
    BY <1>1 DEF ClockInv, ClockTypeOK
  <1>12. \A d \in Device : counter'[d] % PresenceMode = 0
    BY <1>7, <1>10, <1>11 DEF ClockInv
  <1>13. Clock(n, now)' = FrameClock(f)
    <2>1. now' - last'[n] = Tu * (EawTu - f.tx_down_counter)
      BY <1>1, <1>3, <1>8, <1>10
    <2>2. QED
      BY <1>7, <1>10, <2>1 DEF Clock, Since, FrameClock, k
  <1>14. ASSUME f.synced PROVE Behind(n)' <= Bound(n)
    <2> DEFINE c == FrameClock(f)
               delay == now - f.sent
    <2>1. c \in Int
      BY <1>8 DEF FrameClock, k
    <2>2. /\ delay \in Nat /\ delay <= MaxDelay
          /\ (f.sent - c) % Round <= Bound(m) + (Tu - 1)
      BY <1>2, <1>3, <1>14 DEF ClockInv, m
    <2> HIDE DEF c
    <2>3. now - c = (f.sent - c) + delay /\ f.sent - c \in Int
      BY <1>3, <2>1
    <2>4. ((f.sent - c) + delay) % Round <= ((f.sent - c) % Round) + delay
      BY <1>4, <2>2, <2>3, ModAdd
    <2>5. (f.sent - c) % Round \in Int /\ ((f.sent - c) + delay) % Round \in Int
      <3>1. (f.sent - c) + delay \in Int
        BY <2>2, <2>3
      <3>2. QED
        BY <1>4, <2>3, <3>1, DivMod DEF Positive
    <2>6. Bound(n) = Bound(m) + (Tu - 1 + MaxDelay)
      <3>1. Depth[m] \in Nat /\ Tu - 1 + MaxDelay \in Int
        BY <1>2, ClockAssumption
      <3>2. QED
        BY <1>2, <3>1 DEF Bound
    <2>7. Behind(n)' = ((f.sent - c) + delay) % Round
      BY <1>1, <1>13, <2>3 DEF Behind, c
    <2> HIDE DEF delay
    <2>8. QED
      BY <1>2, <2>2, <2>4, <2>5, <2>6, <2>7, BoundType
  <1>15. ASSUME NEW d \in synced', d # n PROVE Behind(d)' <= Bound(d)
    <2>1. d \in synced /\ d \in Device
      BY <1>1, <1>15 DEF ClockInv, ClockTypeOK
    <2>2. Behind(d)' = Behind(d)
      BY <1>1, <1>11, <1>15, <2>1 DEF Behind, Clock, Since
    <2>3. QED
      BY <2>1, <2>2 DEF ClockInv
  <1>16. n \in synced' => f.synced
    BY <1>1
  <1>17. last'[Root] = 0 /\ counter'[Root] = 0
    BY <1>2, <1>11 DEF ClockInv, Device
  <1>18. QED
    BY <1>1, <1>9, <1>12, <1>14, <1>15, <1>16, <1>17 DEF ClockInv, Bound, FrameClock

\* Every step keeps the invariant.
LEMMA ClockStep == ClockInv /\ [Next]_vars => ClockInv'
  <1> SUFFICES ASSUME ClockInv, [Next]_vars PROVE ClockInv'
    OBVIOUS
  <1>1. ASSUME NEW d \in Device, Lose(d) PROVE ClockInv'
    <2>1. /\ air' = [air EXCEPT ![d] = {}]
          /\ UNCHANGED << now, last, counter, synced >>
      BY <1>1 DEF Lose
    <2>2. ClockTypeOK'
      BY <2>1 DEF ClockInv, ClockTypeOK
    <2>3. \A x \in Device : air'[x] \subseteq air[x]
      BY <2>1 DEF ClockInv, ClockTypeOK
    <2>4. \A x \in synced' : Behind(x)' <= Bound(x)
      BY <2>1 DEF ClockInv, Behind, Clock, Since
    <2>5. QED
      BY <2>1, <2>2, <2>3, <2>4 DEF ClockInv, Bound, FrameClock
  <1>2. CASE UNCHANGED vars
    BY <1>2 DEF vars, ClockInv, ClockTypeOK, Behind, Clock, Since, Bound, FrameClock
  <1>3. QED
    BY <1>1, <1>2, TickStep, SendStep, HandleStep DEF Next

-----------------------------------------------------------------------------
(* What follows from it.                                                   *)

\* The lag of a device is what the invariant bounds.
LEMMA LagIs ==
  ASSUME ClockInv, NEW d \in Device
  PROVE  Lag(d) = Behind(d)
  <1>1. now \in Int /\ Settled(d) /\ Settled(Root)
    BY AllSettled DEF ClockInv, ClockTypeOK, Device
  <1>2. Round \in Positive
    BY Sizes
  <1>3. Clock(Root, now) = now
    BY <1>1, RootClock DEF ClockInv
  <1>4. Position(Root) = now % Round /\ Position(d) = Clock(d, now) % Round
    BY <1>1, <1>3, PositionIs DEF Position
  <1> DEFINE c == Clock(d, now)
             p == c % Round
  <1>5. c \in Int
    BY <1>1, ClockDigits
  <1> HIDE DEF c
  <1>6. p \in Int
    BY <1>2, <1>5, DivMod DEF Positive
  <1> HIDE DEF p
  <1>7. ((now % Round) + (-p)) % Round = (now + (-p)) % Round
    BY <1>1, <1>2, <1>6, ModOfSum
  <1>8. now % Round \in Int
    BY <1>1, <1>2, DivMod DEF Positive
  <1>9. (now % Round) + (-p) = (now % Round) - p /\ now + (-p) = now - p
    BY <1>1, <1>6, <1>8
  <1>10. (now - p) % Round = (now - c) % Round
    BY <1>1, <1>2, <1>5, ModOfDifference DEF p
  <1>11. QED
    BY <1>4, <1>7, <1>9, <1>10 DEF Lag, Behind, c, p, Round

\* The bound of the invariant is that of the property.
LEMMA LagIsBounded == ClockInv => LagBounded
  BY LagIs DEF ClockInv, ClockTypeOK, LagBounded, Bound

\* Two synchronised devices within a guard differ by less than it: the window of the one
\* is that of a clock z that the other's lag and its own set apart from the other's clock.
LEMMA Near ==
  ASSUME ClockInv, NEW n \in synced, NEW p \in synced,
         NEW guard \in {UnicastGuard, MulticastGuard}, Within(n, guard), Within(p, guard)
  PROVE  \E a, b \in Nat :
            /\ a < guard * Tu /\ b < guard * Tu
            /\ CurrentEaw(p, now) = ((Clock(n, now) + (a - b)) \div Eaw) % EawWord
  <1> DEFINE x == Clock(n, now)
             y == Clock(p, now)
             a == Behind(n)
             b == Behind(p)
             i == (now - x) \div Round
             j == (now - y) \div Round
             z == x + (a - b)
             w == EawWord * (i - j)
  <1>1. n \in Device /\ p \in Device /\ now \in Int /\ Settled(n) /\ Settled(p)
    BY AllSettled DEF ClockInv, ClockTypeOK
  <1>2. Round \in Positive /\ Eaw \in Positive /\ EawWord \in Positive /\ Round = Eaw * EawWord
    BY Sizes
  <1>3. x \in Int /\ y \in Int
    BY <1>1, ClockDigits
  <1>4. CurrentEaw(p, now) = (y \div Eaw) % EawWord
    BY <1>1, CurrentEawIs
  <1> HIDE DEF x, y
  <1>5. /\ a \in 0 .. Round - 1 /\ i \in Int /\ now - x = Round * i + a
        /\ b \in 0 .. Round - 1 /\ j \in Int /\ now - y = Round * j + b
    <2>1. now - x \in Int /\ now - y \in Int
      BY <1>1, <1>3
    <2>2. QED
      BY <1>2, <2>1, DivMod DEF Behind, x, y
  <1>6. a < guard * Tu /\ b < guard * Tu
    <2>1. a <= Bound(n) /\ b <= Bound(p)
      BY DEF ClockInv
    <2>2. Bound(n) < guard * Tu /\ Bound(p) < guard * Tu
      BY DEF Bound, Within
    <2>3. guard * Tu \in Int
      <3>1. guard \in Int /\ Tu \in Int
        BY ClockAssumption
      <3>2. QED
        BY <3>1
    <2>4. a \in Int /\ b \in Int
      BY <1>2, <1>5 DEF Positive
    <2> HIDE DEF a, b
    <2>5. QED
      BY <1>1, <2>1, <2>2, <2>3, <2>4, BoundType
  <1> HIDE DEF a, b, i, j
  <1>7. a \in Nat /\ b \in Nat /\ z \in Int
    BY <1>2, <1>3, <1>5 DEF Positive
  <1>8. w \in Int
    BY <1>2, <1>5 DEF Positive
  <1>9. y = z + Eaw * w
    <2>1. Round * (i - j) = Round * i - Round * j
      BY <1>2, <1>5 DEF Positive
    <2>2. Round * (i - j) = Eaw * w
      BY <1>2, <1>5 DEF Positive
    <2>3. Round * i \in Int /\ Round * j \in Int
      BY <1>2, <1>5 DEF Positive
    <2>4. y = z + (Round * i - Round * j)
      <3> DEFINE ri == Round * i
                 rj == Round * j
      <3>1. ri \in Int /\ rj \in Int /\ now - x = ri + a /\ now - y = rj + b
        BY <1>5, <2>3
      <3> HIDE DEF ri, rj
      <3>2. y = z + (ri - rj)
        BY <1>1, <1>3, <1>7, <3>1
      <3>3. QED
        BY <3>2 DEF ri, rj
    <2>5. QED
      BY <2>1, <2>2, <2>4
  <1> HIDE DEF z
  <1>10. y \div Eaw = (z \div Eaw) + w
    <2> HIDE DEF w
    <2>1. QED
      BY <1>2, <1>7, <1>8, <1>9, ModShift
  <1>11. ((z \div Eaw) + w) % EawWord = (z \div Eaw) % EawWord
    <2>1. z \div Eaw \in Int /\ i - j \in Int
      BY <1>2, <1>5, <1>7, DivMod
    <2>2. EawWord \in Positive
      BY <1>2
    <2>3. QED
      BY <2>1, <2>2, ModShift
  <1>12. CurrentEaw(p, now) = ((x + (a - b)) \div Eaw) % EawWord
    BY <1>4, <1>10, <1>11 DEF z
  <1>13. QED
    BY <1>6, <1>7, <1>12 DEF x

\* Off the edges of a window no device within a guard is in another one; near an edge
\* it may be in the next window or in the one before.
LEMMA Windows ==
  ASSUME NEW x \in Int, NEW a \in Nat, NEW b \in Nat, NEW g \in Nat, a < g, b < g,
         g + g <= Eaw
  PROVE  \/ (x + (a - b)) \div Eaw = x \div Eaw
         \/ (x + (a - b)) \div Eaw = (x \div Eaw) + 1 /\ Eaw - (x % Eaw) < g
         \/ (x + (a - b)) \div Eaw = (x \div Eaw) - 1 /\ x % Eaw < g
  <1> DEFINE u == x \div Eaw
             o == x % Eaw
             r == o + (a - b)
  <1>1. Eaw \in Positive
    BY Sizes
  <1>2. u \in Int /\ o \in 0 .. Eaw - 1 /\ x = Eaw * u + o
    BY <1>1, DivMod
  <1> HIDE DEF u, o
  <1>3. r \in Int /\ Eaw * u \in Int /\ x + (a - b) = Eaw * u + r
    BY <1>1, <1>2 DEF Positive
  <1>4. CASE r \in 0 .. Eaw - 1
    <2>1. (x + (a - b)) \div Eaw = u
      BY <1>1, <1>2, <1>3, <1>4, DivModUnique
    <2>2. QED
      BY <2>1 DEF u
  <1>5. CASE r >= Eaw
    <2>1. Eaw * (u + 1) = Eaw * u + Eaw /\ u + 1 \in Int
      BY <1>1, <1>2 DEF Positive
    <2>2. r - Eaw \in 0 .. Eaw - 1 /\ Eaw - o < g
      BY <1>1, <1>2, <1>5 DEF Positive
    <2>3. x + (a - b) = Eaw * (u + 1) + (r - Eaw)
      BY <1>1, <1>3, <2>1 DEF Positive
    <2>4. (x + (a - b)) \div Eaw = u + 1
      BY <1>1, <1>3, <2>1, <2>2, <2>3, DivModUnique
    <2>5. QED
      BY <2>2, <2>4 DEF u, o
  <1>6. CASE r < 0
    <2>1. Eaw * (u - 1) = Eaw * u - Eaw /\ u - 1 \in Int
      BY <1>1, <1>2 DEF Positive
    <2>2. r + Eaw \in 0 .. Eaw - 1 /\ o < g
      BY <1>1, <1>2, <1>6 DEF Positive
    <2>3. x + (a - b) = Eaw * (u - 1) + (r + Eaw)
      BY <1>1, <1>3, <2>1 DEF Positive
    <2>4. (x + (a - b)) \div Eaw = u - 1
      BY <1>1, <1>3, <2>1, <2>2, <2>3, DivModUnique
    <2>5. QED
      BY <2>2, <2>4 DEF u, o
  <1>7. QED
    BY <1>1, <1>3, <1>4, <1>5, <1>6 DEF Positive

\* What the guards say, in terms of the clock.
LEMMA GuardType ==
  ASSUME NEW guard \in {UnicastGuard, MulticastGuard}
  PROVE  guard * Tu \in Nat /\ (guard * Tu) + (guard * Tu) <= Eaw
  <1>1. guard \in Nat /\ Tu \in Nat /\ EawTu \in Int /\ 2 * guard <= EawTu
    BY ClockAssumption, Sizes DEF Positive
  <1>2. (guard + guard) * Tu <= EawTu * Tu
    BY <1>1
  <1>3. (guard + guard) * Tu = (guard * Tu) + (guard * Tu)
    BY <1>1
  <1>4. guard * Tu \in Nat
    BY <1>1
  <1>5. QED
    BY <1>2, <1>3, <1>4 DEF Eaw

\* The window of an extended AW later, or earlier, is the next one, or the one before.
LEMMA OneWindowOn ==
  ASSUME NEW d, NEW t \in Int, NEW k \in {-1, 1}, Settled(d)
  PROVE  CurrentEaw(d, t + k * Eaw) = ((Clock(d, t) \div Eaw) + k) % EawWord
  <1>1. Eaw \in Positive /\ PresenceMode \in Positive
    BY Sizes
  <1>2. t + k * Eaw \in Int /\ Clock(d, t) \in Int /\ k \in Int
    BY <1>1, ClockDigits DEF Positive
  <1>3. Clock(d, t + k * Eaw) = Clock(d, t) + Eaw * k
    <2>1. counter[d] \div PresenceMode \in Int /\ last[d] \in Int
      BY <1>1, DivMod DEF Settled
    <2>2. (counter[d] \div PresenceMode) * Eaw \in Int /\ k * Eaw \in Int /\ k * Eaw = Eaw * k
      BY <1>1, <1>2, <2>1 DEF Positive
    <2>3. QED
      BY <1>2, <2>1, <2>2 DEF Clock, Since
  <1>4. (Clock(d, t) + Eaw * k) \div Eaw = (Clock(d, t) \div Eaw) + k
    BY <1>1, <1>2, ModShift
  <1>5. QED
    BY <1>2, <1>3, <1>4, CurrentEawIs

\* Away from the edges of its window a node and a synchronised device are in the same.
LEMMA Meets ==
  ASSUME ClockInv, NEW n \in synced, NEW p \in synced,
         NEW guard \in {UnicastGuard, MulticastGuard}, Within(n, guard), Within(p, guard)
  PROVE  \/ CurrentEaw(p, now) = CurrentEaw(n, now)
         \/ NextAwUs(n, now) < guard * Tu /\ CurrentEaw(p, now) = CurrentEaw(n, now + Eaw)
         \/ /\ Eaw - NextAwUs(n, now) < guard * Tu
            /\ CurrentEaw(p, now) = CurrentEaw(n, now - Eaw)
  <1> DEFINE x == Clock(n, now)
  <1>1. now \in Int /\ Settled(n)
    BY AllSettled DEF ClockInv, ClockTypeOK
  <1>2. Eaw \in Positive
    BY Sizes
  <1>3. x \in Int /\ NextAwUs(n, now) = Eaw - (x % Eaw) /\ x % Eaw \in Int
    <2>1. x \in Int /\ x % Eaw = Since(n, now) % Eaw
      BY <1>1, ClockDigits
    <2> HIDE DEF x
    <2>2. x % Eaw \in 0 .. Eaw - 1
      BY <1>2, <2>1, DivMod
    <2>3. QED
      BY <1>2, <2>1, <2>2 DEF NextAwUs, Positive
  <1>4. CurrentEaw(n, now) = (x \div Eaw) % EawWord
    BY <1>1, CurrentEawIs
  <1>5. /\ CurrentEaw(n, now + Eaw) = ((x \div Eaw) + 1) % EawWord
        /\ CurrentEaw(n, now - Eaw) = ((x \div Eaw) - 1) % EawWord
    <2>1. now + 1 * Eaw = now + Eaw /\ now + (-1) * Eaw = now - Eaw
      BY <1>1, <1>2 DEF Positive
    <2>2. x \div Eaw \in Int
      BY <1>2, <1>3, DivMod
    <2>3. (x \div Eaw) + (-1) = (x \div Eaw) - 1
      BY <2>2
    <2>4. CurrentEaw(n, now + 1 * Eaw) = ((x \div Eaw) + 1) % EawWord
      BY <1>1, OneWindowOn
    <2>5. CurrentEaw(n, now + (-1) * Eaw) = ((x \div Eaw) + (-1)) % EawWord
      BY <1>1, OneWindowOn
    <2>6. QED
      BY <2>1, <2>3, <2>4, <2>5
  <1>6. PICK a, b \in Nat :
            /\ a < guard * Tu /\ b < guard * Tu
            /\ CurrentEaw(p, now) = ((x + (a - b)) \div Eaw) % EawWord
    BY Near
  <1> HIDE DEF x
  <1>7. \/ (x + (a - b)) \div Eaw = x \div Eaw
        \/ (x + (a - b)) \div Eaw = (x \div Eaw) + 1 /\ Eaw - (x % Eaw) < guard * Tu
        \/ (x + (a - b)) \div Eaw = (x \div Eaw) - 1 /\ x % Eaw < guard * Tu
    BY <1>3, <1>6, GuardType, Windows
  <1>8. Eaw - NextAwUs(n, now) = x % Eaw
    BY <1>2, <1>3 DEF Positive
  <1>9. QED
    BY <1>3, <1>4, <1>5, <1>6, <1>7, <1>8

\* The guards of awdl_can_send_in keep the node away from the edges.
LEMMA MulticastFollows == ClockInv => MulticastMeets
  <1> SUFFICES ASSUME ClockInv, NEW n \in Node \cap synced, SendsMulticast(n), NEW p \in synced,
                      Within(n, MulticastGuard), Within(p, MulticastGuard)
               PROVE  CurrentSlot(p, now) \in MulticastSlots
    BY DEF MulticastMeets
  <1>1. CanSend(n, now) /\ CurrentSlot(n, now) \in MulticastSlots
    BY DEF SendsMulticast
  <1>2. NextAwUs(n, now) \in Int /\ Eaw \in Int
    <2>1. now \in Int /\ Settled(n)
      BY AllSettled DEF ClockInv, ClockTypeOK
    <2>2. Eaw \in Positive /\ Since(n, now) \in Int
      BY <2>1, Sizes, ClockDigits
    <2>3. Since(n, now) % Eaw \in 0 .. Eaw - 1
      BY <2>2, DivMod
    <2>4. QED
      BY <2>2, <2>3 DEF NextAwUs, Positive
  <1>3. CurrentEaw(p, now) = CurrentEaw(n, now)
    BY <1>1, <1>2, GuardType, Meets DEF CanSend
  <1>4. QED
    BY <1>1, <1>3 DEF CurrentSlot

\* Near an edge awdl_can_send_unicast_in has compared the channels on its other side
\* as well.
LEMMA UnicastFollows == ClockInv => UnicastMeets
  <1> SUFFICES ASSUME ClockInv, NEW n \in Node \cap synced, NEW p \in synced \ {n},
                      SendsUnicast(n, p), Within(n, UnicastGuard), Within(p, UnicastGuard)
               PROVE  Sequence[p][CurrentSlot(p, now)] = Sequence[n][CurrentSlot(n, now)]
    BY DEF UnicastMeets
  <1>1. now \in Int /\ Settled(n) /\ Eaw \in Positive /\ Since(n, now) \in Int
    BY Sizes, AllSettled, ClockDigits DEF ClockInv, ClockTypeOK
  <1>2. NextAwUs(n, now) \in Int
    <2>1. Since(n, now) % Eaw \in 0 .. Eaw - 1
      BY <1>1, DivMod
    <2>2. QED
      BY <1>1, <2>1 DEF NextAwUs, Positive
  <1>3. ASSUME NEW t \in Int PROVE CurrentSlot(n, t) \in Slot
    <2>1. EawWord \in Positive /\ SeqLength \in Positive /\ Clock(n, t) \in Int
      BY <1>1, Sizes, ClockDigits
    <2>2. Clock(n, t) \div Eaw \in Int
      BY <1>1, <2>1, DivMod
    <2>3. CurrentEaw(n, t) \in Int
      BY <1>1, <2>1, <2>2, CurrentEawIs, DivMod DEF Positive
    <2>4. QED
      BY <2>1, <2>3, DivMod DEF CurrentSlot, Slot
  <1>4. now + Eaw \in Int /\ now - Eaw \in Int
    BY <1>1 DEF Positive
  <1>5. \A i, j \in Slot : Sequence[n][i] = Sequence[n][j]
    BY ClockAssumption
  <1>6. \A t \in {now, now + Eaw, now - Eaw} :
            Sequence[n][CurrentSlot(n, t)] = Sequence[n][CurrentSlot(n, now)]
    BY <1>1, <1>3, <1>4, <1>5
  <1>7. ASSUME NEW t \in {now, now + Eaw, now - Eaw}, SameChannel(n, t, p),
               CurrentEaw(p, now) = CurrentEaw(n, t)
        PROVE  Sequence[p][CurrentSlot(p, now)] = Sequence[n][CurrentSlot(n, now)]
    <2>1. CurrentSlot(p, now) = CurrentSlot(n, t)
      BY <1>7 DEF CurrentSlot
    <2>2. QED
      BY <1>6, <1>7, <2>1 DEF SameChannel
  <1>8. CASE CurrentEaw(p, now) = CurrentEaw(n, now)
    BY <1>7, <1>8 DEF SendsUnicast
  <1>9. CASE NextAwUs(n, now) < UnicastGuard * Tu /\ CurrentEaw(p, now) = CurrentEaw(n, now + Eaw)
    BY <1>7, <1>9 DEF SendsUnicast
  <1>10. CASE /\ Eaw - NextAwUs(n, now) < UnicastGuard * Tu
              /\ CurrentEaw(p, now) = CurrentEaw(n, now - Eaw)
    <2>1. NextAwUs(n, now) >= UnicastGuard * Tu
      BY <1>1, <1>2, <1>10, GuardType DEF Positive
    <2>2. QED
      BY <1>7, <1>10, <2>1 DEF SendsUnicast
  <1>11. QED
    BY <1>8, <1>9, <1>10, Meets

\* A tick moves a clock by one, and so the window by one at most.
LEMMA TickFollows == ClockInv /\ Tick => SlotsFollow
  <1> SUFFICES ASSUME ClockInv, Tick, NEW d \in Device
               PROVE  CurrentEaw(d, now)' \in
                        { CurrentEaw(d, now), (CurrentEaw(d, now) + 1) % EawWord }
    BY DEF SlotsFollow
  <1> DEFINE x == Clock(d, now)
  <1>1. now \in Int /\ Settled(d) /\ Eaw \in Positive /\ EawWord \in Positive
    BY Sizes, AllSettled DEF ClockInv, ClockTypeOK
  <1>2. now + 1 \in Int /\ now' = now + 1 /\ UNCHANGED << counter, last >>
    BY <1>1 DEF Tick
  <1>3. CurrentEaw(d, now)' = CurrentEaw(d, now + 1)
    BY <1>2 DEF CurrentEaw, CurrentAw, SinceTu, Since
  <1>4. Clock(d, now + 1) = x + 1 /\ x \in Int
    <2>1. counter[d] \div PresenceMode \in Int /\ last[d] \in Int
      BY <1>1, Sizes, DivMod DEF Settled
    <2>2. (counter[d] \div PresenceMode) * Eaw \in Int
      BY <1>1, <2>1 DEF Positive
    <2>3. QED
      BY <1>1, <2>1, <2>2 DEF Clock, Since
  <1>5. /\ CurrentEaw(d, now) = (x \div Eaw) % EawWord
        /\ CurrentEaw(d, now + 1) = ((x + 1) \div Eaw) % EawWord
    BY <1>1, <1>2, <1>4, CurrentEawIs
  <1> HIDE DEF x
  <1>6. (x + 1) \div Eaw \in { x \div Eaw, (x \div Eaw) + 1 }
    <2> DEFINE u == x \div Eaw
               o == x % Eaw
    <2>1. u \in Int /\ o \in 0 .. Eaw - 1 /\ x = Eaw * u + o
      BY <1>1, <1>4, DivMod
    <2> HIDE DEF u, o
    <2>2. CASE o + 1 < Eaw
      <3>1. x + 1 \in Int /\ o + 1 \in 0 .. Eaw - 1 /\ x + 1 = Eaw * u + (o + 1)
        BY <1>1, <1>4, <2>1, <2>2 DEF Positive
      <3>2. QED
        BY <1>1, <2>1, <3>1, DivModUnique DEF u
    <2>3. CASE o + 1 = Eaw
      <3>1. Eaw * (u + 1) = Eaw * u + Eaw
        BY <1>1, <2>1 DEF Positive
      <3>2. x + 1 \in Int /\ 0 \in 0 .. Eaw - 1 /\ u + 1 \in Int /\ x + 1 = Eaw * (u + 1) + 0
        BY <1>1, <1>4, <2>1, <2>3, <3>1 DEF Positive
      <3>3. QED
        BY <1>1, <2>1, <3>2, DivModUnique DEF u
    <2>4. QED
      BY <1>1, <2>1, <2>2, <2>3 DEF Positive
  <1>7. x \div Eaw \in Int
    BY <1>1, <1>4, DivMod
  <1>8. (((x \div Eaw) % EawWord) + 1) % EawWord = ((x \div Eaw) + 1) % EawWord
    BY <1>1, <1>7, ModOfSum
  <1>9. QED
    BY <1>3, <1>5, <1>6, <1>8

-----------------------------------------------------------------------------
\* The invariant holds in every state of the common clock.
LEMMA ClockAlways == Spec => []ClockInv
  BY ClockInit, ClockStep, PTL DEF Spec

\* A synchronised device, at any depth of the tree, is never ahead of the root, and
\* behind it by a time unit and one delay per hop at most: after any number of
\* synchronisations, and of wraps of aw_counter and of the 32-bit microseconds.
THEOREM ClockLagBounded == Spec => []LagBounded
  BY ClockAlways, LagIsBounded, PTL

\* What a synchronised node multicasts reaches the others in a multicast window, in any
\* tree, for the devices no further below the root than the guard makes up for.
THEOREM ClockMulticastMeets == Spec => []MulticastMeets
  BY ClockAlways, MulticastFollows, PTL

\* What it sends to a peer is sent while the peer is on its channel, likewise.
THEOREM ClockUnicastMeets == Spec => []UnicastMeets
  BY ClockAlways, UnicastFollows, PTL

\* Between two synchronisations no extended window is left out or repeated.
THEOREM ClockSlotsInOrder == Spec => SlotsInOrder
  <1>1. ClockInv /\ [Next]_vars => [Tick => SlotsFollow]_vars
    BY TickFollows
  <1>2. QED
    BY <1>1, ClockAlways, PTL DEF Spec, SlotsInOrder
=============================================================================
