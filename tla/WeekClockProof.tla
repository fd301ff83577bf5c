--------------------------- MODULE WeekClockProof ---------------------------
(***************************************************************************)
(* The arithmetic of the week, for any number of days, any grid that       *)
(* divides the day and any lead shorter than a day: what sanitize_day      *)
(* makes of a plan, and that two days' triggers never have their windows   *)
(* open at once.                                                           *)
(***************************************************************************)
EXTENDS WeekClock, TLAPS

(* Remainders of the week.                                                 *)

LEMMA WeekPositive == Week \in Nat \ {0} /\ Days \subseteq Nat
<1>1. NDays \in Nat \ {0} /\ DayLen \in Nat \ {0}
  BY WeekAssumption
<1>2. NDays * DayLen \in Nat \ {0}
  BY <1>1, SMT
<1> QED
  BY <1>1, <1>2, SMT DEF Week, Days

LEMMA ModRange == ASSUME NEW x \in Int PROVE x % Week \in 0..Week - 1
BY WeekPositive, SMT

LEMMA ModSplit == ASSUME NEW x \in Int, NEW w \in Nat \ {0}
                  PROVE  /\ x % w \in 0..w-1 /\ x \div w \in Int
                         /\ x = (w * (x \div w)) + (x % w)
BY SMT

LEMMA SmallMultiple ==
  ASSUME NEW g \in Nat \ {0}, NEW k \in Int, k * g < g, -g < k * g
  PROVE  k = 0
<1>1. CASE k >= 1
  <2>1. k * g >= 1 * g  BY <1>1, SMT
  <2> QED BY <2>1, SMT
<1>2. CASE k <= -1
  <2>1. k * g <= (-1) * g  BY <1>2, SMT
  <2> QED BY <2>1, SMT
<1> QED BY <1>1, <1>2, SMT

LEMMA TriggersTyped ==
  ASSUME NEW day \in Days, NEW on \in 0..MaxMin, NEW off \in 0..MaxMin, NEW lead \in 0..MaxLead
  PROVE  /\ OnTrigger(day, on, lead) \in 0..Week - 1
         /\ OffTrigger(day, off) \in 0..Week - 1
<1>1. NDays \in Nat \ {0} /\ DayLen \in Nat \ {0} /\ Grid \in Nat \ {0} /\ MaxLead \in Nat
  BY WeekAssumption
<1>2. day \in Nat /\ day <= NDays - 1 /\ lead \in Nat /\ on \in Int /\ off \in Nat /\ off < DayLen
  BY <1>1, SMT DEF Days, MaxMin
<1>3. day * DayLen \in Nat
  BY <1>1, <1>2, SMT
<1>4. day * DayLen <= (NDays - 1) * DayLen
  BY <1>1, <1>2, SMT
<1>5. (NDays - 1) * DayLen = Week - DayLen
  BY <1>1, SMT DEF Week
<1>6. OnTrigger(day, on, lead) \in 0..Week - 1
  <2>1. day * DayLen + on - lead \in Int
    BY <1>2, <1>3, SMT
  <2> QED BY <2>1, ModRange DEF OnTrigger
<1>7. OffTrigger(day, off) \in 0..Week - 1
  <2>1. Week \in Int BY WeekPositive, SMT
  <2> QED
    BY <2>1, <1>1, <1>2, <1>3, <1>4, <1>5, SMT DEF OffTrigger
<1> QED BY <1>6, <1>7

Multiples == {k * Grid : k \in Int}

LEMMA MultiplesClosed ==
  ASSUME NEW a \in Multiples, NEW b \in Multiples
  PROVE  a + b \in Multiples /\ a - b \in Multiples /\ a \in Int
<1>1. Grid \in Nat \ {0} BY WeekAssumption
<1>2. PICK j \in Int : a = j * Grid BY DEF Multiples
<1>3. PICK k \in Int : b = k * Grid BY DEF Multiples
<1>4. a + b = (j + k) * Grid /\ a - b = (j - k) * Grid /\ a \in Int
  BY <1>1, <1>2, <1>3, SMT
<1>5. j + k \in Int /\ j - k \in Int BY SMT
<1> QED BY <1>4, <1>5 DEF Multiples

LEMMA DaysAreMultiples ==
  ASSUME NEW n \in Int
  PROVE  n * DayLen \in Multiples
<1>1. Grid \in Nat \ {0} /\ DayLen \in Nat \ {0} /\ DayLen % Grid = 0
  BY WeekAssumption
<1>2. DayLen = (Grid * (DayLen \div Grid)) + (DayLen % Grid) /\ DayLen \div Grid \in Int
  BY <1>1, ModSplit, SMT
<1> DEFINE q == DayLen \div Grid
<1>3. q \in Int /\ DayLen = Grid * q
  BY <1>1, <1>2, SMT
<1> HIDE DEF q
<1>4. n * DayLen = (n * q) * Grid
  BY <1>1, <1>3, SMT
<1>5. n * q \in Int BY <1>3, SMT
<1> QED BY <1>4, <1>5 DEF Multiples

LEMMA GridTimes == Grid \in Multiples /\ 0 \in Multiples /\ MaxMin \in Multiples /\ MaxMin \in Nat
<1>1. Grid \in Nat \ {0} /\ DayLen \in Nat \ {0} /\ 2 * Grid <= DayLen
  BY WeekAssumption
<1>2. Grid = 1 * Grid /\ 0 = 0 * Grid
  BY <1>1, SMT
<1>3. Grid \in Multiples /\ 0 \in Multiples
  BY <1>2 DEF Multiples
<1>4. DayLen \in Multiples
  <2>1. DayLen = 1 * DayLen BY <1>1, SMT
  <2> QED BY <2>1, DaysAreMultiples
<1>5. MaxMin \in Multiples
  BY <1>3, <1>4, MultiplesClosed DEF MaxMin
<1>6. MaxMin \in Nat
  BY <1>1, SMT DEF MaxMin
<1> QED BY <1>3, <1>5, <1>6

LEMMA SnapOnGrid == ASSUME NEW m \in Int
                    PROVE  Snap(m) \in Multiples /\ Snap(m) \in 0..MaxMin
<1>1. Grid \in Nat \ {0} /\ MaxMin \in Nat
  BY WeekAssumption, GridTimes
<1> DEFINE c == Clamp(m)
<1>2. c \in Int /\ 0 <= c /\ c <= MaxMin
  BY <1>1, SMT DEF Clamp
<1>3. Snap(m) = (c \div Grid) * Grid
  BY DEF Snap
<1> HIDE DEF c
<1> DEFINE q == c \div Grid
<1>4. q \in Int /\ c = (Grid * q) + (c % Grid) /\ c % Grid \in 0..Grid-1
  BY <1>1, <1>2, ModSplit
<1>5. Snap(m) \in Multiples
  BY <1>3, <1>4 DEF Multiples
<1>6. Snap(m) = q * Grid BY <1>3
<1> HIDE DEF q
<1>7. q >= 0
  <2> SUFFICES ASSUME q <= -1 PROVE FALSE
    BY <1>4, SMT
  <2>1. q * Grid <= (-1) * Grid
    BY <1>1, <1>4, SMT
  <2>2. c = (q * Grid) + (c % Grid) BY <1>1, <1>4, SMT
  <2>3. q * Grid \in Int BY <1>1, <1>4, SMT
  <2> QED BY <2>1, <2>2, <2>3, <1>1, <1>2, <1>4, SMT
<1>8. Snap(m) \in Nat BY <1>1, <1>4, <1>6, <1>7, SMT
<1>9. Snap(m) <= c
  <2>1. c = Snap(m) + (c % Grid) BY <1>1, <1>4, <1>6, SMT
  <2> QED BY <2>1, <1>1, <1>2, <1>4, <1>8, SMT
<1> QED BY <1>1, <1>2, <1>5, <1>8, <1>9, SMT

(* sanitize_day (schedule.cpp) makes a legal plan of any two numbers: both *)
(* times on the grid and within the day, the OFF after the ON.             *)
THEOREM SanitizedIsLegal ==
  ASSUME NEW on \in Int, NEW off \in Int
  PROVE  LET d == Sanitized(on, off) IN
           /\ d.on \in Multiples /\ d.off \in Multiples
           /\ 0 <= d.on /\ d.on < d.off /\ d.off <= MaxMin
<1> DEFINE i == Snap(on)
           j == Snap(off)
<1>1. Grid \in Nat \ {0} /\ MaxMin \in Nat /\ DayLen \in Nat /\ 2 * Grid <= DayLen
  BY WeekAssumption, GridTimes
<1>2. /\ i \in Multiples /\ i \in 0..MaxMin
      /\ j \in Multiples /\ j \in 0..MaxMin
  BY SnapOnGrid
<1>3. i + Grid \in Multiples /\ MaxMin - Grid \in Multiples /\ MaxMin \in Multiples
  BY <1>2, GridTimes, MultiplesClosed
<1>4. Sanitized(on, off) =
        IF j > i THEN [on |-> i, off |-> j]
        ELSE IF i + Grid <= MaxMin THEN [on |-> i, off |-> i + Grid]
        ELSE [on |-> MaxMin - Grid, off |-> MaxMin]
  BY DEF Sanitized
<1> HIDE DEF i, j
<1>5. MaxMin - Grid >= 0
  BY <1>1, SMT DEF MaxMin
<1>6. CASE j > i
  BY <1>1, <1>2, <1>4, <1>6, SMT
<1>7. CASE ~(j > i) /\ i + Grid <= MaxMin
  BY <1>1, <1>2, <1>3, <1>4, <1>7, SMT
<1>8. CASE ~(j > i) /\ ~(i + Grid <= MaxMin)
  BY <1>1, <1>2, <1>3, <1>4, <1>5, <1>8, SMT
<1> QED BY <1>6, <1>7, <1>8

LEMMA GridApart ==
  ASSUME NEW now \in Int, NEW s \in 0..Week - 1, NEW t \in 0..Week - 1,
         s - t \in Multiples, InWindow(now, s), InWindow(now, t)
  PROVE  s = t
<1>1. /\ Grid \in Nat \ {0} /\ DayLen \in Nat \ {0} /\ NDays \in Nat \ {0}
      /\ Window \in Nat /\ Window <= Grid
  BY WeekAssumption, SMT
<1>2. Week \in Nat \ {0} /\ s \in Int /\ t \in Int /\ now - s \in Int /\ now - t \in Int
  BY WeekPositive, SMT
<1> DEFINE p == (now - s) \div Week
           q == (now - t) \div Week
           m == (now - s) % Week
           n == (now - t) % Week
<1>3. /\ p \in Int /\ now - s = (Week * p) + m /\ m \in 0..Week - 1
      /\ q \in Int /\ now - t = (Week * q) + n /\ n \in 0..Week - 1
  BY <1>2, ModSplit
<1>4. m < Grid /\ n < Grid
  BY <1>1, <1>2, <1>3, SMT DEF InWindow
<1> HIDE DEF p, q, m, n
<1>5. n - m = (s - t) + ((p - q) * Week)
  <2>1. (p - q) * Week = (Week * p) - (Week * q)
    BY <1>2, <1>3, SMT
  <2>2. Week * p \in Int /\ Week * q \in Int
    BY <1>2, <1>3, SMT
  <2> QED BY <1>2, <1>3, <2>1, <2>2, SMT
<1>6. (p - q) * Week \in Multiples
  <2>1. (p - q) * Week = ((p - q) * NDays) * DayLen
    BY <1>1, <1>3, SMT DEF Week
  <2>2. (p - q) * NDays \in Int
    BY <1>1, <1>3, SMT
  <2> QED BY <2>1, <2>2, DaysAreMultiples
<1>7. n - m \in Multiples
  BY <1>5, <1>6, MultiplesClosed
<1>8. PICK k \in Int : n - m = k * Grid
  BY <1>7 DEF Multiples
<1>9. k = 0
  <2>1. n - m < Grid /\ -Grid < n - m
    BY <1>1, <1>2, <1>3, <1>4, SMT
  <2> QED BY <1>1, <1>8, <2>1, SmallMultiple
<1>10. s - t = (q - p) * Week
  <2>1. n - m = 0 BY <1>1, <1>8, <1>9, SMT
  <2>2. (q - p) * Week = -((p - q) * Week) BY <1>2, <1>3, SMT
  <2>3. (p - q) * Week \in Int BY <1>2, <1>3, SMT
  <2> QED BY <1>2, <1>5, <2>1, <2>2, <2>3, SMT
<1>11. q - p = 0
  <2>1. s - t < Week /\ -Week < s - t
    BY <1>2, SMT
  <2>2. q - p \in Int BY <1>3, SMT
  <2> QED BY <1>2, <1>10, <2>1, <2>2, SmallMultiple
<1> QED BY <1>2, <1>10, <1>11, SMT

LEMMA TriggersOnGrid ==
  ASSUME NEW d \in Days, NEW e \in Days, NEW lead \in 0..MaxLead,
         NEW a \in Multiples, NEW b \in Multiples
  PROVE  /\ OnTrigger(d, a, lead) - OnTrigger(e, b, lead) \in Multiples
         /\ OffTrigger(d, a) - OffTrigger(e, b) \in Multiples
<1>1. d \in Int /\ e \in Int /\ lead \in Int
  BY WeekPositive, WeekAssumption, SMT
<1>2. d * DayLen \in Multiples /\ e * DayLen \in Multiples
  BY <1>1, DaysAreMultiples
<1>3. (d * DayLen) + a \in Multiples /\ (e * DayLen) + b \in Multiples
  BY <1>2, MultiplesClosed
<1> DEFINE x == (d * DayLen) + a
           y == (e * DayLen) + b
<1>4. x - y \in Multiples /\ x \in Int /\ y \in Int
  BY <1>3, MultiplesClosed
<1>5. OffTrigger(d, a) - OffTrigger(e, b) \in Multiples
  BY <1>4 DEF OffTrigger
<1>6. OnTrigger(d, a, lead) = (x - lead) % Week /\ OnTrigger(e, b, lead) = (y - lead) % Week
  <2>1. a \in Int /\ b \in Int BY MultiplesClosed
  <2>2. d * DayLen \in Int /\ e * DayLen \in Int BY <1>2, MultiplesClosed
  <2>3. (d * DayLen) + (a - lead) = x - lead /\ (e * DayLen) + (b - lead) = y - lead
    BY <1>1, <2>1, <2>2, SMT
  <2> QED BY <2>3 DEF OnTrigger
<1> HIDE DEF x, y
<1> DEFINE p == (x - lead) \div Week
           q == (y - lead) \div Week
<1>7. /\ p \in Int /\ x - lead = (Week * p) + OnTrigger(d, a, lead)
      /\ q \in Int /\ y - lead = (Week * q) + OnTrigger(e, b, lead)
      /\ OnTrigger(d, a, lead) \in Int /\ OnTrigger(e, b, lead) \in Int
  <2>1. x - lead \in Int /\ y - lead \in Int BY <1>1, <1>4, SMT
  <2>2. Week \in Nat \ {0} BY WeekPositive
  <2>3. /\ p \in Int /\ x - lead = (Week * p) + ((x - lead) % Week)
        /\ q \in Int /\ y - lead = (Week * q) + ((y - lead) % Week)
    BY <2>1, <2>2, ModSplit
  <2>4. (x - lead) % Week \in Int /\ (y - lead) % Week \in Int
    BY <2>1, <2>2, SMT
  <2> QED BY <1>6, <2>3, <2>4
<1> HIDE DEF p, q
<1>8. OnTrigger(d, a, lead) - OnTrigger(e, b, lead) = (x - y) + ((q - p) * Week)
  <2>1. (q - p) * Week = (Week * q) - (Week * p) /\ Week * q \in Int /\ Week * p \in Int
    BY <1>7, WeekPositive, SMT
  <2> DEFINE s == OnTrigger(d, a, lead)
             t == OnTrigger(e, b, lead)
             u == Week * p
             v == Week * q
  <2>2. x - lead = u + s /\ y - lead = v + t /\ s \in Int /\ t \in Int /\ u \in Int /\ v \in Int
    BY <1>7, <2>1
  <2>3. (q - p) * Week = v - u BY <2>1
  <2> HIDE DEF s, t, u, v
  <2>4. s - t = (x - y) + (v - u)
    BY <1>1, <1>4, <2>2, SMT
  <2> QED BY <2>3, <2>4 DEF s, t
<1>9. (q - p) * Week \in Multiples
  <2>1. NDays \in Nat /\ DayLen \in Nat BY WeekAssumption
  <2>2. (q - p) * Week = ((q - p) * NDays) * DayLen /\ (q - p) * NDays \in Int
    BY <1>7, <2>1, SMT DEF Week
  <2> QED BY <2>2, DaysAreMultiples
<1> QED BY <1>4, <1>5, <1>8, <1>9, MultiplesClosed

(* However the week wraps and whatever the warm-up lead, two days whose ON *)
(* windows are open at the same minute share the trigger: the engine's one *)
(* latch for ON slots is enough.                                           *)
THEOREM OneOnSlot ==
  ASSUME NEW d \in Days, NEW e \in Days, NEW lead \in 0..MaxLead, NEW now \in Int,
         NEW a \in Multiples \cap 0..MaxMin, NEW b \in Multiples \cap 0..MaxMin,
         InWindow(now, OnTrigger(d, a, lead)), InWindow(now, OnTrigger(e, b, lead))
  PROVE  OnTrigger(d, a, lead) = OnTrigger(e, b, lead)
<1>1. OnTrigger(d, a, lead) \in 0..Week - 1 /\ OnTrigger(e, b, lead) \in 0..Week - 1
  BY TriggersTyped
<1>2. OnTrigger(d, a, lead) - OnTrigger(e, b, lead) \in Multiples
  BY TriggersOnGrid
<1> QED BY <1>1, <1>2, GridApart

(* The same of OFF slots, and of the one latch for them.                   *)
THEOREM OneOffSlot ==
  ASSUME NEW d \in Days, NEW e \in Days, NEW now \in Int,
         NEW a \in Multiples \cap 0..MaxMin, NEW b \in Multiples \cap 0..MaxMin,
         InWindow(now, OffTrigger(d, a)), InWindow(now, OffTrigger(e, b))
  PROVE  OffTrigger(d, a) = OffTrigger(e, b)
<1>0. 0 \in 0..MaxLead
  BY WeekAssumption, SMT
<1>1. OffTrigger(d, a) \in 0..Week - 1 /\ OffTrigger(e, b) \in 0..Week - 1
  BY <1>0, TriggersTyped
<1>2. OffTrigger(d, a) - OffTrigger(e, b) \in Multiples
  BY <1>0, TriggersOnGrid
<1> QED BY <1>1, <1>2, GridApart

=============================================================================
