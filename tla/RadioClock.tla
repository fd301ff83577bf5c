----------------------------- MODULE RadioClock -----------------------------
(***************************************************************************)
(* The times of the radio arbiter: milliseconds since boot in 32 bits,     *)
(* compared by the sign of their difference.  RadioArbiter has flags       *)
(* instead (chunk.due, sighted, later); the theorems say for which uptimes *)
(* the flags are what the comparisons answer, and for which they are not.  *)
(*                                                                         *)
(* A time t is the true count of milliseconds, Stamp(t) what the program   *)
(* has of it.                                                              *)
(***************************************************************************)
EXTENDS Integers, TLAPS

Half == 2147483648
Wrap == 4294967296

SightingWindow == 3000
GapMax == 20000

Stamp(t) == t % Wrap

Plus(a, ms) == (a + ms) % Wrap

(* "Wrap-safe: a is at or after b".                                        *)
Reached(a, b) == (a - b) % Wrap < Half

(* poll's order of two slots' last_served_ms; ties go to the lower index.  *)
ServedBefore(other, mine) == (other - mine) % Wrap >= Half

(* ready_locked, fresh_sighting_locked, release, touch_locked.             *)
ChunkDue(now, next) == Reached(now, next)
Fresh(now, seen) == ~Reached(now, Plus(seen, SightingWindow))
NextChunk(now, gap) == Plus(now, gap)
TouchedNext == 0

-----------------------------------------------------------------------------
LEMMA Width == Half \in Nat /\ Half > GapMax /\ Wrap \in Nat /\ Wrap = 2 * Half
BY SMT DEF Half, GapMax, Wrap

LEMMA Division ==
  ASSUME NEW x \in Int, NEW w \in Nat \ {0}
  PROVE  /\ x % w \in 0..w - 1 /\ x \div w \in Int
         /\ x = (w * (x \div w)) + (x % w)
BY SMT

LEMMA SmallMultiple ==
  ASSUME NEW w \in Nat \ {0}, NEW k \in Int, -w < w * k, w * k < w
  PROVE  k = 0
<1>1. CASE k >= 1
  <2>1. w * k >= w * 1 BY <1>1, SMT
  <2> QED BY <2>1, SMT
<1>2. CASE k <= -1
  <2>1. w * k <= w * (-1) BY <1>2, SMT
  <2> QED BY <2>1, SMT
<1> QED BY <1>1, <1>2, SMT

(* There is one remainder.                                                 *)
LEMMA Remainder ==
  ASSUME NEW w \in Nat \ {0}, NEW x \in Int, NEW k \in Int, NEW r \in 0..w - 1,
         x = (w * k) + r
  PROVE  x % w = r
<1>1. PICK q \in Int, z \in 0..w - 1 : x = (w * q) + z /\ z = x % w
  BY Division
<1>2. w * (k - q) = (w * k) - (w * q) BY SMT
<1>3. w * k \in Int /\ w * q \in Int BY SMT
<1>4. -w < w * (k - q) /\ w * (k - q) < w BY <1>1, <1>2, <1>3, SMT
<1>5. k - q \in Int BY SMT
<1>6. k - q = 0 BY <1>4, <1>5, SmallMultiple
<1>7. w * (k - q) = 0 BY <1>6, SMT
<1> QED BY <1>1, <1>2, <1>3, <1>7, SMT

(* What differs by a multiple of the width has the same remainder.         *)
LEMMA SameRemainder ==
  ASSUME NEW w \in Nat \ {0}, NEW x \in Int, NEW y \in Int, NEW k \in Int,
         x = (w * k) + y
  PROVE  x % w = y % w
<1>1. PICK q \in Int, z \in 0..w - 1 : y = (w * q) + z /\ z = y % w
  BY Division
<1>2. k + q \in Int /\ w * k \in Int /\ w * q \in Int BY SMT
<1>3. w * (k + q) = (w * k) + (w * q) BY SMT
<1>4. x = (w * (k + q)) + z BY <1>1, <1>2, <1>3, SMT
<1> QED BY <1>1, <1>2, <1>4, Remainder

LEMMA Positive == Wrap \in Nat \ {0}
BY Width, SMT DEF GapMax

(* A stamp and its time differ by whole turns of the clock.                *)
LEMMA Turns ==
  ASSUME NEW t \in Int
  PROVE  Stamp(t) \in 0..Wrap - 1 /\ \E p \in Int : t = (Wrap * p) + Stamp(t)
BY Positive, Division DEF Stamp

(* Stamps may be subtracted as if they were times.                         *)
LEMMA StampDifference ==
  ASSUME NEW s \in Int, NEW t \in Int
  PROVE  (Stamp(s) - Stamp(t)) % Wrap = (s - t) % Wrap
<1>1. PICK p \in Int : s = (Wrap * p) + Stamp(s) BY Turns
<1>2. PICK q \in Int : t = (Wrap * q) + Stamp(t) BY Turns
<1>3. Stamp(s) \in Int /\ Stamp(t) \in Int /\ Wrap \in Int
  BY Turns, Positive, SMT
<1>4. Wrap * (p - q) = (Wrap * p) - (Wrap * q) /\ Wrap * p \in Int /\ Wrap * q \in Int
  BY <1>3, SMT
<1>5. /\ p - q \in Int /\ s - t \in Int /\ Stamp(s) - Stamp(t) \in Int
      /\ s - t = (Wrap * (p - q)) + (Stamp(s) - Stamp(t))
  BY <1>1, <1>2, <1>3, <1>4, SMT
<1> QED BY <1>5, Positive, SameRemainder

LEMMA StampPlus ==
  ASSUME NEW t \in Int, NEW ms \in Int
  PROVE  Plus(Stamp(t), ms) = Stamp(t + ms)
<1>1. PICK p \in Int : t = (Wrap * p) + Stamp(t) BY Turns
<1>2. Stamp(t) \in Int /\ Wrap * p \in Int BY Turns, Positive, SMT
<1>3. /\ t + ms \in Int /\ Stamp(t) + ms \in Int
      /\ t + ms = (Wrap * p) + (Stamp(t) + ms)
  BY <1>1, <1>2, SMT
<1>4. (t + ms) % Wrap = (Stamp(t) + ms) % Wrap
  BY <1>3, Positive, SameRemainder
<1> QED BY <1>4 DEF Plus, Stamp

(* The sign of a difference, as long as it fits.                           *)
LEMMA Sign ==
  ASSUME NEW d \in Int, -Half <= d, d < Half
  PROVE  d % Wrap < Half <=> d >= 0
<1>1. CASE d >= 0
  <2>1. d \in 0..Wrap - 1 /\ d = (Wrap * 0) + d BY <1>1, Width, SMT
  <2>2. d % Wrap = d BY <2>1, Positive, Remainder
  <2> QED BY <1>1, <2>2
<1>2. CASE d < 0
  <2>1. d + Wrap \in 0..Wrap - 1 /\ d = (Wrap * (-1)) + (d + Wrap)
    BY <1>2, Width, SMT DEF GapMax
  <2>2. d % Wrap = d + Wrap BY <2>1, Positive, Remainder
  <2> QED BY <1>2, <2>2, Width, SMT DEF GapMax
<1> QED BY <1>1, <1>2, SMT

-----------------------------------------------------------------------------
(* reached answers "at or after" as its comment says, through a wrap too,  *)
(* for two times less than 2^31 ms (24.8 days) apart.                      *)
THEOREM ReachedIsAtOrAfter ==
  ASSUME NEW now \in Nat, NEW t \in Nat, -Half <= now - t, now - t < Half
  PROVE  Reached(Stamp(now), Stamp(t)) <=> now >= t
<1>1. now - t \in Int /\ (now - t >= 0 <=> now >= t) BY SMT
<1>2. (Stamp(now) - Stamp(t)) % Wrap = (now - t) % Wrap BY StampDifference, SMT
<1> QED BY <1>1, <1>2, Sign DEF Reached

(* The order in which poll serves is the order of the true times, whatever *)
(* the uptime, for two slots served less than 24.8 days apart: what `later` *)
(* of RadioArbiter stands for.                                             *)
THEOREM ServiceOrder ==
  ASSUME NEW s \in Nat, NEW t \in Nat, -Half <= s - t, s - t < Half
  PROVE  ServedBefore(Stamp(s), Stamp(t)) <=> s < t
<1>1. Reached(Stamp(s), Stamp(t)) <=> s >= t BY ReachedIsAtOrAfter
<1>2. (Stamp(s) - Stamp(t)) % Wrap \in 0..Wrap - 1
  <2>1. Stamp(s) - Stamp(t) \in Int BY Turns, Positive, SMT
  <2> QED BY <2>1, Positive, Division
<1> QED BY <1>1, <1>2, Width, SMT DEF Reached, ServedBefore

(* A gap that a chunk's release has set ends when its time is over.        *)
THEOREM GapEndsOnTime ==
  ASSUME NEW t \in Nat, NEW gap \in 0..GapMax, NEW now \in Nat,
         t <= now, now - t < Half
  PROVE  ChunkDue(Stamp(now), NextChunk(Stamp(t), gap)) <=> now >= t + gap
<1>1. NextChunk(Stamp(t), gap) = Stamp(t + gap) BY StampPlus, SMT DEF NextChunk
<1>2. t + gap \in Nat /\ -Half <= now - (t + gap) /\ now - (t + gap) < Half
  BY Width, SMT DEF GapMax
<1> QED BY <1>1, <1>2, ReachedIsAtOrAfter DEF ChunkDue

(* A sighting is fresh for its window and no longer, for 24.8 days more.   *)
THEOREM SightingAges ==
  ASSUME NEW t \in Nat, NEW now \in Nat, t <= now, now - t < Half
  PROVE  Fresh(Stamp(now), Stamp(t)) <=> now < t + SightingWindow
<1>1. Plus(Stamp(t), SightingWindow) = Stamp(t + SightingWindow)
  BY StampPlus, SMT DEF SightingWindow
<1>2. /\ t + SightingWindow \in Nat
      /\ -Half <= now - (t + SightingWindow) /\ now - (t + SightingWindow) < Half
  BY Width, SMT DEF SightingWindow, GapMax
<1>3. Reached(Stamp(now), Stamp(t + SightingWindow)) <=> now >= t + SightingWindow
  BY <1>2, ReachedIsAtOrAfter
<1> QED BY <1>1, <1>3, SMT DEF Fresh, SightingWindow

(* touch_locked's 0 is no time but "due now".  The gap it ends is over in  *)
(* the first half of the clock's turn; in the second, from the 25th to the *)
(* 49th day of uptime, a touched gap is not due.                           *)
THEOREM TouchedGapIsDueInFirstHalf ==
  ASSUME NEW now \in Nat
  PROVE  ChunkDue(Stamp(now), TouchedNext) <=> now % Wrap < Half
<1>1. Stamp(now) \in 0..Wrap - 1 BY Turns
<1>2. Stamp(now) - 0 = Stamp(now) /\ Stamp(now) = (Wrap * 0) + Stamp(now)
  BY <1>1, Positive, SMT
<1>3. Stamp(now) % Wrap = Stamp(now) BY <1>1, <1>2, Positive, Remainder
<1> QED BY <1>2, <1>3 DEF ChunkDue, Reached, TouchedNext, Stamp
=============================================================================
