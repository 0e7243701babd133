---------------------------- MODULE TimerProofs -----------------------------
(***************************************************************************)
(* Proofs about timer.c for any length of the vector, any width of the     *)
(* cycle counter and any clock.                                            *)
(***************************************************************************)

EXTENDS Timer, TLAPS

\* A timer that runs has room for one more entry, also inside get_timer_us.
RoomInv ==
    /\ counter \in 0 .. VecLen
    /\ running => counter < VecLen
    /\ inGet => running
    /\ ~corrupt

LEMMA RoomInit == Init => RoomInv
BY VecLenAssumption DEF Init, RoomInv

LEMMA RoomNext == ASSUME StopsOnce, RoomInv, [Next]_vars PROVE RoomInv'
<1> USE VecLenAssumption DEF RoomInv
<1>1. CASE Advance
  BY <1>1 DEF Advance, object
<1>2. CASE init_timer
  BY <1>2 DEF init_timer, Called
<1>3. CASE start_timer
  BY <1>3 DEF start_timer, Called
<1>4. CASE GetStops
  BY <1>4 DEF GetStops, Called
<1>5. CASE GetRestarts
  <2>1. counter < VecLen /\ running /\ running' = running
    BY <1>5 DEF GetRestarts
  <2>2. ~(counter >= VecLen)
    BY <2>1
  <2>3. ~corrupt' /\ ~inGet'
    BY <1>5, <2>2, Zenon DEF GetRestarts, Accumulate, Enter
  <2>4. (counter + 1) % VecLen \in 0 .. VecLen - 1
    OBVIOUS
  <2> QED
    BY <1>5, <2>1, <2>3, <2>4 DEF GetRestarts
<1>6. CASE stop_timer
  <2>1. running /\ ~running' /\ ~inGet' /\ counter' = counter + 1
    BY <1>6, Zenon DEF stop_timer, Called
  <2>2. ~(counter >= VecLen) /\ counter' \in 0 .. VecLen
    BY <2>1
  <2>3. ~corrupt'
    BY <1>6, <2>2, Zenon DEF stop_timer, Accumulate, Enter
  <2> QED
    BY <2>1, <2>2, <2>3
<1>7. CASE UNCHANGED vars
  BY <1>7 DEF vars, object
<1> QED
  BY <1>1, <1>2, <1>3, <1>4, <1>5, <1>6, <1>7 DEF Next

\* If only running timers are stopped, no call ever writes past the end of
\* timevector, whatever the order of the calls.
THEOREM NeverPastTheEnd == ASSUME StopsOnce PROVE Spec => []InBounds
<1>1. RoomInv => InBounds
  BY DEF RoomInv, InBounds
<1> QED
  BY <1>1, RoomInit, RoomNext, PTL DEF Spec

-----------------------------------------------------------------------------

Word == 0 .. WordModulus - 1

\* The type invariant without counter, which is part of RoomInv.
Words ==
    /\ now \in Nat
    /\ last \in Word
    /\ accumulated_time \in Word
    /\ timevector \in [0 .. VecLen - 1 -> Word]

Flags == running \in BOOLEAN /\ inGet \in BOOLEAN /\ corrupt \in BOOLEAN

LEMMA NextWords == ASSUME StopsOnce, RoomInv, Words, [Next]_vars PROVE Words'
<1>1. /\ \A n \in Int : n % WordModulus \in Word
      /\ \A w \in Word : w \in Nat
      /\ 0 \in Word
  BY TimeAssumption DEF Word
<1>2. ASSUME NEW dt \in Int, Accumulate(dt)
      PROVE  /\ accumulated_time' \in Word
             /\ timevector' \in [0 .. VecLen - 1 -> Word]
  <2>1. accumulated_time' \in Word
    BY <1>1, <1>2 DEF Accumulate, Words
  <2> QED
    BY <1>2, <2>1 DEF Accumulate, Enter, Words
<1>3. ASSUME NEW n \in Word PROVE RTC2US(n) \in Int
  <2>1. (n - 1) % WordModulus \in Nat
    BY <1>1
  <2> QED
    BY <2>1, TimeAssumption DEF RTC2US
<1>4. CASE Advance
  BY <1>4 DEF Advance, object, Words
<1>5. CASE init_timer \/ start_timer
  <2>1. now' = now /\ accumulated_time' = 0 /\ (last' = 0 \/ last' = now % WordModulus)
    BY <1>5 DEF init_timer, start_timer, StartMeasurement, Called
  <2>2. timevector' = [i \in 0 .. VecLen - 1 |-> 0]
        \/ timevector' = [timevector EXCEPT ![0] = 0]
    BY <1>5 DEF init_timer, start_timer
  <2>3. now' \in Nat /\ accumulated_time' \in Word /\ last' \in Word
    BY <1>1, <2>1 DEF Words
  <2>4. timevector' \in [0 .. VecLen - 1 -> Word]
    BY <1>1, <2>2 DEF Words
  <2> QED
    BY <2>3, <2>4 DEF Words
<1>6. CASE GetStops
  BY <1>1, <1>6 DEF GetStops, StopMeasurement, Called, Words
<1>7. CASE GetRestarts
  BY <1>1, <1>2, <1>3, <1>7 DEF GetRestarts, StartMeasurement, Words
<1>8. CASE stop_timer
  <2>1. last' \in Word /\ now' = now /\ Accumulate(RTC2US(last'))
    BY <1>1, <1>8 DEF stop_timer, StopMeasurement, Called, Words
  <2> QED
    BY <1>2, <1>3, <2>1 DEF Words
<1>9. CASE UNCHANGED vars
  BY <1>9 DEF vars, object, Words
<1> QED
  BY <1>4, <1>5, <1>6, <1>7, <1>8, <1>9 DEF Next

LEMMA NextFlags == ASSUME Flags, [Next]_vars PROVE Flags'
<1>1. CASE Advance \/ init_timer \/ start_timer \/ GetStops
  BY <1>1, Zenon DEF Advance, init_timer, start_timer, GetStops, Called, object, Flags
<1>2. CASE GetRestarts
  <2>1. corrupt' \in BOOLEAN
    <3>1. corrupt' = (counter >= VecLen)
      BY <1>2, Zenon DEF GetRestarts, Accumulate, Enter
    <3>2. (counter >= VecLen) \in BOOLEAN
      OBVIOUS
    <3> QED
      BY <3>1, <3>2, Zenon
  <2>2. inGet' \in BOOLEAN /\ running' \in BOOLEAN
    BY <1>2, Zenon DEF GetRestarts, Flags
  <2> QED
    BY <2>1, <2>2, Zenon DEF Flags
<1>3. CASE stop_timer
  <2>1. corrupt' \in BOOLEAN
    <3>1. corrupt' = (counter >= VecLen)
      BY <1>3, Zenon DEF stop_timer, Accumulate, Enter
    <3>2. (counter >= VecLen) \in BOOLEAN
      OBVIOUS
    <3> QED
      BY <3>1, <3>2, Zenon
  <2>2. inGet' \in BOOLEAN /\ running' \in BOOLEAN
    BY <1>3, Zenon DEF stop_timer, Flags
  <2> QED
    BY <2>1, <2>2, Zenon DEF Flags
<1>4. CASE UNCHANGED vars
  BY <1>4, Zenon DEF vars, object, Flags
<1> QED
  BY <1>1, <1>2, <1>3, <1>4 DEF Next

\* The timer object keeps its types, for any length of the log and any word.
THEOREM TypeCorrect == ASSUME StopsOnce PROVE Spec => []TypeOK
<1>1. Init => RoomInv /\ Words /\ Flags
  <2>1. 0 \in Word
    BY TimeAssumption DEF Word
  <2>2. Init => Words
    BY <2>1 DEF Init, Words
  <2>3. Init => Flags
    BY Zenon DEF Init, Flags
  <2> QED
    BY <2>2, <2>3, RoomInit
<1>2. RoomInv /\ Words /\ Flags /\ [Next]_vars => (RoomInv /\ Words /\ Flags)'
  BY RoomNext, NextWords, NextFlags
<1>3. RoomInv /\ Words /\ Flags => TypeOK
  BY DEF RoomInv, Words, Word, Flags, TypeOK
<1> QED
  BY <1>1, <1>2, <1>3, PTL DEF Spec

-----------------------------------------------------------------------------

\* The use for which the total is exact: only running timers are stopped, and each
\* measurement is shorter than the period of the cycle counter.  Counter and total
\* may wrap any number of times.
Measurable == StopsOnce /\ CallsInTime

Typed ==
    /\ now \in Nat
    /\ from \in Nat /\ from <= now
    /\ upTo \in Nat
    /\ measured \in Nat
    /\ samples \in Nat
    /\ started \in Int
    /\ last \in Word
    /\ accumulated_time \in Word

\* Until an init_timer clears the start time, last is worth something; it is again
\* when the next measurement has been logged.
Sound == started >= 0 \/ counter > 0

\* What the object's last stands for.
LastInv ==
    /\ running /\ ~inGet =>
          now - from < WordModulus /\ (Sound => last = from % WordModulus)
    /\ inGet =>
          /\ running /\ samples >= 1 /\ from < upTo
          /\ Sound => last = upTo - from

\* Inside get_timer_us the last measurement is not yet in the total.
Entered == IF inGet THEN measured - last ELSE measured
Entries == IF inGet THEN samples - 1 ELSE samples

\* k is the number of times that the total has wrapped.
SumInv ==
    started >= 0 => \E k \in Nat :
        /\ Entered <= (accumulated_time + k * WordModulus) * CyclesPerUs
        /\ (accumulated_time + k * WordModulus) * CyclesPerUs
              <= Entered + Entries * (CyclesPerUs - 1)

\* RTC2US rounds up, by less than a microsecond, and fits the word.
LEMMA RoundsUp ==
    ASSUME NEW n \in Word, n >= 1
    PROVE  /\ RTC2US(n) \in Word
           /\ n <= RTC2US(n) * CyclesPerUs
           /\ RTC2US(n) * CyclesPerUs <= n + CyclesPerUs - 1
<1> DEFINE d == (n - 1) \div CyclesPerUs
<1>1. n - 1 \in Nat /\ (n - 1) % WordModulus = n - 1
  BY TimeAssumption DEF Word
<1>2. d \in Nat /\ d * CyclesPerUs <= n - 1 /\ n - 1 < d * CyclesPerUs + CyclesPerUs
  BY <1>1, TimeAssumption
<1>3. RTC2US(n) = d + 1
  BY <1>1 DEF RTC2US
<1>4. (d + 1) * CyclesPerUs = d * CyclesPerUs + CyclesPerUs
  BY <1>2, TimeAssumption
<1> HIDE DEF d
<1>5. d <= d * CyclesPerUs
  BY <1>2, TimeAssumption
<1> QED
  BY <1>2, <1>3, <1>4, <1>5, TimeAssumption DEF Word

\* A duration is what has passed, as long as the counter wrapped once at most.
LEMMA Duration ==
    ASSUME NEW W \in Nat \ {0}, NEW a \in Nat, NEW b \in Nat, a <= b, b - a < W
    PROVE  (b - (a % W)) % W = b - a
OBVIOUS

\* What a subtraction of unsigned numbers gives back.
LEMMA Subtraction ==
    ASSUME NEW W \in Nat \ {0}, NEW a \in 0 .. W - 1, NEW d \in 0 .. W - 1
    PROVE  (((a + d) % W) - a) % W = d
<1>1. CASE a + d < W
  <2>1. (a + d) % W = a + d
    BY <1>1
  <2> QED
    BY <2>1
<1>2. CASE a + d >= W
  <2>1. (a + d) % W = a + d - W
    BY <1>2
  <2>2. (d - W) % W = d
    OBVIOUS
  <2> QED
    BY <2>1, <2>2
<1> QED
  BY <1>1, <1>2

\* A number that is d but for k wraps is at most d when reduced.
LEMMA Reduced ==
    ASSUME NEW M \in Nat \ {0}, NEW x \in Int, NEW k \in Nat, NEW d \in Nat,
           x + k * M = d
    PROVE  x % M <= d
<1> DEFINE q == x \div M
           e == x % M
<1>1. q \in Int /\ e \in Nat /\ e < M /\ x = q * M + e
  OBVIOUS
<1> HIDE DEF q, e
<1>2. d = (q + k) * M + e
  BY <1>1
<1>3. q + k >= 0
  <2>1. SUFFICES ASSUME q + k <= -1 PROVE FALSE
    BY <1>1
  <2>2. (q + k) * M <= -M
    BY <1>1, <2>1
  <2> QED
    BY <1>1, <1>2, <2>2
<1>4. (q + k) * M >= 0
  BY <1>1, <1>3
<1>5. e <= d
  BY <1>1, <1>2, <1>4
<1> QED
  BY <1>5 DEF e

\* An entry of the log adds its measurement to the total, which may wrap.
LEMMA TotalAdds ==
    ASSUME NEW acc \in Word, NEW n \in Word, n >= 1,
           NEW m \in Int, NEW s \in Int, NEW k \in Nat,
           m <= (acc + k * WordModulus) * CyclesPerUs,
           (acc + k * WordModulus) * CyclesPerUs <= m + s * (CyclesPerUs - 1),
           NEW total, total = (acc + RTC2US(n)) % WordModulus
    PROVE  /\ total \in Word
           /\ \E j \in Nat :
                /\ m + n <= (total + j * WordModulus) * CyclesPerUs
                /\ (total + j * WordModulus) * CyclesPerUs
                      <= m + n + (s + 1) * (CyclesPerUs - 1)
<1> DEFINE dt == RTC2US(n)
           t  == acc + k * WordModulus
           q  == (acc + dt) \div WordModulus
<1>1. dt \in Nat /\ n <= dt * CyclesPerUs /\ dt * CyclesPerUs <= n + CyclesPerUs - 1
  BY RoundsUp DEF Word
<1>2. acc \in Nat /\ t \in Nat /\ n \in Nat
  BY TimeAssumption DEF Word
<1> HIDE DEF dt
<1>3. q \in Nat /\ total \in Word /\ acc + dt = total + q * WordModulus
  BY <1>1, <1>2, TimeAssumption DEF Word, dt
<1>4. total + (q + k) * WordModulus = t + dt
  <2>1. (q + k) * WordModulus = q * WordModulus + k * WordModulus
    BY <1>3, TimeAssumption
  <2> QED
    BY <1>1, <1>2, <1>3, <2>1, TimeAssumption DEF Word
<1> HIDE DEF t, q
<1>5. (t + dt) * CyclesPerUs = t * CyclesPerUs + dt * CyclesPerUs
  BY <1>1, <1>2, TimeAssumption
<1>6. (s + 1) * (CyclesPerUs - 1) = s * (CyclesPerUs - 1) + CyclesPerUs - 1
  BY TimeAssumption
<1>7. m <= t * CyclesPerUs /\ t * CyclesPerUs <= m + s * (CyclesPerUs - 1)
  BY DEF t
<1>8. m + n <= (t + dt) * CyclesPerUs
      /\ (t + dt) * CyclesPerUs <= m + n + (s + 1) * (CyclesPerUs - 1)
  BY <1>1, <1>2, <1>5, <1>6, <1>7, TimeAssumption
<1>9. q + k \in Nat
  BY <1>3
<1> QED
  BY <1>3, <1>4, <1>8, <1>9

\* The second half of get_timer_us keeps the total.
LEMMA GetRestartsSum ==
    ASSUME Typed, LastInv, SumInv, GetRestarts
    PROVE  Typed' /\ LastInv' /\ SumInv'
<1> USE TimeAssumption DEF Word
<1>1. /\ inGet /\ ~inGet' /\ last' = now % WordModulus /\ from' = now
      /\ accumulated_time' = (accumulated_time + RTC2US(last)) % WordModulus
      /\ UNCHANGED <<now, running, started, upTo, measured, samples>>
  BY DEF GetRestarts, StartMeasurement, Accumulate
<1>2. accumulated_time' \in Word
  <2>1. RTC2US(last) \in Int
    <3>1. (last - 1) % WordModulus \in Nat
      BY DEF Typed
    <3> QED
      BY <3>1 DEF RTC2US
  <2> QED
    BY <1>1, <2>1 DEF Typed
<1>3. Typed'
  BY <1>1, <1>2 DEF Typed
<1>4. LastInv'
  BY <1>1 DEF Typed, LastInv
<1>5. ASSUME started >= 0
      PROVE  \E j \in Nat :
                /\ measured <= (accumulated_time' + j * WordModulus) * CyclesPerUs
                /\ (accumulated_time' + j * WordModulus) * CyclesPerUs
                      <= measured + samples * (CyclesPerUs - 1)
  <2> DEFINE m == measured - last
             s == samples - 1
  <2>1. m \in Int /\ s \in Int /\ last >= 1 /\ m + last = measured /\ s + 1 = samples
    BY <1>1, <1>5 DEF Typed, LastInv, Sound
  <2>2. PICK k \in Nat :
            /\ m <= (accumulated_time + k * WordModulus) * CyclesPerUs
            /\ (accumulated_time + k * WordModulus) * CyclesPerUs
                  <= m + s * (CyclesPerUs - 1)
    BY <1>1, <1>5 DEF SumInv, Entered, Entries
  <2>3. accumulated_time \in Word /\ last \in Word
    BY DEF Typed
  <2> HIDE DEF m, s, Word
  <2>4. \E j \in Nat :
            /\ m + last <= (accumulated_time' + j * WordModulus) * CyclesPerUs
            /\ (accumulated_time' + j * WordModulus) * CyclesPerUs
                  <= m + last + (s + 1) * (CyclesPerUs - 1)
    BY <1>1, <2>1, <2>2, <2>3, TotalAdds
  <2> QED
    BY <2>1, <2>4
<1>6. SumInv'
  BY <1>1, <1>5 DEF SumInv, Entered, Entries
<1> QED
  BY <1>3, <1>4, <1>6

\* What a stop of the measurement makes of last.
LEMMA Stopped ==
    ASSUME Typed, LastInv, running, ~inGet, now > from, StopMeasurement
    PROVE  last' \in Word /\ (Sound => last' = now - from /\ last' >= 1)
<1>1. last' = (now - last) % WordModulus
  BY DEF StopMeasurement
<1>2. last' \in Word
  BY <1>1, TimeAssumption DEF Typed, Word
<1>3. ASSUME Sound PROVE last' = now - from
  <2>1. last = from % WordModulus /\ now - from < WordModulus
    BY <1>3 DEF LastInv
  <2> QED
    BY <1>1, <2>1, Duration, TimeAssumption DEF Typed
<1> QED
  BY <1>2, <1>3 DEF Typed

LEMMA StopSum ==
    ASSUME Measurable, Typed, LastInv, SumInv, stop_timer
    PROVE  Typed' /\ LastInv' /\ SumInv'
<1> USE TimeAssumption DEF Word
<1>1. /\ running /\ ~inGet /\ inGet' = inGet /\ now > from /\ StopMeasurement
      /\ measured' = measured + now - from /\ samples' = samples + 1 /\ upTo' = now
      /\ accumulated_time' = (accumulated_time + RTC2US(last')) % WordModulus
      /\ ~running'
      /\ UNCHANGED <<now, from, started>>
  BY DEF stop_timer, Called, StopMeasurement, Measurable, Accumulate
<1>2. last' \in Word /\ (Sound => last' = now - from /\ last' >= 1)
  BY <1>1, Stopped
<1>3. accumulated_time' \in Word
  <2>1. RTC2US(last') \in Int
    <3>1. \A w \in Word : RTC2US(w) \in Int
      BY DEF RTC2US
    <3> QED
      BY <1>2, <3>1
  <2> QED
    BY <1>1, <2>1 DEF Typed
<1>4. Typed'
  BY <1>1, <1>2, <1>3 DEF Typed
<1>5. LastInv'
  BY <1>1 DEF LastInv
<1>6. ASSUME started >= 0
      PROVE  \E j \in Nat :
                /\ measured' <= (accumulated_time' + j * WordModulus) * CyclesPerUs
                /\ (accumulated_time' + j * WordModulus) * CyclesPerUs
                      <= measured' + samples' * (CyclesPerUs - 1)
  <2>1. PICK k \in Nat :
            /\ measured <= (accumulated_time + k * WordModulus) * CyclesPerUs
            /\ (accumulated_time + k * WordModulus) * CyclesPerUs
                  <= measured + samples * (CyclesPerUs - 1)
    BY <1>1, <1>6 DEF SumInv, Entered, Entries
  <2>2. accumulated_time \in Word /\ measured \in Int /\ samples \in Int
        /\ last' >= 1 /\ measured' = measured + last'
    BY <1>1, <1>2, <1>6 DEF Typed, Sound
  <2> HIDE DEF Word
  <2>3. \E j \in Nat :
            /\ measured + last' <= (accumulated_time' + j * WordModulus) * CyclesPerUs
            /\ (accumulated_time' + j * WordModulus) * CyclesPerUs
                  <= measured + last' + (samples + 1) * (CyclesPerUs - 1)
    BY <1>1, <1>2, <2>1, <2>2, TotalAdds
  <2> QED
    BY <1>1, <2>2, <2>3
<1>7. SumInv'
  BY <1>1, <1>6 DEF SumInv, Entered, Entries
<1> QED
  BY <1>4, <1>5, <1>7

\* Every step keeps what the total is made of.
LEMMA NextSum ==
    ASSUME Measurable, RoomInv, Typed, LastInv, SumInv, [Next]_vars
    PROVE  Typed' /\ LastInv' /\ SumInv'
<1> USE TimeAssumption DEF Word
<1>1. CASE Advance
  <2>1. now' = now + 1 /\ UNCHANGED <<object, inGet, history>>
        /\ (running => now' - from < WordModulus)
    BY <1>1 DEF Advance, Measurable, Typed
  <2>2. Typed' /\ LastInv'
    BY <2>1 DEF object, history, Typed, LastInv, Sound
  <2>3. SumInv'
    BY <2>1 DEF object, history, SumInv, Entered, Entries
  <2> QED
    BY <2>2, <2>3
<1>2. CASE init_timer
  <2>1. started' = -1 /\ counter' = 0
    BY <1>2 DEF init_timer
  <2> QED
    BY <1>2, <2>1 DEF init_timer, Called, Typed, LastInv, Sound, SumInv
<1>3. CASE start_timer
  <2>1. /\ ~inGet /\ inGet' = inGet /\ now' = now /\ started' = now /\ from' = now
        /\ measured' = 0 /\ samples' = 0 /\ accumulated_time' = 0 /\ upTo' = upTo
        /\ last' = now % WordModulus
    BY <1>3 DEF start_timer, Called, StartMeasurement
  <2>2. last' \in Word
    BY <2>1 DEF Typed
  <2>3. Typed'
    BY <2>1, <2>2 DEF Typed
  <2>4. LastInv'
    BY <2>1 DEF Typed, LastInv
  <2>5. (accumulated_time' + 0 * WordModulus) * CyclesPerUs = 0
    BY <2>1
  <2>6. SumInv'
    BY <2>1, <2>5 DEF SumInv, Entered, Entries
  <2> QED
    BY <2>3, <2>4, <2>6
<1>4. CASE GetStops
  <2>1. /\ running /\ ~inGet /\ inGet' /\ now > from /\ StopMeasurement
        /\ measured' = measured + now - from /\ samples' = samples + 1 /\ upTo' = now
        /\ UNCHANGED <<now, from, started, running, accumulated_time, counter>>
    BY <1>4 DEF GetStops, Called, StopMeasurement
  <2>2. last' \in Word /\ (Sound => last' = now - from)
    BY <2>1, Stopped
  <2>3. Typed'
    BY <2>1, <2>2 DEF Typed
  <2>4. LastInv'
    BY <2>1, <2>2 DEF Typed, LastInv, Sound
  <2>5. started >= 0 => measured' - last' = measured /\ samples' - 1 = samples
    BY <2>1, <2>2 DEF Typed, Sound
  <2>6. SumInv'
    BY <2>1, <2>5 DEF SumInv, Entered, Entries
  <2> QED
    BY <2>3, <2>4, <2>6
<1>5. CASE GetRestarts \/ stop_timer
  BY <1>5, GetRestartsSum, StopSum
<1>6. CASE UNCHANGED vars
  BY <1>6 DEF vars, object, history, Typed, LastInv, Sound, SumInv, Entered, Entries
<1> QED
  BY <1>1, <1>2, <1>3, <1>4, <1>5, <1>6 DEF Next

LEMMA InitSum == Init => Typed /\ LastInv /\ SumInv
BY TimeAssumption DEF Init, Typed, LastInv, SumInv, Word

LEMMA SumSpec == ASSUME Measurable PROVE Spec => [](RoomInv /\ Typed /\ LastInv /\ SumInv)
<1>1. RoomInv /\ Typed /\ LastInv /\ SumInv /\ [Next]_vars
          => (RoomInv /\ Typed /\ LastInv /\ SumInv)'
  BY RoomNext, NextSum DEF Measurable
<1> QED
  BY <1>1, RoomInit, InitSum, PTL DEF Spec

\* The excess of the total is that of the unwrapped one.
LEMMA SumExcess ==
    ASSUME Typed, SumInv, Accounted
    PROVE  Excess(measured) <= samples * (CyclesPerUs - 1)
<1> USE TimeAssumption DEF Typed, Word, Accounted
<1> DEFINE M == WordModulus * CyclesPerUs
           x == accumulated_time * CyclesPerUs - measured
<1>1. PICK k \in Nat :
          /\ measured <= (accumulated_time + k * WordModulus) * CyclesPerUs
          /\ (accumulated_time + k * WordModulus) * CyclesPerUs
                <= measured + samples * (CyclesPerUs - 1)
  BY DEF SumInv, Entered, Entries
<1>2. M \in Nat \ {0} /\ x \in Int
  OBVIOUS
<1>3. (accumulated_time + k * WordModulus) * CyclesPerUs
          = accumulated_time * CyclesPerUs + k * M
  OBVIOUS
<1>4. k * M \in Int /\ samples * (CyclesPerUs - 1) \in Int
  BY <1>2
<1>5. x + k * M \in Nat /\ x + k * M <= samples * (CyclesPerUs - 1)
  BY <1>1, <1>2, <1>3, <1>4
<1> HIDE DEF M, x
<1>6. x % M <= x + k * M
  BY <1>2, <1>5, Reduced
<1>7. x % M \in Int
  BY <1>2
<1> QED
  BY <1>4, <1>5, <1>6, <1>7 DEF Excess, M, x

\* The total is the time measured, rounded up by less than a microsecond for each
\* measurement, however the calls, the preemptions and the wraps fall.
THEOREM MeasuredIsCounted == ASSUME Measurable PROVE Spec => []Accounting
<1>1. Typed /\ SumInv => Accounting
  BY SumExcess DEF Accounting
<1> QED
  BY <1>1, SumSpec, PTL

-----------------------------------------------------------------------------

\* The last entry of the log is the total.
LogInv ==
    /\ timevector \in [0 .. VecLen - 1 -> Word]
    /\ taken \in [0 .. VecLen - 1 -> Nat]
    /\ \A i \in 1 .. counter - 1 :
            Printed(i) * CyclesPerUs \in taken[i] .. taken[i] + CyclesPerUs - 1
    /\ counter > 0 => timevector[counter - 1] = accumulated_time

LEMMA InitLog == Init => LogInv
BY VecLenAssumption, TimeAssumption DEF Init, LogInv, Word

\* The entry of a measurement of n cycles differs from the one before by them.
LEMMA EntryPrints ==
    ASSUME NEW n \in Word, n >= 1, NEW acc \in Word
    PROVE  ((((acc + RTC2US(n)) % WordModulus) - acc) % WordModulus) * CyclesPerUs
                \in n .. n + CyclesPerUs - 1
<1>1. RTC2US(n) \in Word
  BY RoundsUp
<1>2. (((acc + RTC2US(n)) % WordModulus) - acc) % WordModulus = RTC2US(n)
  BY <1>1, Subtraction, TimeAssumption DEF Word
<1>3. RTC2US(n) * CyclesPerUs \in Int
  BY <1>1, TimeAssumption DEF Word
<1> QED
  BY <1>2, <1>3, RoundsUp, TimeAssumption DEF Word

\* GetRestarts and stop_timer log a measurement of n cycles.
LEMMA LogStep ==
    ASSUME RoomInv, Typed, LogInv, running,
           NEW n \in Word, n >= 1 \/ counter = 0,
           counter > 0 => upTo' - from = n, upTo' - from \in Nat,
           Accumulate(RTC2US(n)), accumulated_time' \in Word,
           counter' = counter + 1 \/ counter' = 0
    PROVE  LogInv'
<1> USE VecLenAssumption, TimeAssumption
<1>1. counter < VecLen /\ counter \in Nat
  BY DEF RoomInv
<1>2. /\ accumulated_time' = (accumulated_time + RTC2US(n)) % WordModulus
      /\ timevector' = [timevector EXCEPT ![counter] = accumulated_time']
      /\ taken' = [taken EXCEPT ![counter] = upTo' - from]
  BY <1>1 DEF Accumulate, Enter
<1>3. timevector' \in [0 .. VecLen - 1 -> Word] /\ taken' \in [0 .. VecLen - 1 -> Nat]
  BY <1>1, <1>2 DEF LogInv
<1>4. timevector'[counter] = accumulated_time'
  BY <1>1, <1>2 DEF LogInv
<1>5. ASSUME NEW i \in 1 .. counter
      PROVE  ((timevector'[i] - timevector'[i - 1]) % WordModulus) * CyclesPerUs
                \in taken'[i] .. taken'[i] + CyclesPerUs - 1
  <2>1. CASE i < counter
    <3>1. timevector'[i] = timevector[i] /\ timevector'[i - 1] = timevector[i - 1]
          /\ taken'[i] = taken[i]
      BY <1>1, <1>2, <2>1 DEF LogInv
    <3>2. i \in 1 .. counter - 1
      BY <1>1, <2>1
    <3> QED
      BY <3>1, <3>2 DEF LogInv, Printed
  <2>2. CASE i = counter
    <3>1. /\ timevector'[i] = (accumulated_time + RTC2US(n)) % WordModulus
          /\ timevector'[i - 1] = accumulated_time
          /\ taken'[i] = n
      BY <1>1, <1>2, <2>2 DEF LogInv
    <3>2. n >= 1 /\ accumulated_time \in Word
      BY <2>2 DEF Typed
    <3> QED
      BY <3>1, <3>2, EntryPrints
  <2> QED
    BY <1>1, <2>1, <2>2
<1>6. \A i \in 1 .. counter' - 1 :
          ((timevector'[i] - timevector'[i - 1]) % WordModulus) * CyclesPerUs
              \in taken'[i] .. taken'[i] + CyclesPerUs - 1
  BY <1>1, <1>5
<1>7. counter' > 0 => timevector'[counter' - 1] = accumulated_time'
  BY <1>1, <1>4
<1> QED
  BY <1>3, <1>6, <1>7 DEF LogInv, Printed

LEMMA NextLog ==
    ASSUME Measurable, RoomInv, Typed, LastInv, SumInv, LogInv, [Next]_vars
    PROVE  LogInv'
<1> USE VecLenAssumption, TimeAssumption
<1>1. CASE Advance \/ GetStops
  BY <1>1 DEF Advance, GetStops, object, history, LogInv, Printed
<1>2. CASE init_timer \/ start_timer
  <2>1. counter' = 0 \/ (counter' = 1 /\ timevector'[0] = accumulated_time')
    BY <1>2 DEF init_timer, start_timer, LogInv
  <2>2. timevector' \in [0 .. VecLen - 1 -> Word] /\ taken' = taken
    BY <1>2 DEF init_timer, start_timer, LogInv, Word
  <2> QED
    BY <2>1, <2>2 DEF LogInv
<1>3. CASE GetRestarts
  <2>1. /\ running /\ inGet /\ last \in Word /\ upTo' = upTo /\ upTo - from \in Nat
        /\ (counter > 0 => upTo - from = last /\ last >= 1)
    BY <1>3 DEF GetRestarts, Typed, LastInv, Sound
  <2>2. Accumulate(RTC2US(last)) /\ accumulated_time' \in Word
    BY <1>3, GetRestartsSum DEF GetRestarts, Typed
  <2>3. counter' = counter + 1 \/ counter' = 0
    BY <1>3 DEF GetRestarts, RoomInv
  <2>4. last >= 1 \/ counter = 0
    BY <2>1 DEF RoomInv
  <2> QED
    BY <2>1, <2>2, <2>3, <2>4, LogStep
<1>4. CASE stop_timer
  <2>1. /\ running /\ ~inGet /\ now > from /\ StopMeasurement /\ upTo' = now
        /\ Accumulate(RTC2US(last')) /\ counter' = counter + 1
    BY <1>4 DEF stop_timer, Called, StopMeasurement, Measurable
  <2>2. last' \in Word /\ (counter > 0 => last' = now - from /\ last' >= 1)
    BY <2>1, Stopped DEF Sound
  <2>3. accumulated_time' \in Word /\ now - from \in Nat
    BY <1>4, <2>1, StopSum DEF Typed
  <2>4. last' >= 1 \/ counter = 0
    BY <2>2 DEF RoomInv
  <2> QED
    BY <2>1, <2>2, <2>3, <2>4, LogStep
<1>5. CASE UNCHANGED vars
  BY <1>5 DEF vars, object, history, LogInv, Printed
<1> QED
  BY <1>1, <1>2, <1>3, <1>4, <1>5 DEF Next

\* Every difference that print_timex prints is the time of one measurement, whatever
\* the order of the calls and however often counter, total and log have wrapped.
THEOREM LogDiffers == ASSUME Measurable PROVE Spec => []PrintedDifferences
<1>1. LogInv => PrintedDifferences
  BY DEF LogInv, PrintedDifferences
<1>2. LogInv /\ (RoomInv /\ Typed /\ LastInv /\ SumInv) /\ [Next]_vars => LogInv'
  BY NextLog
<1> QED
  BY <1>1, <1>2, InitLog, SumSpec, PTL DEF Spec

-----------------------------------------------------------------------------

\* The time measured is part of the time from start; without a preemption between
\* the stop and the start inside get_timer_us it is all of it.
FromStart ==
    started >= 0 =>
        /\ samples = 0 => measured = 0 /\ from = started
        /\ samples > 0 =>
              /\ upTo <= now /\ measured <= upTo - started
              /\ running /\ ~inGet => upTo <= from
              /\ ~Preemptible =>
                    /\ measured = upTo - started
                    /\ inGet => upTo = now
                    /\ running /\ ~inGet => from = upTo

LEMMA NextFromStart ==
    ASSUME Measurable, Typed, LastInv, FromStart, [Next]_vars
    PROVE  FromStart'
<1> USE TimeAssumption DEF FromStart
<1>1. CASE Advance
  BY <1>1 DEF Advance, object, history, Typed
<1>2. CASE init_timer
  BY <1>2 DEF init_timer
<1>3. CASE start_timer
  <2>1. started' = now /\ from' = now /\ measured' = 0 /\ samples' = 0 /\ upTo' = upTo
    BY <1>3 DEF start_timer, StartMeasurement
  <2> QED
    BY <1>3, <2>1 DEF start_timer
<1>4. CASE GetStops \/ stop_timer
  <2>1. /\ running /\ ~inGet /\ now > from
        /\ upTo' = now /\ now' = now /\ from' = from /\ started' = started
        /\ measured' = measured + now - from /\ samples' = samples + 1
        /\ ~(running' /\ ~inGet')
    BY <1>4 DEF GetStops, stop_timer, StopMeasurement, Called, Measurable
  <2>2. started >= 0 => measured <= from - started
    BY <2>1 DEF Typed
  <2>3. started >= 0 /\ ~Preemptible => measured = from - started
    BY <2>1 DEF Typed
  <2> QED
    BY <2>1, <2>2, <2>3 DEF Typed
<1>5. CASE GetRestarts
  <2>1. /\ inGet /\ ~inGet' /\ from' = now
        /\ UNCHANGED <<running, now, started, upTo, measured, samples>>
    BY <1>5 DEF GetRestarts, StartMeasurement
  <2> QED
    BY <2>1 DEF Typed, LastInv
<1>6. CASE UNCHANGED vars
  BY <1>6 DEF vars, object, history
<1> QED
  BY <1>1, <1>2, <1>3, <1>4, <1>5, <1>6 DEF Next

LEMMA FromStartSpec ==
    ASSUME Measurable PROVE Spec => [](FromStart /\ Typed /\ SumInv)
<1>1. Init => FromStart
  BY DEF Init, FromStart
<1>2. FromStart /\ (RoomInv /\ Typed /\ LastInv /\ SumInv) /\ [Next]_vars => FromStart'
  BY NextFromStart
<1> QED
  BY <1>1, <1>2, SumSpec, PTL DEF Spec

\* "returns time from start in us", as an unsigned number of 32 bits, holds of every
\* call if nothing can run inside get_timer_us; timer_gap shows it false where
\* something can.
THEOREM ReturnsTime ==
    ASSUME Measurable, ~Preemptible PROVE Spec => []ReturnsTimeFromStart
<1>1. Typed /\ FromStart /\ SumInv => ReturnsTimeFromStart
  <2> SUFFICES ASSUME Typed, FromStart, SumInv, Accounted
               PROVE  Excess(upTo - started) <= samples * CyclesPerUs
    BY DEF ReturnsTimeFromStart
  <2>1. measured = upTo - started
    BY DEF FromStart, Typed, Accounted
  <2>2. Excess(measured) <= samples * (CyclesPerUs - 1)
    BY SumExcess
  <2>3. samples * (CyclesPerUs - 1) <= samples * CyclesPerUs
        /\ samples * (CyclesPerUs - 1) \in Int /\ samples * CyclesPerUs \in Int
    BY TimeAssumption DEF Typed
  <2>4. Excess(measured) \in Int
    <3>1. WordModulus * CyclesPerUs \in Nat \ {0}
          /\ accumulated_time * CyclesPerUs - measured \in Int
      BY TimeAssumption DEF Typed, Word
    <3> QED
      BY <3>1 DEF Excess
  <2> QED
    BY <2>1, <2>2, <2>3, <2>4
<1> QED
  BY <1>1, FromStartSpec, PTL

\* What a preemption makes of a total: it misses time, it never invents any.  A wrap
\* makes it smaller still.
NeverTooMuch ==
    Accounted =>
        accumulated_time * CyclesPerUs <= upTo - started + samples * CyclesPerUs

\* Whatever runs inside get_timer_us, the total exceeds the time from start by
\* nothing but the rounding.
THEOREM PreemptionOnlyLoses == ASSUME Measurable PROVE Spec => []NeverTooMuch
<1>1. Typed /\ FromStart /\ SumInv => NeverTooMuch
  <2> SUFFICES ASSUME Typed, FromStart, SumInv, Accounted
               PROVE  accumulated_time * CyclesPerUs
                          <= upTo - started + samples * CyclesPerUs
    BY DEF NeverTooMuch
  <2> USE TimeAssumption DEF Accounted
  <2>1. PICK k \in Nat : (accumulated_time + k * WordModulus) * CyclesPerUs
                            <= measured + samples * (CyclesPerUs - 1)
    BY DEF SumInv, Entered, Entries
  <2>2. /\ accumulated_time \in Nat /\ k * WordModulus \in Nat
        /\ measured \in Int /\ upTo - started \in Int /\ samples \in Nat
    BY DEF Typed, Word
  <2>3. accumulated_time * CyclesPerUs
            <= (accumulated_time + k * WordModulus) * CyclesPerUs
    <3> DEFINE z == k * WordModulus
    <3>1. z * CyclesPerUs \in Nat
      BY <2>2
    <3> HIDE DEF z
    <3>2. (accumulated_time + z) * CyclesPerUs
              = accumulated_time * CyclesPerUs + z * CyclesPerUs
      BY <2>2 DEF z
    <3>3. accumulated_time * CyclesPerUs \in Nat
      BY <2>2
    <3> QED
      BY <3>1, <3>2, <3>3 DEF z
  <2>4. samples * (CyclesPerUs - 1) <= samples * CyclesPerUs
    BY <2>2
  <2>5. measured <= upTo - started
    BY DEF FromStart, Typed
  <2>6. /\ accumulated_time * CyclesPerUs \in Int
        /\ (accumulated_time + k * WordModulus) * CyclesPerUs \in Int
        /\ samples * (CyclesPerUs - 1) \in Int /\ samples * CyclesPerUs \in Int
    BY <2>2
  <2> QED
    BY <2>1, <2>2, <2>3, <2>4, <2>5, <2>6
<1> QED
  BY <1>1, FromStartSpec, PTL

=============================================================================
