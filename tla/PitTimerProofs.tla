--------------------------- MODULE PitTimerProofs ---------------------------
(***************************************************************************)
(* A sleep is never early and, with at most one tick between two steps of  *)
(* the sleeper, at most MaxLate ticks late: for every width of the counter *)
(* and every phase of it at the call.                                      *)
(***************************************************************************)
EXTENDS PitTimer, TLAPS

\* pit_freq is the 1000 of the conversions, as pit_init leaves it, and no
\* sleep comes within three lags of the width of the counter: behind the
\* overflow the rest of a longer one may not fit once more.
Headroom ==
    /\ Freq = K
    /\ \A n \in Amounts : n * Freq + 3 * MaxLag <= M

----------------------------------------------------------------------------
\* Arithmetic.

\* A sum of two counters, and a difference, in the width of the counter.
LEMMA Wrap ==
    /\ \A x \in Int : 0 <= x /\ x < M => x % M = x
    /\ \A x \in Int : M <= x /\ x < 2 * M => x % M = x - M
    /\ \A x \in Int : -M <= x /\ x < 0 => x % M = x + M
<1>1. PICK m \in Nat : m = M /\ m > 0
  BY WidthAssumption
<1>2. \A x \in Int : 0 <= x /\ x < m => x % m = x
  BY <1>1
<1>3. \A x \in Int : m <= x /\ x < 2 * m => x % m = x - m
  BY <1>1
<1>4. \A x \in Int : -m <= x /\ x < 0 => x % m = x + m
  BY <1>1
<1> QED
  BY <1>1, <1>2, <1>3, <1>4

\* Division undoes multiplication.
LEMMA Quotients ==
    ASSUME NEW m \in Nat \ {0}, NEW x \in Nat
    PROVE  /\ (x * m) \div m = x /\ (m * m) \div m = m
           /\ (x * m) \div (m * m) = x \div m
           /\ x \div m \in Nat /\ x \div m <= x /\ (x >= m => x \div m >= 1)
           /\ m * m >= m /\ x * m \in Nat /\ x * m >= x
  OBVIOUS

\* What the sleeps pass to wait_ticks is what the caller asked for, at least
\* one tick, and leaves the headroom.
LEMMA Conversions ==
    ASSUME Headroom, NEW n \in Amounts
    PROVE  \A p \in {<<"us", sleep_us(n)>>, <<"ms", sleep_ms(n)>>, <<"sec", sleep_sec(n)>>} :
              /\ p[2] = AskedTicks(p[1], n) /\ p[2] \in Nat
              /\ p[2] >= 1 /\ p[2] + 3 * MaxLag <= M
<1>1. /\ K \in Nat \ {0} /\ n \in Nat \ {0} /\ Freq = K /\ MaxLag \in Nat \ {0}
      /\ n * K + 3 * MaxLag <= M /\ n * K \in Nat /\ n * K >= n /\ n * K >= 1
      /\ n * K < M /\ K * K >= K /\ M \in Nat
  <2>1. K \in Nat \ {0} /\ n \in Nat \ {0} /\ MaxLag \in Nat \ {0} /\ M \in Nat
    BY PitAssumption, WidthAssumption
  <2>2. Freq = K /\ n * K + 3 * MaxLag <= M
    BY DEF Headroom
  <2>3. n * K \in Nat /\ n * K >= n /\ K * K >= K
    BY <2>1, Quotients
  <2> HIDE DEF M
  <2> QED
    BY <2>1, <2>2, <2>3
<1> HIDE DEF M
<1>2. MinDelay = K /\ AtLeastOneTick(n) = IF n < K THEN K ELSE n
  BY <1>1, Quotients DEF MinDelay, AtLeastOneTick
<1>3. ASSUME NEW d \in Nat, d >= K, d * K < M
      PROVE  (IF d < K THEN ((d * Freq) % M) \div (K * K)
              ELSE IF d < K * K THEN ((d \div K) * Freq) \div K
              ELSE ((d \div (K * K)) * Freq) % M)
             = IF d < K * K THEN d \div K ELSE K * (d \div (K * K))
  <2>1. ((d \div K) * K) \div K = d \div K
    BY <1>1, Quotients
  <2>2. CASE d < K * K
    BY <1>1, <1>3, <2>1, <2>2
  <2>3. CASE ~(d < K * K)
    <3>1. PICK q \in Nat : q = d \div (K * K) /\ q <= d
      <4>1. K * K \in Nat \ {0}
        BY <1>1
      <4> QED
        BY <1>3, <4>1, Quotients
    <3>2. q * K \in Nat /\ q * K <= d * K /\ q * K = K * q
      BY <1>1, <3>1
    <3>3. (q * K) % M = q * K
      BY <1>1, <1>3, <3>2, Wrap
    <3> QED
      BY <1>1, <1>3, <2>3, <3>1, <3>2, <3>3
  <2> QED
    BY <2>2, <2>3
<1>4. /\ sleep_us(n) = AskedTicks("us", n) /\ sleep_us(n) \in Nat
      /\ sleep_us(n) >= 1 /\ sleep_us(n) <= n * K
  <2>1. CASE n < K
    <3>1. AskedTicks("us", n) = 1
      BY <1>1, <1>2, <2>1 DEF AskedTicks
    <3>2. CASE K = 1
      BY <1>1, <2>1, <3>2
    <3>3. CASE K # 1
      <4>1. K < K * K /\ ((K \div K) * K) \div K = 1
        BY <1>1, <3>3, Quotients
      <4>2. sleep_us(n) = 1
        BY <1>1, <1>2, <2>1, <4>1 DEF sleep_us
      <4> QED
        BY <1>1, <3>1, <4>2
    <3> QED
      BY <3>2, <3>3
  <2>2. CASE ~(n < K)
    <3>1. AtLeastOneTick(n) = n
      BY <1>2, <2>2
    <3>2. sleep_us(n) = IF n < K * K THEN n \div K ELSE K * (n \div (K * K))
      <4>1. n \in Nat /\ n >= K /\ n * K < M
        BY <1>1, <2>2
      <4>2. sleep_us(n) = IF n < K THEN ((n * Freq) % M) \div (K * K)
                          ELSE IF n < K * K THEN ((n \div K) * Freq) \div K
                          ELSE ((n \div (K * K)) * Freq) % M
        BY <3>1 DEF sleep_us
      <4> QED
        BY <1>3, <4>1, <4>2
    <3>3. CASE n < K * K
      <4>1. n \in MinDelay .. K * K - 1 /\ ~(n < MinDelay) /\ ~(n >= K * K)
        BY <1>1, <1>2, <2>2, <3>3
      <4>2. AskedTicks("us", n) = (n * K) \div (K * K)
        BY <1>1, <4>1 DEF AskedTicks
      <4>3. (n * K) \div (K * K) = n \div K /\ n \div K \in Nat /\ n \div K <= n /\ n \div K >= 1
        BY <1>1, <2>2, Quotients
      <4> QED
        BY <1>1, <3>2, <3>3, <4>2, <4>3
    <3>4. CASE ~(n < K * K)
      <4>1. n \notin MinDelay .. K * K - 1 /\ ~(n < MinDelay) /\ n >= MinDelay /\ n >= K * K
        BY <1>1, <1>2, <2>2, <3>4
      <4>2. AskedTicks("us", n) = K * (n \div (K * K))
        BY <1>1, <4>1 DEF AskedTicks
      <4>3. PICK q \in Nat : q = n \div (K * K) /\ q <= n /\ q >= 1
        <5>1. K * K \in Nat \ {0}
          BY <1>1
        <5> QED
          BY <1>1, <3>4, <5>1, Quotients
      <4>4. K * q \in Nat /\ K * q <= n * K /\ K * q >= 1
        BY <1>1, <4>3
      <4> QED
        BY <3>2, <3>4, <4>2, <4>3, <4>4
    <3> QED
      BY <3>3, <3>4
  <2> QED
    BY <2>1, <2>2
<1>5. (n * K) % M = n * K /\ (n * K) \div K = n
  BY <1>1, Wrap, Quotients
<1>6. sleep_us(K) = 1
  <2>1. AtLeastOneTick(K) = K
    BY <1>1, <1>2 DEF AtLeastOneTick
  <2>2. CASE K = 1
    <3>1. (((1 \div (1 * 1)) * 1) % M) = 1
      BY <1>1, Wrap
    <3> QED
      BY <1>1, <2>1, <2>2, <3>1 DEF sleep_us
  <2>3. CASE K # 1
    <3>1. K < K * K /\ ((K \div K) * K) \div K = 1
      BY <1>1, <2>3, Quotients
    <3> QED
      BY <1>1, <2>1, <3>1 DEF sleep_us
  <2> QED
    BY <2>2, <2>3
<1>7. /\ sleep_ms(n) = AskedTicks("ms", n) /\ sleep_ms(n) = n
  <2>1. AskedTicks("ms", n) = n
    BY <1>1, <1>5 DEF AskedTicks
  <2>2. CASE n = 1
    <3>1. sleep_ms(n) = sleep_us(n * K) /\ n * K = K
      BY <1>1, <1>5, <2>2 DEF sleep_ms
    <3> QED
      BY <1>1, <1>6, <2>1, <2>2, <3>1
  <2>3. CASE n # 1
    BY <1>1, <1>5, <2>1, <2>3 DEF sleep_ms
  <2> QED
    BY <2>2, <2>3
<1>8. /\ sleep_sec(n) = AskedTicks("sec", n) /\ sleep_sec(n) = n * K
  <2>1. AskedTicks("sec", n) = n * K
    BY <1>1 DEF AskedTicks
  <2>2. CASE n * K = 1
    <3>1. n = 1 /\ K = 1
      BY <1>1, <2>2
    <3>2. sleep_sec(n) = sleep_ms(n)
      BY <1>1, <1>5, <2>2, <3>1 DEF sleep_sec
    <3> QED
      BY <1>7, <2>1, <2>2, <3>1, <3>2
  <2>3. CASE n * K # 1
    BY <1>1, <1>5, <2>1, <2>3 DEF sleep_sec
  <2> QED
    BY <2>2, <2>3
<1> QED
  BY <1>1, <1>4, <1>7, <1>8

----------------------------------------------------------------------------
\* The invariants.

\* The value of the counter that the last loop of wait_ticks waits for.
Target == (init_tick + delay) % M

\* The counter shows elapsed ticks since init_tick was read.
Since == tick = init_tick + elapsed \/ tick = init_tick + elapsed - M

\* While no more than want ticks have passed, the counter and the locals of
\* wait_ticks determine how many are left.  Behind the overflow the counter is
\* still small, since a loop reads it at least every 2 * MaxLag ticks.
EarlyInv ==
    /\ TypeOK
    /\ pc # "idle" => want >= 1 /\ want + 3 * MaxLag <= M
    /\ pc \notin {"overflow", "wait"} => hlt = "run"
    /\ pc \in {"enter", "check", "overflow"} => delay = want
    /\ pc = "check" => elapsed = lag /\ Since
    /\ pc = "overflow" =>
          /\ tick < init_tick => tick + 1 <= lag + (IF hlt = "stop" THEN 0 ELSE MaxLag)
          /\ elapsed < want => init_tick + want >= M /\ Since
    /\ pc = "restart" /\ elapsed < want =>
          /\ elapsed + delay = want + tick + 1
          /\ delay \in 1 .. want /\ tick + 1 <= 2 * MaxLag + lag
    /\ pc = "wait" /\ elapsed < want => elapsed + (Target - tick) >= want
    /\ pc = "done" => elapsed >= want

\* With one tick at most between two steps of the sleeper, the loops run on
\* for as long as they should and no longer.
LateInv ==
    /\ pc = "overflow" =>
          /\ init_tick + want >= M
          /\ tick >= init_tick => elapsed = tick - init_tick
          /\ tick < init_tick => elapsed = tick + M - init_tick
    /\ pc = "restart" =>
          /\ elapsed + delay = want + tick + 1
          /\ delay \in 1 .. want /\ tick + 1 <= 2 + lag
    /\ pc = "wait" /\ Target # M - 1 =>
          /\ elapsed + (Target - tick) <= want + 3
          /\ tick <= Target + lag - (IF hlt = "stop" THEN 1 ELSE 0)
    /\ pc = "done" /\ Target # M - 1 => elapsed <= want + 4 + lag

\* The constants a step reasons with.
LEMMA Constants == M \in Nat /\ M >= 2 /\ MaxLag \in Nat /\ MaxLag >= 1
  BY PitAssumption, WidthAssumption

\* A tick of the counter, and of the ghost that is capped.
LEMMA TickStep ==
    ASSUME TypeOK
    PROVE  /\ (tick + 1) % M = IF tick = M - 1 THEN 0 ELSE tick + 1
           /\ (tick + 1) % M \in 0 .. M - 1
           /\ Capped(elapsed + 1) \in 0 .. 3 * M
           /\ elapsed < 3 * M => Capped(elapsed + 1) = elapsed + 1
           /\ Capped(elapsed + 1) >= elapsed
<1> USE Constants
<1>1. tick \in 0 .. M - 1 /\ elapsed \in 0 .. 3 * M
  BY DEF TypeOK
<1> HIDE DEF M
<1>2. (tick + 1) % M = IF tick = M - 1 THEN 0 ELSE tick + 1
  BY <1>1, Wrap
<1> QED
  BY <1>1, <1>2 DEF Capped

\* The target is a value of the counter.
LEMMA TargetRange ==
    ASSUME TypeOK
    PROVE  Target \in 0 .. M - 1
           /\ Target = IF init_tick + delay < M THEN init_tick + delay ELSE init_tick + delay - M
<1>1. init_tick \in 0 .. M - 1 /\ delay \in 0 .. M - 1
  BY DEF TypeOK
<1> HIDE DEF M
<1> QED
  BY <1>1, Constants, Wrap DEF Target

\* The interrupt handler runs between any two steps of the sleeper.
LEMMA HandlerEarly == ASSUME EarlyInv, pit_handler PROVE EarlyInv'
<1> USE Constants
<1>0. TypeOK
  BY DEF EarlyInv
<1>1. /\ tick' = IF tick = M - 1 THEN 0 ELSE tick + 1
      /\ tick' \in 0 .. M - 1
      /\ hlt' = IF hlt = "halted" THEN "run" ELSE hlt
      /\ UNCHANGED <<pc, init_tick, delay, wrapped, want>>
      /\ Target' = Target
  BY <1>0, TickStep DEF pit_handler, Target
<1>2. /\ tick \in 0 .. M - 1 /\ init_tick \in 0 .. M - 1 /\ delay \in 0 .. M - 1
      /\ hlt \in {"run", "stop", "halted"} /\ want \in Nat
      /\ elapsed \in 0 .. 3 * M /\ lag \in 0 .. MaxLag /\ Target \in 0 .. M - 1
  BY <1>0, TargetRange DEF TypeOK
<1>3. CASE pc = "idle"
  <2>1. UNCHANGED <<elapsed, lag>>
    BY <1>3 DEF pit_handler
  <2>2. TypeOK'
    BY <1>0, <1>1, <2>1 DEF TypeOK
  <2> QED
    BY <1>1, <1>3, <2>2 DEF EarlyInv
<1>4. CASE pc # "idle"
  <2>1. lag < MaxLag /\ elapsed' = Capped(elapsed + 1) /\ lag' = lag + 1
    BY <1>4 DEF pit_handler
  <2>2. /\ elapsed' \in 0 .. 3 * M /\ elapsed' >= elapsed
        /\ elapsed < 3 * M => elapsed' = elapsed + 1
    BY <1>0, <2>1, TickStep
  <2>3. TypeOK'
    <3>1. lag' \in 0 .. MaxLag
      BY <1>2, <2>1
    <3> QED
      BY <1>0, <1>1, <2>2, <3>1 DEF TypeOK
  <2>4. want >= 1 /\ want + 3 * MaxLag <= M
    BY <1>4 DEF EarlyInv
  <2>5. elapsed' < want => elapsed < want /\ elapsed' = elapsed + 1
    <3> HIDE DEF M
    <3> QED
      BY <1>2, <2>2, <2>4
  <2>6. ASSUME Since, elapsed + 1 < M PROVE tick' = init_tick + (elapsed + 1)
                                            \/ tick' = init_tick + (elapsed + 1) - M
    <3> HIDE DEF M
    <3> QED
      BY <1>1, <1>2, <2>6 DEF Since
  <2>7. pc' = "check" => elapsed' = lag' /\ Since'
    <3> SUFFICES ASSUME pc = "check" PROVE elapsed' = lag' /\ Since'
      BY <1>1
    <3>1. elapsed = lag /\ Since
      BY DEF EarlyInv
    <3>2. elapsed + 1 < M /\ elapsed' = elapsed + 1
      <4> HIDE DEF M
      <4> QED
        BY <1>2, <2>1, <2>2, <2>4, <3>1
    <3> QED
      BY <1>1, <2>1, <2>6, <3>1, <3>2 DEF Since
  <2>8. pc' = "overflow" =>
          /\ tick' < init_tick' => tick' + 1 <= lag' + (IF hlt' = "stop" THEN 0 ELSE MaxLag)
          /\ elapsed' < want' => init_tick' + want' >= M /\ Since'
    <3> SUFFICES ASSUME pc = "overflow"
                 PROVE  /\ tick' < init_tick => tick' + 1 <= lag' + (IF hlt' = "stop" THEN 0 ELSE MaxLag)
                        /\ elapsed' < want => init_tick + want >= M /\ Since'
      BY <1>1
    <3>1. /\ tick < init_tick => tick + 1 <= lag + (IF hlt = "stop" THEN 0 ELSE MaxLag)
          /\ elapsed < want => init_tick + want >= M /\ Since
      BY DEF EarlyInv
    <3>2. tick' < init_tick => tick' + 1 <= lag' + (IF hlt' = "stop" THEN 0 ELSE MaxLag)
      <4> HIDE DEF M
      <4> QED
        BY <1>1, <1>2, <2>1, <3>1
    <3>3. ASSUME elapsed' < want PROVE init_tick + want >= M /\ Since'
      <4>1. elapsed < want /\ elapsed' = elapsed + 1 /\ elapsed + 1 < M
        <5> HIDE DEF M
        <5> QED
          BY <1>2, <2>4, <2>5, <3>3
      <4> QED
        BY <1>1, <2>6, <3>1, <4>1 DEF Since
    <3> QED
      BY <3>2, <3>3
  <2>9. pc' = "restart" /\ elapsed' < want' =>
          /\ elapsed' + delay' = want' + tick' + 1
          /\ delay' \in 1 .. want' /\ tick' + 1 <= 2 * MaxLag + lag'
    <3> SUFFICES ASSUME pc = "restart", elapsed' < want
                 PROVE  /\ elapsed' + delay = want + tick' + 1
                        /\ delay \in 1 .. want /\ tick' + 1 <= 2 * MaxLag + lag'
      BY <1>1
    <3>1. elapsed < want /\ elapsed' = elapsed + 1
      BY <2>5
    <3>2. /\ elapsed + delay = want + tick + 1
          /\ delay \in 1 .. want /\ tick + 1 <= 2 * MaxLag + lag
      BY <3>1 DEF EarlyInv
    <3> HIDE DEF M
    <3> QED
      BY <1>1, <1>2, <2>1, <2>4, <3>1, <3>2
  <2>10. pc' = "wait" /\ elapsed' < want' => elapsed' + (Target' - tick') >= want'
    <3> SUFFICES ASSUME pc = "wait", elapsed' < want
                 PROVE  elapsed' + (Target - tick') >= want
      BY <1>1
    <3>1. elapsed < want /\ elapsed' = elapsed + 1 /\ elapsed + (Target - tick) >= want
      BY <2>5 DEF EarlyInv
    <3> HIDE DEF M, Target
    <3> QED
      BY <1>1, <1>2, <3>1
  <2>11. pc' = "done" => elapsed' >= want'
    <3> HIDE DEF M
    <3> QED
      BY <1>1, <1>2, <2>2 DEF EarlyInv
  <2>12. pc' \notin {"overflow", "wait"} => hlt' = "run"
    BY <1>1 DEF EarlyInv
  <2>13. pc' \in {"enter", "check", "overflow"} => delay' = want'
    BY <1>1 DEF EarlyInv
  <2> QED
    BY <1>1, <2>3, <2>4, <2>7, <2>8, <2>9, <2>10, <2>11, <2>12, <2>13 DEF EarlyInv
<1> QED
  BY <1>3, <1>4

\* The types of what a step of the sleeper reads.
LEMMA EarlyTypes ==
    ASSUME EarlyInv
    PROVE  /\ TypeOK
           /\ tick \in 0 .. M - 1 /\ init_tick \in 0 .. M - 1 /\ delay \in 0 .. M - 1
           /\ hlt \in {"run", "stop", "halted"} /\ want \in Nat
           /\ elapsed \in 0 .. 3 * M /\ lag \in 0 .. MaxLag /\ Target \in 0 .. M - 1
           /\ Target = IF init_tick + delay < M THEN init_tick + delay ELSE init_tick + delay - M
           /\ pc # "idle" => want >= 1 /\ want + 3 * MaxLag <= M
  BY TargetRange DEF EarlyInv, TypeOK

\* A call passes on what was asked for.
LEMMA CallEarly == ASSUME Headroom, EarlyInv, sleep PROVE EarlyInv'
<1> USE Constants
<1>1. PICK n \in Amounts, unit \in {"us", "ms", "sec"}, ticks \in Nat :
          /\ Call(unit, n, ticks)
          /\ ticks = AskedTicks(unit, n) /\ ticks >= 1 /\ ticks + 3 * MaxLag <= M
  BY Conversions DEF sleep
<1>2. /\ pc = "idle" /\ pc' = "enter" /\ delay' = ticks /\ want' = ticks
      /\ elapsed' = 0 /\ lag' = 0 /\ wrapped' = FALSE
      /\ UNCHANGED <<tick, hlt, init_tick>>
  BY <1>1 DEF Call
<1>3. delay' \in 0 .. M - 1 /\ elapsed' \in 0 .. 3 * M /\ lag' \in 0 .. MaxLag
  <2> HIDE DEF M
  <2> QED
    BY <1>1, <1>2
<1>4. TypeOK'
  BY <1>1, <1>2, <1>3 DEF EarlyInv, TypeOK
<1> QED
  BY <1>1, <1>2, <1>4 DEF EarlyInv

\* The first read of the counter.
LEMMA ReadEarly == ASSUME EarlyInv, ReadInitTick PROVE EarlyInv'
<1> USE Constants, EarlyTypes
<1>1. /\ pc = "enter" /\ pc' = "check" /\ init_tick' = tick /\ elapsed' = 0 /\ lag' = 0
      /\ UNCHANGED <<tick, hlt, delay, want>> /\ wrapped' \in BOOLEAN
  BY DEF ReadInitTick
<1>2. elapsed' \in 0 .. 3 * M /\ lag' \in 0 .. MaxLag /\ tick' = init_tick' + elapsed'
  <2> HIDE DEF M
  <2> QED
    BY <1>1
<1>3. TypeOK'
  BY <1>1, <1>2 DEF TypeOK
<1> QED
  BY <1>1, <1>2, <1>3 DEF EarlyInv, Since

\* The test for the overflow.
LEMMA CheckEarly == ASSUME EarlyInv, CheckOverflow PROVE EarlyInv'
<1> USE Constants, EarlyTypes
<1>1. /\ pc = "check" /\ pc' = IF Target < tick THEN "overflow" ELSE "wait"
      /\ lag' = 0 /\ UNCHANGED <<tick, hlt, init_tick, delay, wrapped, want, elapsed>>
      /\ Target' = Target /\ Since' = Since
  BY DEF CheckOverflow, Target, Since
<1>2. delay = want /\ elapsed = lag /\ Since /\ hlt = "run"
  BY <1>1 DEF EarlyInv
<1>3. TypeOK'
  BY <1>1 DEF TypeOK
<1>4. ASSUME Target < tick
      PROVE  /\ tick < init_tick => tick + 1 <= MaxLag
             /\ elapsed < want => init_tick + want >= M
  <2> HIDE DEF M, Target
  <2> QED
    BY <1>1, <1>2, <1>4 DEF Since
<1>5. ASSUME ~(Target < tick), elapsed < want
      PROVE  elapsed + (Target - tick) >= want
  <2> HIDE DEF M, Target
  <2> QED
    BY <1>1, <1>2, <1>5 DEF Since
<1>6. CASE Target < tick
  <2>1. /\ pc' = "overflow" /\ hlt' = "run"
        /\ tick' < init_tick' => tick' + 1 <= lag' + MaxLag
        /\ elapsed' < want' => init_tick' + want' >= M
    BY <1>1, <1>2, <1>4, <1>6
  <2> QED
    BY <1>1, <1>2, <1>3, <2>1 DEF EarlyInv
<1>7. CASE ~(Target < tick)
  <2>1. pc' = "wait"
    BY <1>1, <1>7
  <2> QED
    BY <1>1, <1>2, <1>3, <1>5, <1>7, <2>1 DEF EarlyInv
<1> QED
  BY <1>6, <1>7

\* What is left to wait for behind the overflow.
LEMMA Remainder ==
    ASSUME EarlyInv, pc = "overflow", delay = want, tick < init_tick,
           init_tick + want >= M, Since
    PROVE  LET rest == (delay - ((M - 1) - init_tick)) % M
           IN  rest \in 1 .. want /\ elapsed + rest = want + tick + 1
<1> USE Constants, EarlyTypes
<1>1. /\ delay - ((M - 1) - init_tick) = want + init_tick + 1 - M
      /\ want + init_tick + 1 - M \in Int
      /\ 0 <= want + init_tick + 1 - M /\ want + init_tick + 1 - M < M
      /\ want + init_tick + 1 - M \in 1 .. want
  <2> HIDE DEF M, Target
  <2> QED
    OBVIOUS
<1>2. (delay - ((M - 1) - init_tick)) % M = want + init_tick + 1 - M
  BY <1>1, Wrap
<1>3. tick = init_tick + elapsed - M
  <2> HIDE DEF M, Target
  <2> QED
    BY DEF Since
<1> HIDE DEF M, Target
<1> QED
  BY <1>1, <1>2, <1>3

\* The loop that waits for the counter to overflow.
LEMMA OverflowEarly == ASSUME EarlyInv, OverflowLoop PROVE EarlyInv'
<1> USE Constants, EarlyTypes
<1>1. /\ pc = "overflow" /\ hlt = "run" /\ lag' = 0
      /\ UNCHANGED <<tick, init_tick, wrapped, want, elapsed>>
      /\ delay = want
  BY DEF OverflowLoop, EarlyInv
<1>2. /\ tick < init_tick => tick + 1 <= lag + MaxLag
      /\ elapsed < want => init_tick + want >= M /\ Since
  BY <1>1 DEF EarlyInv
<1>3. CASE /\ tick >= init_tick /\ hlt' = "stop" /\ UNCHANGED <<pc, delay>>
  <2>1. ~(tick < init_tick)
    <3> HIDE DEF M, Target
    <3> QED
      BY <1>3
  <2>2. TypeOK'
    BY <1>1, <1>3 DEF TypeOK
  <2>3. Since' = Since
    BY <1>1 DEF Since
  <2> QED
    BY <1>1, <1>2, <1>3, <2>1, <2>2, <2>3 DEF EarlyInv
<1>4. CASE /\ tick < init_tick /\ delay' = (delay - ((M - 1) - init_tick)) % M
           /\ pc' = "restart" /\ UNCHANGED hlt
  <2>1. delay' \in 0 .. M - 1
    <3>1. delay - ((M - 1) - init_tick) \in Int
      OBVIOUS
    <3> HIDE DEF M, Target
    <3> QED
      BY <1>4, <3>1
  <2>2. TypeOK'
    BY <1>1, <1>4, <2>1 DEF TypeOK
  <2>3. tick + 1 <= 2 * MaxLag
    <3> HIDE DEF M, Target
    <3> QED
      BY <1>2, <1>4
  <2>4. elapsed < want => delay' \in 1 .. want /\ elapsed + delay' = want + tick + 1
    BY <1>1, <1>2, <1>4, Remainder
  <2>5. tick' + 1 <= 2 * MaxLag + lag'
    BY <1>1, <2>3
  <2> QED
    BY <1>1, <1>4, <2>2, <2>4, <2>5 DEF EarlyInv
<1> QED
  BY <1>3, <1>4 DEF OverflowLoop

\* The second read of the counter.
LEMMA RestartEarly == ASSUME EarlyInv, Restart PROVE EarlyInv'
<1> USE Constants, EarlyTypes
<1>1. /\ pc = "restart" /\ pc' = "wait" /\ init_tick' = tick /\ lag' = 0
      /\ UNCHANGED <<tick, hlt, delay, wrapped, want, elapsed>>
  BY DEF Restart
<1>2. hlt = "run"
  BY <1>1 DEF EarlyInv
<1>3. TypeOK'
  BY <1>1 DEF TypeOK
<1>4. ASSUME elapsed < want PROVE elapsed' + (Target' - tick') >= want'
  <2>1. /\ elapsed + delay = want + tick + 1
        /\ delay \in 1 .. want /\ tick + 1 <= 2 * MaxLag + lag
    BY <1>1, <1>4 DEF EarlyInv
  <2>2. tick + delay \in Int /\ 0 <= tick + delay /\ tick + delay < M
    <3> HIDE DEF M, Target
    <3> QED
      BY <1>1, <2>1
  <2>3. Target' = tick + delay
    BY <1>1, <2>2, Wrap DEF Target
  <2> HIDE DEF M, Target
  <2> QED
    BY <1>1, <2>1, <2>3
<1> QED
  BY <1>1, <1>2, <1>3, <1>4 DEF EarlyInv

\* The loop that waits for the target, and hlt.
LEMMA WaitEarly == ASSUME EarlyInv, WaitLoop \/ halt PROVE EarlyInv'
<1> USE Constants, EarlyTypes
<1>1. /\ lag' = 0 /\ UNCHANGED <<tick, init_tick, delay, wrapped, want, elapsed>>
      /\ Target' = Target /\ Since' = Since
  BY DEF WaitLoop, halt, Target, Since
<1>2. CASE WaitLoop /\ hlt' = "stop" /\ UNCHANGED pc
  <2>1. pc = "wait"
    BY <1>2 DEF WaitLoop
  <2>2. TypeOK'
    BY <1>1, <1>2 DEF TypeOK
  <2> QED
    BY <1>1, <1>2, <2>1, <2>2 DEF EarlyInv
<1>3. CASE WaitLoop /\ ~(tick < Target) /\ pc' = "done" /\ UNCHANGED hlt
  <2>1. pc = "wait" /\ hlt = "run"
    BY <1>3 DEF WaitLoop
  <2>2. TypeOK'
    BY <1>1, <1>3 DEF TypeOK
  <2>3. elapsed >= want
    <3>1. elapsed < want => elapsed + (Target - tick) >= want
      BY <2>1 DEF EarlyInv
    <3> HIDE DEF M, Target
    <3> QED
      BY <1>3, <3>1
  <2> QED
    BY <1>1, <1>3, <2>1, <2>2, <2>3 DEF EarlyInv
<1>4. CASE halt
  <2>1. hlt = "stop" /\ hlt' = "halted" /\ UNCHANGED pc
    BY <1>4 DEF halt
  <2>2. TypeOK' /\ pc \in {"overflow", "wait"}
    BY <1>1, <2>1 DEF TypeOK, EarlyInv
  <2>3. pc = "overflow" => /\ tick < init_tick => tick + 1 <= MaxLag
                           /\ elapsed < want => init_tick + want >= M /\ Since
    <3>1. pc = "overflow" =>
            /\ tick < init_tick => tick + 1 <= lag + 0
            /\ elapsed < want => init_tick + want >= M /\ Since
      BY <2>1 DEF EarlyInv
    <3> HIDE DEF M, Target, Since
    <3> QED
      BY <3>1
  <2>4. pc' = "overflow" =>
            /\ tick' < init_tick' => tick' + 1 <= lag' + MaxLag
            /\ elapsed' < want' => init_tick' + want' >= M /\ Since'
    BY <1>1, <2>1, <2>3
  <2> QED
    BY <1>1, <2>1, <2>2, <2>4 DEF EarlyInv
<1> QED
  BY <1>2, <1>3, <1>4 DEF WaitLoop, Target

\* The call returns.
LEMMA ReturnEarly == ASSUME EarlyInv, Return PROVE EarlyInv'
<1> USE Constants, EarlyTypes
<1>1. /\ pc = "done" /\ pc' = "idle" /\ init_tick' = 0 /\ delay' = 0 /\ wrapped' = FALSE
      /\ want' = 0 /\ elapsed' = 0 /\ lag' = 0 /\ UNCHANGED <<tick, hlt>>
  BY DEF Return
<1>2. hlt = "run"
  BY <1>1 DEF EarlyInv
<1>3. 0 \in 0 .. M - 1 /\ 0 \in 0 .. 3 * M /\ 0 \in 0 .. MaxLag
  <2> HIDE DEF M
  <2> QED
    OBVIOUS
<1>4. TypeOK'
  BY <1>1, <1>2, <1>3 DEF TypeOK
<1> QED
  BY <1>1, <1>2, <1>4 DEF EarlyInv

\* Every step keeps the invariant.
LEMMA EarlyStep == ASSUME Headroom, EarlyInv, [Next]_vars PROVE EarlyInv'
<1>1. CASE OtherInterrupt
  <2>1. /\ hlt = "halted" /\ hlt' = "run"
        /\ UNCHANGED <<tick, pc, init_tick, delay, wrapped, want, elapsed, lag>>
        /\ Target' = Target /\ Since' = Since
    BY <1>1 DEF OtherInterrupt, Target, Since
  <2>2. TypeOK'
    BY <2>1 DEF EarlyInv, TypeOK
  <2> QED
    BY <2>1, <2>2 DEF EarlyInv
<1>2. CASE UNCHANGED vars
  BY <1>2 DEF vars, EarlyInv, TypeOK, Target, Since
<1> QED
  BY <1>1, <1>2, HandlerEarly, CallEarly, ReadEarly, CheckEarly, OverflowEarly,
     RestartEarly, WaitEarly, ReturnEarly DEF Next, wait_ticks

\* A sleep never returns before the ticks asked for have passed: for every
\* width of the counter, every phase of it at the call, and whatever number of
\* ticks, up to MaxLag, the handler counts between two steps of wait_ticks.
THEOREM SleepNeverEarly == ASSUME Headroom PROVE Spec => []NeverEarly
<1>1. Init => EarlyInv
  <2> SUFFICES ASSUME Init PROVE EarlyInv
    OBVIOUS
  <2>1. 0 \in 0 .. M - 1 /\ 0 \in 0 .. 3 * M /\ 0 \in 0 .. MaxLag
    <3> HIDE DEF M
    <3> QED
      BY Constants
  <2> QED
    BY <2>1 DEF Init, EarlyInv, TypeOK
<1>2. EarlyInv /\ [Next]_vars => EarlyInv'
  BY EarlyStep
<1>3. EarlyInv => NeverEarly
  BY DEF EarlyInv, NeverEarly
<1> QED
  BY <1>1, <1>2, <1>3, PTL DEF Spec

----------------------------------------------------------------------------
\* Lateness, with at most one tick between two steps of the sleeper.

\* The interrupt handler: a loop finds out one tick late at most.
LEMMA HandlerLate == ASSUME MaxLag = 1, EarlyInv, LateInv, pit_handler PROVE LateInv'
<1> USE Constants, EarlyTypes
<1>1. /\ tick' = IF tick = M - 1 THEN 0 ELSE tick + 1
      /\ hlt' = IF hlt = "halted" THEN "run" ELSE hlt
      /\ UNCHANGED <<pc, init_tick, delay, wrapped, want>>
      /\ Target' = Target
  BY TickStep DEF pit_handler, Target
<1>2. CASE pc = "idle"
  BY <1>1, <1>2 DEF LateInv
<1>3. CASE pc # "idle"
  <2>1. lag = 0 /\ lag' = 1 /\ elapsed' = Capped(elapsed + 1)
    BY <1>3 DEF pit_handler
  <2>2. elapsed' \in 0 .. 3 * M /\ elapsed' <= elapsed + 1 /\ (elapsed < 3 * M => elapsed' = elapsed + 1)
    <3> HIDE DEF M, Target
    <3> QED
      BY <2>1 DEF Capped
  <2>3. ASSUME pc = "overflow"
        PROVE  /\ init_tick + want >= M
               /\ tick' >= init_tick => elapsed' = tick' - init_tick
               /\ tick' < init_tick => elapsed' = tick' + M - init_tick
    <3>1. /\ init_tick + want >= M
          /\ tick >= init_tick => elapsed = tick - init_tick
          /\ tick < init_tick => elapsed = tick + M - init_tick
      BY <2>3 DEF LateInv
    <3>2. tick < init_tick => tick + 1 <= lag + (IF hlt = "stop" THEN 0 ELSE MaxLag)
      BY <2>3 DEF EarlyInv
    <3> HIDE DEF M, Target
    <3> QED
      BY <1>1, <1>3, <2>1, <2>2, <3>1, <3>2
  <2>4. ASSUME pc = "restart"
        PROVE  /\ elapsed' + delay = want + tick' + 1
               /\ delay \in 1 .. want /\ tick' + 1 <= 2 + lag'
    <3>1. /\ elapsed + delay = want + tick + 1
          /\ delay \in 1 .. want /\ tick + 1 <= 2 + lag
      BY <2>4 DEF LateInv
    <3> HIDE DEF M, Target
    <3> QED
      BY <1>1, <1>3, <2>1, <2>2, <3>1
  <2>5. ASSUME pc = "wait", Target # M - 1
        PROVE  /\ elapsed' + (Target - tick') <= want + 3
               /\ tick' <= Target + lag' - (IF hlt' = "stop" THEN 1 ELSE 0)
    <3>1. /\ elapsed + (Target - tick) <= want + 3
          /\ tick <= Target + lag - (IF hlt = "stop" THEN 1 ELSE 0)
      BY <2>5 DEF LateInv
    <3> HIDE DEF M, Target
    <3> QED
      BY <1>1, <1>3, <2>1, <2>2, <2>5, <3>1
  <2>6. ASSUME pc = "done", Target # M - 1 PROVE elapsed' <= want + 4 + lag'
    <3>1. elapsed <= want + 4 + lag
      BY <2>6 DEF LateInv
    <3> HIDE DEF M, Target
    <3> QED
      BY <2>1, <2>2, <3>1
  <2> QED
    BY <1>1, <2>3, <2>4, <2>5, <2>6 DEF LateInv
<1> QED
  BY <1>2, <1>3

\* The test for the overflow finds it, and nothing else.
LEMMA CheckLate == ASSUME MaxLag = 1, EarlyInv, LateInv, CheckOverflow PROVE LateInv'
<1> USE Constants, EarlyTypes
<1>1. /\ pc = "check" /\ pc' = IF Target < tick THEN "overflow" ELSE "wait"
      /\ lag' = 0 /\ UNCHANGED <<tick, hlt, init_tick, delay, wrapped, want, elapsed>>
      /\ Target' = Target
  BY DEF CheckOverflow, Target
<1>2. delay = want /\ elapsed = lag /\ Since /\ hlt = "run"
  BY <1>1 DEF EarlyInv
<1>3. ASSUME Target < tick
      PROVE  /\ init_tick + want >= M
             /\ tick >= init_tick => elapsed = tick - init_tick
             /\ tick < init_tick => elapsed = tick + M - init_tick
  <2> HIDE DEF M, Target
  <2> QED
    BY <1>1, <1>2, <1>3 DEF Since
<1>4. ASSUME ~(Target < tick)
      PROVE  elapsed + (Target - tick) <= want + 3 /\ tick <= Target + lag'
  <2> HIDE DEF M, Target
  <2> QED
    BY <1>1, <1>2, <1>4 DEF Since
<1>5. CASE Target < tick
  <2>1. pc' = "overflow"
    BY <1>1, <1>5
  <2> QED
    BY <1>1, <1>3, <1>5, <2>1 DEF LateInv
<1>6. CASE ~(Target < tick)
  <2>1. pc' = "wait" /\ hlt' # "stop"
    BY <1>1, <1>2, <1>6
  <2>2. tick' <= Target' + lag' - 0 /\ elapsed' + (Target' - tick') <= want' + 3
    <3> HIDE DEF M, Target
    <3> QED
      BY <1>1, <1>4, <1>6
  <2> QED
    BY <2>1, <2>2 DEF LateInv
<1> QED
  BY <1>5, <1>6

\* The loop that waits for the overflow does not miss it.
LEMMA OverflowLate == ASSUME MaxLag = 1, EarlyInv, LateInv, OverflowLoop PROVE LateInv'
<1> USE Constants, EarlyTypes
<1>1. /\ pc = "overflow" /\ hlt = "run" /\ lag' = 0
      /\ UNCHANGED <<tick, init_tick, wrapped, want, elapsed>>
      /\ delay = want
  BY DEF OverflowLoop, EarlyInv
<1>2. /\ init_tick + want >= M
      /\ tick >= init_tick => elapsed = tick - init_tick
      /\ tick < init_tick => elapsed = tick + M - init_tick
  BY <1>1 DEF LateInv
<1>3. CASE hlt' = "stop" /\ UNCHANGED <<pc, delay>>
  BY <1>1, <1>2, <1>3 DEF LateInv
<1>4. CASE /\ tick < init_tick /\ delay' = (delay - ((M - 1) - init_tick)) % M
           /\ pc' = "restart" /\ UNCHANGED hlt
  <2>1. Since
    <3> HIDE DEF M, Target
    <3> QED
      BY <1>2, <1>4 DEF Since
  <2>2. delay' \in 1 .. want /\ elapsed + delay' = want + tick + 1
    BY <1>1, <1>2, <1>4, <2>1, Remainder
  <2>3. tick' + 1 <= 2 + lag'
    <3>1. tick < init_tick => tick + 1 <= lag + MaxLag
      BY <1>1 DEF EarlyInv
    <3> HIDE DEF M, Target
    <3> QED
      BY <1>1, <1>4, <3>1
  <2> QED
    BY <1>1, <1>4, <2>2, <2>3 DEF LateInv
<1> QED
  BY <1>3, <1>4 DEF OverflowLoop

\* The second read of the counter.
LEMMA RestartLate == ASSUME MaxLag = 1, EarlyInv, LateInv, Restart PROVE LateInv'
<1> USE Constants, EarlyTypes
<1>1. /\ pc = "restart" /\ pc' = "wait" /\ init_tick' = tick /\ lag' = 0
      /\ UNCHANGED <<tick, hlt, delay, wrapped, want, elapsed>> /\ hlt = "run"
  BY DEF Restart, EarlyInv
<1>2. /\ elapsed + delay = want + tick + 1
      /\ delay \in 1 .. want /\ tick + 1 <= 2 + lag
  BY <1>1 DEF LateInv
<1>3. tick + delay \in Int /\ 0 <= tick + delay /\ tick + delay < M
  <2> HIDE DEF M, Target
  <2> QED
    BY <1>1, <1>2
<1>4. Target' = tick + delay
  BY <1>1, <1>3, Wrap DEF Target
<1>5. elapsed' + (Target' - tick') <= want' + 3 /\ tick' <= Target' + lag' - 0
  <2> HIDE DEF M, Target
  <2> QED
    BY <1>1, <1>2, <1>4
<1> QED
  BY <1>1, <1>5 DEF LateInv

\* The loop that waits for the target, and hlt.
LEMMA WaitLate == ASSUME MaxLag = 1, EarlyInv, LateInv, WaitLoop \/ halt PROVE LateInv'
<1> USE Constants, EarlyTypes
<1>1. /\ lag' = 0 /\ UNCHANGED <<tick, init_tick, delay, wrapped, want, elapsed>>
      /\ Target' = Target
  BY DEF WaitLoop, halt, Target
<1>2. ASSUME pc = "wait", Target # M - 1
      PROVE  /\ elapsed + (Target - tick) <= want + 3
             /\ tick <= Target + lag - (IF hlt = "stop" THEN 1 ELSE 0)
  BY <1>2 DEF LateInv
<1>3. CASE WaitLoop /\ tick < Target /\ hlt' = "stop" /\ UNCHANGED pc
  <2>1. pc = "wait" /\ pc' = "wait"
    BY <1>3 DEF WaitLoop
  <2>2. Target # M - 1 => /\ elapsed' + (Target' - tick') <= want' + 3
                          /\ tick' <= Target' + lag' - 1
    <3> HIDE DEF M, Target
    <3> QED
      BY <1>1, <1>2, <1>3, <2>1
  <2> QED
    BY <1>1, <1>3, <2>1, <2>2 DEF LateInv
<1>4. CASE WaitLoop /\ ~(tick < Target) /\ pc' = "done" /\ UNCHANGED hlt
  <2>1. pc = "wait"
    BY <1>4 DEF WaitLoop
  <2>2. Target # M - 1 => elapsed' <= want' + 4 + lag'
    <3> HIDE DEF M, Target
    <3> QED
      BY <1>1, <1>2, <1>4, <2>1
  <2> QED
    BY <1>1, <1>4, <2>1, <2>2 DEF LateInv
<1>5. CASE halt
  <2>1. hlt = "stop" /\ hlt' = "halted" /\ UNCHANGED pc
    BY <1>5 DEF halt
  <2>2. pc = "wait" /\ Target # M - 1 => /\ elapsed' + (Target' - tick') <= want' + 3
                                         /\ tick' <= Target' + lag' - 0
    <3> HIDE DEF M, Target
    <3> QED
      BY <1>1, <1>2, <2>1
  <2>3. pc \in {"overflow", "wait"}
    BY <2>1 DEF EarlyInv
  <2> QED
    BY <1>1, <2>1, <2>2, <2>3 DEF LateInv
<1> QED
  BY <1>3, <1>4, <1>5 DEF WaitLoop, Target

\* Every step keeps the second invariant as well.
LEMMA LateStep ==
    ASSUME MaxLag = 1, EarlyInv, LateInv, [Next]_vars PROVE LateInv'
<1>1. CASE sleep \/ ReadInitTick \/ Return
  BY <1>1 DEF sleep, Call, ReadInitTick, Return, LateInv
<1>2. CASE OtherInterrupt
  BY <1>2 DEF OtherInterrupt, LateInv, Target
<1>3. CASE UNCHANGED vars
  BY <1>3 DEF vars, LateInv, Target
<1> QED
  BY <1>1, <1>2, <1>3, HandlerLate, CheckLate, OverflowLate, RestartLate, WaitLate
  DEF Next, wait_ticks

\* A sleep is at most MaxLate ticks late when the CPU takes a step of wait_ticks
\* in every tick, except for a target of UINT32_MAX: the branch for the overflow
\* starts over with what is really left.
THEOREM SleepNeverLate == ASSUME Headroom, MaxLag = 1 PROVE Spec => []NeverLate
<1>1. Init => EarlyInv /\ LateInv
  <2> SUFFICES ASSUME Init PROVE EarlyInv /\ LateInv
    OBVIOUS
  <2>1. 0 \in 0 .. M - 1 /\ 0 \in 0 .. 3 * M /\ 0 \in 0 .. MaxLag
    <3> HIDE DEF M
    <3> QED
      BY Constants
  <2> QED
    BY <2>1 DEF Init, EarlyInv, TypeOK, LateInv
<1>2. EarlyInv /\ LateInv /\ [Next]_vars => EarlyInv' /\ LateInv'
  BY EarlyStep, LateStep
<1>3. EarlyInv /\ LateInv => NeverLate
  <2> SUFFICES ASSUME EarlyInv, LateInv, pc \in {"wait", "done"}, Target # M - 1
               PROVE  elapsed <= want + MaxLate
    BY DEF NeverLate, LastValueOnly, Target
  <2>1. pc = "wait" => /\ elapsed + (Target - tick) <= want + 3
                       /\ tick <= Target + lag - (IF hlt = "stop" THEN 1 ELSE 0)
    BY DEF LateInv
  <2>2. pc = "done" => elapsed <= want + 4 + lag
    BY DEF LateInv
  <2> USE EarlyTypes, Constants
  <2> HIDE DEF M, Target
  <2> QED
    BY <2>1, <2>2 DEF MaxLate
<1> QED
  BY <1>1, <1>2, <1>3, PTL DEF Spec
=============================================================================
