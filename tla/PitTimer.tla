------------------------------ MODULE PitTimer ------------------------------
(***************************************************************************)
(* The timer of drivers/pit.c: the interrupt handler that counts ticks and *)
(* the sleeps built on wait_ticks, which reads the counter several times   *)
(* while the handler may run between any two reads.                        *)
(*                                                                         *)
(* tick is a W-bit unsigned counter (W = 32 in the code), M == 2^W.  The   *)
(* units of time keep their arithmetic: K stands for the code's 1000.      *)
(***************************************************************************)
EXTENDS Integers

CONSTANTS
    W,          \* width of tick_t
    K,          \* 1000: milliseconds in a second, microseconds in a millisecond
    Freq,       \* pit_freq, ticks in a second
    Amounts,    \* bound: the amounts of time asked for
    MaxLag      \* bound: ticks between two consecutive steps of the sleeper

ASSUME PitAssumption ==
    /\ W \in Nat \ {0} /\ K \in Nat \ {0} /\ MaxLag \in Nat \ {0}
    /\ Freq \in Nat \ {0} /\ Freq <= K * K
    /\ Amounts \subseteq Nat \ {0}

M == 2 ^ W

ASSUME WidthAssumption == M \in Nat /\ M >= 2

\* The products in the conversions do not overflow for the amounts asked for: with
\* 32 bits, 71 minutes in milliseconds.
ASSUME NoOverflowAssumption == \A n \in Amounts : n * Freq < M

VARIABLES
    tick,       \* the counter, written by the interrupt handler only
    pc,         \* where wait_ticks has got to
    hlt,        \* "run", "stop" (about to execute hlt) or "halted"
    init_tick,  \* local of wait_ticks
    delay,      \* parameter of wait_ticks, changed by it
    wrapped,    \* ghost: the sum init_tick + delay did not fit
    want,       \* ghost: ticks the caller asked for
    elapsed,    \* ghost: ticks since init_tick was read, capped at 3 M
    lag         \* ghost: ticks since the sleeper's last step

vars == <<tick, pc, hlt, init_tick, delay, wrapped, want, elapsed, lag>>

Init ==
    /\ tick \in 0 .. M - 1
    /\ pc = "idle" /\ hlt = "run"
    /\ init_tick = 0 /\ delay = 0 /\ wrapped = FALSE
    /\ want = 0 /\ elapsed = 0 /\ lag = 0

----------------------------------------------------------------------------
\* The interrupts.

Capped(n) == IF n > 3 * M THEN 3 * M ELSE n

\* Faulty variant: the counter stops at its largest value.
pit_handler_Saturates ==
    /\ pc = "idle" \/ lag < MaxLag
    /\ tick' = IF tick = M - 1 THEN tick ELSE tick + 1
    /\ IF pc = "idle" THEN UNCHANGED <<elapsed, lag>>
       ELSE elapsed' = Capped(elapsed + 1) /\ lag' = lag + 1
    /\ hlt' = IF hlt = "halted" THEN "run" ELSE hlt
    /\ UNCHANGED <<pc, init_tick, delay, wrapped, want>>

\* tick += tick_inc_factor; returning from the interrupt ends a hlt.
pit_handler ==
    /\ pc = "idle" \/ lag < MaxLag
    /\ tick' = (tick + 1) % M
    /\ IF pc = "idle" THEN UNCHANGED <<elapsed, lag>>
       ELSE elapsed' = Capped(elapsed + 1) /\ lag' = lag + 1
    /\ hlt' = IF hlt = "halted" THEN "run" ELSE hlt
    /\ UNCHANGED <<pc, init_tick, delay, wrapped, want>>

\* Any other interrupt ends a hlt as well.
OtherInterrupt ==
    /\ hlt = "halted"
    /\ hlt' = "run"
    /\ UNCHANGED <<tick, pc, init_tick, delay, wrapped, want, elapsed, lag>>

----------------------------------------------------------------------------
\* The conversions of a time to ticks.

MinDelay == (K * K) \div Freq

AtLeastOneTick(n) == IF n < MinDelay THEN MinDelay ELSE n

sleep_us(n) ==
    LET d == AtLeastOneTick(n) IN
    IF d < K THEN ((d * Freq) % M) \div (K * K)
    ELSE IF d < K * K THEN ((d \div K) * Freq) \div K
    ELSE ((d \div (K * K)) * Freq) % M

sleep_ms(n) ==
    LET t == ((n * Freq) % M) \div K IN
    IF t = 1 THEN sleep_us(n * K) ELSE t

sleep_sec(n) ==
    LET t == (n * Freq) % M IN
    IF t = 1 THEN sleep_ms(n * K) ELSE t

\* What the caller asked for in whole ticks, in the steps that the unit has in the
\* code: microseconds count in whole ticks, from a second up in whole seconds.  That
\* sleep_us drops the rest of a second is taken for what it promises.
AskedTicks(unit, n) ==
    CASE unit = "sec" -> n * Freq
      [] unit = "ms"  -> (n * Freq) \div K
      [] unit = "us" /\ n < MinDelay -> 1
      [] unit = "us" /\ n \in MinDelay .. K * K - 1 -> (n * Freq) \div (K * K)
      [] unit = "us" /\ n >= MinDelay /\ n >= K * K -> Freq * (n \div (K * K))

----------------------------------------------------------------------------
\* wait_ticks, one read of the volatile counter at a time.

Call(unit, n, ticks) ==
    /\ pc = "idle"
    /\ pc' = "enter"
    /\ delay' = ticks
    /\ want' = AskedTicks(unit, n)
    /\ elapsed' = 0 /\ lag' = 0 /\ wrapped' = FALSE
    /\ UNCHANGED <<tick, hlt, init_tick>>

sleep ==
    \E n \in Amounts : \/ Call("us", n, sleep_us(n))
                       \/ Call("ms", n, sleep_ms(n))
                       \/ Call("sec", n, sleep_sec(n))

\* tick_t init_tick = tick;
ReadInitTick ==
    /\ pc = "enter"
    /\ init_tick' = tick
    /\ wrapped' = (tick + delay >= M)
    /\ pc' = "check"
    /\ elapsed' = 0 /\ lag' = 0
    /\ UNCHANGED <<tick, hlt, delay, want>>

\* if (init_tick + delay < tick)
CheckOverflow ==
    /\ pc = "check"
    /\ pc' = IF (init_tick + delay) % M < tick THEN "overflow" ELSE "wait"
    /\ lag' = 0
    /\ UNCHANGED <<tick, hlt, init_tick, delay, wrapped, want, elapsed>>

\* while (tick >= init_tick) halt();  then  delay -= (UINT32_MAX - init_tick);
OverflowLoop ==
    /\ pc = "overflow" /\ hlt = "run"
    /\ lag' = 0
    /\ \/ /\ tick >= init_tick
          /\ hlt' = "stop"
          /\ UNCHANGED <<pc, delay>>
       \/ /\ tick < init_tick
          /\ delay' = (delay - ((M - 1) - init_tick)) % M
          /\ pc' = "restart"
          /\ UNCHANGED hlt
    /\ UNCHANGED <<tick, init_tick, wrapped, want, elapsed>>

\* Faulty variant: init_tick keeps the value from before the overflow.
Restart_KeepsInitTick ==
    /\ pc = "restart"
    /\ pc' = "wait"
    /\ lag' = 0
    /\ UNCHANGED <<tick, hlt, init_tick, delay, wrapped, want, elapsed>>

\* init_tick = tick;
Restart ==
    /\ pc = "restart"
    /\ init_tick' = tick
    /\ pc' = "wait"
    /\ lag' = 0
    /\ UNCHANGED <<tick, hlt, delay, wrapped, want, elapsed>>

\* Faulty variant: one tick too few is waited for.
WaitLoop_OffByOne ==
    /\ pc = "wait" /\ hlt = "run"
    /\ lag' = 0
    /\ \/ /\ tick + 1 < (init_tick + delay) % M
          /\ hlt' = "stop"
          /\ UNCHANGED pc
       \/ /\ ~(tick + 1 < (init_tick + delay) % M)
          /\ pc' = "done"
          /\ UNCHANGED hlt
    /\ UNCHANGED <<tick, init_tick, delay, wrapped, want, elapsed>>

\* while (tick < init_tick + delay) halt();
WaitLoop ==
    /\ pc = "wait" /\ hlt = "run"
    /\ lag' = 0
    /\ \/ /\ tick < (init_tick + delay) % M
          /\ hlt' = "stop"
          /\ UNCHANGED pc
       \/ /\ ~(tick < (init_tick + delay) % M)
          /\ pc' = "done"
          /\ UNCHANGED hlt
    /\ UNCHANGED <<tick, init_tick, delay, wrapped, want, elapsed>>

\* The hlt instruction: an interrupt may come between the test and it.
halt ==
    /\ hlt = "stop"
    /\ hlt' = "halted"
    /\ lag' = 0
    /\ UNCHANGED <<tick, pc, init_tick, delay, wrapped, want, elapsed>>

Return ==
    /\ pc = "done"
    /\ pc' = "idle"
    /\ init_tick' = 0 /\ delay' = 0 /\ wrapped' = FALSE
    /\ want' = 0 /\ elapsed' = 0 /\ lag' = 0
    /\ UNCHANGED <<tick, hlt>>

wait_ticks ==
    ReadInitTick \/ CheckOverflow \/ OverflowLoop \/ Restart \/ WaitLoop \/ halt \/ Return

----------------------------------------------------------------------------

Next == pit_handler \/ OtherInterrupt \/ sleep \/ wait_ticks

\* The PIT keeps ticking and the CPU executes the sleeper between interrupts.
Spec == Init /\ [][Next]_vars /\ WF_vars(pit_handler) /\ WF_vars(wait_ticks)

----------------------------------------------------------------------------
\* Properties.

\* Counters stay within their width and the ghosts within their bounds.
TypeOK ==
    /\ tick \in 0 .. M - 1 /\ init_tick \in 0 .. M - 1 /\ delay \in 0 .. M - 1
    /\ pc \in {"idle", "enter", "check", "overflow", "restart", "wait", "done"}
    /\ hlt \in {"run", "stop", "halted"}
    /\ wrapped \in BOOLEAN
    /\ want \in Nat /\ elapsed \in 0 .. 3 * M /\ lag \in 0 .. MaxLag

\* A sleep never returns before the ticks asked for have passed, also when
\* the counter overflows on the way.
NeverEarly == pc = "done" => elapsed >= want

\* The last tick value at which the final loop can stop is the largest value
\* of the counter only: hlt can skip it.
LastValueOnly == (init_tick + delay) % M = M - 1

\* Ticks that go by unseen: two at each loop's last hlt, one at the restart.
MaxLate == 5

\* A sleep ends at most MaxLate ticks late, although every test of the counter is
\* followed by a hlt that an interrupt can slip in front of, and the overflow
\* branch starts over.  The exception is a target of UINT32_MAX, which a tick
\* between the test and hlt makes the loop miss.
NeverLate ==
    pc \in {"wait", "done"} /\ ~LastValueOnly => elapsed <= want + MaxLate

\* A sleep comes to an end.
SleepReturns == (pc = "enter") ~> (pc = "done" \/ (pc = "wait" /\ LastValueOnly))

\* The branch commented "overflow" is taken when init_tick + delay overflowed.
OverflowBranchOnlyOnOverflow == pc = "overflow" => wrapped

=============================================================================
