----------------------------- MODULE EmzTxBench -----------------------------
(***************************************************************************)
(* run_tx_bench (app/src/main.c): bursts of raw frames, paced by a busy    *)
(* wait, until the window on the 32-bit cycle counter has grown to the     *)
(* duration asked for.  A tick is the unit of time; the counter comes      *)
(* round every Wrap ticks.                                                 *)
(***************************************************************************)
EXTENDS Integers

CONSTANTS
  Wrap,             \* the cycle counter's period: 2^32 cycles
  Requests,         \* the durations a peer may ask for
  DefaultDuration,  \* TX_BENCH_DEFAULT_DURATION_MS
  MaxDuration,      \* TX_BENCH_MAX_DURATION_MS
  Delays,           \* the pauses a requested rate asks for, 0 for no rate
  MaxDelay,         \* TX_BENCH_MAX_DELAY_US
  BurstCount,       \* TX_BENCH_BURST_COUNT
  MaxTime           \* bound on the time a run of the benchmark is followed

VARIABLES
  state,     \* whether the benchmark runs
  duration,  \* duration_cycles
  delay,     \* delay_us
  elapsed,   \* the time since start_cycle
  reported   \* elapsed_cycles

vars == <<state, duration, delay, elapsed, reported>>

Smaller(a, b) == IF a < b THEN a ELSE b

Clamped(d) == IF d = 0 THEN DefaultDuration ELSE Smaller(d, MaxDuration)

(* (uint32_t)(k_cycle_get_32() - start_cycle)                               *)
Window == elapsed % Wrap

Start ==
  /\ state = "idle"
  /\ state' = "running"
  /\ \E d \in Requests : duration' = Clamped(d)
  /\ \E d \in Delays : delay' = Smaller(d, MaxDelay)
  /\ elapsed' = 0 /\ reported' = 0

(* One iteration: a burst of which ret frames, or none, were sent; sending  *)
(* takes a tick at most, then k_busy_wait(delay_us * ret).                  *)
Burst ==
  /\ state = "running" /\ Window < duration /\ elapsed < MaxTime
  /\ \E ret \in 0 .. BurstCount, sending \in {0, 1} :
       /\ sending + delay * ret > 0
       /\ elapsed' = elapsed + sending + delay * ret
  /\ UNCHANGED <<state, duration, delay, reported>>

Finish ==
  /\ state = "running" /\ Window >= duration
  /\ state' = "idle" /\ reported' = Window
  /\ UNCHANGED <<duration, delay, elapsed>>

Init ==
  /\ state = "idle" /\ duration = 0 /\ delay = 0 /\ elapsed = 0 /\ reported = 0

Next == Start \/ Burst \/ Finish

Spec == Init /\ [][Next]_vars

----------------------------------------------------------------------------
(* The cap on the duration keeps the window below the counter's wrap, as    *)
(* the comment on TX_BENCH_MAX_DURATION_MS says.                            *)
BelowWrap == state = "running" => elapsed < Wrap

=============================================================================
