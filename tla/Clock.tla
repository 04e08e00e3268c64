------------------------------- MODULE Clock -------------------------------
(***************************************************************************)
(* The millisecond clock of the firmware as CommandSender and              *)
(* LearnInManager see it: a uint32_t that wraps around.  A deadline is     *)
(* compared as a signed distance, (int32_t)(now - deadline) >= 0, and the  *)
(* age of a request as an unsigned one, now - start > timeout.             *)
(***************************************************************************)
EXTENDS Integers

CONSTANTS
  CLOCK_BITS,         \* width of the timestamps (32)
  INTER_PACKET_MS,    \* gap between two packets, and unit of the backoff
  MAX_BACKOFF_MS,     \* cap of the backoff
  TX_PENDING_TIMEOUT, \* watchdog of a pending request
  MaxUptime           \* bound: ticks of the clock

Wrap == 2 ^ CLOCK_BITS

ASSUME ClockAssumption ==
  /\ {CLOCK_BITS, INTER_PACKET_MS, MAX_BACKOFF_MS, TX_PENDING_TIMEOUT} \subseteq Nat \ {0}
  /\ MaxUptime \in Nat
  /\ Wrap \in Nat \ {0} /\ \A k \in 0 .. 3 : 2 ^ k \in Nat \ {0} \* the provers know no powers
  /\ INTER_PACKET_MS <= MAX_BACKOFF_MS
  /\ 2 * MAX_BACKOFF_MS < Wrap /\ TX_PENDING_TIMEOUT < Wrap

VARIABLE uptime  \* true time, which does not wrap and which the code does not have

now == uptime % Wrap  \* millis()

TimeReachedUnsigned(deadline) == now >= deadline                  \* mutant

(* static_cast<int32_t>(now - deadline) >= 0                               *)
TimeReached(deadline) == (now - deadline) % Wrap < Wrap \div 2

AgeAbsolute(start) == IF now >= start THEN now - start ELSE start - now   \* mutant

(* now - start, unsigned.                                                  *)
Age(start) == (now - start) % Wrap

Later(t, ms) == (t + ms) % Wrap

LeastOf(m, n) == IF m < n THEN m ELSE n

BackoffFromZero(retries) ==                                       \* mutant
  LeastOf(MAX_BACKOFF_MS, INTER_PACKET_MS * (retries - 1))

(* calculate_backoff_ms_(), after "retries" failures in a row.             *)
Backoff(retries) ==
  LeastOf(MAX_BACKOFF_MS, INTER_PACKET_MS * 2 ^ LeastOf(retries, 3))
=============================================================================
