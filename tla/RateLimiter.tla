----------------------------- MODULE RateLimiter ------------------------------
(***************************************************************************)
(* The table of src/hashguard/ratelimit.py.  Every operation reads the     *)
(* clock first and then takes the lock, so it is given a reading that may  *)
(* be older than the clock, and than what others wrote meanwhile.          *)
(*                                                                         *)
(* Times are counted in ticks, Tick of them to a second.                   *)
(***************************************************************************)
EXTENDS Integers, Sequences, FiniteSetsExt

CONSTANTS
  Keys,                       \* "ip:..." and "tok:..."
  window_s, max_attempts, failure_threshold, base_block_s, max_block_s,
  MaxDoublings,               \* the largest n for which 2 ** n is still a float: 1023
  Tick,                       \* ticks in a second
  Shortfall,                  \* ticks in the thousandth that is not rounded up
  TableSize,                  \* records before idle ones are dropped: 4096
  IdleWindows,                \* windows a record must be old to be idle: 4
  MaxClock                    \* bound

ASSUME LimitsAssumption ==
  {window_s, max_attempts, failure_threshold, base_block_s, max_block_s, Tick} \subseteq Nat \ {0}
ASSUME RoundingAssumption == Shortfall \in 1..Tick
ASSUME FloatAssumption == MaxDoublings \in Nat
ASSUME ClockAssumption == MaxClock \in Nat

VARIABLES
  clock,
  records,    \* _records: the keys met, each with its counts and times
  failedAt    \* auxiliary: the readings of the failures counted against each key

limiter == <<records, failedAt>>

NewRecord == [window_start |-> clock, attempts |-> 0, failures |-> 0, blocked_until |-> 0]

Recorded(table, keys) ==
  [key \in DOMAIN table \cup keys |-> IF key \in DOMAIN table THEN table[key] ELSE NewRecord]

-----------------------------------------------------------------------------
(* consume                                                                 *)

\* Mutation: what is idle is dropped though it is blocked.
IdleEvenBlocked(record, now) == now - record.window_start > window_s * IdleWindows

Idle(record, now) ==
  record.blocked_until <= now /\ now - record.window_start > window_s * IdleWindows

_evict(now) ==
  LET kept == IF Cardinality(DOMAIN records) < TableSize
              THEN DOMAIN records
              ELSE {key \in DOMAIN records : ~ Idle(records[key], now)} IN
  [key \in kept |-> records[key]]

Blocked(record, now) == record.blocked_until > now

WindowOver(record, now) == now - record.window_start >= window_s

\* Mutation: one request too many is counted.
CountedPastTheCap(record, now) ==
  IF Blocked(record, now) THEN record
  ELSE IF WindowOver(record, now) THEN [record EXCEPT !.window_start = now, !.attempts = 1]
  ELSE IF record.attempts > max_attempts THEN record
  ELSE [record EXCEPT !.attempts = @ + 1]

Counted(record, now) ==
  IF Blocked(record, now) THEN record
  ELSE IF WindowOver(record, now) THEN [record EXCEPT !.window_start = now, !.attempts = 1]
  ELSE IF record.attempts >= max_attempts THEN record
  ELSE [record EXCEPT !.attempts = @ + 1]

Refuses(record, now) ==
  Blocked(record, now) \/ (~ WindowOver(record, now) /\ record.attempts >= max_attempts)

\* int(x + 0.999): rounded up, unless what is over is less than a thousandth.
Seconds(ticks) == Max({1, (ticks + Tick - Shortfall) \div Tick})

RetryAfter(record, now) ==
  Seconds(IF Blocked(record, now) THEN record.blocked_until - now
                                  ELSE window_s - (now - record.window_start))

\* The table that consume works on: idle records dropped, those of the request there.
Table(keys, now) == Recorded(_evict(now), keys)

\* Every key is counted; the request passes if none refuses.
consume(keys, now) ==
  LET table == Table(keys, now) IN
  /\ records' = [key \in DOMAIN table |-> IF key \in keys THEN Counted(table[key], now) ELSE table[key]]
  /\ failedAt' = [key \in Keys |-> IF key \in DOMAIN _evict(now) THEN failedAt[key] ELSE <<>>]

\* Mutation: the first key asked decides how long to wait.
AnyAnswer(keys, now) ==
  LET table == Table(keys, now) IN
  RetryAfter(table[CHOOSE key \in keys : Refuses(table[key], now)], now)

\* The strictest answer wins.
Strictest(keys, now) ==
  LET table == Table(keys, now) IN
  Max({RetryAfter(table[key], now) : key \in {k \in keys : Refuses(table[k], now)}})

Allowed(keys, now) == \A key \in keys : ~ Refuses(Table(keys, now)[key], now)

-----------------------------------------------------------------------------
(* failed, succeeded                                                       *)

\* The counts of failures that a block is computed for.  Past them 2 ** over is no float
\* any more, and failed() raises: the failure is counted and no block imposed.
Blocking == failure_threshold..failure_threshold + MaxDoublings

FailuresOf(key) == IF key \in DOMAIN records THEN records[key].failures ELSE 0
Raises(key) == FailuresOf(key) + 1 > failure_threshold + MaxDoublings

\* The keys that failed() comes to, of the two it is given in this order.
Reached(first, second) == IF Raises(first) THEN {first} ELSE {first, second}

Block(failures) == Min({max_block_s, base_block_s * 2 ^ (failures - failure_threshold)})

\* Mutation: a later failure sets the end of the block anew, and the block does not double.
BlockSetAnew(record, now) ==
  IF record.failures \notin Blocking THEN record
  ELSE [record EXCEPT !.blocked_until = now + base_block_s]

Punished(record, now) ==
  IF record.failures \notin Blocking THEN record
  ELSE [record EXCEPT !.blocked_until = Max({@, now + Block(record.failures)})]

failed(keys, now) ==
  LET table == Recorded(records, keys) IN
  /\ records' = [key \in DOMAIN table |->
                   IF key \in keys THEN Punished([table[key] EXCEPT !.failures = @ + 1], now)
                                   ELSE table[key]]
  /\ failedAt' = [key \in Keys |-> IF key \in keys THEN Append(failedAt[key], now) ELSE failedAt[key]]

succeeded(keys) ==
  /\ records' = [key \in DOMAIN records |->
                   IF key \in keys THEN [records[key] EXCEPT !.failures = 0, !.blocked_until = 0]
                                   ELSE records[key]]
  /\ failedAt' = [key \in Keys |-> IF key \in keys THEN <<>> ELSE failedAt[key]]

Advance == clock < MaxClock /\ clock' = clock + 1 /\ UNCHANGED limiter
=============================================================================
