------------------------------- MODULE ApiProofs -------------------------------
(***************************************************************************)
(* The limiter under threads, for any number of connections, keys and      *)
(* tokens and any limits: each key's record stays the count of its         *)
(* failures, its block is never cut short, and what is under way bounds    *)
(* what may still fail early.                                              *)
(***************************************************************************)
EXTENDS ApiProperties, SequenceTheorems, FiniteSetTheorems, TLAPS

-----------------------------------------------------------------------------
(* Numbers.                                                                *)

LEMMA MinOfTwo ==
  ASSUME NEW a \in Int, NEW b \in Int
  PROVE  Min({a, b}) \in {a, b} /\ Min({a, b}) <= a /\ Min({a, b}) <= b
<1>1. \E x \in {a, b} : \A y \in {a, b} : x <= y
  <2>1. CASE a <= b
    BY <2>1
  <2>2. CASE b <= a
    BY <2>2
  <2> QED BY <2>1, <2>2
<1> QED BY <1>1 DEF Min

\* The largest of at most two numbers.
LEMMA MaxOfTwo ==
  ASSUME NEW a \in Int, NEW b \in Int, NEW S \in SUBSET {a, b}, S # {}
  PROVE  Max(S) \in S /\ \A x \in S : x <= Max(S)
<1>1. \E x \in S : \A y \in S : x >= y
  <2>1. CASE S = {a} \/ S = {b}
    BY <2>1
  <2>2. CASE a \in S /\ b \in S
    BY <2>2
  <2> QED BY <2>1, <2>2
<1> QED BY <1>1 DEF Max

LEMMA MaxOfPair ==
  ASSUME NEW a \in Int, NEW b \in Int
  PROVE  Max({a, b}) \in {a, b} /\ a <= Max({a, b}) /\ b <= Max({a, b})
<1>1. {a, b} \in SUBSET {a, b} /\ {a, b} # {} /\ a \in {a, b} /\ b \in {a, b}
  OBVIOUS
<1> QED BY <1>1, MaxOfTwo, Zenon

LEMMA LimitsOK ==
  /\ window_s \in Nat \ {0} /\ max_attempts \in Nat \ {0} /\ failure_threshold \in Nat \ {0}
  /\ base_block_s \in Nat \ {0} /\ max_block_s \in Nat \ {0} /\ Tick \in Nat \ {0}
  /\ MaxDoublings \in Nat /\ Shortfall \in Nat \ {0} /\ Shortfall <= Tick
BY LimitsAssumption, RoundingAssumption, FloatAssumption

\* A block is at most max_block_s long.
LEMMA BlockFacts ==
  ASSUME NEW n \in Nat, n >= failure_threshold
  PROVE  Block(n) \in Int /\ Block(n) <= max_block_s
<1>1. 2 ^ (n - failure_threshold) \in Int
  <2>1. n - failure_threshold \in Nat
    BY LimitsOK
  <2> QED BY <2>1
<1>2. base_block_s * 2 ^ (n - failure_threshold) \in Int /\ max_block_s \in Int
  BY <1>1, LimitsOK
<1> QED BY <1>2, MinOfTwo DEF Block

\* Whole seconds cover the ticks they were rounded from, but for what is not rounded up.
LEMMA SecondsCover ==
  ASSUME NEW ticks \in Int
  PROVE  Seconds(ticks) \in Int /\ Tick * Seconds(ticks) >= ticks - Shortfall + 1
<1> DEFINE q == (ticks + Tick - Shortfall) \div Tick
           s == Max({1, q})
<1>1. q \in Int /\ Tick * q >= ticks - Shortfall + 1 /\ Tick \in Nat \ {0} /\ Shortfall \in Nat
  BY LimitsOK
<1> HIDE DEF q
<1>2. s \in Int /\ q <= s
  BY <1>1, MaxOfPair
<1> HIDE DEF s
<1>3. Tick * s >= Tick * q
  BY <1>1, <1>2
<1>4. Tick * s \in Int /\ Tick * q \in Int
  BY <1>1, <1>2
<1> QED BY <1>1, <1>2, <1>3, <1>4 DEF Seconds, s, q

-----------------------------------------------------------------------------
(* What the table holds of a key.                                          *)

Entries == [window_start : Nat, attempts : Nat, failures : Nat, blocked_until : Nat]

\* The record r of a key that failed at the times f, on a clock that shows t: its block
\* ends no earlier than that of any failure that imposed one.
EntryOK(r, f, t) ==
  /\ r \in Entries
  /\ r.window_start <= t /\ r.attempts <= max_attempts /\ r.failures = Len(f)
  /\ r.blocked_until <= t + max_block_s
  /\ \A n \in 1..Len(f) : n \in Blocking => f[n] + Block(n) <= r.blocked_until

Entry(t) == [window_start |-> t, attempts |-> 0, failures |-> 0, blocked_until |-> 0]

LEMMA EntryNew ==
  ASSUME NEW t \in Nat
  PROVE  EntryOK(Entry(t), <<>>, t)
BY EmptySeq, LimitsOK DEF EntryOK, Entry, Entries

LEMMA EntryCounted ==
  ASSUME NEW t \in Nat, NEW now \in 0..t, NEW r, NEW f, EntryOK(r, f, t)
  PROVE  EntryOK(Counted(r, now), f, t) /\ Counted(r, now).blocked_until = r.blocked_until
<1>1. Counted(r, now) \in {r, [r EXCEPT !.window_start = now, !.attempts = 1],
                              [r EXCEPT !.attempts = @ + 1]}
  BY DEF Counted
<1>2. CASE Counted(r, now) = r
  BY <1>2
<1>3. CASE Counted(r, now) = [r EXCEPT !.window_start = now, !.attempts = 1]
  <2> DEFINE s == [r EXCEPT !.window_start = now, !.attempts = 1]
  <2>1. /\ s \in Entries /\ s.window_start = now /\ s.attempts = 1
        /\ s.failures = r.failures /\ s.blocked_until = r.blocked_until
    <3>1. now \in Nat
      OBVIOUS
    <3> QED BY <3>1 DEF EntryOK, Entries
  <2> HIDE DEF s
  <2>2. now <= t /\ 1 <= max_attempts
    BY LimitsOK
  <2>3. EntryOK(s, f, t)
    BY <2>1, <2>2 DEF EntryOK
  <2> QED BY <1>3, <2>1, <2>3 DEF s
<1>4. CASE Counted(r, now) # r /\ Counted(r, now) = [r EXCEPT !.attempts = @ + 1]
                /\ Counted(r, now) # [r EXCEPT !.window_start = now, !.attempts = 1]
  <2>1. ~ (r.attempts >= max_attempts)
    BY <1>4 DEF Counted
  <2> DEFINE s == [r EXCEPT !.attempts = @ + 1]
  <2>2. /\ s \in Entries /\ s.window_start = r.window_start /\ s.attempts = r.attempts + 1
        /\ s.failures = r.failures /\ s.blocked_until = r.blocked_until
    BY DEF EntryOK, Entries
  <2>3. Counted(r, now) = s /\ r.attempts \in Nat
    BY <1>4 DEF EntryOK, Entries
  <2> HIDE DEF s
  <2>4. s.attempts <= max_attempts
    BY <2>1, <2>2, <2>3, LimitsOK
  <2>5. EntryOK(s, f, t)
    BY <2>2, <2>4 DEF EntryOK
  <2> QED BY <2>2, <2>3, <2>5
<1> QED BY <1>1, <1>2, <1>3, <1>4

LEMMA EntryPunished ==
  ASSUME NEW t \in Nat, NEW now \in 0..t, NEW r, NEW f \in Seq(Nat), EntryOK(r, f, t)
  PROVE  LET p == Punished([r EXCEPT !.failures = @ + 1], now) IN
         EntryOK(p, Append(f, now), t) /\ p.blocked_until >= r.blocked_until
<1> DEFINE s == [r EXCEPT !.failures = @ + 1]
           p == Punished(s, now)
           g == Append(f, now)
           k == Len(f) + 1
<1>1. /\ g \in Seq(Nat) /\ Len(g) = k /\ g[k] = now /\ \A n \in 1..Len(f) : g[n] = f[n]
      /\ Len(f) \in Nat
  BY AppendProperties, LenProperties
<1>2. /\ s \in Entries /\ s.failures = k /\ s.blocked_until = r.blocked_until
      /\ s.window_start = r.window_start /\ s.attempts = r.attempts
  BY DEF EntryOK, Entries
<1>3. failure_threshold \in Nat \ {0} /\ max_block_s \in Nat
  BY LimitsOK
<1> HIDE DEF s, g
<1>4. CASE k \notin Blocking
  <2>1. p = s
    BY <1>2, <1>4 DEF Punished
  <2> HIDE DEF p
  <2>2. ASSUME NEW n \in 1..k, n \in Blocking
        PROVE  g[n] + Block(n) <= p.blocked_until
    <3>1. n \in 1..Len(f)
      BY <1>1, <1>4, <2>2
    <3> QED BY <1>1, <1>2, <2>1, <2>2, <3>1 DEF EntryOK
  <2>3. EntryOK(p, g, t) /\ p.blocked_until >= r.blocked_until
    BY <1>1, <1>2, <1>3, <2>1, <2>2 DEF EntryOK, Entries
  <2> QED BY <2>3 DEF p, s, g
<1>5. CASE k \in Blocking
  <2> DEFINE b == now + Block(k)
             e == Max({s.blocked_until, b})
  <2>1. b \in Int /\ b <= t + max_block_s
    <3>1. Block(k) \in Int /\ Block(k) <= max_block_s
      BY <1>1, <1>3, <1>5, BlockFacts DEF Blocking
    <3> QED BY <1>3, <3>1
  <2>2. s.blocked_until \in Nat /\ s.blocked_until <= t + max_block_s
    BY <1>2 DEF EntryOK, Entries
  <2>3. p = [s EXCEPT !.blocked_until = e]
    BY <1>2, <1>5 DEF Punished
  <2> HIDE DEF b
  <2>4. e \in {s.blocked_until, b} /\ s.blocked_until <= e /\ b <= e
    <3>1. s.blocked_until \in Int /\ b \in Int
      BY <2>1, <2>2
    <3> QED BY <3>1, MaxOfPair
  <2> HIDE DEF e, p
  <2>5. e \in Nat /\ e <= t + max_block_s
    BY <2>1, <2>2, <2>4
  <2>6. /\ p \in Entries /\ p.failures = k /\ p.blocked_until = e
        /\ p.window_start = r.window_start /\ p.attempts = r.attempts
    BY <1>2, <2>3, <2>5 DEF Entries
  <2>7. ASSUME NEW n \in 1..k, n \in Blocking
        PROVE  g[n] + Block(n) <= e
    <3>1. CASE n = k
      BY <1>1, <2>4, <3>1 DEF b
    <3>2. CASE n # k
      <4>1. n \in 1..Len(f) /\ n >= failure_threshold
        BY <1>1, <1>3, <2>7, <3>2, LimitsOK DEF Blocking
      <4>2. f[n] + Block(n) <= r.blocked_until /\ f[n] \in Nat /\ Block(n) \in Int
        BY <1>1, <1>3, <2>7, <4>1, BlockFacts, ElementOfSeq DEF EntryOK
      <4>3. g[n] = f[n] /\ r.blocked_until = s.blocked_until
        BY <1>1, <1>2, <4>1
      <4> QED BY <2>2, <2>4, <2>5, <4>2, <4>3
    <3> QED BY <3>1, <3>2
  <2>8. r.window_start <= t /\ r.attempts <= max_attempts
    BY DEF EntryOK
  <2>9. EntryOK(p, g, t)
    BY <1>1, <2>5, <2>6, <2>7, <2>8 DEF EntryOK
  <2> QED BY <1>2, <2>4, <2>6, <2>9 DEF p, g, s
<1> QED BY <1>4, <1>5

LEMMA EntrySucceeded ==
  ASSUME NEW t \in Nat, NEW r, NEW f, EntryOK(r, f, t)
  PROVE  EntryOK([r EXCEPT !.failures = 0, !.blocked_until = 0], <<>>, t)
<1> DEFINE s == [r EXCEPT !.failures = 0, !.blocked_until = 0]
<1>1. /\ s \in Entries /\ s.window_start = r.window_start /\ s.attempts = r.attempts
      /\ s.failures = 0 /\ s.blocked_until = 0
  BY DEF EntryOK, Entries
<1> HIDE DEF s
<1>2. EntryOK(s, <<>>, t)
  BY <1>1, EmptySeq, LimitsOK DEF EntryOK
<1> QED BY <1>2 DEF s

LEMMA EntryLater ==
  ASSUME NEW t \in Nat, NEW r, NEW f, EntryOK(r, f, t)
  PROVE  EntryOK(r, f, t + 1)
BY LimitsOK DEF EntryOK, Entries

-----------------------------------------------------------------------------
(* The table.                                                              *)

TableInv ==
  /\ clock \in 0..MaxClock
  /\ DOMAIN records \subseteq Keys
  /\ failedAt \in [Keys -> Seq(Nat)]
  /\ \A key \in Keys :
       IF key \in DOMAIN records THEN EntryOK(records[key], failedAt[key], clock)
                                 ELSE failedAt[key] = <<>>

\* What consume works on: the records kept, and new ones for the other keys.
LEMMA TableFacts ==
  ASSUME NEW keys, NEW now \in Int
  PROVE  /\ DOMAIN _evict(now) \subseteq DOMAIN records
         /\ \A key \in DOMAIN records : ~ Idle(records[key], now) => key \in DOMAIN _evict(now)
         /\ DOMAIN Table(keys, now) = DOMAIN _evict(now) \cup keys
         /\ \A key \in DOMAIN Table(keys, now) :
              Table(keys, now)[key] = IF key \in DOMAIN _evict(now) THEN records[key] ELSE Entry(clock)
BY DEF _evict, Table, Recorded, NewRecord, Entry

LEMMA ConsumeFacts ==
  ASSUME TableInv, NEW keys \in SUBSET Keys, NEW now \in 0..clock, consume(keys, now), clock' = clock
  PROVE  /\ TableInv'
         /\ \A key \in Keys : failedAt'[key] \in {failedAt[key], <<>>}
         /\ \A key \in Keys : key \notin DOMAIN _evict(now) => failedAt'[key] = <<>>
         /\ \A key \in DOMAIN records :
              records[key].blocked_until > now =>
                key \in DOMAIN records' /\ records'[key].blocked_until = records[key].blocked_until
<1> DEFINE table == Table(keys, now)
           kept == DOMAIN _evict(now)
<1>0. now \in Int
  BY ClockAssumption DEF TableInv
<1>1. /\ kept \subseteq DOMAIN records /\ DOMAIN table = kept \cup keys
      /\ \A key \in DOMAIN records : ~ Idle(records[key], now) => key \in kept
      /\ \A key \in DOMAIN table : table[key] = IF key \in kept THEN records[key] ELSE Entry(clock)
  BY <1>0, TableFacts
<1>2. /\ records' = [key \in DOMAIN table |-> IF key \in keys THEN Counted(table[key], now) ELSE table[key]]
      /\ failedAt' = [key \in Keys |-> IF key \in kept THEN failedAt[key] ELSE <<>>]
  BY DEF consume
<1> HIDE DEF table, kept
<1>3. /\ clock \in Nat /\ clock \in 0..MaxClock /\ failedAt \in [Keys -> Seq(Nat)]
      /\ DOMAIN records \subseteq Keys
  BY ClockAssumption DEF TableInv
<1>4. DOMAIN records' = kept \cup keys /\ DOMAIN records' \subseteq Keys
  BY <1>1, <1>2, <1>3
<1>5. failedAt' \in [Keys -> Seq(Nat)]
  BY <1>2, <1>3
<1>6. ASSUME NEW key \in DOMAIN records'
      PROVE  /\ EntryOK(records'[key], failedAt'[key], clock)
             /\ records'[key].blocked_until = table[key].blocked_until
  <2>1. key \in Keys /\ key \in DOMAIN table
    BY <1>1, <1>4
  <2>2. EntryOK(table[key], failedAt'[key], clock)
    <3>1. CASE key \in kept
      BY <1>1, <1>2, <2>1, <3>1 DEF TableInv
    <3>2. CASE key \notin kept
      BY <1>1, <1>2, <1>3, <2>1, <3>2, EntryNew
    <3> QED BY <3>1, <3>2
  <2>3. CASE key \in keys
    BY <1>2, <1>3, <2>1, <2>2, <2>3, EntryCounted
  <2>4. CASE key \notin keys
    BY <1>2, <2>1, <2>2, <2>4
  <2> QED BY <2>3, <2>4
<1>7. \A key \in Keys : key \notin DOMAIN records' => failedAt'[key] = <<>>
  BY <1>2, <1>4
<1>8. TableInv'
  BY <1>3, <1>4, <1>5, <1>6, <1>7 DEF TableInv
<1>9. ASSUME NEW key \in DOMAIN records, records[key].blocked_until > now
      PROVE  key \in DOMAIN records' /\ records'[key].blocked_until = records[key].blocked_until
  <2>1. key \in kept
    <3>1. records[key].blocked_until \in Nat
      BY <1>3 DEF TableInv, EntryOK, Entries
    <3> QED BY <1>1, <1>9, <3>1 DEF Idle
  <2> QED BY <1>1, <1>4, <1>6, <2>1
<1> QED BY <1>2, <1>8, <1>9 DEF kept

LEMMA FailedFacts ==
  ASSUME TableInv, NEW keys \in SUBSET Keys, NEW now \in 0..clock, failed(keys, now), clock' = clock
  PROVE  /\ TableInv'
         /\ \A key \in DOMAIN records :
              key \in DOMAIN records' /\ records'[key].blocked_until >= records[key].blocked_until
<1> DEFINE table == Recorded(records, keys)
<1>1. /\ DOMAIN table = DOMAIN records \cup keys
      /\ \A key \in DOMAIN table :
           table[key] = IF key \in DOMAIN records THEN records[key] ELSE Entry(clock)
  BY DEF Recorded, NewRecord, Entry
<1>2. /\ records' = [key \in DOMAIN table |->
                       IF key \in keys THEN Punished([table[key] EXCEPT !.failures = @ + 1], now)
                                       ELSE table[key]]
      /\ failedAt' = [key \in Keys |-> IF key \in keys THEN Append(failedAt[key], now) ELSE failedAt[key]]
  BY DEF failed
<1> HIDE DEF table
<1>3. /\ clock \in Nat /\ clock \in 0..MaxClock /\ failedAt \in [Keys -> Seq(Nat)]
      /\ DOMAIN records \subseteq Keys /\ now \in Nat
  BY ClockAssumption DEF TableInv
<1>4. DOMAIN records' = DOMAIN records \cup keys /\ DOMAIN records' \subseteq Keys
  BY <1>1, <1>2, <1>3
<1>5. failedAt' \in [Keys -> Seq(Nat)]
  BY <1>2, <1>3, AppendProperties
<1>6. ASSUME NEW key \in DOMAIN records'
      PROVE  /\ EntryOK(records'[key], failedAt'[key], clock)
             /\ records'[key].blocked_until >= table[key].blocked_until
  <2>1. key \in Keys /\ key \in DOMAIN table /\ failedAt[key] \in Seq(Nat)
    BY <1>1, <1>3, <1>4
  <2>2. EntryOK(table[key], failedAt[key], clock)
    <3>1. CASE key \in DOMAIN records
      BY <1>1, <2>1, <3>1 DEF TableInv
    <3>2. CASE key \notin DOMAIN records
      BY <1>1, <1>3, <2>1, <3>2, EntryNew DEF TableInv
    <3> QED BY <3>1, <3>2
  <2>3. CASE key \in keys
    BY <1>2, <1>3, <2>1, <2>2, <2>3, EntryPunished
  <2>4. CASE key \notin keys
    BY <1>2, <2>1, <2>2, <2>4 DEF EntryOK, Entries
  <2> QED BY <2>3, <2>4
<1>7. \A key \in Keys : key \notin DOMAIN records' => failedAt'[key] = <<>>
  BY <1>2, <1>4 DEF TableInv
<1>8. TableInv'
  BY <1>3, <1>4, <1>5, <1>6, <1>7 DEF TableInv
<1> QED BY <1>1, <1>4, <1>6, <1>8

LEMMA SucceededFacts ==
  ASSUME TableInv, NEW keys \in SUBSET Keys, succeeded(keys), clock' = clock
  PROVE  /\ TableInv'
         /\ \A key \in DOMAIN records \ keys : key \in DOMAIN records' /\ records'[key] = records[key]
<1>1. /\ DOMAIN records' = DOMAIN records
      /\ \A key \in DOMAIN records :
           records'[key] = IF key \in keys
                           THEN [records[key] EXCEPT !.failures = 0, !.blocked_until = 0]
                           ELSE records[key]
      /\ failedAt' = [key \in Keys |-> IF key \in keys THEN <<>> ELSE failedAt[key]]
  BY DEF succeeded
<1>2. /\ clock \in Nat /\ clock \in 0..MaxClock /\ failedAt \in [Keys -> Seq(Nat)]
      /\ DOMAIN records \subseteq Keys
  BY ClockAssumption DEF TableInv
<1>3. failedAt' \in [Keys -> Seq(Nat)]
  <2>1. \A key \in Keys : failedAt[key] \in Seq(Nat) /\ <<>> \in Seq(Nat)
    BY <1>2
  <2> QED BY <1>1, <2>1
<1>4. ASSUME NEW key \in Keys
      PROVE  IF key \in DOMAIN records THEN EntryOK(records'[key], failedAt'[key], clock)
                                       ELSE failedAt'[key] = <<>>
  <2>1. CASE key \in DOMAIN records /\ key \in keys
    <3>1. EntryOK(records[key], failedAt[key], clock)
      BY <2>1 DEF TableInv
    <3> QED BY <1>1, <1>2, <2>1, <3>1, EntrySucceeded
  <2>2. CASE ~ (key \in DOMAIN records /\ key \in keys)
    BY <1>1, <2>2 DEF TableInv
  <2> QED BY <2>1, <2>2
<1> QED BY <1>1, <1>2, <1>3, <1>4 DEF TableInv

-----------------------------------------------------------------------------
(* The threads.                                                            *)

Threads ==
  [at : {"free", "waiting", "consume", "compare", "failed", "serve"},
   method : {"", "GET", "POST", "OPTIONS"}, token : Keys \cup {""}, now : Nat,
   close : BOOLEAN, unread : Bodies]

Busy == {"consume", "compare", "failed", "serve"}

\* A POST closes the connection until the token was right.
ThreadOK(s) ==
  /\ s.at \in Busy => s.token \in Presented
  /\ s.at \in Busy \ {"serve"} => (s.method = "POST" => s.close)
  /\ s.at = "waiting" => (s.method = "POST" => s.unread # "sized")

ThreadInv ==
  /\ conn \in [Connections -> Threads]
  /\ \A c \in Connections : conn[c].now <= clock /\ ThreadOK(conn[c])

ApiInv == TableInv /\ ThreadInv

LEMMA KeysOfBusy ==
  ASSUME ThreadInv, NEW c \in Connections, conn[c].at \in Busy
  PROVE  KeysOf(c) \subseteq Keys /\ KeysOf(c) = {Address[c], conn[c].token}
BY ConnectionsAssumption, TokensAssumption DEF ThreadInv, ThreadOK, KeysOf

LEMMA ThreadNow ==
  ASSUME ApiInv, NEW c \in Connections
  PROVE  conn[c].now \in 0..clock
<1>1. conn[c] \in Threads /\ conn[c].now <= clock /\ clock \in Nat
  BY ClockAssumption DEF ApiInv, ThreadInv, TableInv
<1>2. conn[c].now \in Nat
  BY <1>1 DEF Threads
<1> QED BY <1>1, <1>2

\* What a thread does to its own connection.
LEMMA OneThread ==
  ASSUME ThreadInv, clock \in Nat, NEW c \in Connections,
         NEW s \in Threads, ThreadOK(s), s.now \in {0, clock, conn[c].now},
         conn' = [conn EXCEPT ![c] = s], clock' = clock
  PROVE  ThreadInv'
<1>1. s.now <= clock
  BY DEF ThreadInv
<1> QED BY <1>1 DEF ThreadInv

LEMMA SentOK ==
  ASSUME NEW s \in Threads, s.close \/ (s.method = "POST" => s.unread # "sized")
  PROVE  Sent(s) \in Threads /\ ThreadOK(Sent(s)) /\ Sent(s).now = 0
<1>1. Free \in Threads /\ Free.at = "free" /\ Free.now = 0
  BY DEF Free, Threads, Bodies
<1>2. CASE s.close
  BY <1>1, <1>2 DEF Sent, ThreadOK, Busy
<1>3. CASE ~ s.close
  <2> DEFINE w == [Free EXCEPT !.at = "waiting", !.method = s.method, !.unread = s.unread]
  <2>1. Sent(s) = w
    BY <1>3 DEF Sent
  <2>2. w \in Threads /\ w.at = "waiting" /\ w.method = s.method /\ w.unread = s.unread /\ w.now = 0
    BY <1>1 DEF Threads
  <2> HIDE DEF w
  <2>3. ThreadOK(w)
    BY <1>3, <2>2 DEF ThreadOK, Busy
  <2> QED BY <2>1, <2>2, <2>3
<1> QED BY <1>2, <1>3

Move(c) ==
  \/ \E r \in Requests, token \in Presented : Request(c, r[1], r[2], token)
  \/ \E r \in Requests : r[1] = "OPTIONS" /\ Options(c, r[2])
  \/ Consume(c) \/ Wrong(c) \/ Fail(c) \/ Right(c) \/ Get(c) \/ PostTurned(c) \/ Post(c)

LEMMA ThreadStep ==
  ASSUME ApiInv, NEW c \in Connections, clock' = clock, Move(c)
  PROVE  ThreadInv'
<1>0. conn[c] \in Threads /\ conn[c].now <= clock /\ clock \in Nat
  BY ClockAssumption DEF ApiInv, ThreadInv, TableInv
<1>1. ThreadOK(conn[c]) /\ ThreadInv
  BY DEF ApiInv, ThreadInv
<1>2. ASSUME NEW r \in Requests, NEW token \in Presented, Request(c, r[1], r[2], token)
      PROVE  ThreadInv'
  <2> DEFINE b == r[1] = "POST"
             s == [at |-> "consume", method |-> r[1], token |-> token, now |-> clock,
                   close |-> b, unread |-> r[2]]
  <2>1. b \in BOOLEAN /\ r[1] \in {"GET", "POST", "OPTIONS"} /\ r[2] \in Bodies
    BY RequestsAssumption
  <2>2. conn' = [conn EXCEPT ![c] = s]
    BY <1>2 DEF Request
  <2>3. ThreadOK(s)
    BY DEF ThreadOK, Busy
  <2> HIDE DEF b
  <2>4. s \in Threads /\ s.now \in {0, clock}
    BY <1>0, <2>1, TokensAssumption DEF Threads
  <2> HIDE DEF s
  <2> QED BY <1>1, <2>2, <2>3, <2>4, <1>0, OneThread
<1>a. ASSUME NEW body \in Bodies, Options(c, body)
      PROVE  ThreadInv'
  <2> DEFINE s == [Free EXCEPT !.method = "OPTIONS", !.unread = body]
  <2>1. conn' = [conn EXCEPT ![c] = Sent(s)]
    BY <1>a DEF Options
  <2>2. s \in Threads /\ s.method = "OPTIONS"
    BY DEF Free, Threads, Bodies
  <2> HIDE DEF s
  <2>3. Sent(s) \in Threads /\ ThreadOK(Sent(s)) /\ Sent(s).now = 0
    BY <2>2, SentOK
  <2> QED BY <1>0, <1>1, <2>1, <2>3, OneThread
<1>3. ASSUME conn[c].at \in Busy \ {"serve"}
      PROVE  Refused(c) \in Threads /\ ThreadOK(Refused(c)) /\ Refused(c).now = 0
  BY <1>0, <1>1, <1>3, SentOK DEF Refused, ThreadOK
<1>4. CASE Consume(c)
  <2>1. conn[c].at = "consume" /\ conn' \in {[conn EXCEPT ![c] = Refused(c)],
                                    [conn EXCEPT ![c] = [conn[c] EXCEPT !.at = "compare", !.now = 0]]}
    BY <1>4 DEF Consume, Step
  <2>2. CASE conn' = [conn EXCEPT ![c] = Refused(c)]
    <3>1. Refused(c) \in Threads /\ ThreadOK(Refused(c)) /\ Refused(c).now = 0
      BY <1>3, <2>1 DEF Busy
    <3> QED BY <1>0, <1>1, <2>2, <3>1, OneThread
  <2>3. CASE conn' = [conn EXCEPT ![c] = [conn[c] EXCEPT !.at = "compare", !.now = 0]]
    <3> DEFINE s == [conn[c] EXCEPT !.at = "compare", !.now = 0]
    <3>1. s \in Threads /\ s.now \in {0, clock}
      BY <1>0 DEF Threads
    <3>2. ThreadOK(s)
      BY <1>0, <1>1, <2>1 DEF ThreadOK, Threads, Busy
    <3>3. conn' = [conn EXCEPT ![c] = s]
      BY <2>3
    <3> HIDE DEF s
    <3> QED BY <1>1, <3>1, <3>2, <3>3, <1>0, OneThread
  <2> QED BY <2>1, <2>2, <2>3
<1>5. CASE Wrong(c)
  <2> DEFINE s == [conn[c] EXCEPT !.at = "failed", !.now = clock]
  <2>1. conn[c].at = "compare" /\ conn' = [conn EXCEPT ![c] = s]
    BY <1>5 DEF Wrong, Step
  <2>2. s \in Threads /\ s.now \in {0, clock}
    BY <1>0 DEF Threads
  <2>3. ThreadOK(s)
    BY <1>0, <1>1, <2>1 DEF ThreadOK, Threads, Busy
  <2> HIDE DEF s
  <2> QED BY <1>1, <2>1, <2>2, <2>3, <1>0, OneThread
<1>6. CASE Fail(c)
  <2>1. /\ conn[c].at = "failed"
        /\ conn' \in {[conn EXCEPT ![c] = Refused(c)], [conn EXCEPT ![c] = Free]}
    BY <1>6 DEF Fail, Step
  <2>2. Refused(c) \in Threads /\ ThreadOK(Refused(c)) /\ Refused(c).now = 0
    BY <1>3, <2>1 DEF Busy
  <2>3. Free \in Threads /\ ThreadOK(Free) /\ Free.now = 0
    BY DEF Free, Threads, Bodies, ThreadOK, Busy
  <2> QED BY <1>0, <1>1, <2>1, <2>2, <2>3, OneThread
<1>7. CASE Right(c)
  <2> DEFINE s == [conn[c] EXCEPT !.at = "serve", !.close = FALSE]
  <2>1. conn[c].at = "compare" /\ conn' = [conn EXCEPT ![c] = s]
    BY <1>7 DEF Right, Step
  <2>2. s \in Threads /\ s.now = conn[c].now
    BY <1>0 DEF Threads
  <2>3. ThreadOK(s)
    BY <1>0, <1>1, <2>1 DEF ThreadOK, Threads, Busy
  <2> HIDE DEF s
  <2> QED BY <1>1, <2>1, <2>2, <2>3, <1>0, OneThread
<1>8. CASE Get(c)
  <2>1. conn[c].at = "serve" /\ conn[c].method = "GET" /\ conn' = [conn EXCEPT ![c] = Sent(conn[c])]
    BY <1>8 DEF Get, Step, Refused
  <2>2. Sent(conn[c]) \in Threads /\ ThreadOK(Sent(conn[c])) /\ Sent(conn[c]).now = 0
    BY <1>0, <2>1, SentOK
  <2> QED BY <1>0, <1>1, <2>1, <2>2, OneThread
<1>9. CASE PostTurned(c)
  <2> DEFINE s == [conn[c] EXCEPT !.close = TRUE]
  <2>1. conn' = [conn EXCEPT ![c] = Sent(s)]
    BY <1>9 DEF PostTurned, Step, Turned
  <2>2. s \in Threads /\ s.close
    BY <1>0 DEF Threads
  <2> HIDE DEF s
  <2>3. Sent(s) \in Threads /\ ThreadOK(Sent(s)) /\ Sent(s).now = 0
    BY <2>2, SentOK
  <2> QED BY <1>0, <1>1, <2>1, <2>3, OneThread
<1>10. CASE Post(c)
  <2> DEFINE s == [conn[c] EXCEPT !.unread = IF @ = "sized" THEN "none" ELSE @]
  <2>1. conn' = [conn EXCEPT ![c] = Sent(s)]
    BY <1>10 DEF Post, Step
  <2>2. s \in Threads /\ s.unread # "sized"
    BY <1>0 DEF Threads, Bodies
  <2> HIDE DEF s
  <2>3. Sent(s) \in Threads /\ ThreadOK(Sent(s)) /\ Sent(s).now = 0
    BY <2>2, SentOK
  <2> QED BY <1>0, <1>1, <2>1, <2>3, OneThread
<1>b. \A r \in Requests : r[2] \in Bodies
  BY RequestsAssumption
<1> QED BY <1>2, <1>a, <1>b, <1>4, <1>5, <1>6, <1>7, <1>8, <1>9, <1>10 DEF Move

LEMMA ReachedKeys ==
  ASSUME NEW c \in Connections
  PROVE  Reached(Address[c], conn[c].token) \subseteq KeysOf(c)
BY DEF Reached, KeysOf

LEMMA TableStep ==
  ASSUME ApiInv, NEW c \in Connections, clock' = clock, Move(c)
  PROVE  TableInv'
<1>1. TableInv /\ conn[c].now \in 0..clock
  BY ThreadNow DEF ApiInv
<1>2. ASSUME UNCHANGED limiter
      PROVE  TableInv'
  BY <1>1, <1>2 DEF TableInv, limiter
<1>3. CASE Consume(c)
  <2>1. KeysOf(c) \subseteq Keys /\ consume(KeysOf(c), conn[c].now)
    BY <1>3, KeysOfBusy DEF Consume, Step, ApiInv, Busy
  <2> QED BY <1>1, <2>1, ConsumeFacts
<1>4. CASE Fail(c)
  <2> DEFINE reached == Reached(Address[c], conn[c].token)
  <2>1. KeysOf(c) \subseteq Keys /\ failed(reached, conn[c].now)
    BY <1>4, KeysOfBusy DEF Fail, Step, ApiInv, Busy
  <2>2. reached \in SUBSET Keys
    BY <2>1, ReachedKeys
  <2> HIDE DEF reached
  <2> QED BY <1>1, <2>1, <2>2, FailedFacts
<1>5. CASE Right(c)
  <2>1. KeysOf(c) \subseteq Keys /\ succeeded(KeysOf(c))
    BY <1>5, KeysOfBusy DEF Right, Step, ApiInv, Busy
  <2> QED BY <1>1, <2>1, SucceededFacts
<1> QED BY <1>2, <1>3, <1>4, <1>5 DEF Move, Request, Options, Wrong, Get, PostTurned, Post

LEMMA ApiStep ==
  ASSUME ApiInv, [Next]_vars
  PROVE  ApiInv'
<1>1. CASE Advance /\ UNCHANGED conn
  <2>1. clock \in Nat /\ clock' = clock + 1 /\ clock' \in 0..MaxClock /\ UNCHANGED limiter
    BY <1>1, ClockAssumption DEF Advance, ApiInv, TableInv
  <2>2. TableInv'
    BY <2>1, EntryLater DEF limiter, ApiInv, TableInv
  <2>3. \A c \in Connections : conn[c].now <= clock' /\ ThreadOK(conn[c])
    BY <2>1, ThreadNow DEF ApiInv, ThreadInv
  <2>4. ThreadInv'
    BY <1>1, <2>3 DEF ApiInv, ThreadInv
  <2> QED BY <2>2, <2>4 DEF ApiInv
<1>2. CASE UNCHANGED vars
  BY <1>2 DEF vars, limiter, ApiInv, TableInv, ThreadInv
<1>3. ASSUME NEW c \in Connections, Move(c)
      PROVE  ApiInv'
  <2>1. clock' = clock
    BY <1>3 DEF Move, Request, Options, Consume, Wrong, Fail, Right, Get, PostTurned, Post
  <2> QED BY <1>3, <2>1, ThreadStep, TableStep DEF ApiInv
<1> QED BY <1>1, <1>2, <1>3 DEF Next, Move

LEMMA ApiInit == Init => ApiInv
<1> SUFFICES ASSUME Init PROVE ApiInv
  OBVIOUS
<1>1. TableInv
  BY ClockAssumption, EmptySeq DEF Init, TableInv
<1>2. Free \in Threads /\ Free.now = 0 /\ ThreadOK(Free)
  BY DEF Free, Threads, Bodies, ThreadOK, Busy
<1>3. ThreadInv
  BY <1>2 DEF Init, ThreadInv
<1> QED BY <1>1, <1>3 DEF ApiInv

LEMMA ApiInductive == Spec => []ApiInv
BY ApiInit, ApiStep, PTL DEF Spec

\* However many threads there are and however old the readings of the clock they bring,
\* the counts of every key stay within the cap and no time recorded is ahead of the clock.
THEOREM ApiTyped == Spec => []ApiTypeOK
<1>1. ApiInv => ApiTypeOK
  <2> SUFFICES ASSUME ApiInv PROVE ApiTypeOK
    OBVIOUS
  <2>1. \A key \in DOMAIN records : EntryOK(records[key], failedAt[key], clock)
    BY DEF ApiInv, TableInv
  <2>2. \A c \in Connections : conn[c].now \in 0..clock
    BY ThreadNow
  <2> QED BY <2>1, <2>2, LimitsOK DEF ApiInv, TableInv, ApiTypeOK, EntryOK, Entries
<1> QED BY <1>1, ApiInductive, PTL

\* No connection waits for a request behind the body of a POST whose length its header gave,
\* whichever check refused it.  (Bodies of other methods, or sent in chunks, are not read and
\* the connection is kept.)
THEOREM NoUnreadPost == Spec => []NoRequestBehindAPost
<1>1. ApiInv => NoRequestBehindAPost
  BY DEF ApiInv, ThreadInv, ThreadOK, NoRequestBehindAPost
<1> QED BY <1>1, ApiInductive, PTL

-----------------------------------------------------------------------------
(* Blocks.                                                                 *)

LEMMA BlockKept ==
  ASSUME ApiInv, [Next]_vars, NEW key \in DOMAIN records, records[key].blocked_until > clock
  PROVE  \/ key \in DOMAIN records' /\ records'[key].blocked_until >= records[key].blocked_until
         \/ \E c \in Connections : key \in KeysOf(c) /\ conn[c].token = Expected /\ Right(c)
<1>1. TableInv /\ ThreadInv /\ records[key].blocked_until \in Nat /\ clock \in Nat
  BY ClockAssumption DEF ApiInv, TableInv, EntryOK, Entries
<1>2. CASE UNCHANGED records
  BY <1>1, <1>2
<1>3. ASSUME NEW c \in Connections, Consume(c)
      PROVE  key \in DOMAIN records' /\ records'[key].blocked_until >= records[key].blocked_until
  <2>1. /\ KeysOf(c) \subseteq Keys /\ conn[c].now \in 0..clock
        /\ consume(KeysOf(c), conn[c].now) /\ clock' = clock
    BY <1>1, <1>3, KeysOfBusy, ThreadNow DEF Consume, Step, Busy
  <2>2. records[key].blocked_until > conn[c].now
    BY <1>1, <2>1
  <2>3. \A k \in DOMAIN records :
          records[k].blocked_until > conn[c].now =>
            k \in DOMAIN records' /\ records'[k].blocked_until = records[k].blocked_until
    BY <1>1, <2>1, ConsumeFacts
  <2>4. key \in DOMAIN records' /\ records'[key].blocked_until = records[key].blocked_until
    BY <2>2, <2>3
  <2> QED BY <1>1, <2>4
<1>4. ASSUME NEW c \in Connections, Fail(c)
      PROVE  key \in DOMAIN records' /\ records'[key].blocked_until >= records[key].blocked_until
  <2> DEFINE reached == Reached(Address[c], conn[c].token)
  <2>1. /\ KeysOf(c) \subseteq Keys /\ conn[c].now \in 0..clock
        /\ failed(reached, conn[c].now) /\ clock' = clock
    BY <1>1, <1>4, KeysOfBusy, ThreadNow DEF Fail, Step, Busy
  <2>2. reached \in SUBSET Keys
    BY <2>1, ReachedKeys
  <2> HIDE DEF reached
  <2> QED BY <1>1, <2>1, <2>2, FailedFacts
<1>5. ASSUME NEW c \in Connections, Right(c), key \notin KeysOf(c)
      PROVE  key \in DOMAIN records' /\ records'[key].blocked_until >= records[key].blocked_until
  <2>1. KeysOf(c) \subseteq Keys /\ succeeded(KeysOf(c)) /\ clock' = clock
    BY <1>1, <1>5, KeysOfBusy DEF Right, Step, Busy
  <2> QED BY <1>1, <1>5, <2>1, SucceededFacts
<1> QED
  BY <1>2, <1>3, <1>4, <1>5
     DEF Next, vars, limiter, Advance, Request, Options, Wrong, Right, Get, PostTurned, Post

\* Only the right token ends a block early: neither the failure of a thread with an older
\* reading of the clock nor the dropping of idle records shortens one that runs.
THEOREM BlockRunsItsTime == Spec => BlockIsServed
<1>1. ApiInv /\ [Next]_vars =>
        [\A key \in DOMAIN records :
           records[key].blocked_until > clock =>
             \/ key \in DOMAIN records' /\ records'[key].blocked_until >= records[key].blocked_until
             \/ \E c \in Connections : key \in KeysOf(c) /\ conn[c].token = Expected /\ Right(c)]_vars
  BY BlockKept
<1> QED BY <1>1, ApiInductive, PTL DEF Spec, BlockIsServed

-----------------------------------------------------------------------------
(* What a refused request is told.                                         *)

LEMMA RetryFacts ==
  ASSUME NEW r \in Entries, NEW now \in Nat, Refuses(r, now)
  PROVE  LET a == RetryAfter(r, now) IN
         /\ a \in Int
         /\ Blocked(r, now) => Tick * a >= r.blocked_until - now - Shortfall + 1
         /\ ~ Blocked(r, now) => Tick * a >= window_s - (now - r.window_start) - Shortfall + 1
<1>1. r.blocked_until \in Nat /\ r.window_start \in Nat
  BY DEF Entries
<1> DEFINE ticks == IF Blocked(r, now) THEN r.blocked_until - now ELSE window_s - (now - r.window_start)
<1>2. ticks \in Int
  BY <1>1, LimitsOK
<1>3. RetryAfter(r, now) = Seconds(ticks)
  BY DEF RetryAfter
<1>4. Seconds(ticks) \in Int /\ Tick * Seconds(ticks) >= ticks - Shortfall + 1
  BY <1>2, SecondsCover
<1> QED BY <1>3, <1>4

LEMMA RetryEnough ==
  ASSUME ApiInv, NEW c \in Connections, conn[c].at = "consume",
         ~ Allowed(KeysOf(c), conn[c].now), NEW key \in KeysOf(c)
  PROVE  LET now == conn[c].now
             table == Table(KeysOf(c), now)
             later == now + Tick * Strictest(KeysOf(c), now) + Shortfall - 1 IN
         IF Blocked(table[key], now) THEN ~ Blocked(table[key], later)
         ELSE Refuses(table[key], now) => WindowOver(table[key], later)
<1> DEFINE now == conn[c].now
           keys == KeysOf(c)
           table == Table(keys, now)
           waits == {RetryAfter(table[k], now) : k \in {k \in keys : Refuses(table[k], now)}}
           most == Strictest(keys, now)
<1>1. /\ keys \subseteq Keys /\ keys = {Address[c], conn[c].token}
      /\ now \in Nat /\ clock \in Nat /\ TableInv
  BY KeysOfBusy, ThreadNow, ClockAssumption DEF ApiInv, Busy, TableInv
<1>2. most = Max(waits)
  BY DEF Strictest
<1>3. \E k \in keys : Refuses(table[k], now)
  BY DEF Allowed
<1> HIDE DEF now, keys, most
<1>4. \A k \in keys : table[k] \in Entries
  <2> TAKE k \in keys
  <2>1. /\ DOMAIN _evict(now) \subseteq DOMAIN records /\ k \in DOMAIN table
        /\ \A j \in DOMAIN table :
             table[j] = IF j \in DOMAIN _evict(now) THEN records[j] ELSE Entry(clock)
    <3>1. now \in Int
      BY <1>1
    <3> QED BY <3>1, TableFacts
  <2>2. k \in Keys
    BY <1>1
  <2> HIDE DEF table
  <2>3. Entry(clock) \in Entries
    BY <1>1, EntryNew DEF EntryOK
  <2>4. CASE k \in DOMAIN _evict(now)
    BY <1>1, <2>1, <2>2, <2>4 DEF TableInv, EntryOK
  <2>5. CASE k \notin DOMAIN _evict(now)
    BY <2>1, <2>3, <2>5
  <2> QED BY <2>4, <2>5
<1> HIDE DEF table
<1>5. ASSUME NEW k \in keys, Refuses(table[k], now)
      PROVE  /\ RetryAfter(table[k], now) \in Int
             /\ Blocked(table[k], now) =>
                  Tick * RetryAfter(table[k], now) >= table[k].blocked_until - now - Shortfall + 1
             /\ ~ Blocked(table[k], now) =>
                  Tick * RetryAfter(table[k], now) >= window_s - (now - table[k].window_start) - Shortfall + 1
  BY <1>1, <1>4, <1>5, RetryFacts
<1>6. most \in Int /\ \A k \in keys : Refuses(table[k], now) => RetryAfter(table[k], now) <= most
  <2> DEFINE of(k) == IF Refuses(table[k], now) THEN RetryAfter(table[k], now) ELSE 0
             a == of(Address[c])
             b == of(conn[c].token)
  <2>1. a \in Int /\ b \in Int
    BY <1>1, <1>5
  <2>2. waits \in SUBSET {a, b}
    BY <1>1
  <2>3. waits # {}
    BY <1>3
  <2> HIDE DEF a, b
  <2>4. Max(waits) \in waits /\ \A w \in waits : w <= Max(waits)
    BY <2>1, <2>2, <2>3, MaxOfTwo
  <2>5. most \in Int
    BY <1>2, <2>1, <2>2, <2>4
  <2> QED BY <1>2, <2>4, <2>5
<1>7. ASSUME NEW w \in Int, w <= most
      PROVE  Tick * w <= Tick * most /\ Tick * w \in Int /\ Tick * most \in Int
  <2>1. Tick \in Nat \ {0}
    BY LimitsOK
  <2> QED BY <1>6, <1>7, <2>1
<1> DEFINE r == table[key]
           later == now + Tick * most + Shortfall - 1
<1>8. key \in keys /\ r \in Entries
  BY <1>4 DEF keys
<1>9. CASE Blocked(r, now)
  <2>1. /\ RetryAfter(r, now) \in Int /\ RetryAfter(r, now) <= most
        /\ Tick * RetryAfter(r, now) >= r.blocked_until - now - Shortfall + 1
    BY <1>5, <1>6, <1>8, <1>9 DEF Refuses
  <2>2. r.blocked_until \in Nat /\ Shortfall \in Nat
    BY <1>8, LimitsOK DEF Entries
  <2>3. ~ (r.blocked_until > later)
    <3> DEFINE x == Tick * RetryAfter(r, now)
               y == Tick * most
    <3>1. x \in Int /\ y \in Int /\ x <= y /\ x >= r.blocked_until - now - Shortfall + 1
      BY <1>7, <2>1
    <3> HIDE DEF x, y
    <3>2. ~ (r.blocked_until > now + y + Shortfall - 1)
      BY <1>1, <2>2, <3>1
    <3> QED BY <3>2 DEF y
  <2> QED BY <1>9, <2>3 DEF Blocked, table, keys, now, most
<1>10. CASE ~ Blocked(r, now) /\ Refuses(r, now)
  <2>1. /\ RetryAfter(r, now) \in Int /\ RetryAfter(r, now) <= most
        /\ Tick * RetryAfter(r, now) >= window_s - (now - r.window_start) - Shortfall + 1
    BY <1>5, <1>6, <1>8, <1>10
  <2>2. r.window_start \in Nat /\ window_s \in Nat /\ Shortfall \in Nat
    BY <1>8, LimitsOK DEF Entries
  <2>3. later - r.window_start >= window_s
    <3> DEFINE x == Tick * RetryAfter(r, now)
               y == Tick * most
    <3>1. x \in Int /\ y \in Int /\ x <= y /\ x >= window_s - (now - r.window_start) - Shortfall + 1
      BY <1>7, <2>1
    <3> HIDE DEF x, y
    <3>2. (now + y + Shortfall - 1) - r.window_start >= window_s
      BY <1>1, <2>2, <3>1
    <3> QED BY <3>2 DEF y
  <2> QED BY <1>10, <2>3 DEF WindowOver, table, keys, now, most
<1>11. CASE ~ Blocked(r, now) /\ ~ Refuses(r, now)
  BY <1>11 DEF table, keys, now
<1> QED BY <1>9, <1>10, <1>11

\* When the Retry-After of a refusal has passed, less than a thousandth of a second is left of
\* what refused it, a block or a full window.  (Not that the next request passes: the refused
\* one counted against its other key.)
THEOREM WaitIsNearlyEnough == Spec => []RetryAfterNearlyEnough
<1>1. ApiInv => RetryAfterNearlyEnough
  BY RetryEnough DEF RetryAfterNearlyEnough
<1> QED BY <1>1, ApiInductive, PTL

-----------------------------------------------------------------------------
(* Guesses.  What makes GuessesCostTime inductive: between the n-th failure *)
(* of a key and the end of its block, the failures that come and the        *)
(* threads that may still bring one are together fewer than the threads.    *)

\* Of the failures at the times f, those after the n-th that come before its block is over.
Early(f, n) == {m \in n + 1..Len(f) : f[m] < f[n] + Block(n)}

\* The threads whose next failure of the key may come before the time t.
UnderWay(key, t) ==
  {c \in Connections : /\ key \in KeysOf(c)
                       /\ \/ conn[c].at = "compare" /\ clock < t
                          \/ conn[c].at = "failed" /\ conn[c].now < t}

FewOf(f, n, threads) == Cardinality(Early(f, n)) + Cardinality(threads) < Cardinality(Connections)

FewEarly ==
  \A key \in Keys : \A n \in 1..Len(failedAt[key]) \cap Blocking :
    FewOf(failedAt[key], n, UnderWay(key, failedAt[key][n] + Block(n)))

LEMMA EarlyFinite ==
  ASSUME NEW f \in Seq(Nat), NEW n \in Nat
  PROVE  IsFiniteSet(Early(f, n)) /\ Cardinality(Early(f, n)) \in Nat
<1>1. n + 1 \in Int /\ Len(f) \in Int /\ Early(f, n) \subseteq n + 1..Len(f)
  BY LenProperties DEF Early
<1>2. IsFiniteSet(n + 1..Len(f))
  BY <1>1, FS_Interval
<1>3. IsFiniteSet(Early(f, n))
  BY <1>1, <1>2, FS_Subset
<1> QED BY <1>3, FS_CardinalityType

\* Fewer threads under way are no more trouble.
LEMMA FewOfFewer ==
  ASSUME NEW f \in Seq(Nat), NEW n \in Nat, NEW S \in SUBSET Connections, NEW T \in SUBSET S,
         FewOf(f, n, S)
  PROVE  FewOf(f, n, T)
<1>1. IsFiniteSet(Connections) /\ IsFiniteSet(S) /\ IsFiniteSet(T) /\ Cardinality(T) <= Cardinality(S)
  BY ConnectionsAssumption, FS_Subset
<1>2. Cardinality(Connections) \in Nat /\ Cardinality(S) \in Nat /\ Cardinality(T) \in Nat
  BY <1>1, FS_CardinalityType
<1> QED BY <1>1, <1>2, EarlyFinite DEF FewOf

\* One more failure, by a thread that was under way or after the block was over.
LEMMA FewOfFailed ==
  ASSUME NEW f \in Seq(Nat), NEW n \in 1..Len(f), n >= failure_threshold, NEW now \in Nat,
         NEW S \in SUBSET Connections, NEW c \in Connections, NEW T \in SUBSET (S \ {c}),
         now < f[n] + Block(n) => c \in S, FewOf(f, n, S)
  PROVE  FewOf(Append(f, now), n, T)
<1> DEFINE g == Append(f, now)
           k == Len(f) + 1
<1>1. /\ g \in Seq(Nat) /\ Len(g) = k /\ g[k] = now /\ \A m \in 1..Len(f) : g[m] = f[m]
      /\ Len(f) \in Nat
  BY AppendProperties, LenProperties
<1> HIDE DEF g
<1>2. IsFiniteSet(Connections) /\ IsFiniteSet(S) /\ IsFiniteSet(T) /\ Cardinality(T) <= Cardinality(S)
  BY ConnectionsAssumption, FS_Subset
<1>3. /\ Cardinality(Connections) \in Nat /\ Cardinality(S) \in Nat /\ Cardinality(T) \in Nat
      /\ IsFiniteSet(Early(f, n)) /\ Cardinality(Early(f, n)) \in Nat
  BY <1>2, FS_CardinalityType, EarlyFinite
<1> DEFINE t == f[n] + Block(n)
<1>4. n \in Nat /\ t = g[n] + Block(n) /\ n + 1 <= k
  BY <1>1
<1> HIDE DEF t
<1>a. /\ Early(g, n) = {m \in n + 1..k : g[m] < t}
      /\ Early(f, n) = {m \in n + 1..Len(f) : f[m] < t}
  BY <1>1, <1>4 DEF Early, t
<1>b. ASSUME NEW m \in n + 1..k, m # k
      PROVE  m \in n + 1..Len(f) /\ g[m] = f[m]
  <2>1. PICK l \in Nat : l = Len(f)
    BY <1>1
  <2>2. m \in n + 1..l + 1 /\ m # l + 1 /\ n \in Nat
    BY <1>4, <1>b, <2>1
  <2>3. m \in n + 1..l /\ m \in 1..l
    BY <2>2
  <2> QED BY <1>1, <2>1, <2>3
<1>c. k \in n + 1..k /\ k \notin n + 1..Len(f) /\ \A m \in n + 1..Len(f) : m \in n + 1..k
  BY <1>1, <1>4
<1>5. CASE now < t
  <2>1. Early(g, n) = Early(f, n) \cup {k} /\ k \notin Early(f, n)
    BY <1>1, <1>5, <1>a, <1>b, <1>c
  <2>2. Cardinality(Early(g, n)) = Cardinality(Early(f, n)) + 1
    BY <1>3, <2>1, FS_AddElement
  <2>3. Cardinality(T) <= Cardinality(S) - 1
    <3>1. IsFiniteSet(S \ {c}) /\ Cardinality(S \ {c}) = Cardinality(S) - 1
      BY <1>2, <1>5, FS_RemoveElement DEF t
    <3> QED BY <3>1, FS_Subset
  <2> QED BY <1>3, <2>2, <2>3 DEF FewOf, g
<1>6. CASE ~ (now < t)
  <2>1. Early(g, n) = Early(f, n)
    BY <1>1, <1>6, <1>a, <1>b, <1>c
  <2> QED BY <1>2, <1>3, <2>1 DEF FewOf, g
<1> QED BY <1>5, <1>6

\* The failure just counted has none after it, and its own thread is no longer under way.
LEMMA FewOfLast ==
  ASSUME NEW f \in Seq(Nat), NEW c \in Connections, NEW T \in SUBSET (Connections \ {c})
  PROVE  FewOf(f, Len(f), T)
<1>1. Early(f, Len(f)) = {} /\ Cardinality({}) = 0
  BY LenProperties, FS_EmptySet DEF Early
<1>2. IsFiniteSet(Connections) /\ IsFiniteSet(Connections \ {c})
      /\ Cardinality(Connections \ {c}) = Cardinality(Connections) - 1
  BY ConnectionsAssumption, FS_RemoveElement
<1>3. IsFiniteSet(T) /\ Cardinality(T) <= Cardinality(Connections) - 1
  BY <1>2, FS_Subset
<1>4. Cardinality(Connections) \in Nat /\ Cardinality(T) \in Nat
  BY <1>2, <1>3, ConnectionsAssumption, FS_CardinalityType
<1> QED BY <1>1, <1>3, <1>4 DEF FewOf

\* A thread gets under way by a request that nothing refuses.
LEMMA GetsUnderWay ==
  ASSUME ApiInv, NEW c \in Connections, Move(c)
  PROVE  /\ clock' = clock
         /\ \E s : /\ conn' = [conn EXCEPT ![c] = s]
                   /\ s.at \in {"compare", "failed"} =>
                        /\ s.token = conn[c].token
                        /\ \/ conn[c].at = "compare" /\ s.at = "failed" /\ s.now = clock
                           \/ s.at = "compare" /\ Consume(c) /\ Allowed(KeysOf(c), conn[c].now)
<1>0. conn[c] \in Threads
  BY DEF ApiInv, ThreadInv
<1>1. \A s : Sent(s).at \in {"free", "waiting"}
  BY DEF Sent, Free
<1>2. ASSUME NEW s, conn' = [conn EXCEPT ![c] = Sent(s)]
      PROVE  \E u : conn' = [conn EXCEPT ![c] = u] /\ u.at \notin {"compare", "failed"}
  BY <1>1, <1>2
<1>3. ASSUME NEW r \in Requests, NEW token \in Presented, Request(c, r[1], r[2], token)
      PROVE  \E u : conn' = [conn EXCEPT ![c] = u] /\ u.at \notin {"compare", "failed"}
  <2> DEFINE b == r[1] = "POST"
             s == [at |-> "consume", method |-> r[1], token |-> token, now |-> clock,
                   close |-> b, unread |-> r[2]]
  <2>1. conn' = [conn EXCEPT ![c] = s]
    BY <1>3 DEF Request
  <2> HIDE DEF b
  <2>2. s.at = "consume"
    OBVIOUS
  <2> HIDE DEF s
  <2> QED BY <2>1, <2>2
<1>a. ASSUME NEW body, Options(c, body)
      PROVE  \E u : conn' = [conn EXCEPT ![c] = u] /\ u.at \notin {"compare", "failed"}
  BY <1>2, <1>a DEF Options
<1>b. ASSUME Fail(c)
      PROVE  \E u : conn' = [conn EXCEPT ![c] = u] /\ u.at \notin {"compare", "failed"}
  <2>1. Free.at = "free"
    BY DEF Free
  <2>2. conn' = [conn EXCEPT ![c] = Sent(conn[c])] \/ conn' = [conn EXCEPT ![c] = Free]
    BY <1>b DEF Fail, Step, Refused
  <2>3. CASE conn' = [conn EXCEPT ![c] = Sent(conn[c])]
    BY <1>2, <2>3
  <2>4. CASE conn' = [conn EXCEPT ![c] = Free]
    BY <2>1, <2>4
  <2> QED BY <2>2, <2>3, <2>4
<1>4. CASE Get(c) \/ PostTurned(c) \/ Post(c)
  BY <1>2, <1>4 DEF Get, PostTurned, Post, Step, Refused, Turned
<1>5. CASE Right(c)
  <2>1. [conn[c] EXCEPT !.at = "serve", !.close = FALSE].at = "serve"
    BY <1>0 DEF Threads
  <2> QED BY <1>5, <2>1 DEF Right, Step
<1>6. CASE Wrong(c)
  <2> DEFINE s == [conn[c] EXCEPT !.at = "failed", !.now = clock]
  <2>1. s.at = "failed" /\ s.now = clock /\ s.token = conn[c].token
    BY <1>0 DEF Threads
  <2>2. conn[c].at = "compare" /\ conn' = [conn EXCEPT ![c] = s]
    BY <1>6 DEF Wrong, Step
  <2> HIDE DEF s
  <2> QED BY <1>6, <2>1, <2>2 DEF Wrong
<1>7. CASE Consume(c) /\ Allowed(KeysOf(c), conn[c].now)
  <2> DEFINE s == [conn[c] EXCEPT !.at = "compare", !.now = 0]
  <2>1. s.at = "compare" /\ s.token = conn[c].token
    BY <1>0 DEF Threads
  <2>2. conn' = [conn EXCEPT ![c] = s] /\ clock' = clock
    BY <1>7 DEF Consume, Step
  <2> HIDE DEF s
  <2> QED BY <1>7, <2>1, <2>2
<1>8. CASE Consume(c) /\ ~ Allowed(KeysOf(c), conn[c].now)
  BY <1>2, <1>8 DEF Consume, Step, Refused
<1>9. clock' = clock
  BY DEF Move, Request, Options, Consume, Wrong, Fail, Right, Get, PostTurned, Post
<1> QED BY <1>3, <1>a, <1>b, <1>4, <1>5, <1>6, <1>7, <1>8, <1>9 DEF Move

LEMMA UnderWayStep ==
  ASSUME ApiInv, [Next]_vars, NEW key \in Keys, NEW t \in Int,
         \A c \in Connections :
           key \in KeysOf(c) /\ Consume(c) /\ Allowed(KeysOf(c), conn[c].now) => t <= clock
  PROVE  UnderWay(key, t)' \subseteq UnderWay(key, t)
<1>1. clock \in Nat /\ conn \in [Connections -> Threads]
  BY ClockAssumption DEF ApiInv, TableInv, ThreadInv
<1>2. CASE clock' \in {clock, clock + 1} /\ conn' = conn
  BY <1>1, <1>2 DEF UnderWay, KeysOf
<1>3. ASSUME NEW c \in Connections, Move(c)
      PROVE  UnderWay(key, t)' \subseteq UnderWay(key, t)
  <2>1. PICK s : /\ conn' = [conn EXCEPT ![c] = s]
                 /\ s.at \in {"compare", "failed"} =>
                      /\ s.token = conn[c].token
                      /\ \/ conn[c].at = "compare" /\ s.at = "failed" /\ s.now = clock
                         \/ s.at = "compare" /\ Consume(c) /\ Allowed(KeysOf(c), conn[c].now)
    BY <1>3, GetsUnderWay
  <2>2. clock' = clock
    BY <1>3, GetsUnderWay
  <2> SUFFICES ASSUME NEW d \in UnderWay(key, t)' PROVE d \in UnderWay(key, t)
    OBVIOUS
  <2>3. CASE d # c
    <3>1. conn'[d] = conn[d] /\ d \in Connections
      BY <1>1, <2>1, <2>3 DEF UnderWay
    <3> QED BY <2>2, <3>1 DEF UnderWay, KeysOf
  <2>4. CASE d = c
    <3>1. conn'[c] = s
      BY <1>1, <2>1
    <3>2. /\ key \in {Address[c], s.token}
          /\ \/ s.at = "compare" /\ clock < t
             \/ s.at = "failed" /\ s.now < t
      BY <2>2, <2>4, <3>1 DEF UnderWay, KeysOf
    <3>3. key \in KeysOf(c)
      BY <2>1, <3>2 DEF KeysOf
    <3>4. CASE conn[c].at = "compare" /\ s.at = "failed" /\ s.now = clock
      BY <2>4, <3>2, <3>3, <3>4 DEF UnderWay
    <3>5. CASE s.at = "compare" /\ Consume(c) /\ Allowed(KeysOf(c), conn[c].now)
      BY <1>1, <3>2, <3>3, <3>5
    <3> QED BY <2>1, <3>2, <3>4, <3>5
  <2> QED BY <2>3, <2>4
<1> QED BY <1>1, <1>2, <1>3 DEF Next, Move, Advance, vars

\* A request of a key that failed passes only when the block of each failure is over.
LEMMA PassesLate ==
  ASSUME ApiInv, NEW c \in Connections, Consume(c), Allowed(KeysOf(c), conn[c].now),
         NEW key \in KeysOf(c), failedAt'[key] = failedAt[key],
         NEW n \in 1..Len(failedAt[key]) \cap Blocking
  PROVE  failedAt[key][n] + Block(n) <= clock
<1>1. /\ KeysOf(c) \subseteq Keys /\ conn[c].now \in 0..clock /\ TableInv
      /\ consume(KeysOf(c), conn[c].now)
  BY KeysOfBusy, ThreadNow DEF ApiInv, Consume, Step, Busy
<1>2. clock \in Nat /\ conn[c].now \in Int /\ clock' = clock /\ key \in Keys
  BY <1>1, ClockAssumption DEF TableInv, Consume
<1>3. failedAt[key] # <<>>
  BY EmptySeq, LimitsOK
<1>4. key \in DOMAIN _evict(conn[c].now)
  BY <1>1, <1>2, <1>3, ConsumeFacts
<1>5. key \in DOMAIN records /\ Table(KeysOf(c), conn[c].now)[key] = records[key]
  BY <1>2, <1>4, TableFacts
<1>6. ~ (records[key].blocked_until > conn[c].now)
  BY <1>5 DEF Allowed, Refuses, Blocked
<1>7. /\ records[key].blocked_until \in Nat
      /\ failedAt[key][n] + Block(n) <= records[key].blocked_until
  BY <1>1, <1>2, <1>5 DEF TableInv, EntryOK, Entries
<1>8. failedAt[key][n] + Block(n) \in Int
  <2>1. failedAt[key] \in Seq(Nat) /\ n \in 1..Len(failedAt[key]) /\ n \in Nat /\ n >= failure_threshold
    BY <1>1, <1>2, LimitsOK DEF TableInv, Blocking
  <2>2. failedAt[key][n] \in Nat /\ Block(n) \in Int
    BY <2>1, ElementOfSeq, BlockFacts
  <2> QED BY <2>2
<1> QED BY <1>1, <1>2, <1>6, <1>7, <1>8

LEMMA FewStep ==
  ASSUME ApiInv, FewEarly, [Next]_vars
  PROVE  FewEarly'
<1> SUFFICES ASSUME NEW key \in Keys, NEW n \in 1..Len(failedAt'[key]) \cap Blocking,
                    NEW t, t = failedAt'[key][n] + Block(n)
             PROVE  FewOf(failedAt'[key], n, UnderWay(key, t)')
  BY DEF FewEarly, UnderWay, KeysOf
<1>0. failedAt \in [Keys -> Seq(Nat)] /\ failure_threshold \in Nat \ {0} /\ TableInv /\ clock \in Nat
  BY LimitsOK, ClockAssumption DEF ApiInv, TableInv
<1> PICK f \in Seq(Nat) : f = failedAt[key]
  BY <1>0
<1>1. \A m \in 1..Len(f) : m >= failure_threshold => f[m] + Block(m) \in Int
  BY BlockFacts, ElementOfSeq
<1>2. ASSUME failedAt'[key] = <<>>
      PROVE  FALSE
  BY <1>0, <1>2, EmptySeq
<1>3. ASSUME failedAt'[key] = f
      PROVE  FewOf(failedAt'[key], n, UnderWay(key, t)')
  <2>1. n \in 1..Len(f) /\ n \in Nat /\ n \in Blocking /\ n >= failure_threshold
    BY <1>0, <1>3, LimitsOK, LenProperties DEF Blocking
  <2>2. t \in Int /\ t = f[n] + Block(n)
    BY <1>0, <1>1, <1>3, <2>1
  <2>3. FewOf(f, n, UnderWay(key, t))
    BY <2>1, <2>2 DEF FewEarly
  <2>4. \A c \in Connections :
          key \in KeysOf(c) /\ Consume(c) /\ Allowed(KeysOf(c), conn[c].now) => t <= clock
    BY <1>3, <2>1, <2>2, PassesLate
  <2>5. UnderWay(key, t)' \subseteq UnderWay(key, t)
    BY <2>4, UnderWayStep
  <2>6. UnderWay(key, t) \in SUBSET Connections /\ UnderWay(key, t)' \in SUBSET UnderWay(key, t)
    BY <2>5 DEF UnderWay
  <2>7. FewOf(f, n, UnderWay(key, t)')
    BY <2>1, <2>3, <2>6, FewOfFewer
  <2> QED BY <1>3, <2>7
<1>4. ASSUME NEW c \in Connections, Fail(c), key \in Reached(Address[c], conn[c].token)
      PROVE  FewOf(failedAt'[key], n, UnderWay(key, t)')
  <2>0. key \in KeysOf(c) /\ n >= failure_threshold
    BY <1>4, ReachedKeys, LimitsOK DEF Blocking
  <2>1. PICK now \in Nat : now = conn[c].now
    BY <1>0, ThreadNow
  <2>2. failedAt'[key] = Append(f, now) /\ conn[c].at = "failed"
    BY <1>4, <2>1 DEF Fail, failed, Step
  <2>3. conn'[c].at \notin {"compare", "failed"}
    BY <1>4 DEF Fail, Step, Refused, Sent, Free, ApiInv, ThreadInv
  <2>4. /\ Len(f) \in Nat /\ Len(Append(f, now)) = Len(f) + 1
        /\ \A m \in 1..Len(f) : Append(f, now)[m] = f[m]
    BY AppendProperties, LenProperties
  <2>5. ASSUME t \in Int
        PROVE  UnderWay(key, t)' \in SUBSET (UnderWay(key, t) \ {c})
    <3>1. \A d \in Connections : ~ Consume(d)
      BY <1>4, <2>2, <2>3 DEF Fail, Step, Consume, ApiInv, ThreadInv
    <3>2. UnderWay(key, t)' \subseteq UnderWay(key, t)
      BY <2>5, <3>1, UnderWayStep
    <3>3. c \notin UnderWay(key, t)'
      BY <2>3 DEF UnderWay
    <3> QED BY <3>2, <3>3
  <2>6. CASE n \in 1..Len(f)
    <3>1. t \in Int /\ t = f[n] + Block(n)
      BY <1>0, <1>1, <2>0, <2>2, <2>4, <2>6
    <3>2. FewOf(f, n, UnderWay(key, t)) /\ n >= failure_threshold
      BY <1>0, <2>0, <2>6, <3>1 DEF FewEarly
    <3>3. now < t => c \in UnderWay(key, t)
      BY <2>0, <2>1, <2>2 DEF UnderWay
    <3>4. UnderWay(key, t) \in SUBSET Connections
      BY DEF UnderWay
    <3>5. FewOf(Append(f, now), n, UnderWay(key, t)')
      BY <2>5, <2>6, <3>1, <3>2, <3>3, <3>4, FewOfFailed
    <3> QED BY <2>2, <3>5
  <2>7. CASE n = Len(f) + 1
    <3>2. UnderWay(key, t)' \in SUBSET (Connections \ {c})
      BY <2>3 DEF UnderWay
    <3>3. Append(f, now) \in Seq(Nat)
      BY AppendProperties
    <3>4. FewOf(Append(f, now), Len(Append(f, now)), UnderWay(key, t)')
      BY <3>2, <3>3, FewOfLast
    <3> QED BY <2>2, <2>4, <2>7, <3>4
  <2> QED BY <1>0, <2>2, <2>4, <2>6, <2>7
<1>5. \/ failedAt'[key] \in {f, <<>>}
      \/ \E c \in Connections : Fail(c) /\ key \in Reached(Address[c], conn[c].token)
  <2>1. ASSUME NEW c \in Connections, Consume(c)
        PROVE  failedAt'[key] \in {f, <<>>}
    BY <2>1 DEF Consume, consume
  <2>2. ASSUME NEW c \in Connections, Fail(c), key \notin Reached(Address[c], conn[c].token)
        PROVE  failedAt'[key] = f
    BY <2>2 DEF Fail, failed
  <2>3. ASSUME NEW c \in Connections, Right(c)
        PROVE  failedAt'[key] \in {f, <<>>}
    BY <2>3 DEF Right, succeeded
  <2> QED BY <2>1, <2>2, <2>3
          DEF Next, vars, limiter, Advance, Request, Options, Wrong, Get, PostTurned, Post
<1> QED BY <1>2, <1>3, <1>4, <1>5

\* From the threshold on, and for as many failures as 2 ** over is a float, no more failures
\* of a key are counted than there are threads before one that waited out the block of the
\* n-th: guesses cost time, whatever the threads do.  (Past them they do not.)
THEOREM GuessingCosts == Spec => []GuessesCostTime
<1>1. Init => FewEarly
  BY EmptySeq, LimitsOK DEF Init, FewEarly
<1>2. ApiInv /\ FewEarly => GuessesCostTime
  <2> SUFFICES ASSUME ApiInv, FewEarly, NEW key \in Keys,
                      NEW n \in 1..Len(failedAt[key]), n \in Blocking,
                      n + Cardinality(Connections) <= Len(failedAt[key])
               PROVE  \E m \in n + 1..n + Cardinality(Connections) :
                        failedAt[key][m] >= failedAt[key][n] + Block(n)
    BY DEF GuessesCostTime, Paid
  <2>1. PICK f \in Seq(Nat) : f = failedAt[key]
    BY DEF ApiInv, TableInv
  <2> DEFINE T == UnderWay(key, f[n] + Block(n))
             size == Cardinality(Connections)
  <2>2. FewOf(f, n, T)
    BY <2>1 DEF FewEarly
  <2>3. /\ IsFiniteSet(T) /\ Cardinality(T) \in Nat /\ size \in Nat
    <3>1. T \subseteq Connections
      BY DEF UnderWay
    <3> QED BY <3>1, ConnectionsAssumption, FS_Subset, FS_CardinalityType
  <2>4. n \in Nat /\ n \in 1..Len(f) /\ Len(f) \in Nat /\ n >= failure_threshold
    BY <2>1, LimitsOK, LenProperties DEF Blocking
  <2>5. f[n] + Block(n) \in Int
    BY <2>4, BlockFacts, ElementOfSeq
  <2> HIDE DEF T, size
  <2>6. IsFiniteSet(Early(f, n)) /\ Cardinality(Early(f, n)) < size
    BY <2>2, <2>3, <2>4, EarlyFinite DEF FewOf, size
  <2>7. Cardinality(n + 1..n + size) = size
    <3>1. n + 1 \in Int /\ n + size \in Int
      BY <2>3, <2>4
    <3>2. Cardinality(n + 1..n + size) = IF n + 1 > n + size THEN 0 ELSE (n + size) - (n + 1) + 1
      BY <3>1, FS_Interval
    <3> QED BY <2>3, <2>4, <3>2
  <2>8. ~ (n + 1..n + size \subseteq Early(f, n))
    <3> SUFFICES ASSUME n + 1..n + size \in SUBSET Early(f, n) PROVE FALSE
      OBVIOUS
    <3>1. Cardinality(n + 1..n + size) <= Cardinality(Early(f, n))
      BY <2>6, FS_Subset
    <3>2. Cardinality(Early(f, n)) \in Nat
      BY <2>4, EarlyFinite
    <3> QED BY <2>3, <2>6, <2>7, <3>1, <3>2
  <2>9. PICK m \in n + 1..n + size : m \notin Early(f, n)
    BY <2>8
  <2>10. m \in n + 1..Len(f) /\ f[m] \in Nat
    <3>1. m \in 1..Len(f) /\ m \in n + 1..Len(f)
      BY <2>1, <2>3, <2>4 DEF size
    <3> QED BY <3>1, ElementOfSeq
  <2>11. f[m] >= f[n] + Block(n)
    BY <2>5, <2>9, <2>10 DEF Early
  <2> QED BY <2>1, <2>9, <2>11 DEF size
<1>3. ApiInv /\ FewEarly /\ [Next]_vars => FewEarly'
  BY FewStep
<1> QED BY <1>1, <1>2, <1>3, ApiInductive, PTL DEF Spec
=============================================================================
