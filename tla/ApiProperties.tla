---------------------------- MODULE ApiProperties -----------------------------
(***************************************************************************)
(* What the limiter and the handler owe: wrong guesses cost time whatever  *)
(* the threads do, and no connection goes on behind a body not read.       *)
(***************************************************************************)
EXTENDS Api

\* Counts stay within the cap and no time recorded is ahead of the clock, however old the
\* readings that threads bring are.
ApiTypeOK ==
  /\ clock \in 0..MaxClock
  /\ DOMAIN records \subseteq Keys
  /\ \A key \in DOMAIN records :
       /\ records[key].window_start \in 0..clock
       /\ records[key].attempts \in 0..max_attempts
       /\ records[key].failures = Len(failedAt[key])
       /\ records[key].blocked_until \in 0..clock + max_block_s
  /\ \A c \in Connections : conn[c].now \in 0..clock

\* The failure n of a key is paid for: no more failures are counted than there are threads,
\* those under way, before one that waited out its block.
Paid(key, n) ==
  LET next == n + Cardinality(Connections) IN
  next <= Len(failedAt[key]) =>
    \E m \in n + 1..next : failedAt[key][m] >= failedAt[key][n] + Block(n)

\* Guesses cost time, twice as much each, whatever the threads do, for as many failures in a
\* row as a block can be computed for.
GuessesCostTime ==
  \A key \in Keys : \A n \in 1..Len(failedAt[key]) : n \in Blocking => Paid(key, n)

\* "An attacker who keeps guessing spends exponentially longer waiting": so does each
\* failure from the threshold on.  Past the last doubling it does not.
EveryGuessCostsTime ==
  \A key \in Keys : \A n \in failure_threshold..Len(failedAt[key]) : Paid(key, n)

\* Only the right token ends a block early: no failure of another thread with an older
\* reading of the clock, and no cleaning of the table, shortens one that runs.
BlockIsServed ==
  [][\A key \in DOMAIN records :
       records[key].blocked_until > clock =>
         \/ key \in DOMAIN records' /\ records'[key].blocked_until >= records[key].blocked_until
         \/ \E c \in Connections : key \in KeysOf(c) /\ conn[c].token = Expected /\ Right(c)]_vars

\* When the Retry-After of a refusal has passed, what refused it, a block or a full window,
\* is over or has less than a thousandth of a second to go.  (Whether the next request
\* passes is another matter: the refused one counted against its other key.)
RetryAfterNearlyEnough ==
  \A c \in Connections :
    LET now == conn[c].now
        table == Table(KeysOf(c), now)
        later == now + Tick * Strictest(KeysOf(c), now) + Shortfall - 1 IN
    conn[c].at = "consume" /\ ~ Allowed(KeysOf(c), now) =>
      \A key \in KeysOf(c) :
        IF Blocked(table[key], now) THEN ~ Blocked(table[key], later)
        ELSE Refuses(table[key], now) => WindowOver(table[key], later)

\* "The connection cannot carry another request": none waits for a request behind the body
\* of a POST whose length its header gave, whichever check refused it.
NoRequestBehindAPost ==
  \A c \in Connections :
    conn[c].at = "waiting" /\ conn[c].method = "POST" => conn[c].unread # "sized"

\* "The connection is closed on the paths where the body is never read": none waits for a
\* request behind a body of any kind.  The bodies of other methods and those that come in
\* chunks are not read, and the connection is kept.
NoRequestBehindABody == \A c \in Connections : conn[c].at = "waiting" => conn[c].unread = "none"
=============================================================================
