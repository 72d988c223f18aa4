# HashGuard: a TLA+ model of what it measures, signs and bills

HashGuard (`src/src/hashguard`) polls the mining machines of a farm, pauses them when
electricity is too dear, and writes what it claims to have saved to an append-only ledger
that a client can verify without trusting the farm. This directory models the parts of it
whose correctness depends on the *order* in which things happen, or on arithmetic that two
programs have to agree on: what is on the disk when a write fails, when the process dies or
when midnight passes; what another process or thread does meanwhile; and whether the bill
that comes out at the end is the one the records support. TLC checks the models on small
instances; TLAPS proves, for every value of their constants, every invariant that a passing
run checks, every action property and both refinements.

Paths below are relative to `src/src/hashguard/` unless they say otherwise.

## 1. Inventory

| Component | State it keeps | Operations | Talks to | Modules |
|---|---|---|---|---|
| Guarded ledger (`ledger.py`, `rules.py`) | on disk: `records/<day>.jsonl`, `seals.jsonl`, `activation.json`; in memory: `_seq`, `_prev`, `activation` | open (`_load_or_write_activation`, `_resume`), `record`, `seal_day`, `seal_pending` | agent, API, command line | `Ledger`, `SealChain`, `SealRace` |
| Commit and reveal (`commit.py`) | none: fields of records | `decision_snapshot`, `commit_hash`, `reveal_state`, `tally` | ledger, agent, verifier | `Commit` |
| Agent (`agent.py`) | `open_interval`, `snapshot`, `history`, `notes` (`AgentState`), `last_seal_day` of the loop | `poll_once`, `poll_loop`, `main` (`--seal`, `--statement`, Ctrl-C) | everything | `Agent`, `Invoice`, `Startup` |
| Curtailment (`pricing.py`) | `decision`, `prices_ppm`, `prices_date`; the relays outside | `fetch_prices`, `decide`, `act` | agent, price feed, relays | `Curtailment` |
| Hashrate baseline (`qtmp.py`) | `samples`, at most 60 | `observe`, `value` | agent | part of `Agent`, `Invoice` |
| Alerts (`qtmp.py`) | series per board, `_breaches`, `alerts` (at most 200) | `update` | agent, API | `Alerts` |
| Billing (`attest.py`, `money.py`, `ledger.py`) | none outside a call | `submit`, `report`, `statement`, `verify_chain`, `verify_seal`, fee | ledger, API | `Money`, `Attest`, `Billing` |
| Independent verifier (`src/tools/hashguard_verify.py`) | none | recomputes a statement | files | `Verifier` |
| Merkle tree (`merkle.py`) | none | `merkle_root`, `build_proof`, `verify_proof` | ledger, verifier | `Merkle` |
| Adaptive thresholds (`adaptive.py`) | label counts on disk, `config["qtmp"]` | `feedback` | API, alerts | `Settings` |
| Configuration (`config.py`) | `config.json`, the live dictionary | `load`, `validate`, `apply_console_patch`, `save` | all | `Settings` |
| Rate limiter (`ratelimit.py`) | a record per key | `consume`, `failed`, `succeeded`, `_evict` | API | `RateLimiter` |
| HTTP API (`api.py`) | per connection: `close_connection` | GET and POST handlers, `_authorized` | all, under `AgentState.lock` | `Api`, `Console` |
| Identity (`identity.py`) | the key file | `load_or_create`, `save` | start of every process | `Startup` |
| Canonical encoding, collector, network guard, logs, self-audit, console pages, scripts | none that the others read | pure functions, or input and output | | not modelled, see section 6 |

**How they interact.** One daemon thread runs `poll_loop`; the API serves every connection
in a thread of its own; both take `AgentState.lock`, a re-entrant lock. `poll_once` reads
the miners outside the lock and does everything else (alerts, decision, relays, commitment,
record, log) under it. `poll_loop` reads the date outside the lock and seals under it.
`POST /config`, `/feedback` and `/ledger/seal`, and `main()` after Ctrl-C, take the lock at
any other moment; the rate limiter has a lock of its own and is asked before.
`hashguard --seal` and `--statement` are *other processes* on the same files, without any
lock on the files.

**What is hard.** Two clocks (records are filed by the UTC day, days are over by the local
date); appends and saves that fail after they wrote nothing, half or all of it; the process
dying in any of them, or between the three files of a first start; a poll that has moved
the relays before its record fails; sealing that stops half way through its list; midnight
between any two steps; a cached price curve; threads that read the clock before they get
the lock; thresholds written from two sides; and a bill that is computed twice, by two
programs, from integers that are rounded.

**What makes each component correct.** The ledger: its lines form one chain from genesis, what
a seal says of a day stays true, no record falls between two seals, a sealed day's rule never
moves, every finished day is sealed in the end. Commit and reveal: each record of an honest
agent opens what the one before it committed. The agent: the interval it believes open is the
one it committed last; its baseline learns from mining only. Curtailment: no decision from an
old price, and without prices the farm comes back on. Billing: never more than was claimed,
committed or witnessed, and the same in the statement and in the verifier. Merkle: a proof
that verifies is of the leaf at that index. Alerts: what a poll finds is in the list once,
after enough breaches. Configuration: what the console was told survives, what is saved can be
loaded. Rate limiter: guesses cost time, and a block is never shortened by failing. API: a
connection is not reused behind a body that was not read (the code sees to it for a `POST`
with a length, and for nothing else: section 3). Startup: key, farm and ledger stay together.

## 2. The modules

Every specification has a module of properties beside it (`LedgerProperties`, ...), and an
`MC` module where the `.cfg` needs sets that it cannot write. `PythonNone` is the constant
for Python's `None`.

```
SealChain <--- refined by --- Ledger ---- extended by ---- Agent --- uses --- Commit
          <--- refined by --- SealRace                                          |
Money, Attest, Merkle, Commit --- used by --- Billing --- extended by --- Invoice
Verifier (imports nothing) --- instantiated by --- InvoiceProperties
Settings, Alerts --- composed by --- Console            RateLimiter --- extended by --- Api
Curtailment                                             Startup
```

### `Ledger.tla`

One process that may stop, die and be started again, over a disk.

| Model | Code |
|---|---|
| `utc`, `local` | the UTC day by which `record` files a line, and the day of `date.today()`; their difference is in `Skews` |
| `days`, `records`, `seals`, `activation` | the files: which day files exist, their lines, `seals.jsonl`, `activation.json` |
| `up`, `farm`, `seq`, `prev_hash` | the running `GuardedLedger`: its key's farm id, `_seq`, `_prev` |
| `sealing` | the days that `seal_pending` still has to seal; the lock is held while it is not empty |
| `Start`, `StartRefused`, `StartCrashes` | `__init__`: the activation entry is read or written, then the head is found; the entry stays behind when the head is refused, and may be torn |
| `Record`, `RecordFails`, `RecordCrashes` | `record` and `_append_line`; the two failures differ in whether the process goes on |
| `SealPending`, then `SealDay`, `SealRefused`, `SealFails`, `SealCrashes` | `seal_pending` lists the days, then calls `seal_day` on each; the first exception ends the call |
| `Stop`, `Midnight` | the end of the process; the clocks |

What an interrupted append leaves is one of `lost` (the file exists, nothing was
written), `torn` (a prefix) and `whole` (all of it, and then `fsync` raised). A torn line
has no newline, so the next line lands on it and the result is unreadable (`AppendLine`).
`ErrorOutcomes` and `CrashOutcomes` say which of the three may happen when the call raises
and when the process dies. A prefix that lacks only the newline, which would parse, is not
one of the outcomes, and the clocks do not step back.

### `SealChain.tla`, and who implements it

`SealChain` is the promise of the files without the program: the file of a day only grows;
a day is closed at most once, no earlier than the days before it, from everything its file
then holds, with the chain so far; neither it nor an earlier day grows after that.

`LedgerProperties` maps the disk of `Ledger` to it: the file of a day is the sequence of
its record hashes (a line that landed on a torn one adds no hash), and a torn last line of
`seals.jsonl` is no seal yet. `ImplementsSealChain` is the abstract specification under
this mapping; every failure, crash and restart must be one of its steps or a stutter.

### `SealRace.tla`

`hashguard --seal` and `--statement` open the ledger of a running agent and seal it too.
`Ledger` takes a call of `seal_day` as one step, which is right under the agent's lock and
wrong between processes, so `SealRace` splits it into its file accesses: `pc` is `polling`
between the time `poll_once` reads and its record, and `listed`, `sealing`, `rooted`,
`chained` between the file accesses of `seal_pending` and `seal_day`. A call or a poll may
be interrupted anywhere (`Ends`). `authors` says which process appended each seal. The host
is on UTC and lines are whole: both are `Ledger`'s subject. It implements `SealChain` until
two processes have been at work at once.

### `Agent.tla` (over `Ledger` and `Commit`)

The body of a line is now the interval it records, with the commitment and the reveal.

| Model | Code |
|---|---|
| `open_interval` | `AgentState.open_interval` |
| `decision`, `mode` | `Curtailment.decision`, `curtailment.mode` (read at the start, not writable from the console) |
| `baseline` | the decisions in force when the samples of `HashrateBaseline` were taken |
| `phase`, `today`, `last_seal_day` | where `poll_loop` is, and its two variables |
| `off` | the machines that are off at their relay (the world outside) |
| `Poll`, `PollUnlogged`, `PollFails`, `PollCrashes` | one `poll_once`, by how it ends; in all four the relays have moved (`PollStep`) |
| `ReadDay`, `NewDay`, `SealsUnreadable`, `DaySealed` | the rest of a turn of `poll_loop` |
| `ConsoleSeals`, `SealOne`, `SealingRaises` | the sealing itself, from the loop or from the console |

A poll is one action because it runs under the lock from the time it reads to the time it
releases; the date and the sealing do not, so midnights, the console and crashes come
between them. Prices, durations and telemetry values are `Invoice`'s and `Curtailment`'s.

### `Money`, `Attest`, `Merkle`, `Commit`, `Billing`: the package's computations

Pure operators, one per function: half-even rounding and the fee, the dark fraction and the
auditor, root and proofs with the duplicated last node, reveal states, the body of a seal and
the whole of `statement()` with its order of skips (advised, then gross, then uncommitted,
then capped, then billed). Its one loop appears as the sets of records that reach each point
of it (`Advised`, `Executed`, `Audited`, `Billed`) and sums over them; where the order of the
loop shows, in which records get one of the `MaxProofs` proofs, it is the order of days and
lines (`Before`, `First`). Days and proofs of a statement are kept by the seal, and the
record, that they are of. The levels of a tree and the climb of a proof are recursive
functions (`Levels`, `Ancestors`, `Climb`). A digest is the term it was computed from; a
signature is the body it signs, with the farm inside it or not as the rule says. Floats of the
configuration are integers here (watts, prices in ppm), so the conversion from decimal text is
not modelled, and the rounding after it is.

### `Verifier.tla`: the other program

`hashguard_verify.py` imports nothing from the package, and `Verifier` extends nothing of
`Billing`: every formula is translated a second time, from that file, in its own order of
skips (`Pauses`, `Unproven`, `Proven`). `Failures` is the set
of the checks of `main()` that fail, by their labels, so two statements can be told apart by
*why* they fail. A reader may be unable to check signatures (`checks_signatures`), as with
an HMAC key or without the cryptography package.

### `Invoice.tla`: from a poll to a paid bill

Polls close the interval opened before them, at the price it was decided at; the clock may
have run backwards or stalled; there may be no baseline; the agent may restart in another
mode, or as the version that commits its decisions after one that did not. Days are sealed,
once by a second process too (`SealAgain`): it found the day without a seal, and read the
head of the chain before the first seal was written or after it, so its own repeats the first
or chains to it. A statement is issued with a copy of the
records, and `Differs` changes one place of what the reader holds: a record retyped, left
out or repeated at the end of its day (`ChangedRecords`), totals retyped so that they still
add up, an entry left out or repeated, a count, the size of a tree, a proof shown for another
record (`ChangedStatements`). `InvoiceProperties` instantiates `Verifier` on it.

### `Settings`, `Alerts`, `Console`

| Model | Code |
|---|---|
| `file`, `live`, `tokens` | `config.json`, the dictionary of the process, the tokens made so far |
| `labels`, `stored` | `Adaptive.state` and `adaptive_state.json` |
| `load`, `Patch`, `PatchUnsaved`, `PatchCrashes`, `HandEdit` | start; `POST /config` that is saved, raises in `save`, or dies in it; the operator's editor |
| `feedback`, `FeedbackCrashes` | count, move, clamp, save the counts; `_save` only prints that it failed, and the process goes on |
| `samples`, `breaches`, `alerts`, `window` | the series (by their lengths), `_breaches`, the deque, the window fixed when the engine was made |
| `update` | one poll: who answered, who is judged, who is below, what is raised and what is suppressed |
| `Feedback(id)` | `POST /feedback`, over `Alerts` and `Settings` at once |
| `told`, `verdicts`, `streak`, `standing` | auxiliary: what the console was answered, how each board was judged, how many of the last polls judged it below, what the last poll found |

Thresholds are half sigmas. A poll gives each board and each trend its score; the
statistics behind the score (medians, effective sample sizes, the family-wise correction)
are floating point and left out. The thresholds in force are those of `live`, at every poll.

### `RateLimiter`, `Api`

A connection is a thread: it parses a request and reads the clock (`Request`), counts it
under the limiter's lock with that old reading (`Consume`), compares the token (`Wrong`
reads the clock again, `Right` clears the counts), registers the failure (`Fail`), and
serves. A request of any method may have a body with a length, one in chunks, or none, and
`unread` says what of it is still on the wire: only `Post` reads, as many bytes as the
header says. `close` is `close_connection`; a preflight (`Options`) is answered without a
token. `RateLimiter` takes the readings as parameters, which is what makes its races visible.

A second has `Tick` ticks, and `Seconds` is `int(x + 0.999)`: what is over a whole second is
rounded up unless it is less than a thousandth, `Shortfall - 1` ticks at most. `MaxDoublings`
is the largest power of two that is still a float, 1023: from the next failure on the product
of `failed()` raises before it is cut to the longest block, the failure is counted, no block
is imposed, the second key is not reached, and the connection ends without an answer
(`Blocking`, `Raises`, `Reached`, `Fail`).

### `Curtailment`

The poll is split where time can pass: `Poll` reads the date, `Fetched` fills the curve,
`Decide` reads the hour, `Relay` calls one relay. Hours, midnights, the death of the feed
and a stop come anywhere; the console waits for the lock (`Configure`). All dates but
today's are one ("earlier"), and network cost, break-even and margin are one threshold: a
price is only ever compared with it. `FetchRaises` is the exception that `fetch_prices`
does not catch.

### `Startup`

`main()` of several processes, one file access at a time: the configuration with its token,
the key with its secret and farm, the activation entry. A write is `Truncate` and `Write`,
and `End` may come between any two steps.

## 3. What the checks show

| Run | Properties | What it shows |
|---|---|---|
| `ledger_faults` | `ChainUnbroken`, `PredecessorIsNextSeqMinusOne`, `SealsVerify`, `SealsTile`, `RuleInForce`, `ImplementsSealChain`, `EveryFinishedDaySealed`, `TypeOK` | every order of four appends, two faults, stops and restarts over four days, with a local day that may be behind UTC, keys of two farms or of none, a forced or a default activation day |
| `race_forks` | `ImplementsSealChain`, `OneSealPerProcess`, `SealMissesOnePoll` | agent and command line on one ledger: the refinement while they take turns, and what is left of it when they do not: no process seals a day twice, and a seal lacks one record at most |
| `agent` | `DecisionsRevealed`, `OpenIntervalCommitted`, `SessionSealsFinishedDays`, `AgentTypeOK` | commitments and sealing through failed, torn and crashed records, failed logs, restarts, midnights and the console |
| `invoice_honest` | `HonestStatementVerifies`, `AcceptedBillIsSupported`, `BilledIsWitnessed`, `ProofsAreOfTheirRecords`, `BothVerifiersAgree`, `InvoiceTypeOK` | completeness (an honest statement passes) and soundness (what passes is supported) of the verification |
| `console` | `ToldSurvives`, `OnlyLabelsOvershoot`, `LabelsAreOfAlerts`, `OneOpenAlert`, `FoundIsShown`, `RaisedAfterPersistence`, `ConsoleTypeOK` | configuration and labels through failed saves, torn files, hand edits and restarts, while more alerts are raised than the list holds, resolved, evicted and raised again under thresholds that move |
| `api` | `GuessesCostTime`, `BlockIsServed`, `RetryAfterNearlyEnough`, `NoRequestBehindAPost`, `ApiTypeOK` | the limiter under threads with old clock readings, past the last block that can be computed, and the reuse of their connections |
| `curtailment` | `PricesOfTheDay`, `HourDecidedOnce`, `FeedDownMeansOn`, `EditedPriceArrives`, `CurtailmentTypeOK` | the cached curve across midnight, failures and edits; the fail-open promise as liveness |
| `startup` | `FirstRunIsForGood`, `SecretOutlivesUpgrade` | interrupted and simultaneous starts |
| `invoice_twice` | `NoDayBilledTwice`, violated | a second seal that chains to the first has its day billed twice, and the verifier passes the bill |
| `console_polls` | `PollsAreConsecutive`, violated | a board is raised for two consecutive polls though only the last one judged it below |
| `ledger_east` | `SealsVerify`, violated | east of UTC a day is sealed while it still receives records, against the docstring of `seal_day` |
| `agent_baseline` | `BaselineBelievedMining`, violated | after a record that failed, the baseline learns from a paused farm |

All runs switch deadlock detection off, and in all of them it is the horizon that stops: the
clock at its last day or tick, the records, polls, faults or numbers that may still be
drawn. A ledger or a start that rightly refuses also does nothing more.

**What a passing run leaves out on purpose.**

- `ledger_faults` is on or west of UTC, and has no `whole` among `ErrorOutcomes` (a *crash*
  after the whole line is in it, and harmless: the restart reads the line). East of UTC is
  `ledger_east`; for `whole` see below.
- `OneSealPerProcess` is what holds of the writers: two processes may seal a day once each.
- `DecisionsRevealed` says how an honest record reads in every case, the mismatch after a day
  without records among them.
- `AcceptedBillIsSupported` excepts a second seal of a day that chains to the first
  (`Rechained`): the bill is then too high, and accepted (`invoice_twice`). One that repeats
  the first seal forks the chain, and is found.
- `HonestStatementVerifies` excepts one check of the verifier (`BillableExceedsGross`),
  statements over a day sealed twice, and those with a whole UTC day without records between
  two days with some.
- `RaisedAfterPersistence` counts judgements, as the code does; the documents count polls
  (`console_polls`).
- `ToldSurvives` says nothing of a threshold once a label has moved it, and
  `OnlyLabelsOvershoot` nothing of where it goes: the loop clamps it to limits of its own.
- `GuessesCostTime` is about the failures that a block can be computed for (`Blocking`). The
  run has one doubling where the code has 1023, at which, with the limits of the class, ten
  days of blocks have been waited out.
- `RetryAfterNearlyEnough` is about what refused the request. Whoever waits may be refused
  again: for the thousandth that is not rounded up, and because the refused request was
  counted against its other key (`ratelimit.py:89-91`).
- `NoRequestBehindAPost` is about a `POST` with a length, not about other bodies.
- `PricesOfTheDay` excepts the poll within which midnight itself passed: it read the date
  before and the hour after, and decides the first hour from yesterday's curve.
- `KeyIsKept` and `FirstRunIsForGood` are about starts that did not overlap. Two first
  starts at once may leave the key of one with the activation of the other.

**Disagreements met that have no run of their own.** Each is reachable in a model, with the
constants and, where there is one, the definition named: TLC finds it when that is made an
invariant of the run.

- `fsync` or the flush before it raises when the line is in the file (`ledger.py:114-115`):
  `record` does not advance (`ledger.py:304-306`), the process goes on (`agent.py:208`), and
  its next record repeats the number on disk, against "the predecessor is always ``next_seq -
  1``" (`ledger.py:314-315`). Run `ledger_faults` with `ErrorOutcomes <- AnyOutcome` and
  `PredecessorIsNextSeqMinusOne`.
- Two processes seal a day once each, against "Idempotent -- re-sealing a day returns the
  existing seal rather than forking the chain" (`ledger.py:351-352`): `DaySealedOnce` in
  `race_forks`. What that costs is `invoice_twice`.
- The first record after a UTC day without any reads as `MISMATCHED`: its predecessor is
  looked for in the calendar day before only (`ledger.py:330-334`, `commit.py:155-156`). The
  docstring says of a missing predecessor: "That is ``UNREVEALED``: not an accusation"
  (`commit.py:144-146`). `MissingNeverMismatched` in `agent`.
- A pause that lost money and was not witnessed lowers the gross (`ledger.py:446`) and not the
  billable amount, and the verifier fails an honest statement under the label "billable
  never exceeds gross: the corroboration cap was applied" (`hashguard_verify.py:564`):
  `BillableNeverExceedsGross` in `invoice_honest`.
- `feedback` clamps every threshold to `z_min..z_max` (`adaptive.py:129-132`), 1.5 to 6.0,
  while `fan_temp_alert` may be 5.0 at most (`config.py:50`). Labels walk it beyond, the
  next patch saves it (`api.py:269-271`), and `load` refuses the file, against "within bounds
  they cannot leave" (`adaptive.py:1`): `Up /\ file = live => problems(file) = {}` in `console`.
- A `GET` or `OPTIONS` with a body is answered with the body unread and the connection kept,
  since `_authorized` closes that of a `POST` only (`api.py:163-164`); of a `POST` in chunks
  `_read_body` takes the length for 0 (`api.py:203, 217`) after `close_connection` was cleared
  (`api.py:190`). The audit says: "the connection is closed on the paths where the body is
  never read" (`docs/AUDIT_v1.md:242-244`). `NoRequestBehindABody` in `api`, with a `"sized"`
  body for the `GET`, or `"chunked"` for the `POST`, in `MCRequests`.
- `failed` computes `base_block_s * (2 ** over)` before it takes the minimum
  (`ratelimit.py:106`): from `over = 1024` on it raises, with the failure counted and no block
  set, and a guess costs only the cap of the window until a right token clears the count.
  The module says "an attacker who keeps guessing spends exponentially longer waiting"
  (`ratelimit.py:9-10`). `EveryGuessCostsTime` in `api`, with `MaxDoublings = 0`, a cap of
  three, blocks of one tick and one connection.
- An append that fails before its first byte leaves an empty day file, at which every later
  `seal_pending` stops, against "Seal every finished day that has no seal yet"
  (`ledger.py:399`); `EveryFinishedDaySealed` therefore excepts damaged files.
- A feed whose hour is infinite raises `OverflowError` at `pricing.py:164`, which neither
  handler there names; the decision of the last poll stays, against "Missing data means
  mine" (`FetchRaises`). A feed that answers so at every poll after a PAUSE keeps the farm
  off, which is why `FeedDownMeansOn` speaks of a feed that is down.
- Stopping in a pause leaves the machines off at their relays, while `main` prints "Your
  miners keep running" (`agent.py:338`).
- `verify_proof` takes the side of each sibling from the proof and never derives it from the
  index: a proof with another index of the same tree still verifies. `ProofsAreOfTheirRecords`
  holds for the proofs that `build_proof` makes; the module's docstring says as much.

**Bounds.** *Ledger*: four UTC days are the least in which an unsealable day lies between a
sealed and a pending one, with a further midnight to make it pending; four appends give two
lines in one file and one in each of two others; two faults allow a second failure while the
first is being recovered from. *Race*: three days let a call list two and find one of them
sealed when it comes to it; four calls give each process a second one. *Agent*: three days,
two polls a day and eight appends, so that no liveness is owed to the bound before the last
midnight; one fault; one wired and one unwired machine. *Invoice*: three records over two days
of the month and a day after it, which gives a first record of a day that reveals across
files, trees of one, two and three leaves, and a restart; the measurements include a clock
that stepped back, one that ran past the poll, a missing baseline, and darkness that is full,
exactly and just below the least fraction; the prices include a pause that loses money and a
half to round; one reason for leaving days unsealed until all records are written is size. The
day sealed last is sealed once more, and one place altered. *Console*: two boards (the least
that are siblings) and one trend; one label moves a threshold past its bounds (`Step` 9 half
sigmas stands for many labels); one patch with two good paths, a value out of bounds and a
foreign path. One fault or hand edit, and three alerts in a list of two, so that one is
evicted. The run does not tell apart states that differ in `streak` only, which decides
nothing and which its properties do not name (`WithoutStreaks`). *Api*: two connections of one
address, a cap of two, blocks of two and three thirds of a second (the second one cut to the
longest) and failures past them, a third of a second that is not rounded up, and a table of
three that evicts. Five ticks are enough for blocks and windows to end under a thread that
waits. A new connection and one that waits with nothing unread, which go on alike, are one
state (`Idling`). *Curtailment*: three hours a day, two prices on both sides of the
thresholds, two relays; the calendar is unbounded. *Startup*: two processes, seven numbers:
two whole starts and one farm minted between them.

**Fairness.** `FairSpec` (Ledger) assumes that the program is started again with its own
farm key after a stop (the operator's part: the repository ships no supervisor), that
`seal_pending` is called again after it returned or raised (the loop calls it on every
change of the local day; the command line and the end of `main()` call it too), and that a
call under way goes on. The number of faults is bounded, so these are weak. `AgentFairSpec`
assumes only that the loop thread keeps running while the process is up: nothing of
restarts, midnights, the console or the order of decisions, and a day counts as dealt with
when the agent has stopped. `Curtailment` assumes that the loop goes on (`WF` of a poll
step; it catches every exception and polls again), that time does, and strong fairness of
each relay: one that is called again and again answers some time. That is the least under
which machines could come on at all; the code itself calls every relay at every poll. The
other specifications state no fairness and no liveness.

**Mutations.** Every property of a passing run is broken by a small change of a definition
(named in `PROJECT.json` under `mutants`, and defined beside what it replaces with a comment
that begins "Mutation"): the property tells the code from that code.

## 4. Proofs

All for every value of the constants that satisfies the `ASSUME`s of the modules; TLC
evaluates those on every run. Each module of proofs names its inductive invariant, shows that
`Init` implies it and every step keeps it, one lemma for each kind of step, and draws the
properties from it in the last steps. What a theorem assumes beyond that is in its statement.

| Module | Theorems | Property |
|---|---|---|
| `LedgerProofs` | `TypeCorrect`, `SealsStayTrue`, `ChainNeverForks`, `MemoryFollowsDisk`, `LedgerImplementsSealChain`, `SealsLeaveNoGap`, `RuleNeverMoves` | `TypeOK`, `SealsVerify`, `ChainUnbroken`, `PredecessorIsNextSeqMinusOne`, `ImplementsSealChain`, `SealsTile`, `RuleInForce` |
| `SealRaceProofs` | `OnePollIsMissed`, `NoProcessSealsTwice`, `TurnsImplementSealChain` | `SealMissesOnePoll`, `OneSealPerProcess`, `ImplementsSealChain` |
| `AgentProofs` | `AgentTyped`, `RunningIntervalCommitted`, `HonestAgentRevealed` | `AgentTypeOK`, `OpenIntervalCommitted`, `DecisionsRevealed` |
| `CurtailmentProofs` | `CurtailmentTypeCorrect`, `NoOldPrices`, `HoursAreDecidedOnce` | `CurtailmentTypeOK`, `PricesOfTheDay`, `HourDecidedOnce` |
| `StartupProofs` | `FirstRunStays`, `KeyStays`, `OldSecretStays` | `FirstRunIsForGood`, `SecretOutlivesUpgrade`, and `KeyIsKept`, which no run checks |
| `ApiProofs` | `ApiTyped`, `NoUnreadPost`, `BlockRunsItsTime`, `WaitIsNearlyEnough`, `GuessingCosts` | `ApiTypeOK`, `NoRequestBehindAPost`, `BlockIsServed`, `RetryAfterNearlyEnough`, `GuessesCostTime` |
| `ConsoleProofs` | `ConsoleTyped`, `SettingsOutliveTheProcess`, `BoundsAreKept`, `LabelsCountOnce`, `OneAlertIsOpen`, `FindingsAreShown`, `PersistenceComesFirst` | `ConsoleTypeOK`, `ToldSurvives`, `OnlyLabelsOvershoot`, `LabelsAreOfAlerts`, `OneOpenAlert`, `FoundIsShown`, `RaisedAfterPersistence` |
| `InvoiceProofs` | `InvoiceInvariant`, `InvoiceTypeCorrect`, `BilledWasWitnessed`, `ProofsNameTheirRecords`, `VerifiersAgree`, `AcceptedBillsAreSupported`, `HonestStatementsVerify` | `IInv`, `InvoiceTypeOK`, `BilledIsWitnessed`, `ProofsAreOfTheirRecords`, `BothVerifiersAgree`, `AcceptedBillIsSupported`, `HonestStatementVerifies` |

### The ledger (`LedgerProofs`)

- `TypeCorrect`: `Spec => []TypeOK`. It rests on `AppendLineFacts` and `InterruptedFacts`
  (what an append, whole or interrupted, leaves of a file) and on `SealOfType`.
- `SealsStayTrue`: if `Skews \subseteq {-1, 0}`, `Spec => []SealsVerify`. `SealsVerify` is
  not inductive, since nothing in it keeps a record out of a sealed day; `SealInv` adds
  that every sealed day is before the UTC day (`SealedInPast`): a sealed day is before the
  local day, which on such a host is never ahead of UTC. A record goes to the UTC day. The
  run `ledger_east` shows that the assumption is needed.
- `ChainNeverForks`, `MemoryFollowsDisk`: if `"whole" \notin ErrorOutcomes`,
  `Spec => []ChainUnbroken` and `Spec => []PredecessorIsNextSeqMinusOne`. The two need each
  other: a line continues the chain because the memory agrees with the head, and it agrees
  because the line continued the chain. `ChainInv` adds that the listed files cover the
  lines (`FilesListed`, what `_resume` reads), that no file lies ahead of the UTC day
  (`FilesInPast`, so the line appended is the last one) and that a process which found
  nothing starts from genesis (`FreshMemory`).
- `LedgerImplementsSealChain`: if `Skews \subseteq {-1, 0}`, `Spec => ImplementsSealChain`.
  The step that must be excluded is a seal, or a record, for a day at or before one that is
  sealed. `OrderInv` excludes it: sealed days are over on the UTC clock (`SealedBefore`, so
  a record goes beyond them), days without a seal lie after all those with one
  (`UnsealedAhead`), and while a call is sealing, the days it listed lie before all the
  others (`ListedFirst`), so that sealing the oldest keeps the order. `RecordImplements`,
  `SealImplements` and `TornSealStutters` then map each step to a step of `SealChain` or a
  stutter. It needs no assumption on failed appends: whatever reaches the file of the day is
  one more record of it or none, and a torn seal is not one.
- `SealsLeaveNoGap`: if `Skews \subseteq {-1, 0}` and `"whole" \notin ErrorOutcomes`,
  `Spec => []SealsTile`. It takes all of the above: `TileInv` adds that a seal names the first
  and the last line of its day's file (`SealedSpan`) and that the last seal is that of the
  latest sealed day (`LatestLast`). The day sealed next is then the first with records after
  it (`OrderInv`), and its first line follows the last one sealed (`ChainInv`).
- `RuleNeverMoves`: `Spec => []RuleInForce`, with no assumption on clocks or failures.
  `RuleInv` adds that a process only runs on an entry of its own farm, or on none
  (`RunsForItsFarm`): what it signs later is then for the farm of the entry. An entry is
  only written over days sealed before its first day, which were legacy and stay so
  (`RuleActivated`).

### Writers beside each other (`SealRaceProofs`)

For any finite number of processes, and any days and records:

- `OnePollIsMissed`: a seal signs its day's file from the beginning. `OverInv` says that the
  file of a day that is over has at most one record more than any process about to seal it
  has read or signed (`Signs`), and none more while the poll of that day is still under way:
  only one poll can be.
- `NoProcessSealsTwice`: `AuthorInv` adds to the property that a process which found a day
  without a seal and has yet to append its own (`Committed`) has not sealed that day before.
  It looked through every seal, and what others append is not its own.
- `TurnsImplementSealChain`: as long as no two processes were at work at once (`AloneInv`),
  every file access is a step of `SealChain` or a stutter.

### The agent (`AgentProofs`)

Over the theorems of the ledger, with the bodies of its lines the agent's intervals
(`Bodies = Intervals`, as in the runs) and `"whole" \notin ErrorOutcomes` for the last two:
the steps of `Agent` are steps of `Ledger`, so `TypeOK` and `ChainInv` hold here too.
`OpenInv` says that the open interval carries the commitment of what it is, and
`OpenIntervalCommitted` that the last line on disk has that commitment; together they make
the next record a reveal of its predecessor. That line may be the last of any earlier day:
the reveal is read as a mismatch exactly if it is not in the file of the day before, and since
there is such a line (`OpenRecorded`) that is the one case `DecisionsRevealed` names. A poll
whose record failed leaves all of it as it was.

### The start (`StartupProofs`)

For any finite number of processes and starts. `StartInv` says, of starts that never
overlapped, that at most one process is on its way up, that the files it has passed are the
ones it holds, that it writes only over what is missing, torn by itself, or a key without a
farm (`WritesOver`), and that what the first complete start left is still there
(`RanComplete`). `SecretOutlivesUpgrade` also covers starts that overlap, and rests on
`HasOldSecret` instead: the key's file is torn or has the old secret, and every key that a
process is about to write has it too.

### The API (`ApiProofs`)

For any connections, addresses and tokens, and any limits of at least one, any requests,
ticks, rounding and largest power:

- `ApiInv` relates each record to the failures of its key (`EntryOK`: a block ends no earlier
  than that of any failure it could be computed for) and each thread to its request
  (`ThreadOK`: a `POST` closes the connection until the token was right, and one with a
  length that waits has been read). `ApiTyped`, `NoUnreadPost` and `BlockRunsItsTime` follow.
- `WaitIsNearlyEnough` rests on `SecondsCover`: the seconds answered are less than a
  thousandth short of the time they stand for, and the strictest answer covers the others.
- `GuessingCosts` needs a second invariant, `FewEarly`: the failures of a key within the block
  of the n-th, together with the threads that passed the limiter before it and have yet to
  fail, are fewer than the connections. A thread that passes later waited out the block. Of a
  failure that no block could be computed for nothing is claimed.

### The console (`ConsoleProofs`)

For any knobs and their bounds, any patches, hand edits, boards, machines and lengths of the
list; assumed are the names of the knobs that the code itself reads, that no knob is among the
paths of the operator, that the numbers are numbers, and that the metrics of a machine are those
of `qtmp.py`:

- `SettingsInv`: a path that the console was told is in the file with that value, or the file
  is torn and stops the next start (`ToldIsFiled`). `ToldSurvives` alone is not inductive: it
  says nothing of a process that is down. `OnlyLabelsOvershoot` is inductive beside it: a start
  accepts nothing out of bounds, a patch adds nothing (`PatchedWithinBounds`), and a label
  that moves a threshold is counted in the same step.
- `EngineInv`: the ids of the list grow, and the deque drops from its front (`DequeFacts`);
  what a poll finds is one alert of each board and trend (`FindingsFacts`), of which only
  those without an open alert are appended (`AllFacts`). Each board's count is that of its
  last judgements, all of them below the threshold (`Counted`).
- `LabelsInv`: labels counted and alerts still open are together no more than were raised.
  An alert that is evicted, or lost with the process, only makes room.

### The curtailment (`CurtailmentProofs`)

For any number of hours from one, any prices, thresholds and relays, and `Null` none of the
strings of the state:

- `CurtailmentTypeCorrect`: `Spec => []CurtailmentTypeOK`, with it that a date and a curve
  are only ever there together.
- `NoOldPrices`: `Spec => []PricesOfTheDay`.
- `HoursAreDecidedOnce`: `Spec => HourDecidedOnce`.

The three share `CurtailmentInv`. `PricesOfTheDay` alone is not inductive: a curve is dated
by the day the poll read before it fetched, so `DateRead` says that this day is still today
or that midnight has passed since. `SettledByCurve` is what makes an hour be decided once:
what was decided rests on a curve of today, which no poll fetches again (`PollKeeps`), and
which gives the same verdict for as long as hour and threshold stay, whatever fixed price is
set in the meantime (`ConfigureKeeps`). No fairness is used.

### The bill (`InvoiceProofs`)

For any days and billed days, records without bound, decisions, measurements, configuration
and number of proofs. Three layers:

- *Data.* What the tree, the sums and the lists compute is proved for every size. The
  library's induction theorems take a predicate as a parameter, which the provers here cannot
  instantiate; a *set* can be had instead. `NatSetInduction` and `StrongSetInduction` say of a
  set of naturals what induction says of a predicate, and follow from the library's fact that
  the order of the naturals is well founded; `SubsetInduction` does the same for the
  subsets of a finite set. A recursive function (`Levels`, `Ancestors`, `Climb`, `depth`, the
  fold of a sum) is shown to exist by its finite approximations first (`LevelsDef` and its
  like). From there: a proof made for a leaf leads to the root from that digest and from no
  other (`ProofLeads`), two lists of one length with the same root are the same list
  (`RootInjective`), the tree of the verifier is the tree of the package (`VRoot`), and sums
  split, agree where their terms do, and are of the type of their terms.
- *The invariant.* `IInv` is `InvoiceTypes`, `FilesInv`, `SealsInv` and `HandedOut`.
  `FilesInv` chains the lines over days without records too (`LinesFollow`), numbers them in
  order (`LinesRise`), bounds what each claims (`ClaimsBounded`) and says that the open
  interval is the one committed last (`OpenIsCommitted`), without which the next line would
  reveal nothing. `SealsInv` says that every seal is the one its day has now under the head
  it names, that seals rise but for the day that is sealed twice, and that they chain but for
  the seal that repeats the one before it (`SecondSeal`). `HandedOut` says that the
  reader holds the bill of the book, or that with one place changed. None of the six
  properties is inductive: each is about records that have been billed and says nothing of
  the poll that is still to write the next.
- *Two programs.* `BilledWasWitnessed` and `InvoiceTypeCorrect` follow from `FilesInv`.
  `ProofsNameTheirRecords` adds that the lines of a day have different digests.
  `VerifiersAgree` compares the conditions of the two, field by field.
  `AcceptedBillsAreSupported` shows, for each way the hand-over can differ, that either a
  check fails or the recomputed sums are those of the sealed records: a changed record
  changes a root, a repeated entry chains to nothing, a total retyped no longer adds up to
  the records. `HonestStatementsVerify` shows each section of the verifier empty: its sums
  over entries of days are the package's sums over seals and claims, term by term, its proofs
  and chain are those of the seals, and no record is a mismatch as long as no day without
  records lies between two with some.

What these theorems take from the model rather than from a proof is what `Invoice` says of
its reader: a hand-over differs in one place, one day is sealed twice at most, days are sealed
once their records are written, digests are collision-free, and amounts are integers.

### Model-checked only

- Liveness (`EveryFinishedDaySealed`, `SessionSealsFinishedDays`, `FeedDownMeansOn`,
  `EditedPriceArrives`), which is out of the prover's reach.
- What the four runs of violations refute, of course; `ledger_east` also shows that the assumption
  of the ledger's theorems on the clock is needed.

## 5. Plan

1. `Invoice` with a hand-over that differs in several places at once, and with records that
   follow a sealed day.
2. A second process that opens the ledger while the agent runs and writes the activation
   entry, or resumes from a head the agent is appending to (`Startup` has the first half).
3. `Ledger` with a clock that steps back, and the torn line that lacks only its newline.
4. The 60 samples of the baseline and their median, under `Agent`.

## 6. Not modelled

Cryptography and the byte encoding (`canonical.py`, `canonical.js`): digests and signatures
are terms, free of collisions and of forgeries, and the encoding is injective; the parity
tests cover the bytes. The parsing of the miners' replies, of URLs and of the price feed
(`collector.py`, `netguard.py`): input checks without state, of which the models keep the
outcomes (no answer, a refused answer, an exception). The statistics of the alerts
(`sidak_threshold`, `robust_z`, `n_eff`, `linear_slope`) and the precision of the labels:
floating point. The GET answers of the API, the static console, and bodies that stall on the
wire. `logs.py`: one file rotated by size; that it may fail is `PollUnlogged`.
`selfaudit.py`: a report over sources, configuration and a scratch ledger that changes no
state of the system. The console's rendering, the build, release and demonstration scripts.
