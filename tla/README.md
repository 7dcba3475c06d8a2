# Verification of cost-aware-gateway

TLA+ modules, model-checking runs and machine-checked proofs about the cost-aware LLM gateway
in `src/cost_aware_gateway/`. A module is named after the part it models, `MC<module>.tla` and
`MC<module>_<run>.cfg` are its instances for TLC, `<module>Proofs.tla` holds its theorems.
`PROJECT.json` lists components, runs, mutants, the line each definition comes from, the
disagreements found, the hazards and the theorems.

## The system

Worker processes take calls for users. Each call reserves its estimated cost in the user's
budget, asks the provider's circuit breaker, calls the provider, and settles both. Budget and
breaker keep all their state in Redis, which the workers share; one worker runs several threads,
and a worker, a provider or the connection to Redis may fail at any point.

| Part | Keeps | Operations | Talks to |
|---|---|---|---|
| `BudgetTracker` (C1, `budget.py`) | Redis per user: `reserved`, `spent`, `window_start` (with TTL), `limit`, `window` | `check_and_reserve`, `record_actual`, `set_budget`, `reset`, `status` | Redis, by WATCH/MULTI/EXEC |
| `CircuitBreaker` (C2, `breaker.py`) | Redis per provider: `state`, `failures`, `opened_at`, half-open lock (TTL, token); a thread lock per worker | `allow`, `record_success`, `record_failure`, `reset`, `state` | Redis, one command at a time |
| `TieredRouter` (C3, `router.py`) | nothing of its own | `complete` | budget, breaker, litellm |
| `FailoverRouter` (M4, `resilience.py`) | nothing of its own | `call` | one breaker per provider, a call function |
| `SoftCapRouter` (M4, `resilience.py`) | nothing | `call` | cost calculator, a remaining budget read once, a call function |
| `CostAwareRouter` (M2, `routing.py`) | its call function | `route` | classifier, quality checker, call function |
| `CachedRouter`, `InMemorySemanticCache`, `TailTruncationCompressor` (M3, `optimization.py`) | the list of stored replies; swaps the inner router's call function while it routes | `route`, `get`, `put`, `compress` | `CostAwareRouter`, spy |
| `CostCalculator` (M1, `cost.py`) | nothing | `cost_usd` | configuration |
| `Redactor` (C5, `redact.py`) | nothing | `redact_tool_output`, `redact_with_llm_judge` | a judge model |
| Configuration (`config.py`) | nothing once loaded | `load_config`, `_deep_merge` | YAML files |
| Demos (`run.py`), data models (`models.py`) | nothing | load the configuration, run each part once; records | all of the above |

What is hard, and what must hold all the same:

* **Budget.** Workers race between WATCH and EXEC; the window expires, is rolled over or is moved
  by an administrator in the middle; workers die holding reservations; settlements arrive in a
  later window; the reply to an EXEC that went through may be lost. No update may be lost, nothing
  admitted past the limit, no reservation left over that nobody holds, nothing refused that fits,
  and the retry loops must end.
* **Breaker.** Only single commands are atomic: the state, the count, `opened_at` and the lock are
  four keys written one after another. Successes of calls admitted long ago arrive late, the
  lock expires under a slow probe, workers die holding it, and the threads of a worker share its
  token. A probe alone inside its lease unless its own worker gives the lock away, no lost trip,
  never shut for ever.
* **Gateway.** Every exit of `complete` must release exactly what the call reserved, charge what it
  was billed and nothing twice but what a lost reply hides, and blame the provider only for its own
  failures, whichever Redis operation raises.
* **Failover.** A failure lands on the right breaker; the primary gets its requests back; one
  provider that is up is enough.
* **Soft cap.** Callers compare an estimate with an amount that others are about to spend. The
  overrun must stay bounded; degrading must save money; nothing that fits is refused.
* **Cache.** The call function is swapped in a shared object without a lock, and the list is looked
  up before a call and appended to after it. A reply nobody wanted may not get into it, nothing
  may be paid for twice in sequence, and a request must be told what it cost.
* **Redaction.** Secrets are cut out one after the other, in the order of a set, and may overlap each
  other and the credential shapes. None may survive, and the flag for the log must tell the truth.
* **Configuration.** A setting may come from two files, under two names, or from a default.

## Modules

| Module | Models | State and grain |
|---|---|---|
| `Budget` | `budget.py:68-199` | `acct` (reserved, spent, window start and expiry per key name), `limits`, `windows`; per client the place in the code (`pc`), the arguments, the terms read before the loop, what it has seen since WATCH, and `dirty`, the flag Redis keeps per watching connection. One action per round trip: `ReadLimit`, `ReadWindow`, `Watch*`, `Get*`, `Exec*`, `Abort`; `SetBudget`, `Reset`, `Tick`; the faults `Crash` (a worker dies, its reservation stays), `Disconnect` (a read fails: redis-py reports `WatchError` and the loop retries) and `LoseReply` (EXEC goes through, its reply does not come back: the same error, and the loop applies the update again; `lost` counts them). `Uid` is the replacement of `:` by `_`. |
| `BudgetLedger` | what C1 promises | reservations and settlements that take effect at one instant, once each and once more for every reply that was lost |
| `Breaker` | `breaker.py:45-217` | the four keys, time as ages and remaining lifetimes, the thread lock of a worker as a guard (`LockIsFree`). One action per round trip; the provider's answer is part of the first one after it. `lease`, the time left to a probe, and `orphans`, the probes whose lock a release has deleted under them, are history. |
| `BreakerMachine` | one breaker as a value | `CanAdmit`, `Admitted`, `Succeeded`, `Failed`: the handlers when each takes effect at one instant; `PartlyAdmitted` and the like: what one that raises may leave. An OPEN breaker without a date, which a `record_failure` cut short leaves, admits every call (`Unguarded`), as the code does |
| `BreakerFSM` | what C2 describes | `BreakerMachine` as a state machine; `Breaker` implements it for one worker |
| `Gateway` | `router.py:84-193` | budget and breaker operations at one instant. One of the breaker may raise having written all, part or nothing; one of the budget may raise having written nothing, or go through and lose its reply, which redis-py reports as `WatchError` and the loop answers by doing it again (`ReserveReplyLost`, `RecordReplyLost`; `repeated` and `stranded` count what that adds). The threads of one worker, one user, one running window |
| `Failover` | `resilience.py:82-121` | a breaker per provider, the position in the list per thread; providers that go down and come back; breaker operations that raise having written all, part or nothing |
| `CachedRouter` | `optimization.py:79-104, 133-142, 191-255`, `routing.py:62-69, 153-234` | a text is the sequence of its words, so similarity (Jaccard, compared as fractions), compression and difficulty are computed, not assumed. The cache is the list of stored queries with the reply's tier and verdict; the shared call function is the number of spies around the model; per thread the place in `route`, the request, the saved call function and the result so far. One action per access to what is shared; a model call may raise |
| `Config` | `config.py:75-176` | `LoadConfig` as a function of the files on disk: the choice of the file, `DeepMerge`, every `.get` with its default, `int()`, `float()` and `str()` as parameters, and when a `.get` or a conversion raises. A value is a dictionary or, a list too, a scalar. The recursive merge is unfolded as deep as `load_config` reads: one operator per level, down to the settings of a tier |
| `Redactor` | `redact.py:23-122` | a text is a sequence of symbols; `Sub` is `str.replace` and `re.sub`. One action per secret, in any order, and per shape; then the judge, which answers, raises, or answers with something that is no dictionary |
| `Startup` | `run.py:191-203, 319` | composes the two: a process loads the configuration from some files and redacts tool outputs with some of the keys it was given. `FileAssumption`: in a file that is a dictionary, there is none where a plain value is read; `ExampleAssumption`: the example has the limit under its old name only; `TextAssumption`: no key contains the mark |
| `Cost` | `cost.py:28-56` | `CostUsd`, the price of a call |
| `SoftCap` | `resilience.py:150-235`, `budget.py:163-184` | per thread the request it serves or was refused, its tier and what remained when it looked; what the window has been charged. Looking and choosing is one action (the choice uses nothing shared), charging another |
| `Totals` | no code | sums of amounts over finite sets of calls, in the properties of `Budget` and `Gateway`; a sum is a number of units, so that theorems about cardinalities speak of it. `TotalTheorems`: what a sum does when a set or an amount changes |
| `BudgetProofs`, `BreakerProofs`, `GatewayProofs`, `FailoverProofs`, `CachedRouterProofs`, `SoftCapProofs`, `StartupProofs` | theorems | |

`Gateway` and `Failover` compose the parts: they use the atomic forms of budget and breaker,
which the detailed ones implement by the refinement theorems of `BudgetProofs` and `BreakerProofs`.
The latter is about the threads of one worker that lives on (with several, `MCBreaker_lostTrip`
shows a step the machine does not have), so these modules have one worker.

Amounts are integers (the code's micro-dollars), scaled down. Definitions that stand right before
the operator they vary, marked as mutants, are used by no specification; each is a plausible bug
that makes a property fail.

## Runs

Passing runs:

| Run | Instance and bounds | What it shows |
|---|---|---|
| `budget_race` | 3 clients, estimates 1 and 2, limit 3, 3 calls, one window, weak fairness | `ReservedMatchesOutstanding`: no lost update. `BudgetNeverExceeded`: nothing passes the limit. `AdmissionFits`: an admission fits what the store holds, or opens the window and is alone in it. `RefusalJustified`: a refusal that nobody interfered with is one. `EveryCallReturns`: the retry loops end |
| `budget_windows` | 2 clients (symmetric), 2 calls, estimates 0 and 2, actual costs up to 1 above, a clock of 3 ticks with TTLs of whole seconds (2 ticks), one `set_budget` or `reset`, 1 fault: a death, a lost connection or a lost reply | `SnapshotFaithful`: a transaction whose watch has held acts on what the store holds, across expiry, rollover and administration; `NoPhantomReservation`: nothing stays reserved beyond what a call holds, a death left or a lost reply repeated; `IsLedger`: `Budget` implements `BudgetLedger` |
| `breaker_workers` | 3 threads, two of one worker and one of another, threshold 2, recovery 2 ticks, 1 death or `reset()`, fairness | `LeaseIsLock`: a probe inside its lease owns the lock until its own worker, by a late success of another thread, or `reset()` gives it away (or, without EVAL, any release: the theorem). `OneLease`: of two probes inside their leases one has lost its lock so. `KeepsProbing`: some call is always admitted again. `Recovers`: the breaker closes for good when the provider stays up |
| `breaker_machine` | 3 threads of one worker, Redis without EVAL | `IsFSM`: `Breaker` implements `BreakerFSM` |
| `gateway_calls` | 3 threads, 3 calls admitted or at the reservation, estimates 0 and 2, limit 4, overrun 1, 2 operations of any kind that raise or lose their reply | `BooksBalance`: reserved is what the calls in flight hold; `SpendWithinLimit` (both while Redis answers); `NoExtraReservation` (beyond what calls hold, only what nobody is left to release or a repeated reservation hides) and `ChargedAsBilled` (a call is charged nothing or its bill, who gets a reply exactly that, and what charges whose reply was lost have charged comes on top) whatever raises; counters never negative |
| `failover_calls` | 2 threads, 2 unreliable providers, 1 raising operation, fairness | `NoInnocentPassedOver`: a provider that failed no call keeps its breaker closed, and no request goes on past it or is rejected. `PrimaryReturns`, `NoEndlessRejection` |
| `soft_cap_calls` | 2 threads, two tiers to fall back on, a dearer one off the list, one without prices, limit 4, calls cost up to 7 | `DegradesToTheBottom`, `RejectsBelowTheFloor`: the choice. `OverrunBounded`: concurrent callers overrun the budget by one call each |
| `cached_calls` | 2 threads (symmetric), 3 requests, 4 queries: two just similar enough, one hard in its system prompt, one hard only beyond what the compressor keeps; every tier argument | `PaidTwiceOnlyAtOnce`: only requests that overlap pay twice for alike queries. `NoRejectedReply`: a reply that was not good enough reaches nobody. `BilledAsAsked`: what a request pays for and is told. `SpyCountsCalls`: one request at a time, the spy sees every call once, also after one that raised |
| `startup_redact` | a `config.yaml` that is missing, empty, words only, short, complete or the example copied, or has nothing or words where a provider, its tiers, a tier, a price or a number is read; numbers that are texts or have a fraction, with and without the CI and the example file and `--config`; texts of up to 5 symbols with keys that stand alone, overlap and touch two shapes, any set of the configured keys, with and without the judge | `OwnSettingsWin`, `RaisesForUnreadableFiles`: which file each setting, key and price comes from, converted, and exactly when loading raises. `NoKeyLeft`, `RestUntouched`, `LogSafeIfUntouched`, `OrderIrrelevant`: what redaction removes, leaves and reports, and that the order of the set does not show, wherever the loop is, if no two secrets have a symbol in common |

The bounds are small but reach what matters. Two clients are enough for a lost update and a third
makes one that aborts be overtaken again; two calls let a reservation outlive its window and meet
one of the next; a threshold of 2 puts a success between two failures; recovery of two ticks
separates a lock about to expire from a fresh one; two threads of a worker and one of another are
a straggler, the probe whose lock it deletes, and who takes it next; two faults let one hide behind another; three
requests of two threads are a pair that overlaps and one that meets what the pair stored; three
keys, two of them overlapping a third, are every way two secrets can touch.
`MaxCalls`, `MaxTime`, `MaxAdmin`, `MaxDisturbances` (deaths and resets) and `MaxFaults` appear in guards
only (and `calls` in the bound of `SpendWithinLimit`). `Breaker`, `Gateway` and `Failover` measure
time by ages that stop growing at `Recovery`, and `SoftCap` bounds nothing (its spending is bounded
by what it promises), so their runs have no horizon. The runs of `Budget`
and `CachedRouter` end when their calls are used up, and a `Startup` whose configuration did not load
ends there; their runs switch the deadlock check off.

Runs that show a disagreement between a document, comment or test and the code (`findings` has
the quotations):

| Run | What happens |
|---|---|
| `budget_fresh_spend` | a window whose key has expired is replaced without clearing `spent`: the key's TTL is the window, so this is the branch nearly always taken |
| `breaker_lost_trip` | a success's `DEL failures` before and `SET closed` after a trip undo it, with the count at the threshold |
| `gateway_overspend` | an exception after the charge releases the reservation a second time; the room is spent again |

Other disagreements met while modelling, which need few steps and have no run:

* `budget.py:108, 115`: the reservation that opens or rolls a window is not compared with the limit
  (`budget.py:92` says it is); `AdmissionFits` says what does hold.
* `budget.py:132, 160`: redis-py (>= 5, < 6) raises `WatchError` when a connection is lost while
  keys are watched, the loops catch it, and an EXEC that went through is applied again
  (`budget.py:14-16`, "Atomicity"): a reservation twice reserved, a settlement twice charged.
  `IsLedger` counts exactly one effect more for each, and `ChargedAsBilled` and `NoExtraReservation`
  what it adds to a call.
* `budget.py:189`: `set_budget("a:b")` writes the limit under `a_b`, `_get_limit` reads under `a:b`.
* `budget.py:123-129`: the refusal uses a `reserved` and a `spent` of two instants and is not
  validated by EXEC, so a call that fits may be refused when another one settles in between.
  `RefusalJustified` says that nothing else refuses it.
* `breaker.py:190`: the half-open lock lives as long as the recovery time; a probe slower than that
  is joined by a second one (`README.md:197`: "only one worker probes when recovering"). `OneLease`
  says what does hold.
* `breaker.py:52, 102, 199`: the threads of a worker share its token. A success of a call that one of
  them made before the trip deletes the lock of the probe of another, inside its lease, and closes
  the breaker; a thread of another worker that has read `half_open` before may then take the lock and
  probe as well (`README.md:197`, and `SCALING.md:54-55`: "only one worker across all instances can
  probe"). `LeaseIsLock` and `OneLease` name this exception; with EVAL, another worker never does that.
* `breaker.py:198`: a success of a call admitted before the trip closes an OPEN breaker, or clears
  the count so that the probe's failure does not re-open (`breaker.py:3-5`).
* `breaker.py:210`: between `SET state` and `SET opened_at` an OPEN breaker admits every call, and
  keeps doing so if the worker dies there (`tests/test_failures.py:57`).
* `breaker.py:105`: the fallback release may delete the lock another worker has just taken.
* `router.py:119`: `allow()` raises outside the try and the reservation stays (`README.md:103`).
* `router.py:170, 189`: failures of Redis count as failures of a provider that answered.
* `router.py:149, 190`: a malformed answer is billed by the provider and charged as nothing.
* `resilience.py:113-119`: a request is rejected because calls failed, with every breaker closed
  (`resilience.py:8`).
* `resilience.py:203`: a degraded request gets the cheapest tier of the list also when the tier next
  below the requested one fits (`DegradesToTheBottom`): no other place of an ordered list is ever
  served by the loop. `resilience.py:158-159`: the estimate is 100 tokens in and 50 out while
  `max_tokens` allows 1024, so one call alone may exceed what remained.
* `optimization.py:223, 240` ("Restore original call_fn"): of two threads that route at once, the
  second saves the first one's spy and leaves it installed for ever; from then on every call is
  counted twice. `SpyCountsCalls` is therefore about one request at a time.
* `optimization.py:201`: a hit looks at neither the tier argument nor the quality. A request with an
  explicit tier is answered by another tier's cached reply (`routing.py:123-124`), and the reply of
  an explicit cheap call, which nobody checks, answers later `auto` requests.
* `optimization.py:243`: two concurrent misses both pay; `PaidTwiceOnlyAtOnce` says nobody else does.
* `optimization.py:214`: the query is compressed before it is classified, so that a hard word may be
  cut off and the query answered cheaply. `BilledAsAsked` is about the words that were sent.
* `routing.py:213`: if the expensive call of an escalation raises, the cost of the cheap one, which
  was paid, is in no result.
* `config.py:133-150`: `litellm:` in `config.example.yaml:40` has nothing behind its colon, which
  YAML reads as `None`, on which `.get` raises. So `cp config.example.yaml config.yaml`
  (`README.md:140`) gives a gateway that does not start, and so does a file that leaves `litellm`
  out while the example is there. `RaisesForUnreadableFiles` says exactly when.
* `config.py:154`: `default_limit_tokens: 50000` (`config.example.yaml:46`) becomes a limit of 50000
  dollars. Were the example to say `default_limit_usd`, it would win over the other name in the
  user's file; as it is, `OwnSettingsWin` holds: its theorem assumes that the example does not (`ExampleAssumption`).
* `config.py:109-112`: providers and placeholder keys of the example stay in the loaded
  configuration next to the user's own.
* `redact.py:98` ("deterministic"): of two secrets that overlap, the one the set yields first is cut
  out and the other's rest stays, so the text depends on the order. `OrderIrrelevant` says that it
  does not if they have no symbol in common. `redact.py:110`: an answer of the judge that is JSON but
  no dictionary (`run.py:262`) raises outside the `try`, and the structural result is not returned.
* `router.py:70` indexes a `TierConfig` like a dictionary and raises `TypeError` for any configured
  tier, where `run.py:155` prints that `_build_router()` succeeded; `run.py:232` calls `.get` on one.

## Fairness

* `Budget`: weak fairness of every thread inside a call. A thread runs until its call returns;
  nothing makes users start calls. `EveryCallReturns` holds because a transaction fails only when
  another one went through and calls are bounded: with endless traffic the loop at
  `budget.py:103` can be overtaken for ever, and nothing in the code prevents that.
* `Breaker` and `Failover`: weak fairness of `Tick` (time passes) and of every thread's next step,
  idle threads included, so requests keep coming. Without traffic a breaker stays open, which is
  what the code does: only a call can be a probe. Nothing is assumed of the provider, of crashes
  or of Redis; "the provider stays up" is a hypothesis inside the properties.

## Proofs

For every value of the constants, under the named assumptions of the modules:

| Theorem | Says | Argument |
|---|---|---|
| `BudgetProofs!TypeCorrect` | `Spec => []TypeOK` | action by action; `max(0, ...)` and `spent + actual` stay natural |
| `BudgetProofs!SnapshotCorrect` | `Spec => []SnapshotFaithful` | `TypeOK` and one fact per client: its snapshot is either intact or its watch is dirty. Lemmas: a commit of one client, its reply lost or not, leaves another's snapshot or dirties its watch; so do time and administration |
| `BudgetProofs!AdmissionCorrect` | `Spec => AdmissionFits` | an admission is one of the three EXECs, and the snapshot, intact at EXEC, is what the comparison was made on, or shows that no window was running |
| `BudgetProofs!RefusalCorrect` | `Spec => RefusalJustified` | only the step that reads `spent` ends a call so, and the `reserved` it adds is the store's unless the watch is dirty |
| `BudgetProofs!ImplementsLedger` | `Spec => IsLedger` | every EXEC maps to the ledger's step, one whose reply is lost to the step that leaves the caller where it was, reads, aborts and lost connections to stutters |
| `BudgetProofs!PhantomCorrect` | `Spec => []NoPhantomReservation` | `TypeOK`, `SnapshotFaithful` and the property are inductive together: an EXEC whose watch has held writes the counter it read plus or minus its estimate, so the sum of what is held changes by as much, or a `max(0, ...)` or a new window takes away more |
| `BudgetProofs!MatchCorrect` | `Spec => [](FirstWindow => ReservedMatchesOutstanding)` | `FirstWindow`: no lifetime of a window is over, nobody has administered a budget, no reply was lost. Invariant `WindowInv`: until then a window opens once and who holds a reservation made it in the one that runs, so nothing is taken away but by who holds it |
| `BudgetProofs!NeverExceededCorrect` | `Spec => [](FirstWindow => BudgetNeverExceeded)` | assuming that no call costs more than its estimate and every estimate fits the limit alone. Invariant `LimitInv`: terms are the default limit, what is charged is at most what was reserved; admission compares what the store holds |
| `BreakerProofs!TypeCorrect` | `Spec => []TypeOK` | action by action |
| `BreakerProofs!LeaseCorrect`, `OneLeaseCorrect` | `Spec => []LeaseIsLock`, `[]OneLease` | for any number of workers and threads, with EVAL and without. Invariant, until a reset: types, a probe that is no orphan owns the lock for as long as its lease (`LeaseHolds`), and there is one such probe at most (`OneHolds`); every DEL of the lock makes orphans of the probes it hits |
| `BreakerProofs!HealthyServed` | `Spec /\ []up => []HealthyInv` | while no call fails, threads are only where `allow()` has read CLOSED or a success is recorded: nothing trips the breaker and no call is refused, with any number of workers, deaths and resets |
| `BreakerProofs!ImplementsFSM` | `Spec => IsFSM` | assuming one worker (`OneWorker`, any number of threads, EVAL or not) that neither dies nor is reset (`Undisturbed`). Invariant `MachineInv`: one thread at most is in a handler, the lock is free or the worker's own, OPEN has a date or gets it next, and what an `allow()` has read still holds. The machine is `Seen`: a handler in the middle is shown as finished or not begun, by the write that decides it |
| `GatewayProofs!TypeCorrect` | `Spec => []TypeOK` | action by action, faults included |
| `GatewayProofs!ChargeCorrect` | `Spec => []ChargedAsBilled` | strengthened by: beyond what was repeated, whoever has not reached the charge has been charged nothing, the cost to be charged is what was billed, and who is past the charge has paid it |
| `GatewayProofs!BooksCorrect`, `ReservationsCorrect` | `Spec => []BooksBalance`, `[]NoExtraReservation` | invariants `OwesInv`, who still owes its reservation by where it is, and `SumInv`: reserved is at most what is owed and stranded, and exactly what is owed while Redis answers |
| `GatewayProofs!SpendCorrect` | `Spec => []SpendWithinLimit` | `SumInv` also keeps room for the overruns of the calls that still owe, which the calls so far account for |
| `FailoverProofs!TypeCorrect` | `Spec => []TypeOK` | action by action, on the breaker machine's types |
| `FailoverProofs!InnocentCorrect` | `Spec => []NoInnocentPassedOver` | invariant: whoever is about to record a failure stands at a provider of which a call has failed or was counted as failed (`InnocentInv`), and of those before the place of a request every one has (`PassedInv`): a breaker that refuses is not closed |
| `CachedRouterProofs!TypeCorrect` | `Spec => []TypeOK` | action by action; a query is a pair of sequences of words, of any length |
| `CachedRouterProofs!RepliesCorrect` | `Spec => []NoRejectedReply` | whoever is past its last call does not hold a rejected reply (`AnsweredInv`) |
| `CachedRouterProofs!BillsCorrect` | `Spec => []BilledAsAsked` | invariant `Billed`: by its place in the code, what a request has tried, for what it asked, and that the result and the history add up the same |
| `CachedRouterProofs!SpyCorrect` | `Spec => []SpyCountsCalls` | invariant `SpyInv`: while no two requests have overlapped, one spy is installed exactly between the swap and its undoing, and what was saved is the model |
| `CachedRouterProofs!PaidOnceCorrect` | `Spec => []PaidTwiceOnlyAtOnce` | invariants: of the stored queries there is a closest one (`ClosestInv`, fractions compared by products), and what a request being routed found in the store when it looked is not like its query (`LookedInv`) |
| `SoftCapProofs!TypeCorrect`, `ChoicesCorrect` | `Spec => []TypeOK`, `[](RejectsBelowTheFloor /\ DegradesToTheBottom)` | the list is in order of price (`OrderAssumption`, the name of the parameter): the first fit is as cheap as any, and if the requested tier does not fit no tier from its place on does |
| `SoftCapProofs!OverrunCorrect` | `Spec => []OverrunBounded` | invariant `Room`: spent, plus a call for every request in flight on a tier that is not free, is at most the limit plus a call per thread. A request begins while spent is within the limit, or on a free tier, which is never charged |
| `SoftCapProofs!CachingNeverCostsMore` | for `cached` within `in` and cache prices within input prices, caching never makes a call dearer | arithmetic |
| `StartupProofs!TypeCorrect` | `RedactorSpec(Secrets) => []RedactorTypeOK` | the substitution of a text with matches is a text of its symbols and the mark |
| `StartupProofs!KeysCorrect` | `RedactorSpec(Secrets) => []NoKeyLeft` | invariant `KeysInv`: a secret the loop is done with is in no later text. A substitution leaves no match behind, and since no secret has the mark in it, an occurrence in what it leaves was there before |
| `StartupProofs!LogCorrect` | `RedactorSpec(Secrets) => []LogSafeIfUntouched` | invariant `LogInv`: if anything was logged, the first place that differs has a mark that was not there, which no later substitution undoes |
| `StartupProofs!RestCorrect` | `RedactorSpec(Secrets) => []RestUntouched` | `KeptOfSub`: a substitution whose matches have no plain symbol keeps the plain symbols, in their order |
| `StartupProofs!OrderCorrect` | `RedactorSpec(Secrets) => []OrderIrrelevant` | `CutTogether`: cutting one secret after others, with which it has no symbol in common, gives what cutting them all at once gives |
| `StartupProofs!StartupRedacts` | `Spec => RedactorSpec(Given)` | refinement, `Given` being all keys the files give: by `OwnSettingsWin` a key of the loaded configuration is one of them, so a step of `Startup` is a step of the redactor or leaves `redactor` as it is |
| `StartupProofs!OutputsCorrect` | `Spec =>` all five of the redactor's | the five theorems above, for the secrets `Given` |
| `StartupProofs!SettingsCorrect` | `Spec => []OwnSettingsWin` | one lemma per level of the merge (`SectionLevel`, `ProviderLevel`, `TiersLevel`, `TierLevel`): the part behind a key of the merged dictionary is the merge of the parts, and a plain value that of the first file that has one |
| `StartupProofs!RaisesCorrect` | `Spec => []RaisesForUnreadableFiles` | the same lemmas: what is no dictionary, or no number, after the merge is none in the file that counts, and the other way round. `AsInt`, `AsFloat` and `AsText` are any functions that leave the defaults alone (`ConversionAssumption`) |

The theorems of `StartupProofs` about the redactor hold for texts and secrets of any length over any
symbols, the secrets without the mark in them. `Sub` and `Kept` are recursive on the places of a text;
instead of induction, of the places where a claim about what is left from there on fails, the last
one is taken, and refuted. `RedactorSpec(Secrets)` is the redactor by itself; `StartupRedacts` carries
what is proved of it over to the process that loads the keys. The theorems about the configuration
hold for files of any providers, tiers and values under the assumptions of `Startup`; the first of
these excludes files with a dictionary where the code reads a plain value (it keeps some such values
unchecked and raises for others).

Only model-checked: liveness (`EveryCallReturns`, `KeepsProbing`, `Recovers`, `PrimaryReturns`,
`NoEndlessRejection`), which needs ENABLED. Every other property of a passing run is a theorem, those
of `Budget`, and `IsFSM`, under the hypotheses the table gives.

`ReservedMatchesOutstanding` and `BudgetNeverExceeded` are claimed, by run and by theorem, only up to the
end of the first window: later a settlement may cross a rollover and give back less than it
reserved, and an administrator's smaller limit does not undo what is spent. `NoPhantomReservation`
and `AdmissionFits` hold throughout. `IsFSM` is not claimed for a worker that dies in a handler, nor
across `reset()`.

## Not modelled

* Redis itself beyond single commands, WATCH/EXEC and key expiry; losing its data; a command outside
  WATCH that fails in `Budget` (the call then ends with an exception, as `Gateway` has it).
* The construction of `TieredRouter` (its `_build_router` indexes a `TierConfig` like a dictionary
  and raises `TypeError` for any configured tier), litellm's own retries and fallbacks.
* Floating-point money: `_to_micro` rounding happens before the amounts the models take.
* Several providers or users in one `Gateway`: users share no state, and `complete` only uses the
  default provider.
* In `CachedRouter`, the words of replies (a verdict of the quality checker is all a reply is), and what
  the spy, a callable of the caller, does with its calls.
* In `Redactor`, the regular expressions' character classes (a shape is a head and a minimum of body
  symbols), and secrets that are part of the mark `[REDACTED]` itself.
* In `Config`, YAML and a file that is none, what exactly `int()` and `float()` take (functions with any
  domain), an example file that is a list of pairs, which `dict()` would take for a dictionary, and `_get_limit`'s spelling of user ids (`budget.py:189`),
  for which no property is stated since every caller of the repository uses plain names.
* Users in `CachedRouter`: the code's cache does not know them either.
* Spending in the soft cap's window by callers that do not go through it, and `status` before the
  first reservation of a window, which is `None`: the repository leaves the amount to an injected
  callable, and `SoftCap` takes `status`'s.
* `models.py`: records without behaviour. `run.py` beyond loading and redaction: each demo calls one
  part, in sequence, and prints what it returns.

## Plan

In order of importance; 1 to 12 are done.

1. `Budget`, `BudgetLedger`: C1 at command grain, its ledger, proofs and refinement.
2. `Breaker`, `BreakerMachine`, `BreakerFSM`: C2 at command grain, the machine, the lease proofs.
3. `Gateway`: `complete` over both, with Redis failures; charge proof.
4. `Failover`: the provider loop over breakers, with liveness; innocence proof.
5. `CachedRouter`: cache, compression, classification, escalation and the call-function swap, by
   several threads.
6. `Cost`, `SoftCap`: prices and the choice of a tier by concurrent callers; proofs of the choice,
   the overrun and the caching discount.
7. `Config`, `Redactor`, `Startup`: which settings a process runs with, and what it lets out.
8. `Budget` with connections and replies that are lost, and its proofs over them.
9. Proof of `IsFSM` for one worker.
10. Proofs of the sums of `Budget` and `Gateway`, for any number of callers.
11. Proofs about `CachedRouter` and, for texts of any length, about `Redactor`.
12. `Config` with the merge written level by level, and proofs of what it promises and of the redactor
    in the process that uses it.
13. Several windows and users in `Gateway`, and `Gateway` over several workers, on the
    command-grained breaker.
14. `SoftCap` over `Budget`: what the reservations that `status` leaves out mean for its callers.
