# TLA+ verification of AuthStunt

AuthStunt is a test server for authentication flows. A test run leases an
e-mail identity, drives the application under test with it, the application
sends mail to the leased address, AuthStunt stores the mail, extracts the code
or link in it, and hands that secret to exactly one claim of the lease. This
directory holds TLA+ models of its core, TLC configurations that check them on
small instances, and proofs that the TLAPS proof system checks.

`PROJECT.json` lists components, runs, mutants, the map from definitions to
source lines, findings, hazards and theorems. Paths below are under `src/`.

## 1. Inventory

| Component | State it keeps | Operations | Interacts with |
|---|---|---|---|
| Runs and leases (`internal/store/runs.go`, `leases.go`, `identities.go`; `internal/personas/lease.go`; `internal/api/leases.go`) | tables `runs`, `identities`, `leases`; `Store.lastNow` | create run, end run, acquire (ephemeral, pooled), settle seed, release, sweep | application's seed endpoint, sweeper of `serve`, mail correlation |
| Mail correlation (`internal/store/bindings.go`) | table `message_bindings` | bind the recipients of a message | leases (owner of an address at an instant), ingest |
| Credential claim (`internal/personas/claim.go`, `internal/store/claims.go`) | table `claims`; waiters | claim: gate, replay, subscribe, query, take, park, explain | leases, messages, event bus |
| Mail pipeline (`internal/smtp`, `internal/store/messages.go`, `blob.go`) | blobs, table `messages`, queue | deliver, recover, settle, fail, publish | SMTP clients, event bus, `serve` |
| Process lifecycle (`cmd/authstunt/serve.go`) | goroutines, context | start, listen, stop | everything |
| Event stream (`internal/sse`) | ring, sequence, generation, subscribers, waiters | publish, subscribe with replay, evict, reset | ingest, claims |
| Data directory (`internal/secrets/keys.go`, `internal/store/store.go`, `migrate.go`, `projects.go`; `bootstrap` in `serve.go`; `bearer.go`) | key file, `user_version`, tables `projects`, `allowlist`, `bearer_hash` | load or create the key, migrate, bootstrap, provision, rotate, revoke | several processes at once |
| Extraction (`internal/extract`) | the state of one HTML scan | codes and links of a message | ingest, claims |
| MCP server and proxy (`internal/mcp`, `cmd/authstunt/mcp.go`) | requests in flight, run tokens, the run of each lease | serve a session on stdin and stdout; tools `open_run`, `lease_identity`, `claim_code`, `release_lease` | a client driven by a model, the HTTP API |
| API authentication (`internal/api/auth.go`) | none | bearer and run-token checks, ownership of runs and leases | projects, runs, MCP proxy |
| Ledger (`internal/ledger`, `internal/store/ledger.go`) | append-only events | append | every transaction |
| TypeScript client, Playwright fixtures (`packages/`) | none | retries of a claim | API |
| Relay comparison (`internal/relayconf`) | none | compare two messages | used by its own tests only |

What is hard in this code:

* *An API call is not a transaction.* The database has one write connection, so
  every transaction is atomic; but a call reads on a separate pool, waits for
  the seed endpoint or for mail, and writes later. Everything read may be stale.
* *Two clocks.* Leases are stamped by the store clock (milliseconds, a
  nanosecond tie-break, in memory), arrivals by the raw wall clock, origination
  by `Date` headers in whole seconds. The wall clock can step back.
* *Crash, kill, power loss* between blobs, rows, answers and announcements, and
  while a data directory is being created.
* *Retries and lost answers* of a claim, and races between claims.
* *Waiting*: parked claims, full buffers, slow subscribers, stopping.
* *A session of concurrent requests.* The MCP server answers each line from a
  goroutine of its own; calls overlap, answers of the AuthStunt server are lost,
  and the tables that hold the credentials die with the process.
* *One-pass algorithms on any text.* The extractor replaces obvious quadratic
  scans by binary searches and running tallies, and relies on sorted, disjoint
  spans.

The list of hazards in `PROJECT.json` names each one at its line, with the
properties that would catch it going wrong.

## 2. Modules

| Module | Models |
|---|---|
| `LeaseStore` | runs, identities and leases with the calls in flight, the sweeper, crashes and the clocks |
| `LeaseStoreProofs` | its inductive invariant and theorems |
| `Correlation` | extends `LeaseStore` with mail: caused, generated, in transit, arrived, bound |
| `CorrelationProofs` | extends `LeaseStoreProofs`: which mail binds to whom |
| `OneTimeSecret` | abstract: a secret has at most one owner, an owner at most one secret |
| `Claims` | the claim path, which implements `OneTimeSecret` |
| `ClaimsProofs` | its inductive invariant, theorems and the refinement proof |
| `Ingest` | the mail pipeline and the life of the server process |
| `EventBus` | ring, replay, eviction, reset, generations |
| `DataDir` | key, schema, project, allowlist and bearer under concurrent commands |
| `IngestProofs`, `EventBusProofs`, `DataDirProofs` | the inductive invariant and the theorems of each |
| `McpSession` | one MCP session: reader, loop, request goroutines, the proxy's tables, and the server that admits and serves its calls; takes `OneTimeSecret` as what a claim does |
| `Extraction` | the extraction engine: `scanHTML` as a state machine, everything else as operators |
| `McpSessionProofs` | the way of one line and its call through a session, and the theorems |
| `ExtractionProofs` | the shortcuts of the engine are exact, and codes, links and their order are right, for every text and document |
| `MC*` | constants of the above for TLC, and for `Extraction` the messages |

Conventions: one action per transaction, read, or other step after which
another actor may run; a step of a call in flight is guarded by the call's
`pc`. A definition commented "Mutated form", or placed in `Extraction` right before
the definition it varies, is a plausible bug of that definition and takes part in
no specification. Names follow the source.

### LeaseStore

`runs`, `leases`, `minted`, `cooldown` are the tables; `calls[c]` is what an API
call has read and where it stands (`walk`: inside `reservePooled`'s loop;
`seed`: waiting for the seed endpoint; `release`: between the read in
`handleReleaseLease` and `Release`). `StampAfter` is `Store.Now`: the wall clock
truncated to `Milli` ticks, or one tick past the last stamp. `Crash` clears what
lives in memory, `lastNow` included; nothing serves again before a sweep, as in
`serve`. `EndRun` of a run that has ended is a stutter. The stamps a transaction
takes for its ledger events are folded into one; `OtherStamp` lets any other
stamp be taken at any time. A cancelled call stops where it stands, because its
next transaction cannot begin.

### Correlation

A run acts while it holds a lease (`Act`), the application generates the message
(`Generate`, dated in whole seconds or undated), it arrives (`Arrive`, raw wall
clock) and is bound later (`Deliver`). Mail generated while its run still held
the address may take any time; mail generated later keeps the latency bound the
operator declared, which is what `PooledPolicy` asks for.

### Claims

`calls[c]` follows `Service.Claim`: `replay`, `subscribe`, `query`, `take`,
`raced` (the insert was refused by an index), `wait`, and with `final` the last
query of `explain`. Bindings are a message's verdict for each lease; that verdict
is `Correlation`'s subject. `handed` records answers that reached a client; every
answer may be lost instead. `KeyFixesKind` says that clients use a key for one
kind, as the MCP proxy does by deriving it; the run `claims_replay` drops it.

### Ingest

`main` follows `serve` (`down`, `recover`, `serve`, `drain`, `stop`, `sweeper`),
`session[m]` follows `Deliver`, `settlers` are the workers and `Recover`. A blob
is `named` after the rename and `durable` after the directory sync; `Crash` is a
kill or a power loss that may take names not yet synced. Commits are durable
(`synchronous=FULL`, the default; `--sync-mode=normal` is not modelled). A failed
listener is `ServeFails`.

### EventBus

The ring is the slice and write position of `ring.go`. A client has the id it
will present, a replay snapshot, a bounded channel, and ghost fields: how many
events it `knows`, where it `stands` (at its first connection, at an id it has
read, or nowhere: connected again without an id), and where it stood when it
skipped one (`skips`). Before its first connection the dashboard fetches through
REST, so it knows everything there is; on a later connection without an id it is
given neither replay nor reset, and no code makes it fetch again. No route of the shipped server mounts the
hub yet; waiters, which claims use, are in `Claims`.

### DataDir

Processes run commands on one directory without a lock. `keyFile` separates
existence, contents, synced contents and synced name; `keys` and `tokens` record
which keys and bearers were minted, returned, used, shown or lost. A process is
killed at any step; `PowerLoss` loses what was not synced of the key file. The
ten attempts of `awaitKey` are abstracted to "any number", and domain lists to
values that are equal, different, or unusable. `schema` is `user_version` and the
migrations in the order they ran. A process reads the version once and then runs
migration after migration (`Migrate`), each with its version in a transaction that
does not read the version again. One that ran before fails on what it created,
unless it is in `Rebuilding`: `schema_v5.sql` builds its table anew and renames it,
so it runs again and sets the version back. `Migrations = 3` with
`Rebuilding = {2}` stands for v4, v5 and v6.

### McpSession

`lines[i]` is what the client wrote under request id `i`, `work[i]` the goroutine
`Serve` started for it (`handle`, `call`, `reply`), `calls[i]` its HTTP request,
`answers[i]` what went to stdout. `reader` and `serve` follow `readLoop` and
`Serve`; `Leave` and `Return` are its deferred `cancel` and `wg.Wait`. Lines
are tool calls on ids the client has been told, or one of `PlainForms`: not
JSON, without a method, a notification, a version or method the server does not
know, bad arguments, a ping. `runTokens` and `leaseRuns` are the proxy's tables.
On the server's side `Principal`, `OwnsRun`, `Admission` are `authenticate`,
`ownsRun` and the refusals; `CreateRun`, `Acquire`, `Claim`, `Release` are the
effects of the routes, and which secret a claim yields is left to `OneTimeSecret`,
the specification `Claims` is proved to implement. A call may fail before or
after the server acted (`GiveUp`, `Serve` of a call nobody waits for). `Init` has
three beginnings: a fresh server, a server on which an earlier session left a run
and a lease whose ids the client still holds (the process was restarted), and
this session after it opened them itself.

### Extraction

Text is a sequence of symbols, one for each class of characters that the code
tells apart; a keyword is one symbol, so the windows and the lengths of codes are
parameters (24, 40, 80, 160, 120 and 4, 6, 8 in the code). `TextToken`,
`StartTagToken`, `EndTagToken` and `ErrorToken` are the cases of `scanHTML`'s
loop; `ErrorToken` does the rest of `Extract`. A binary search over a sorted list
is the first element that satisfies its predicate, and a loop that goes on behind
the token in which it found its mark sees the first mark of each token
(`FirstOfToken`). A loop that builds a list (`mergeSpans`, `collectLinks`,
`otpCandidates`) is a recursive function with its body as an operator (`Coalesce`,
`AddLink`, `Keep`), and a sort is `Arranged`: at place k the element with k - 1
before it. That no two elements tie is not assumed but proved (`OccurrencesApart`,
`PlainDisjoint`). A text token is never empty. What else the HTML tokenizer may hand over is `Tokenized`.

## 3. Runs

| Run | Checks | Bounds |
|---|---|---|
| `leases` | `TypeOK`, `EndedRunHoldsNothing`, `OneOwnerPerInstant`, `LeaseHistoryKept`, `ExpiredLeaseEnds` (liveness) | 1 run, 1 call in flight beside the end of its run and the sweeper, 1 pooled and 1 ephemeral identity, 2 leases, seeds that succeed or fail, expiry inside the horizon, 1 crash, 1 backward step, other users of the clock |
| `handover` | `HandoverSafe`, `OwnMailBinds`, `OneHeldPerIdentity`, `LeaseHistoryKept` | 1 run, 2 concurrent calls, 2 leases of one pooled address, 1 message, a second of 6 ticks, cooldown = latency = 1 second; leases are released, not ended with their run |
| `handover_endrun` | `HandoverSafe`: **violated** | 2 runs, 1 call; the first run is ended |
| `claims` | `OneTime`, `Idempotent`, `WithinGrant`, `NoLostWakeup`, refinement `ImplementsOneTimeSecret` | 2 callers, 2 leases, 2 messages that reach both, one grant that ends inside the TTL |
| `claims_replay` | `OneTime`: **violated** | 1 caller, 2 keys, 2 kinds, 1 message |
| `ingest` | `AckedIsStored`, `AnnouncedOnceSettled`, `NoSilentSettle`, `AckedSettles`, `StopEnds` (the last two liveness) | 2 messages, 2 workers, queue and publish buffer of 1, 3 starts, 1 write fault, 1 listener failure |
| `event_bus` | `NoGap`, `ResetIsNeeded` | 2 clients, ring of 2, buffer of 1, 6 events, 2 generations |
| `datadir` | `KeyKept`, `SchemaWhole`, `ServedAsStored`, `LiveBearerShown` | 2 processes, 4 starts of 7 commands, 3 migrations of which the second can run again, 1 fault or power loss |
| `datadir_first_run` | `InitialisedWhole`: **violated** | 1 process, 2 command lines |
| `datadir_migrate` | `SchemaInStep`: **violated** | 2 processes, 2 starts, 3 migrations as above, no fault |
| `mcp` | `ExactlyOneAnswer`, `CredentialsConfined`, `ToldIsReachable`, `AttemptReplays`, `LinesAnswered`, `SessionEnds` (the last two liveness) | 2 tool calls and 1 other line in flight together, 3 runs, 2 leases, 2 messages, attempts 1 and 2, 1 failed call or signal, a bearer that is live or not |
| `extraction` | `SeenAsRendered`, `PlainURLsApart`, `TrimmedAsRecounted`, `CodesOutsideLinks`, `ScoredAsFullScan`, `RankedByBest`, `NeverAYear`, `LinksOnce`, `ScanTypeOK` | every text of up to 5 pieces about URLs, 6 about codes, 5 repeated codes, 4 accented and 4 links beside a button; every tokenized document of up to 5 out of 11 tokens |

Why the bounds suffice: each race in the code is between two actors over one
row, so two callers, workers, clients or processes and two rows of the contended
kind reach it; buffers of one and a ring of two are full, and the ring wraps,
within the horizon; every expiry falls inside the horizon of its run; each fault
budget lets one fault fall at any step, and what the code does after a fault
does not depend on an earlier one. In `leases` the rivals of the one call are
`EndRun`, the sweeper, the crash and the clock; two calls over one pooled
identity meet in `handover`, and its second lease after a restart is what
`OneOwnerPerInstant` is about. In `mcp` two tool calls are enough for every
pair of tools to overlap and, with the beginnings of `Init`, for a claim to be
retried, raised and released; the five plain lines of its configuration stand for
the three others, which `Local` answers as errors like a ping is answered as a
result. In `extraction` a word of three symbols and a far window of three put
every distance, on both sides of each window, within the six pieces of a text.
`CHECK_DEADLOCK FALSE` is set because every
horizon is bounded: a run stops when its budget of time, starts or events is
spent. Symmetry is used only in runs that check no liveness.

**Fairness.** `LeaseStore!FairSpec`: time passes, and the sweeper's timer keeps
firing in a live process (`sweepPeriodically` is a loop on a ticker); a process
that died is started again. No fairness is given to clients or to the seed
endpoint. `Ingest!FairSpec`: each goroutine of the process (main, every worker,
the bus) is scheduled, and a process that ended is started again. Sessions,
signals and faults get none. `McpSession!FairSpec`: the goroutines of the process
are scheduled, a call's deadline or cancelled context ends it, and the client
reads what is written. Nothing is assumed of the AuthStunt server, which may
never answer: a claim carries a deadline, and that is why `LinesAnswered`
promises an answer for `claim_code` and local requests at any time, and for the
other tools, which carry none, once the session is ending.

### Findings

* `handover_endrun`: ending or expiring a run frees pooled identities without a
  cooldown, so mail the first run caused can bind clean to the next.
* `claims_replay`: `replay` answers with the requested kind, not the recorded
  one, without a row for it.
* `datadir_first_run`: a first run that dies between `CreateProject` and
  `SetAllowlist`, or whose domain is unusable, leaves a directory no `serve`
  accepts.
* `datadir_migrate`: of two processes that upgrade a database at once, the slower
  one, having read version 4, runs migration 5 again after the other committed 6
  and sets the version back to 5; migration 6 then fails on its own column, for
  this process and for every later start. `SchemaWhole` says what holds all the
  same: the tables have every migration, in order, for whoever gets past
  `migrateTo`.

Pooled mode is off unless the operator declares a latency, and the repository
calls it unsupported; the first finding concerns only that mode.

Five limits of the passing runs are limits of the code. `OwnMailBinds` is checked
for a wall clock that does not step back: arrivals are stamped by it and leases by
the store clock, so after a step a held lease does not own the present
(`MaxStepBacks = 1` in `Handover.cfg` shows it). `StopEnds` starts from a signal:
when accepting fails on its own, `serve` waits for a sweeper whose context nobody
has cancelled, although the comment there says it is on its way out. `NoGap`
leaves out one client: one that connects, is dropped or cut off by a restart
before it reads its first frame, and connects again. It has no id to present, so
`bus.go:184` takes it for a fresh one, and what was published in between it
never hears of, against `hub.go:22` ("a gap is never silently skipped"). `KeyKept`
leaves out a key that went with a failed sync or a power loss before its creator
had it on disk, which another process may have loaded and used. And
`CodesOutsideLinks` is stated for text without accents: codes are looked for in
the folded text and links in the text as written, and an accented letter is no
part of a scheme or of `www.` until it is folded. The same goes for a symbol that
folds to a character that ends a URL (U+226E, whose folded form is `<`); the
alphabet of the model has none.

`WithinGrant` is about the moment a handover is decided: `RecordClaim` and
`replay` compare a clock with the end of the grant, and the row and the answer
follow. It does not speak of a release or an ended run in between, which the code
accepts.

## 4. Proofs

All theorems hold for every value of the constants that satisfies the modules'
`ASSUME`s (sets of runs, callers and identities of any size, any TTL, any bound).

**`LeaseStoreProofs`.** None of the invariants is inductive by itself. That
lease intervals are disjoint needs to know that every lease row but the latest
of an identity has ended (`Timeline`: rows are filled in insertion order, are
well formed, and the leases of one identity follow one another: an earlier row
has a `released` stamp at or before the later row's `acquired`), which
`leaseStart` establishes only because the row it clamps to is the latest by
`acquired_at`. That an ended run holds nothing needs `RunsOK` (held leases name
active runs), and that calls in flight refer to existing rows, `CallsOK`.
`IInv == TypeOK /\ Timeline /\ CallsOK /\ RunsOK` is inductive; lemmas treat the
operators (`StampAfter`, `EndAt`, `EndHeld`, `LeaseStart`, `SettleRow`) once, one
lemma follows per action, and `TypeCorrect`, `Exclusive`, `Disjoint`,
`EndedRunsHoldNothing` and `HistoryKept` follow. The proof uses no property of
the wall clock: the results hold whatever it does.

**`ClaimsProofs`.** Under `KeyFixesKind`, `CInv` says that claim rows respect
both unique indexes, expire within the grant, and that whatever was handed over
has its row (`HandedOK`). `OneHandover`, `OneSecretPerKey` and
`HandedWithinGrant` (for the time of the decision) follow, and `ClaimsRefineOneTimeSecret` shows that every step
is a step of `OneTimeSecret` or leaves its variables unchanged, with the owner
read off the claims table and the handovers off the answers. `claims_replay`
shows that the assumption is needed.

`WakeupIsKept` needs no `KeyFixesKind`. `NoLostWakeup` speaks of parked calls
only; `WInv` says for every call that has queried, and for every announced
message it could take, that the message is among the candidates it will try or a
hint is in its waiter's slot, and that a candidate whose insert was refused is
taken (`WakeOK`). The step that matters is `Announce` between a call's query and
its wait: the waiter was registered first, so the hint is in the slot.

**`CorrelationProofs`** rests on `Timeline` and `HistoryKept` of
`LeaseStoreProofs`. `OwnMail` (that a run's own mail binds to its lease) is
proved while `ClockForward`, `PooledHandover` (that mail never binds clean to the
next holder) while `ClockForward /\ EndedByItsCall`; the theorems state these
as `[][...]_mailVars` on the left, because the code does not ensure them. Both
are needed: with a backward step (`MaxStepBacks = 1`) TLC refutes the first, and
run `handover_endrun` refutes the second without `EndedByItsCall`. `OwnInv` says
of a run's own message that the clock of the application, and later the instant
of its arrival, is not before its lease began, and that its `Date` is one the
lease has to accept. `HandInv` says that an ephemeral identity has one lease and a
pooled one is leased only under a declared policy (`Granted`), that restarting a
cooldown never shortens it (`CoolingOK`), and that the instant a message is judged
by lies within its own lease or a whole cooldown before whatever comes next, be
it the identity's cooldown or the next lease that was not granted in doubt
(`Parted`). As a cooldown is at least the declared latency, and the latency at
least a second, neither the arrival of mail generated after its lease ended nor
the `Date`, cut to whole seconds, of mail generated before can then fall into the
next lease.

**`IngestProofs`.** `IInv == IngestTypeOK /\ Stored /\ Once /\ Fresh`. `Stored`
orders blob, row and answer of a message at every `pc` of its session, through
kills and power losses; `AcknowledgedMailIsStored` is a part of it. `Once`
follows the right to announce: it comes into being with the commit that ends a
message's pending state and is then with the settler, in the bus' channel, or
spent, in exactly one place, so a restart, which only re-reads pending rows,
cannot announce again. `Fresh` says the same of what this process has settled,
which `SettledIsAnnounced` needs.

**`EventBusProofs`.** `BInv`: the ring holds the newest events in a rotated order
that `Snapshot` undoes (`RingOK`, by arithmetic on slots); what a client has yet
to read, snapshot and channel together, is an unbroken run of events that begins
no later than the first one it does not know, unless it came back without an id
(`StreamOK`); the id it presents is never ahead of what it knows (`LastOK`).
`NothingSkipped` and the action property `ResetIsNeeded` follow. The constants: a server that starts at least once, a ring
and a channel of any size.

**`DataDirProofs`.** Four arguments that share only the processes. `KeyInv`: the
key file has one creator at a time and is synced and named before its key is
returned, so a key somebody uses is in the file or was lost before anybody was
told of it. `SchemaInv`: tables never lose a migration, so every migration up to
a version a process read, or ran itself, has been applied and stays so
(`Reached`), even when the version is set back afterwards; a process runs the one
after those, hence no migration before every lower one. `ListInv`: only the creator of a
project writes its list, once, over the empty one. `BearerInv`: a bearer is
stored by the process that is about to print it. The sentinels `None` and `Empty`
are assumed to differ.

**`McpSessionProofs`.** `MInv` follows a line from stdin to stdout (`PhaseOK`: no
goroutine, at work, answered) and its call to the server and back (`CallOK`: which
credential it may carry, and what its answer may hold). The tables, the server's
runs and leases, and the claims only grow (`Grows`), so what was true of a body
when it was built is true when it is written; `TablesInv` and `SecretsInv` say
what the tables and the owners of secrets are. `AnsweredOnce`,
`CredentialsStayInside`, `ToldCanBeUsed` and `AttemptIsReplayed` follow for any
number of lines in flight.

**`ExtractionProofs`.** `ScanTypes` is the type invariant of `scanHTML`.
`DepthOK` says that the count of open scripts is 0 or 1, and 0 exactly when the
last script tag before the current token closes one. That needs `Tokenized` (a
script's start tag is followed by text until its end tag), without which the
count would disagree with what a reader sees. `NeighborhoodSuffices`
shows that a word outside the range that `scoreCandidate` searches by start lies
farther away than the far window, because no word is longer than
`maxContextWordLen`; with `FoldType` (folding takes texts to texts) it gives
`ScoredInFull`. `TrimmedByTally` follows `trimURLTail`'s loop: as long as it
runs, the tally of each closing bracket is the count of what remains, and since
it never drops an opening bracket the tally of those is too. `ReportsWhatIsSeen`
rests on `DepthOK` and on `SeenInv`, which says what each local of `scanHTML` stands for at the
next token: the text so far is what is rendered of the tokens before it, a break
is pending exactly when a boundary has been crossed since the last text that was
read, every href is settled except that of the open anchor, and the open anchor
holds the text seen since it began. It needs that the tokenizer hands over no
empty text (the code asks whether the text so far is empty to know whether there
is any). `FirstSpanDecides` is why `inSpans` may look at one span of a list in
order and apart.

The properties of the result rest on `ResultOK`: a finished extraction holds what
`Extracted` makes of the text and the hrefs that were read, and no step changes
either afterwards. `ArrangedSorts` shows that `Arranged` lists every element of a
finite set once, in order, whenever the order is strict and total; for the
candidates it is, because two runs of digits never start at one place. `KeptOK`
is the invariant of the loop over the ranked occurrences (what is kept is ranked,
has no code twice, and stands before every occurrence it displaces), from which
`CandidatesRanked`; with `YearNeverScores`, the arithmetic of the weights, it gives
`BestIsNoYear`. `URLsApart` needs that the bytes of a scheme do not reach over the end of
a token, so that the URLs with a scheme are apart, and that those without one are
kept off them by `inSpans`, exact on that list. `LinksOK` is the invariant of
`collectLinks`' loop: a link for every URL so far, ordered by first
occurrence, with the kind of the first occurrence that tells; hence `LinksReported`.
`CodesAreNotLinks` puts these together. On a text without accents folding keeps
every symbol in its class (`Alike`), so both scans find the same spans, step by
step from the ends of tokens to the trimmed URLs; and merging spans covers what
the spans covered (`MergedOK`), so that the digits left out are exactly those
inside a link.

The windows are assumed nested, the lengths of codes
ordered, years to have the least length, and the word list to be finite.
Inductions over a text are arguments by the least counterexample (`LeastNat`).
`Induct` and `LoopRuns` put them in a form to cite: the property is a set of
numbers and the body of the loop a function, since an operator cannot be a
parameter; `LoopRuns` says that a loop written as a recursive function has a value.

Only model-checked: the liveness properties `ExpiredLeaseEnds`, `AckedSettles`,
`StopEnds`, `LinesAnswered` and `SessionEnds` (fairness and ENABLED are out of
the prover's reach). Every invariant and every other action property that a
passing run checks is also a theorem.

## 5. Not modelled, and the plan

Not modelled:

* SMTP syntax, header and MIME parsing, the HTML tokenizer, Unicode
  normalization and `url.Parse`: parsers whose input grammar a model would only
  repeat.
* AES-GCM; file modes, symlinks, DACLs and terminal detection; `--sync-mode=normal`.
* Host and Origin checks, body limits, health and the evidence route, which
  change no state; the content of ledger events, which nothing reads back.
* Keyset cursors, address and domain canonicalization, row accessors: sequential
  string handling.
* The TypeScript client and the Playwright fixtures: `Claims` lets any caller
  repeat any request at any time, which is more than their retry loop does.
* The relay comparison, which only its own tests call; examples and research
  material.
* Envelopes with several recipients: `Correlation` gives a message one.

What is left to prove is liveness, which this prover cannot. Next in the plan: a
message with several recipients in `Correlation`, each of whom it may bind, and
the theorems about it for every set of recipients.
