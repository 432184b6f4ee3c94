# Verification of conarium

conarium is a self-hosted gateway between AI assistants and databases. Every
access goes through a policy, is masked, and is recorded in a hash-chained audit
log and, if configured, a chain of signed receipts; a countersign service and
OpenTimestamps let outsiders check that the record was not rearranged. What the
product sells is that record, and that nothing leaves which the policy closes. The
models here are of the code that keeps both promises: files that several processes
append to, a server whose calls wait for connectors between a check and a record, a
gate over the syntax trees of SQL, a masker that has to agree with its predecessor, a
service that waits for calendars between reading its log and appending to it, an HTTP
entrypoint whose token file changes under its sessions, and the tools an outsider
verifies the record with.

All paths below are relative to the repository (`src/audit.ts` is the file
`src/src/audit.ts` that `PROJECT.json` names).

## Inventory

| Component | State it keeps | Operations | Hard because |
|---|---|---|---|
| Audit trail (`src/audit.ts`, `src/keys.ts`) | audit sink and receipt sink (JSONL files), in each `Audit` instance the tail hash, the sink size, the receipt tail; `heldLocks` per process | constructor (`validateChain`), `log` (locks, `syncLastHashIfStale`, append, `writeReceipt`), `close`, exit hook | processes interleave between system calls, appends fail or are torn, processes are killed, keys are rotated |
| Sink lock (`src/audit.ts` 215-368) | `<sink>.lock` | create, read owner, age, steal, release | create and body are two system calls, stealing is check-then-unlink, owners die |
| Countersign service (`src/anchor-service.ts`, `bin/conarium-anchor-service.mjs`) | the anchor store (JSONL); rows held in memory across awaits | `POST /anchor`, the GETs, `POST /upgrade`, the hourly tick (`runStamp`, `runUpgrade`) | calendar calls of up to 30 s between read and append |
| HTTP entrypoint (`src/http.ts`, `src/tokens.ts`, `src/rate_limit.ts`) | token store and its fingerprint, sessions, rate-limit windows | requests, idle sweep, limiter sweep, token reload, start, stop | state read before `await readBody`, a file read twice, timers |
| Tool calls (`src/server.ts`, `src/search_policy.ts`, `src/table-unavailable.ts`) | the policy and connectors the server booted with | list, describe, query, search, the schema resource | many exits, each of which must record once, before anything leaves; calls interleave at every connector |
| Connectors (`src/connectors/`) | what they learned when they connected | list, describe, query, search | each can do other things and fails in other ways |
| Governance and SQL gate (`src/governance.ts`, `src/protected-columns.ts`, `src/sql-gate/`) | policy | guard, analyse, redact, row cap | names are followed through every clause, subquery, CTE, join and alias |
| Masking (`src/mask-text.ts`, `src/mask/`, `src/custom_patterns.ts`) | patterns | mask a field, compile a pattern | two judges that must be merged, an alignment found from an output alone, an engine that reads patterns otherwise |
| Receipts and verifiers (`src/receipt.ts`, `bin/conarium-verify.mjs`, `verifiers/go`) | none | build, sign, verify | what a truncated, forged or merged file may pass as; two implementations |
| Reconcile and coverage (`bin/conarium-reconcile.mjs`, `bin/conarium-coverage.mjs`, `src/coverage.ts`) | none | compare receipts with a database's counters, sign and check a declaration | two clocks, a window's edges, resets, gaps |
| OpenTimestamps (`src/ots/`, `bin/conarium-stamp.mjs`, `bin/conarium-anchor-upgrade.mjs`, the proof service) | sidecar files | stamp, upgrade, merge, verify | files rewritten from what was read before a network call |
| Console (`src/console*.ts`) | nonces, console sessions, the config file | handoff, login, config write, playground audit | a write other processes may start from |
| Configuration (`src/config.ts`) | none | parse, validate, boot | strictness decides what a gateway starts with |
| CLI, doctor, init | none to speak of | one-shot commands | I/O |

They interact in few places. `http.ts` and the stdio server build one MCP server
per session over one `Audit`; a console's playground has a second `Audit` in its
process, which may share the sink. Several gateways may share a receipt sink,
each with a sink of its own (the deployment `LOCK_HINT` recommends). The tools of
the OpenTimestamps part share sidecar files with each other, and with nothing else.

What makes each correct:

* audit trail: one chain per sink, whoever writes; nothing is served that is not
  recorded; a receipt stands for a line; a sink the program wrote is one it accepts;
  locks are given back; writers do not block each other for good.
* sink lock: one owner; a dead owner is outlived.
* countersign service: what was handed out stays true and verifiable; one record
  per submission; proofs are of what they name; it goes on accepting.
* HTTP entrypoint: nobody acts under another's name; the budget and the session
  cap hold; idle sessions go; the token store in use is the file's.
* tool calls: a connector is asked only what the policy opens; every call leaves its
  lines, whichever way it ends; nothing is given to a client that is not recorded;
  caps hold; the record names what was read; every call ends.
* governance: no value of a masked column leaves under any name, and no query asks
  about a protected one.
* masking: what either judge hides is hidden, and a pattern means to the engine what
  it means to its author.
* receipts and verifiers: what is accepted is what the gateway wrote; what it wrote is
  accepted; both verifiers say so alike.
* reconciliation and coverage: clean means receipted, complete means all, and nobody is
  accused for a clock.
* OpenTimestamps: a row says what its proof shows; revisions stay in their order.
* console and configuration: a gateway with connectors has all of its configuration.

## The modules

| Module | Models | Used by |
|---|---|---|
| `AuditLog` | `src/audit.ts` without the lock file, `loadTrustStore` of `src/keys.ts` | `MCAuditLog` (instances for TLC), `AuditLogProofs` |
| `SinkLock` | the lock file, `src/audit.ts` 215-368 | checked directly, `SinkLockProofs` |
| `AnchorLog` | `src/anchor-service.ts`, the tick of `bin/conarium-anchor-service.mjs` | checked directly, `AnchorLogProofs` |
| `HttpGateway` | `src/http.ts`, `src/tokens.ts`, `src/rate_limit.ts` | `MCHttpGateway`, `HttpGatewayProofs` |
| `ToolCalls` | `src/server.ts`, `src/search_policy.ts`, `src/table-unavailable.ts`, the profile of `src/governance.ts` | `MCToolCalls`, `ToolCallsProofs` |
| `Connectors` | `src/connectors/`: what each can do and how its calls end | `ToolCalls` |
| `AccessPromise` | the abstract specification `ToolCalls` implements | `ToolCalls` |
| `SqlGate` | `src/sql-gate/`, `guardQuery` and the table walk of `src/governance.ts` | `MCToolCalls` |
| `Columns`, `KnownValues` | masked and protected columns: `analyzeRead`, `redact`, `redactKnownValues` of `src/governance.ts`, `src/protected-columns.ts` | `MCSideBySide` |
| `Masking` | `maskField` of `src/mask-text.ts`, `src/mask/belt.ts`, the shape of the frozen masker | `MCSideBySide`, `MaskingProofs` |
| `Patterns` | `src/custom_patterns.ts` | `MCSideBySide` |
| `Receipts`, `Verify`, `VerifyGo`, `Coverage` | receipts, `bin/conarium-verify.mjs` with `bin/conarium-countersign-verify.mjs`, `verifiers/go/verify.go`, coverage declarations | `Evidence` |
| `Evidence` | the life of a chain up to an auditor's copy, judged by both verifiers | `MCSideBySide`, `SideBySideProofs` |
| `Reconcile` | `bin/conarium-reconcile.mjs` | `MCSideBySide`, `SideBySideProofs` |
| `Console` | POST /api/config, `src/config.ts`, the boot of `src/server.ts` | `MCSideBySide`, `SideBySideProofs` |
| `Stamps` | `src/ots/`, `bin/conarium-stamp.mjs`, `bin/conarium-anchor-upgrade.mjs` | `MCSideBySide`, `SideBySideProofs` |
| `Least` | a set of numbers has a least one | `AnchorLogProofs`, `ToolCallsProofs`, `SideBySideProofs`, `MaskingProofs` |

A definition whose name ends in `_Something` is a mutant of the definition it is
named after: the change a plausible bug would be. No module uses them; they are
there to show that each property would notice (`PROJECT.json`, "mutants").

### AuditLog

One action per step between two system calls of `log()`: `Acquire` (one lock at a
time, in path order), `Sync`, `AppendAudit`, `LoadReceipts`, `WriteReceipt`,
`Release` (one at a time, in reverse). `Open` and `Close` are the constructor and
`close()`, `Start` and `Stop` a process's start, with the keys its operator gives it,
and its end: by exit, whose hook unlinks the locks, or by a kill, after which a taker
finds the owner dead, which comes to the same here. `op[p]` is the one `log()` a
process can be in: everything in `log()` is synchronous, the waiting too.

A file is the sequence of what each append left in it: a whole line, one that is
cut, one that lacks only its newline (`kind`), or nothing. A size is the number of
appends. A hash is a number used once, because a line's hash covers its prevHash
and SHA-256 is taken as injective; forged lines are out of scope, the file holds
what the program wrote. `Readable` says when JSON.parse accepts a line.

The lock is what `acquireSinkLock` means to be, so that the chain can be examined
on that assumption; whether it is that is `SinkLock`'s question. Both are needed to
read the theorems: they hold where the lock does.

Left out: an instance without a sink, which has no file; `log()` on a closed instance;
a sink in a directory that does not exist, for which `acquireSinkLockOnce` takes no
lock and the append fails; a process without keys that was not told
`CONARIUM_AUDIT_UNSIGNED=1`, which refuses to start. A key environment without keys
is one that was. Restarting with fewer keys than before is legal and makes the sink
unacceptable on purpose (contiguity); the runs leave it out.

### SinkLock

Each system call of `acquireSinkLockOnce` is an action: the exclusive create, the
write of the body, the read of the owner with its liveness test, the age, the
unlink; then the second attempt. `Waiter` programs poll (`log()`), may give up when
`LOCK_WAIT_MS` have passed and are called again (`Retry`); the others do not poll
(the constructor). `Crash` runs no exit hook; `Restart` gives a program any free
pid, so that a dead owner's pid may come back. `Age` is the passing of 30 s: it does
not pass between two adjacent system calls of a running program.

### AnchorLog

A handler without an `await` is one action. A maintenance pass is one action per
answer of a calendar: it keeps the rows it read before (`pass[p].rows`) and appends
from them. `Tick` is the timer's, `Upgrade` is `POST /upgrade`; a pass can go on
after a restart of nothing, `Restart` ends them all. A row's hash is its position:
its entry hash covers a random id, so no two are equal. The calendars answer, fail
or have nothing new, whenever they like.

### HttpGateway

A request is `Arrive` (everything up to its `await readBody`: token reload, 401, 429,
403, 404, 400, the cap) and then `BodyRead` or `BodyFails`. `Reload` is
`currentTokenStore`, with its two reads of a file that `Edit` may change at any time;
`Boot` has the two reads of the module's first lines. Times are ages that `Tick`
advances. The limiter keeps of each client the set of its hits, each an age and a number
that tells hits of one tick apart, where the code has an array of times. What a GET leaves open (a stream) keeps nothing of its request but the
transport. `accepted` and `served` are history: the first is the limit as its
documentation means it, the second who was recorded for which token. Left out: a
limit set to 0, which turns it off; `/healthz` and `/.well-known`, which have no state.

### ToolCalls, Connectors, AccessPromise

A handler of `src/server.ts` runs undisturbed between two `await`s of a connector, so an
action is the stretch from one to the next: `Query` is everything up to the connector's
`query`, `Queried` everything after it, the record included. `call[c]` is what a handler
has in its variables. `Handle` is all of a call's own steps; `Boot` and `Stop` are the
process. `Connectors` says of each class what it can do and which ways a call of it can
end, taken from its code; a connector that fails to connect is left out by `Boot`.

`trail` is the set of entries of the audit trail. A write of it succeeds, throws, or,
without `failClosed`, leaves less than it should (`Outcomes`); how files and locks make
that so is `AuditLog`, whose `ServedIsRecorded` and `ReceiptHasAuditLine` are what is
assumed of `log()` here. `asked` is history: which connector was asked, for which tables.
Some calls nothing bounds: `postgres.ts` sets no statement timeout, `supabase_rest.ts` fetches
without an abort, `openapi.ts` gives its abort up before it reads the body, `custom-sql.ts`
awaits the operator's executor. They are a connector's `unbounded`, and a call that waits for one is `Unanswered`.

`AccessPromise` is what the README of the repository promises: a client is given only
what an allowed entry with its receipt already says. It has no handlers, connectors or
failures. `KeepsPromise` is `ToolCalls` implementing it, with `given` the parts of the
answers that were sent and `told` the trail.

### SqlGate

The gates are functions from a statement's tree to a refusal or the tables read, with
the row cap that applies: `guardPostgres`, `guardMssql`, `guardOracle` and the walk
`collectRead`, `collectExpr`, `collectFrom`. A tree has what the walks tell apart: select,
union, with, VALUES, the clauses, calls, windows, joins, limits, and the expressions of
DISTINCT ON, LIMIT and OFFSET.

`TablesRead` is what a database reads for a statement, found without the gates: it goes into
every node, and resolves a bare name by the WITHs the database has in scope there (a binding
sees those before it, and itself only if it is recursive), or in the search path (`Home`). The
Postgres gate sees less: it goes into no VALUES list, DISTINCT ON, LIMIT or OFFSET, and takes
any name of a WITH for the WITH's own, in its own bindings too. `Walked` says of a statement
that none of its tables lies there (`Whole` in `ToolCalls`). What is promised of tables is promised of such statements
(`Seen`): `AskedWithinPolicy` and `RecordNamesWhatWasRead` leave the others out by name, save
that an entry never names a table that was not read. Three of the run's statements are such
(`OwnName`, `InRows`, `InBounds`), so that the exclusion is met and each of the other properties
is checked of them too.

The gate is a parameter (`Guard`) of `ToolCalls`, whose proofs need of it only its type
(`GateAssumption`); three theorems also need what a gate promises: `GateSound`, that every statement it walks whole and
that reads a table that is not permitted is refused; `GateNames`, that the others' tables are
named; and `GateCaps`, that they return no more rows than the cap. `MCToolCalls` gives `SqlGate`
for it; `RowsAtMost` is what a database returns at most. That `SqlGate`'s gates keep the three promises is not taken for granted: they are so of the run's
statements, for every dialect, every set of permitted tables and every cap, and
`AskedWithinPolicy`, `RecordNamesWhatWasRead` and `StatementsCapped` are
checked with the gates in place.

### Columns, KnownValues

A query grows from `SELECT * FROM t` one step at a time: a column, an expression, a
clause, a join, a subquery, what there is as a derived table or CTE of a select around
it, a union. Over every such tree three things are computed: what `analyzeRead` says is
masked, what `enforceProtectedColumns` (`WalkRead`) refuses, and, as the database has it,
which columns of tables each output is made from (`Outputs`) and which the statement asks
about (`AsksOf`): what it compares, sorts, groups by or computes with, and what a DISTINCT or a
UNION without ALL takes the doubles out of. The properties compare the first two with the third. `Redaction`
is the second pass of `redact`: what masked fields said is taken out of the other texts,
with the short cuts for plain ASCII, over a small alphabet with a letter that folds to an
ASCII one without being one.

Both properties are about queries whose inner statements name their columns
(`NamesColumns`): `*` over a table in a derived table, a CTE or an arm of a union hides its
columns from both walks. `ProtectedNotProbed` leaves out UNIONs without ALL (`Unites`): the walk
lets them pass, though they tell what the DISTINCT it refuses would. The trees have no outer references, no ORDER BY by output name or
position, no whole-row references, no VALUES lists; a union's arms name their columns
alike; a rule is a path that ends in a column's name.

### Masking, Patterns

`Masking` grows a text segment by segment together with what the old masker makes of it,
each symbol with the offset it stood at, and evaluates `MaskField`: the belt's alignment
of the old output (`Align`, `AlignTrimmed`, `CoverDiscardedTokens`, `SplitAtLineBreaks`),
the operator's rules, the core's spans, and the merging. What the belt may not know, where
each symbol of the output came from, is what `MaskCovers` judges it by. Detectors are
sets of spans.

`Patterns` grows a regular expression and compares what JavaScript finds at each offset
with what the engine finds with the pattern `WalkNode` writes for it, lazy and greedy
repeats, empty branches, flags and anchors included. `Ends` is the semantics of both:
they differ in a repeat's empty turns.

### Receipts, Verify, VerifyGo, Coverage, Evidence

`Receipts` is `buildReceipt`, and signatures; `Verify` the JavaScript verifiers as sequences of
checks of which the first that fails gives the exit code; `VerifyGo` the Go verifier,
translated from its own source and not from the other's; `Coverage` the declaration and
its checker; `Evidence` the life of a chain: written, keys rotated, a new sink, stamped by
a program that rewrites the file from what it read before it asked the calendar, copied,
and damaged by a fault. The copy's faults are lost, repeated and exchanged lines, lines torn,
joined or spread over several, and every single field changed that some check looks at;
countersign records and inclusion proofs are damaged likewise (`DamagedRecords`, `ProofsFor`). A digest is the history it commits to, so
that two different files never have the same; a signature cannot be made without the key.

### Reconcile

The database runs statements and counts them, the gateway's clock is ahead or behind, a
receipt is written at once or later or never, snapshots are taken, counters are reset. The
tool is `Result`, `ReconcileExit` and what they use.

A pattern is the names in its text and how each stands there: after FROM, after a comma, before
AS ( and read all the same, or as the column of an EXTRACT. `ExtractTables` is what the tool's
regular expression makes of that, `Reads` what the database does, so the one may have more or
less than the other; a text is `Legible` where it has no less. Names are compared by their last
part (`Segment`), so that tables of one name in two schemas cover each other. A receipt says
what its pattern's `said` allows: all that was read, a part of it, nothing (counted as
unassigned), or the table that was described.

### Console

`Save` reads and merges, `Rename` and `RenameAgain` are the write with its Windows branch,
`Boot` is a gateway reading the file at any moment between. A file is which sections it
has and which fields of the policy are set.

### Stamps

`StampStart` to `StampAppend` are `bin/conarium-stamp.mjs`, `UpgradeStart` to
`UpgradeWrite` are `bin/conarium-anchor-upgrade.mjs`, with the calls to calendars in
between; `Mine` is a block with what the calendars gathered. A calendar may be reached
without its answer coming in time. A message stands for what was done to the revision's
digest: it is the sequence of those operations, which is the path `src/ots/format.ts`
stores it under. So a proof is a set of attestations, each at its message, and merging two is
their union; how branches are ordered is only looked at for the first confirmation, where it
is the order in which the calendars were asked. An attestation that is there twice is there
once. `Verified` looks as `verifyProof` does. Calendars are honest: what an answer says was in
a block was.

## What the runs show

| Run | Asks | Result |
|---|---|---|
| `AuditGateways` | two gateways with a shared receipt sink: is the shared chain one chain, is all that is served recorded and still readable, does every `log()` come back | holds |
| `AuditShared` | two instances on one sink in one process, restarts and key upgrades: one chain, accepted again, locks balanced | holds |
| `SinkLockTakeover` | do simultaneous starts exclude each other, is a dead owner outlived | holds |
| `AnchorRaces` | is what was handed out still there and verifiable, one record per submission, proofs of what they name, do passes end | holds |
| `HttpGateway` | does anyone act under another's name, do the budget and the bounded overrun hold, do idle sessions go | holds |
| `ToolCalls` | is a connector asked only what the policy opens, does every call end and leave its lines before anything is given away, are caps and records right, is `AccessPromise` implemented | holds |
| `SideBySide` | seven parts that share no state, see below | holds |
| `SinkLockRelease` | is there ever a second owner | yes: an unverified unlink (`audit.ts:301`) |
| `AuditTornBoot` | is a sink with a torn line accepted again | no (`audit.ts:606`) |
| `AnchorStampRace` | does the service go on accepting submissions | no: a submission during a stamp breaks the log (`anchor-service.ts:535`) |
| `HttpSessionCap` | are there ever more sessions than the cap | yes: checked before an await (`http.ts:287`) |
| `HttpTokenFile` | is the store in use the file's | no: an edit during startup is missed (`http.ts:63`) |

`SideBySide` explores one part per behaviour: its initial states are those of the seven
parts, the variables of the others stay as they are. `MCSideBySide` extends `Evidence`,
`Console`, `Reconcile`, `Stamps` and `Masking`, whose assumptions TLC then evaluates and whose
properties the theorems name; `Columns` and `Patterns` are instances. What it shows: what a verifier accepts
is what the gateway wrote (`AcceptedIsOurs`), what it wrote is accepted
(`HonestCopyVerifies`), both verifiers give the same exit code of the first receipt on each line,
neither accepts what they see differently (`Differs`), and of a joined line Go's verdict is that
of its first document, which the other refuses (`VerifiersAgree`), a declaration
called complete is of the whole chain (`CompleteMeansAll`); a clean reconciliation has a
receipt for every table found in a statement, which is all it reads where its text is legible,
and in the second format no receipt without such a statement (`CleanMeansReceipted`); a pattern
is reported only for receipts that are missing, too far outside or incomplete, never for a
clock's sake (`NoFalseAccusation`); what either judge of a text took away is not shown
(`MaskCovers`); no value of a masked column leaves and no query but through a UNION asks about a
protected one (`MaskedStaysHidden`, `ProtectedNotProbed`); a pattern finds what its author's engine would
(`PatternsMeanTheSame`); a gateway with connectors has the operator's whole configuration
(`ServesWholeConfig`); the sidecar's rows are true and in order (`StampsAreTrue`,
`RevisionsInOrder`). `AcceptedIsOurs` does not say that a file without pins is whole: that a
file whose last receipts are gone verifies is the format's, and what the pins are for.

The last five are disagreements with what a comment, a test or the changelog says;
`PROJECT.json`, "findings", quotes them.

### Bounds, and why they are enough

* `AuditGateways`: 3 `log()` calls, one failed append of any kind, one process end.
  Two calls are needed for two writers to meet in the receipt sink, the third is the
  one after a failure or a restart. `AuditShared`: 4 calls, 2 failures, 2 ends over
  two instances: two are needed to make a memory stale, two ends for two upgrades in
  a row. Appends fail whole there: what a torn one does is `AuditTornBoot`. The
  theorems are without bounds.
* `SinkLockTakeover`: three programs are one that dies and two that fight over what
  it left; one crash; four pids, one more than programs, for a pid that is new.
  `SinkLockRelease`: two programs suffice for the violation.
* `AnchorRaces`: 6 rows, two owners, two digests, one timer's pass and one request:
  room for two submissions, their stamps and both upgrades, or for stale appends
  that make the log unservable. Two passes are the least that can meet.
* `ToolCalls`: two calls of two people, one with every kind of request and one with two;
  four connectors, one of each way to answer (SQL, PostgREST, no SQL, an operator's
  executor), one of which may fail to connect; six configurations, two starts, a table the
  policy closes, three rows against caps of one and two; twelve statements, one for each way
  a closed table can be named or a cap got round, or a gate not look. The theorems are without bounds.
* `SideBySide`, receipts: three entries, two keys, two sinks, two stampers, one fault, all
  combinations of the auditor's options that differ; two faults at once are not examined.
  Reconcile: a clock of four ticks, a gateway behind by 1 or ahead by 2, two statements of seven
  patterns (one of each way a name can stand in a text, and housekeeping), receipts that say all,
  less and nothing, skews of one and two: a window with something before, in and after it on
  both clocks.
  Masking: three segments over eight plain, five hidden and marked ones; two matches of a
  pattern. Columns: three steps from a table of two columns and one of one; larger queries
  (five steps) were only simulated. Patterns: two steps from nine leaves over five texts
  and a budget of three. Console: two saves. Stamps: two calendars, two revisions, two
  stamps, two upgrades, one block.
* `HttpGateway`: two requests under way, one place for a session and three session
  ids, a budget of 1 in a window of 1 tick, two contents of the token file besides
  none and a broken one. One place and two requests is the least the cap can be
  overrun with.

Deadlock is checked in `AnchorRaces` and `HttpGateway`. In the audit and lock runs
the system may stop: the number of calls and of process ends is bounded, a rejected
constructor stays rejected, and programs that hold or were refused a lock need not
do anything further.

### Fairness

* `AuditLog`: weak fairness of a process's steps in a `log()`, which is synchronous
  code that runs on; strong fairness of taking a lock, since a waiter polls every
  15 ms for a lock that is held for two appends. The 10 s timeout may fire
  (`WaitTimesOut`) and is not counted on: `LogReturns` says that locks come back,
  not that waiting is cut short.
* `SinkLock`: weak fairness of the steps of a program that tries and of the next call
  after a `log()` that timed out (a gateway in use), and the clock runs on while it
  polls (strong: it may be held up briefly between two system calls). A `log()` waits
  10 s and an empty lock counts for 30 s, so one `log()` need not outlive a dead
  owner; a gateway that goes on being called does.
* `AnchorLog`: a calendar call is answered or times out.
* `HttpGateway`: the idle timer fires.
* `ToolCalls`: weak fairness of a call's own steps (`Handle`) while it waits for nothing, or for
  what the connector answers from memory or from the local disk. Of the calls nothing bounds none is assumed to end: `CallsEnd` says that a
  call ends, or comes to wait for such an answer for ever, so that it is never a handler that
  hangs.
* `SideBySide` states no fairness and checks no liveness.

## What is proved

Seven modules of proofs, `AuditLogProofs`, `SinkLockProofs`, `AnchorLogProofs`,
`HttpGatewayProofs`, `ToolCallsProofs`, `SideBySideProofs` (the console, the reconciliation, the
stamps and the evidence) and `MaskingProofs`, and `Least` with a lemma for four of them, prove
with TLAPS and for every value of the constants what the runs show on small instances. Of the
invariants the passing runs check only `MaskedStaysHidden`, `ProtectedNotProbed` and
`PatternsMeanTheSame` are not theorems.

Where a theorem needs more than the assumptions of its module, that is a hypothesis with a
name, and met by the run's instance. Of `DistinctNames`, `NamesAreApart` and
`TextsAsMasked` each run makes sure (`ConfigsHold` of `MCToolCalls`, `HypothesesHold` of `MCSideBySide`).
`WholeAppends` and `FailClosed` are what the cfg of `AuditShared` and of `ToolCalls` sets. `KeysKept`
and `SharersAgree` hold in `MCAuditLog` and the gate's promises in `MCToolCalls`, as TLC finds when
they are added there as assumptions; they are left out because a mutant of a gate or of the trust
store would then be stopped by the assumption and not by the property it is for.

For `AuditLog`, from `AuditLogAssumption` (paths are numbers, no path is an audit sink
and a receipt sink at once, instances are finitely many): `TypeCorrect`,
`LocksBalance`, `AuditIsOneChain`, `ReceiptsAreOneChain`,
`EveryServedAccessIsRecorded`, `NoReceiptWithoutLine`. None of the invariants is
inductive alone. That a line links to the last one needs that the tail in memory is
still the file's when the append happens (`TailsHeld`); that holds because nobody
else appends between reading and appending, which needs that a call past its locks
has all of them (`CallsWellFormed`) and that a lock somebody has for a write is
nobody else's (`LockCountBalanced`); and that a memory is trusted unread only when it
is right needs that a size that matches means a tail that matches (`MemoryCurrent`),
which fails as soon as memory advances before the append. `ChainInv` is their
conjunction. `RecordInv` adds what a call in progress has already put into the files
(`CallsRecorded`). Each action has a lemma of its own.

`EveryServedAccessIsRecorded` says more than that a served access left its lines: they can be
read back, because no later append joins them. `LegibleInv` is what that needs: in a file where
no append left a line without its newline, only the last line can be torn (`TornAtMostLast`),
since whoever is about to append has a whole tail (`AppendsToWhole`). A writer that reads the
tail refuses a torn one; one that trusts its memory must know that a size that matches the
file's means a whole tail (`SizeIsWhole`), which is so because a failed append makes the file
longer than its writer remembers, and nobody else's memory can match either.

`OwnSinksAreAccepted` says that no constructor calls corrupt what the program wrote. It is
not so of a sink with a torn line (`AuditTornBoot`), so `WholeAppends` is a hypothesis: a
failed append leaves nothing behind. The others are the operator's part: `KeysKept`, that a
process with new keys accepts all lines the one before it did and goes on signing, and
`SharersAgree`, that processes which take turns on a sink have keys that fit and keep them.
`AcceptInv` then says of each sink that its lines are whole, that after a line with an HMAC
or a signature come only such lines (`Unbroken`, the contiguity `validateChain` demands), and
that whoever may open it next has keys for what is in it (`Kept`).

For `SinkLock`, from `SinkLockAssumption`: `TypeCorrect` and `OneStarterGetsTheSink`. `BootInv` says what
holds as long as nobody has died or given a lock back: a lock that exists is its maker's, who
lives, and whoever looks at its age finds it young, so that nobody gets to an unlink.

For `AnchorLog`, from `AnchorLogAssumption`: `AnchorInvariant`, `TypeCorrect`,
`WhatWasServedStays`, `OneRowPerSubmission`, `ProofsAreOfEarlierRows`, `StampsConfirmedOnce`,
`InclusionIsProvable`. The first five hold in
spite of the stale appends the violation run shows: the log may become unservable,
but only ever grows, is handed out only while valid, and a stale row still names a row
that is there. `AnchorInv` therefore says of every pass that what it will stamp or
upgrade is a row of the log (`PassOf`). `StampsConfirmedOnce` is of a log that has stayed valid:
of two passes that hold one stamp only the first can append without breaking the chain, which
is what `OnceInv` follows. `InclusionIsProvable` needs no invariant beyond these: the path the
service builds is a prefix of the log, whatever its length.

For `HttpGateway`, from `HttpGatewayAssumption`: `CallersAreThemselves`, `CapOverrunIsBounded`,
`BudgetIsKept` and `TypeCorrect`.
`IndInv` says whom every session and every request under way may speak for, which is somebody
its token has stood for (`Memory`), and that open sessions and requests that will open one
together stay within the bound (`Room`), since a request gets that far only below the cap.
`BudgetIsKept` compares two records of the same hits: `accepted`, which forgets only what is
a window old, and the limiter's own, which is pruned when its client comes back and dropped by
the sweep. What is younger than a window is the same in both (`Limits`), so a budget the
limiter finds unused is unused.

For `ToolCalls`, from `ConfigAssumption`, `RequestAssumption` and `GateAssumption`:
`TypeCorrect`, `NothingClosedIsAsked`, `CapsKept`, `EveryCallIsAccountedFor`,
`EntriesNameWhatWasRead`, `StatementsStayCapped` and `PromiseRefined`, the refinement, of a
`FailClosed` gateway.
`NothingClosedIsAsked` has `GateSound` as a hypothesis, `EntriesNameWhatWasRead` `GateNames` and
`StatementsStayCapped` `GateCaps`; the others hold of any gate. The
inductive invariant is `IndInv`: the policy in use is one of the configuration file's, a
call that waits for a connector waits for a permitted one with an open tool and, if it
describes, permitted tables (`Good`), a call that has something to give already has its
entries (`Said`), and what was asked is within the policy. The policy can only be replaced
by a restart, which ends every call, so what was checked before an `await` still holds
after it: that is `Frame`, which every action's lemma ends in. `EveryCallIsAccountedFor`
needs on top of it what each handler has left in the trail so far (`LinesInv`, of each call
its `Account`): nothing before its first write, one denial after it was refused, one line
per connector it has listed, each of a connector before the one it is at. It has
`DistinctNames` as a hypothesis, which the code does not enforce: of two connectors of one
name the parts of an answer would be one, though `list_tables` writes a line for each.
`Least` proves that a
non-empty set of numbers has a least one, for which the library has only a theorem with an
operator as its parameter.

For `Evidence`, from `EvidenceAssumption` (keys and entries are lists, and the values a caller
can give are what the schema admits): `OneVerdictOfTwo`, `OnlyOursIsAccepted`,
`HonestCopiesVerify` and `CompleteLeavesNoneOut`. `ChainInv` says that a signature found in the
log, the archive, the stamper's memory or a damaged copy is over a digest the gateway wrote,
and that the log's digests link. Acceptance then goes down a file: the last receipt's
signature is valid, so its digest was written; the digest fixes the contents
(`ChainIsHistory`). That the verifiers agree, of what Go reads of each line (`FirstOnEach`), is
shown check by check (`FilesAgree`, `RecordsAgree`): each pair gives the same code or passes,
and where the two orders differ, only the first that fails counts (`FirstAt`). A file with a
line on which they differ fails a check of either, and one with a joined line is refused while
it is loaded. Both hold of any number of faults, of which TLC
tries one.

`HonestCopiesVerify` is the other direction: nothing a gateway writes is refused. `SoundInv`
says that the log is what was written, in its order and well-formed, and that the stamper,
which rewrites the file from what it read before it waited, puts back the same receipts: a
row of the stamped head stays until there is a new head. Every check of both verifiers then
passes. It has two hypotheses: `NamesAreApart`, that two keys of the operator have two names,
without which a verifier looks up the wrong one, and `NoneIsNoRecord`, that the constant
standing for null is not a record. `CompleteLeavesNoneOut` adds `HistoryInv`: what was signed is
numbered from 1, and there is a last of it.

For `Console`, from `FilesAssumption`: `WholeConfigIsServed`. Under whichever name,
what is on disk is missing or has all that the original had and what was saved since (`Whole`).

For `Reconcile`, from `ReconcileAssumption`: `NobodyIsAccusedForAClock` and
`CleanWindowsHaveReceipts`. `ReconInv` ties the three records of one statement together:
statements are numbered apart (`Numbered`), a receipt of one is in the file as it was written
(`Receipted`), and what the counters gained, statements of the window gained: some without,
exactly as many with no reset (`Gained`, `Exact`). No hypothesis says what a text shows or a
receipt names. A table of the gap that is in no receipt of the window is in none of the
statement's own, so that each statement of a reported pattern has no receipt, one outside, or
one that leaves the table out. The other way round, what is counted and not reported has each of
its tables in a receipt of the window; that this is all it reads needs a legible text.

For `Stamps`, from `StampsAssumption` (a calendar's number is not 0): `RowsSayWhatIsSo` and
`RevisionsKeepTheirOrder`, of any number of stampers, of which TLC has one. `StampsInv` says
of every row and every proof, in the sidecar and in the memory of a run, that its attestations
are about its revision and those of blocks true (`RowTrue`, `RunTrue`), and that a message in
a block is about a revision that was there before it. Blocks only come to be, so a run that
slept over any number of other runs still holds what is so. That a row names the first
confirmation needs that there is one (`FirstIsThere`, from `Least`). `OrderInv` holds while no
two runs have overlapped: the sidecar has what was told (`ToldInOrder`), a run that will
append is of a revision no earlier than any told, with a count of rows that still holds
(`NextInOrder`), and what an upgrade has gone through and has yet to go through is, row for
row, the sidecar (`UpgradeInPlace`).

For `Masking`: `LegacyStaysTraced` and `MaskedIsNotShown`, for any number of segments, any
patterns, labels and scan cap, and no span or any one span the core detects. The belt is given
two texts, the field and what the old masker and the patterns made of it, and has to find out
from them alone what was taken away.
`StaysMasked` is the inductive invariant, for each list of patterns: every symbol of the old
masker's text is in the field where it says, in the order it was there (`Traced`), or belongs
to a whole token (`TokensWhole`), or is a space put in after a mark; and what was taken away
contains no token's rest, except PII's in a secret (`RestsShown`). The operator's patterns keep
it too, one by one and over each other's labels (`MatchesReplaced`, `MaskedApplied`). From it:

1. The literals between the tokens can all stand in the field where they stood before, in
   that order, so the belt's two passes both get to the end (`Latest`, `Earliest`), and the gap
   between the earliest end of one literal and the latest start of the next encloses what was
   really taken away (`RoomsEnclose`, `AlignOutputCovers`). A literal found elsewhere as well
   only widens a gap.
2. Aligning within the prefix and suffix the two texts share loses nothing: the edges stop
   at marks and at tokens, and a token the trimming gave up is covered by its own
   span (`AlignTrimmedCovers`, `AlignCovers`).
3. Trimming spans, splitting them at line breaks and dropping labels leave out only blanks
   and labels (`TrimmedKeeps`), which `MaskCovers` excepts; and `Apply` shows no symbol that
   a span of the core or of the belt covers (`ApplyShows`, `FieldHolds`).

`TextsAsMasked` is what the theorems take of the texts: a pattern looks for no blank, no part of a
mark and no token's rest, and its label is a bracket and one symbol that is no letter; hidden
texts and names contain no token's rest, save "pii" in a secret; the core's tokens are built-in
ones. Of texts and patterns beyond it nothing is proved. A text in the model is a sequence of symbols, not of characters, and a label of two symbols
stands for any bracketed one. Of the operators involved, those that go along a text
(`TokenStarts`, `Latest`, `Earliest`, `ApplyRules`) are recursive functions, and facts about
them are shown by the least place where they would fail.

Only model-checked:

* `LogReturns`, `DeadOwnerIsOutlived`, `PassesEnd`, `IdleSessionsGo`, `CallsEnd`: liveness under
  fairness is out of the prover's reach.
* `MaskedStaysHidden`, `ProtectedNotProbed` (`Columns`), `PatternsMeanTheSame` (`Patterns`):
  recursive operators over syntax trees and regular expressions. So are the gates of `SqlGate`,
  which is why their promises are hypotheses.

## Seen while modelling, without a run of their own

* Two upgrade passes at a time both append for one stamp (`anchor-service.ts:578`),
  which also leaves the log unservable.
* An upgrade row says `bitcoin` whenever a calendar returned anything to merge, with
  or without a block (`anchor-service.ts:93-101`, `ots/client.ts:50-79`). A submission's
  public view never says it: `latestView` looks for upgrades of the submission's own seq,
  and only stamps are upgraded.
* A line that lacks only its newline swallows the next one (`audit.ts:606`), with `failClosed`
  on too: the call whose append failed throws, `getLastHash` takes what it left for a whole
  last line, and the next call's line is joined to it while its caller is told it is recorded.
  `ServedIsRecorded` has such files as its exception (`NoBareLine`).
* An owner is known by its pid (`audit.ts:295`): with pid namespaces two live owners
  can look like one.
* A receipt tail that does not parse throws whatever `failClosed` says (`audit.ts:645`),
  and the constructor reads it without that sink's lock (`audit.ts:457`).
* A session keeps the person its token stood for when it was opened, also after the
  token is given to somebody else (`http.ts:307`).
* The schema resource's entries are written without the session's actor and profile, though
  `server.ts:143-146` says they go into every line; it leaves no entry when the connector is
  unknown or fails (`server.ts`, `readGovernedSchemaResource`).
* `list_tables` whose second connector fails is answered with an error while the first
  one's entry says allowed: `EveryCallLeavesItsLines` has that as its exception.
* The connector of the type `supabase` says that it can search and passes the search on to
  one that always throws (`connectors/zion.ts`).
* An executor that throws the demo's `Column not found`, or an API's 404, is taken for a
  missing table (`table-unavailable.ts`).
* `truncated` is never true of a query whose statement was wrapped: LIMIT is the cap itself
  (`server.ts:445`).
* The walks of `governance.ts` have a WITH's names in scope for its own bindings, look at no
  VALUES list, no DISTINCT ON and no LIMIT or OFFSET expression (what `Walked` leaves out), match
  a union's outputs by name, and never see that a derived table has a star.
* A call of a connector without a timeout that is never answered is never recorded either
  (`postgres.ts:68`, `supabase_rest.ts:67`, `custom-sql.ts:77`).
* Reconciliation reports a statement whose receipt names nothing as run without one and says
  that this is not definitive (`conarium-reconcile.mjs:226`); it compares names without their
  schemas, and takes the column of `EXTRACT(month FROM placed)` for a table.
* Between `rmSync` and the second rename on Windows there is no configuration file; a
  gateway that starts then has no connector, and the next POST /api/config writes a file with
  a policy only, which does not parse (`console.ts:80-89`, `server.ts:41-56`).
* The console accepts blank names that the gateway's schema refuses, so a configuration it
  saved may not boot (`console.ts:32-36`, `config.ts:10`). An operator's edit between its read
  and its rename is lost.
* `stampDemoHead` after the head moved replaces the one row of the sidecar, while the old
  head keeps its anchor field: `--anchor-check` then exits with 14.
* `--anchor-check` counts as a pin of the tail although receipts before the head may be what
  is anchored (`conarium-verify.mjs:162`); `--require-head-anchor` is what pins it.
* A declaration with its window pinned over a file that lost its beginning ends in exit code
  30, not 12 (`conarium-coverage.mjs`); its signature check takes base64 that is not canonical
  and calls a wrong hash a bad signature.
* A UNION of a protected column with itself passes (`protected-columns.ts:151`) and takes doubles
  out, as the DISTINCT does that is refused because it tells how many values there are and which
  rows share one (`protected-columns.ts:190`); the header has the walk decide "whether the
  statement is allowed to ask the database about a protected value at all".
* Reconciliation looks at one name after each FROM and drops those before AS (: of
  `FROM orders, wages` the second is read and cleared without a receipt, in spite of "it is never
  silently cleared" (`conarium-reconcile.mjs:130-132`, 147). `CleanMeansReceipted` promises all
  that is read only of texts that are `Legible`.
* The verifiers differ, although `verify.go:2` says that exit codes match. Go reads the first JSON
  document of a line and ignores what follows (`verify.go:302`), so that a file whose last line
  is joined has lost a receipt and passes, where the other exits with 20 (`VerifiersAgree` says
  exactly that of joined lines). Go takes a model or client without its fields, any 64
  characters as a hash and an empty `prevHash`; it finds an upper-case digest wrong only
  later, and refuses a line that is no object while loading where the other does so in its turn;
  lines of blanks it skips where the other exits with 20; it knows no anchor flags (exit 2);
  argument errors of a countersign check are 2 in one and 20 in the other; an inclusion file
  that says `null` is accepted by `conarium-countersign-verify.mjs` and refused with 14 by Go;
  of several `--pubkey` the former uses the last only; Go walks subdirectories, ignores the
  case of extensions and takes signed numbers for `--expect-count`; the JavaScript verifier
  takes the PEM of a private key as `--pubkey`.
* Without a declared skew any distance of a receipt explains a missing one; a reset of the
  counters followed by enough calls is not noticed (`conarium-reconcile.mjs`).
* `conarium-stamp`'s header promises exit code 20 for bad input, the code exits with 2.
* Two runs of `conarium-stamp` at once give one seq to two stamps, and a stamp appended
  during an upgrade is lost from the sidecar; `RevisionsInOrder` speaks of runs that do not
  overlap.
* A calendar's answer below a node that has attestations is never asked further
  (`nodesWithAttestations`), and pending attestations are repeated with each upgrade.
* `AnchorScheduler` of `src/anchor.ts` resets its counter after its `await`; nothing but
  tests uses it.

## Plan

What comes next, in this order; the runs are as many as they should be, so new parts
would join `SideBySide` or replace a property that says less.

1. `ToolCalls` composed with `AuditLog`'s `log()` instead of `Outcomes`.
2. An abstract mutex for `SinkLock`, an append-only log for `AnchorLog`: refinements.
3. Handoff and login of the console, the anchor service's token reload.
4. Unions whose outputs have other names, ORDER BY an output, outer references in `Columns`.

## Not modelled, and why

* Detectors, checksums and normalisation of personal data (`src/mask/detectors/`,
  `src/tckn.ts`, `src/iban.ts`, `src/mask/speech.ts` ...): regular expressions over text; what
  they find is data of `Masking`.
* The parsers of SQL, the MCP transport, databases, SHA-256 and Ed25519: external; the first
  three are given by how the code uses them, the last two taken as ideal.
* The checks of an OpenAPI document's addresses, HTTP of the connectors, rendering of pages
  and reports, launchers, shortcuts, notices: I/O without state.
* `bin/conarium-doctor.mjs`, `init`, `suggest-policy`, `docker-entry`, `update-check`,
  `license`: one-shot commands over files and terminals.
* Pseudonyms (`src/pseudonymize.ts`) and the split TCKN of a row: data.
