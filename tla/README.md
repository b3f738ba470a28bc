# TLA+ verification of XPanel

XPanel manages the users of one Xray node. Every user has an own Shadowsocks
inbound on an own port. SQLite is the only authority; what Xray runs is a
projection of it. A change commits rows and a *synchronization intent* in one
transaction, and a worker later carries the intent into Xray. This directory
models that machinery and what surrounds it (metering, quota cycles, the
capability gate, drift removal, repeated forms, sessions), model-checks it with
TLC and proves with TLAPS what the store, the synchronizer's calls, the meter,
the quota cycles, the gate, drift removal, forms and sessions promise, for every
number of users, requests and faults.

## The system

| Part | State | Operations | Interacts through |
|---|---|---|---|
| Intent store (`internal/persistence/sqlite`) | users, allocations (desired/synced revision, projection state), dedicated inbounds (port, released), credentials, open quota cycle, synchronization operations | the transactions: create, update, change port, rotate, delete, reset, rollover, traffic batch, lease, renew, confirm, reschedule, fail, observe, enqueue reconcile | one write connection, so transactions are serial |
| User service (`internal/application/user_service.go`) | none between calls | reads a user, builds the new rows and the operation, commits | HTTP handlers, concurrently |
| Quota service, scheduler | none | settles ended cycles | store |
| Traffic collector | targets of the round, counter baselines in the store | reads counters from Xray, commits a batch | store, Xray |
| Synchronizer (`internal/worker/synchronizer.go`) | the leased operation and the rows it loaded | lease, fence, Xray calls, verdict; drift removals | store, Xray, `node` mutex |
| Reconciler (`internal/application/reconciliation_service.go`) | snapshot of all users for the round | observe, enqueue intents and drift removals, advance the capability generation | store, Xray, `node` mutex |
| Xray adapter (`internal/adapter/xray`) | none | calls, port probe, last-client guard, error classes | Xray's gRPC API |
| Drift removal (`store_drift.go`, `synchronizer.go`) | `drift_removals`: unknown clients and inbounds and their state | enqueue, supersede, lease, remove, read back, complete, reschedule, fail, requeue | reconciler, synchronizer, template edits |
| Templates, capability gate, validator (`template_service.go`, `store_templates.go`, `validator.go`) | templates with verdict and evidence, the capability generation | register, edit, validate, invalidate, archive | store, Xray, `node` mutex, a channel of 64 requests |
| Sessions (`auth_service.go`, `sessions.go`) | administrator row, session rows; login throttle in memory | log in, load, refresh, log out, reset the password | HTTP requests, the `reset-password` command |
| Commands (`domain_commands`, the handlers' forms) | request identifier and fingerprint of every form that took effect | find, compare, save with the change | every form of the web pages |
| Settings, dashboard, audit, web pages | settings, audit rows | edit, read | store |

All of it is one process (`cmd/xpanel/main.go`): a synchronizer, a reconciler,
a validator, a collector and a scheduler goroutine, and the HTTP handlers. A
file lock keeps a second process out, the `reset-password` command included.

What is hard here: handlers, the collector and the reconciler act on rows they
read before their transaction; a worker acts on rows it read after its lease;
a lease can run out under its holder; a call to Xray can fail with or without
having taken effect; Xray forgets every runtime inbound when it restarts;
`AddInbound` is not atomic; the panel can die between any two steps. What must
hold nevertheless is that the newest intent says what the rows say, that what
the panel shows as done is done, that no inbound is without a managed client,
that ports and keys are neither shared nor lost, and that Xray comes to match
the rows. `PROJECT.json` lists the hazards at their lines.

## Modules

### IntentStore

The rows of every user (`db`), and the snapshots that actors hold between two
transactions: `req` (HTTP requests), `seen` (the reconciler's round), `work`
(leased operations), `targets` (the collector's round). One action is one
transaction, or one read that an actor keeps.

| TLA+ | Code |
|---|---|
| `Begin…` / `Commit…` | the service method up to the transaction / the store method |
| `UpdateUser` | `UpdateUser`, `SetAdminEnabled`: everything is re-read in the transaction, so it is one action |
| `ApplyDecision`, `Settled`, `Metered` | `DecideTransition` + `applyDecision`, `settleCycles`, one update of `CommitTrafficBatch` |
| `CommitIntent` | `supersedeOlder`, `insertOperation`, the allocation's new revision |
| `ReadForReconcile`, `RecordObservation`, `EnqueueReconcile` | the loop of `ReconcileOnce` |
| `LeaseDue`, `LoadWork`, `RenewSyncLease`, `ConfirmSync`, `RescheduleSync`, `FailSync` | the methods of those names; `LoadWork` is the read after the lease's transaction |
| `RejectRequest`, `Abandon`, `DropBatch`, `SkipReconcile`, `Restart` | conflicts and SQL errors, and a crash at any point |

Data are abstracted: keys are version numbers, traffic is counted in units, a
limit of 0 stands for NULL, time appears as "the lease ran out" and "the cycle
ended". `LeaseDue` does not look at the template's compatibility: it may take
any due operation, which only adds behaviours. Several lease owners are
allowed, more than the one that `main` starts, because the store's fencing is
written for them.

### Projection

Extends IntentStore with Xray's inbounds (`xray`: tag, port, listening, key of
the managed client, the rotation's safety client), the node mutex (`node`),
the synchronizer's next call (`call`) and a budget of `faults`. Each remote
call of `handle`, `createDedicatedInbound` and `rotateWithinInbound` is an
action that is answered or fails; a failing call other than a rejected one may
have taken effect. A call that timed out may also be on its way still (`late`)
and take effect at any later moment, between two calls of the next attempt,
after a later intent was confirmed or after the user was deleted
(`LateCallArrives`); a restart of Xray ends it. The fence before a call is part of its action: the call
reads nothing from SQLite and a commit reads nothing from Xray. A failing
fence is `DropWork`. The verdict (`EndWork`) is IntentStore's `ConfirmSync`,
`RescheduleSync` or `FailSync`. Where the code makes several calls behind one
fence (listing and compensating removal), they are one action with all
combined outcomes.

What a late call does the panel cannot prevent, only repair: the reconciler
finds the difference in its next round, and drift removal takes away what no
row wants. An inbound that a late call created or changed is therefore marked
(the history field `late`), and `ManagedClientAlways`, `AbsentMeansGone`,
`RotationLeavesNewKey`, `NoSharedListener` and `ServesDesiredKey` are about
the inbounds that are not marked (`Prompt`), those of the same user before and
after it included. The synchronizer does not see the mark.

A creation takes two steps, as in the code: `ChoosePort` picks a port that is
free when the service looks, `CreateUser` commits if it still is, and the
unique index refuses it otherwise (`RejectCreation`). Every other HTTP request
is one action here. IntentStore justifies that: by `SnapshotsCurrent` a request
that still commits saw the rows it commits to.
`ProbeSees` says whether the adapter's TCP probe meets Xray's own listener: it
does on TCP templates, not on UDP-only ones. Attempts are not counted: an
internal error may be retried or be final.

Xray is external. What its calls do is taken from how the adapter and the
synchronizer use them and from the repository's measurements (R-002, R-003).

### TrafficMeter

Stands alone: the collector's round against Xray's counters. Xray is a process
number, a start time, an uptime and counters that a restart clears; a second of
the clock and a second of uptime begin in turn, which gives the rounding of the
computed start time its real shape. A round is `BeginRound` (the targets),
then for each batch `Probe` and one `ReadCounter` per counter, then `Commit`
(`buildUpdate` and `CommitTrafficBatch`); `DropRound` is a failing call, a
failing transaction or a crash. Traffic, restarts, clock corrections and the
synchronizer's changes of who is present may come between any two. `Delta`,
`RestartConfirmed`, `Mismatch` and `NewCursor` are `ApplySample`,
`RestartConfirmed`, `observationMismatch` and the end of `buildUpdate`.

Two history variables judge the result: `ideal` is a meter that knows which
process each committed sample comes from, and `half` remembers users of whom a
round found one direction alone. Sums per day and per cycle take the same
increments as the total and are left out with the continuity events.

### AccessRegister and IntentRefinement

AccessRegister is the abstract specification of the intent store: per user one
entry, with what is wanted (may it connect, with which key, on which port),
whether that wish is settled, open or given up, and the key last confirmed. It
knows no operations, leases, revisions, snapshots or retries. A wish is settled
as it stands or not at all. IntentRefinement instantiates it with what the user
page shows of a row (`Entry`): the projection state is mapped to `settled`,
`pending` or `failed`, a released port to 0. `ImplementsRegister` says that
every transaction is one step of the register or invisible in it; it is
model-checked by StaleRequests and proved.

### Capability

The gate in front of `CreateUser`. State: the running Xray process, the
instance row (generation and start time it stands for), the template rows, the
holder of the node mutex (`run`: the reconciler's round or the validator), the
collector's round, an edit and a creation under way, the validator's channel.
`BeginRound`, `ListNode`, `AdvanceForRound`, `InvalidateStale` and `Revalidate`
are the part of `ReconcileOnce` that advances the generation; `ValidationProbe`,
`ValidateTemplate`, `BindGeneration` and `CompleteTemplateValidation` are
`RunValidation`, run by either; the collector applies its observation outside the
mutex; edits and creations read, then commit. A template's port pool may be
exhausted (`full`) and have a free port again; while it is, `RunValidation`
cannot probe and says unverified. The start time is derived from
whole seconds of uptime and wavers by one. History fields record which process
and which settings a verdict was really obtained with.

### Drift

What is in Xray and should not be: clients in a user's inbound that are not
his, and inbounds of the namespace that no row knows. The reconciler's round
lists tags and clients and writes removals, supersedes those whose target is
gone and requeues failed ones; the synchronizer leases and executes them
between the intents of the same users, whose calls are reduced to those that
meet a removal (create, remove, rotate by safety client). `UpdateTemplate`
refuses a change of method or listen address while a removal or an inbound of
the template is outstanding. Of the calls past their deadline only a
`CreateInbound` takes effect late here, the one that leaves something behind
that no row wants; Projection has all of them. Upsets: failing calls with and without effect, a
`CreateInbound` that takes effect after its timeout, restarts of both
processes, other clients of Xray's API, an incompatible template, a rotation,
an edit.

### Sessions

Login, the session middleware, logout, `reset-password` and restarts. A request
is a sequence of steps (load, check, handle, save) and two of them interleave.
The scs session manager is external: it keeps a deadline in the session's data
and asks the store for `min(deadline, now + idle)` on every commit. The store's
`Commit` never revives a revoked row and never extends past the absolute limit.
`sqlite.Open` takes the lock file, so the command that resets the password runs
only while the panel is stopped; the sessions survive, the throttle does not.
The throttle keeps the times of its attempts in order and drops the leading
ones that are too old. Hashing is the comparison of a password number.

### Commands

Forms and their repetition. A page carries a request identifier and a version;
a submission is looked up, checked and committed in separate steps, and two of
them interleave, of the same or of different forms. A fingerprint binds the
identifier to session and payload. The create, versioned and reset forms look
up the command at different places, which is what the model keeps. The answer
may be lost, the panel may stop at any point, and other actors edit the user,
end its cycle or close the gate.

### Cycles

The calendar arithmetic: `time.Date` and `AddDate` as Go defines them (a wall
clock read as UTC and corrected once), `CycleBounds`, `settleCycles` over any
number of missed boundaries, `initialCycleBounds`, changes of the reset day and
of the zone. The calendar is scaled: days of three ticks, months of four and
three days, zones as sequences of offsets. The reference is the set of
midnights of the reset day. `Cross` is one turn of the loop of `settleCycles`
and `Settle` the loop: there is at most one boundary per tick, so `MaxTime + 1`
turns are as many as it can take.

`ZonesAssumption` says which zones the panel can be in: the midnight of a reset
day falls into its month, and the local clock never returns to an earlier
month. It excludes clocks that are put back over the first midnight of a month,
and, behind UTC, clocks that are put forward over it; there a cycle would have
to end where it starts (see "Met while modelling").

### Proof and MC modules

`IntentStore_proofs` (which includes the refinement), `Projection_proofs`,
`TrafficMeter_proofs`, `Capability_proofs`, `Drift_proofs`, `Sessions_proofs`,
`Commands_proofs` and `Cycles_proofs` hold the proofs; see below.
The MC modules add symmetry sets and, for Cycles, the zones and the assumption
that TLC evaluates `WholeFirstCycles`. Operators marked
"Seeded fault" are the mutants that show each property can fail.

### How the modules fit together

IntentStore holds the rows that the others are about. Projection extends it
with Xray. Drift uses the same intents reduced to the newest one of each user,
which `LatestIntentOnly` justifies. Capability gives the verdict that Drift and
Commands see as a bit (`incompatible`, `gate`). Cycles gives the boundaries
that IntentStore sees as "the cycle ended". TrafficMeter gives the increments
that IntentStore sees as units of a batch. Commands decides which submissions
reach the transactions of IntentStore, and Sessions who may submit.

## Runs

Deadlock is not checked: every model stops when its bounds are used up, and
the system may rest when nobody asks for anything.

| Run | Instance | Properties | Shows |
|---|---|---|---|
| StaleRequests | 1 user, 2 ports, limits {none, 1}, 1 handler, 1 worker, 3 revisions | `TypeOK`, `SnapshotsCurrent`, `IntentMatchesFacts`, `QuotaCurrent`, `LatestIntentOnly`, `ProjectionHonest`, `KeysUsable`, `PortReleasedOnConfirm`, `KeysDestroyedOnConfirm`, `ImplementsRegister` | stale handlers, batches, rollovers, rounds and late results never corrupt the newest intent, keys or ports; the store implements the register |
| Calls | 2 users, 2 ports, TCP, 1 creation at a time, 3 revisions, eight of the ten faults (no restart of Xray, no unreachable node), at most 2 | `ProjectionTypeOK`, `ManagedClientAlways`, `AbsentMeansGone`, `RotationLeavesNewKey`, `NoSharedListener`, `PortsExclusive` | every call failing in every way, late effects included; a freed port is not used while its old inbound listens; a port taken after it was chosen is refused |
| Convergence | 1 user, 1 port, TCP, 6 revisions, 2 faults, fair | `ServesDesiredKey`, `Converges` | Xray comes to match the rows |
| Meter | 1 user, 2 processes, interval 2, the clock set back once, aggregates of at most 2 | `MeterTypeOK`, `NeverTwice` | no byte counted twice, no sum out of range |
| MeterBatches | 2 users in 2 batches, 2 processes more than an interval apart, a restart between batches | `NeverTwice`, `NothingLost` | a round never mixes processes; every sampled byte is counted |
| Capability | 1 template, 2 processes 3 s apart, 1 edit, creation, fault or exhausted pool, fair | `NoStaleEvidence`, `VerdictFitsContract`, `AdmittedByOpenGate`, `Settles` | the gate opens only on evidence of the right process and settings; every template with a free port gets a verdict |
| Drift | 1 user, 1 orphan, any 3 of 11 upsets, fair | `DriftTypeOK`, `NeverLeftToStrangers`, `ContractStaysWithInbounds`, `Cleans` | strangers are removed, and no inbound is left to them meanwhile |
| Sessions | 2 requests, 2 tokens, limits 1 and 2, idle 1, lifetime 2, window 1, time 2, 2 passwords | `RevokedForGood`, `CurrentPasswordOnly`, `NeverPastDeadline`, `AuditTellsSessions`, `ThrottleHolds` | revocation is final against requests under way; deadlines, audit and throttle hold |
| Commands | 2 submissions at a time, 2 sessions, 4 forms (create, edit, delete, reset) | `TakesEffectOnce`, `AcknowledgedIsApplied`, `RetryIsAnswered` | a form takes effect once, success is reported only for what took effect |
| Cycles | 4 zones, reset days 1 to 3, six scaled months, 1 change | `OpenCycleHoldsNow`, `EndsAtNextBoundary` | no month skipped or counted twice |
| OldKey, LockedTemplate | small | one each, violated | the disagreements below |

Bounds. One user is enough for everything but ports: transactions touch one
user, except the batch, whose updates are independent. Three revisions let an
intent be superseded while it is leased and again before its result arrives,
which is as far as the code distinguishes. A lease that runs out can be
reclaimed by the same worker after a restart, and the proofs cover any number
of workers. Two faults let a call fail and its compensation fail too, or time
out and arrive late beside another fault. Calls leaves the restarts of Xray, which
only take inbounds away, and the unreachable node to Convergence; the instance
with all ten faults passes as well (2.2 million states) but takes twice as long.
In Calls the port of the one creation under way is taken by a port change; two
creations that choose the same port are beyond TLC's reach here and left to
`ProjectionPortsExclusive`, which holds for any number of handlers. In
Convergence the revisions cover the creation, three requests and a reconcile
intent for each of two restarts, so the bound never blocks the reconciler and
`Converges` needs no exemption.

TrafficMeter: two processes are enough for a restart, and a second user for a
second batch. The passing runs leave out restarts between a probe and its
reads and failing probes, which break `NeverTwice` (see below). Meter has an
interval of two seconds because the clock's correction and the rounding
together may move the start time by two; MeterBatches keeps a process running
for three seconds, since a process younger than the rounding cannot be told
from its predecessor. `NothingLost` asks for restarts more than an interval
apart: closer ones are, by design, not confirmed and their first bytes not
counted.

Capability: processes start three seconds apart, more than the threshold of
two by which the store tells them apart; eight generations are more than the
observations of two processes can use up. Drift: three upsets let a stranger
appear, its removal fail and a rotation or a restart come in between. Sessions:
two requests are one that revokes and one that is under way; time 2 passes the
idle limit and then the lifetime. Commands: a session stands for whatever
makes two fingerprints differ, so one payload is enough. Cycles: six months
with any number of them slept through; zones ahead of and behind UTC and two
whose clocks jump over a midnight. The user is created within the first 21 ticks
(`MaxCreation`), two months and before the last zone's first cycle goes
wrong at tick 24 (see "Met while modelling").

The types of Capability, Sessions, Commands and Cycles are stated in their
modules and not among the properties of the runs.

### Fairness

Convergence (`FairProjectionSpec`): the goroutines run and calls return because
they have deadlines; a due operation gets its turn (`ORDER BY
next_attempt_at`, backoff), hence strong fairness per user; Go's mutex does
not starve a waiter, hence strong fairness of `TakeNode` and `BeginRound`; a
lease that nobody holds runs out. No administrator has to act and no fault has
to happen; faults are bounded, which is what "once they stop" means.
Convergence leaves out `rejected`, `internal`, `bind` and `late`: the first two
may end in `permanent_failed`, which only an administrator resolves; `bind` is
the subject of `ConfirmedListens`. A late call can end in `permanent_failed`
too, when a late `RemoveUser` takes the safety client out between the listing
and the next call of a resumed rotation, so that the guard of the last managed
client refuses it; and an inbound that comes back after its deleted user's
removal was confirmed is the business of drift removal (`Cleans`).

Capability: whoever holds the mutex goes on (weak fairness); the reconciler's
ticker and the validator get the mutex (strong fairness of `BeginRound`, and of
`ValidateNow` per template). Nothing is asked of the collector, of
administrators or of the channel, which may drop a request. Nothing makes
anybody free a port either: `Settles` is about templates whose pool, from some
moment on, always has a free port. A template whose pool stays exhausted is
marked unverified by every sweep and is never judged (`template_service.go:233`).

Drift: work under way goes on (weak fairness); the synchronizer and the
reconciler get the mutex, and every due removal and every due intent is leased
in its turn (strong fairness per row and per user).

Convergence also shows on what the desired key rests: after a rotation that
was superseded, the create path only gets rid of the old key because the
probe meets the old inbound's own listener and the code then removes it (the
mutant without the probe breaks `ServesDesiredKey`).

### Disagreements found

With a run of their own; the documentation is quoted in `PROJECT.json`,
"findings":

* **OldKey**: after `existing tag found` an inbound is accepted because it
  carries the user's client, whatever key that client has.
* **LockedTemplate**: a removal that was queued before its user was deleted
  can never be confirmed once the port is released, fails again every round
  and keeps the template's method and listen address frozen for ever.

Seen with a changed instance of another run:

* `ServesAssignedPort` fails in the instance of OldKey: a port change that
  another intent supersedes before it is handled is confirmed with the inbound
  still on the old port.
* `ConfirmedListens` fails in the instance of Calls: the acceptance of OldKey
  also confirms a tag that a failed bind left behind and that does not listen
  (`contracts/xray-adapter.md` of spec 002 wants it removed first).
* `NoPermanentFailure` fails in the instance of OldKey with `Faults =
  {"timeout"}` and `MaxFaults = 2`: when the read-back after `existing tag
  found` times out, the operation fails permanently.
* `NoSharedListener` fails in the instance of Calls with `ProbeSees = FALSE`,
  a UDP-only template: a port change frees the old port at once and nothing
  stops a second inbound on it, against the comment at `store_sync.go:205`.
* `AbsentMeansGone` and `NoSharedListener` fail in the instance of Calls when
  `Prompt(x)` is just `x.tag`: an `AddInbound` that arrives after its deadline
  brings the inbound of a deleted user back, after its removal was confirmed,
  and it listens on a port that may have been given to another user by then. A
  read-back after a timeout may also take an earlier late inbound for its own
  (`synchronizer.go:365` looks at the tag alone).
* `NeverTwice` fails in the instance of Meter with `ProbeMayFail = TRUE`
  (rounds whose probe fails after a restart count the growth of the new
  process's counters, and the first round with a probe counts it again) and
  with `RestartStages = {"read"}` (new counters are paired with the old start
  time).
* `ReappearedCounted` fails in the instance of MeterBatches: after a restart
  a user's first connection may fall between the reads of its two directions;
  the start time is then taken over with one direction, and the other one is
  compared with the old process's counter, which the comment at
  `traffic_service.go:276` wants to avoid.

Met while modelling and stated here only:

* The vanished-inbounds signal (`reconciliation_service.go:102`) is meant to
  be an edge. Users of an incompatible template are skipped at `:187`, their
  `observed_present` stays true, and `:121` fires every round.
* `CreateUser` makes the key for the method it read before its transaction; an
  edit of a template without users may change the method in between, which the
  guard of `UpdateTemplate` (`store_templates.go:122`) does not see.
* A late observation advances the generation without a restart, and a process
  that lived for less than two seconds is not told from its successor
  (`store_templates.go:352`); Capability lets the first happen and keeps
  processes apart by `Gap`, which excludes the second.
* A resumed rotation whose `ListUsers` is rejected fails permanently
  (`synchronizer.go:550`).
* Two concurrent submissions of one versioned form: the second one gets a
  conflict, where `contracts/http.md:19` wants the first answer. `CreateUser`
  has no look-up before its gates (`user_service.go:48`), so a retry can be
  refused by a gate that closed since; a retried traffic reset is refused
  after a deletion. `RetryIsAnswered` is therefore about versioned forms and
  retries that begin after the first attempt committed.
* The login throttle is exceeded by concurrent attempts, by at most the number
  of requests under way (`ThrottleHolds`), and is lost on a restart.
* `initialCycleBounds` uses `AddDate` (`user_service.go:178`), which keeps the
  hour to which a skipped midnight was moved, so a first cycle may end an hour
  off; this is why `EndsAtNextBoundary` says where the later ones end. In a
  zone behind UTC whose clock is put forward over the reset midnight of the
  month before, it ends an hour early, and a user created in that hour gets a
  cycle that is over; the next rollover heals it. With `MaxCreation = MaxTime`
  TLC refutes `OpenCycleHoldsNow` this way: in the last zone of MCCycles, with
  reset day 2, a user created at tick 24 gets the cycle from 16 to 24.
* In a zone behind UTC whose clock jumps over the midnight of the 1st, with
  reset day 1, `settleCycles` computes an end equal to the start and fails for
  good; `ZonesAssumption` excludes it.

## Proofs

Every theorem is about all values of the constants that satisfy the named
assumptions of its module: any number of users, ports, handlers, requests,
templates and submissions, any bound, any selection of faults. A theorem that
needs more of the constants says so with ASSUME, and below. TLC checked each
inductive invariant on the instance of the component's run before it was
proved.

### The store

The assumptions are those of IntentStore: ports and limits are naturals, a
port is not 0, "none" values are outside their sets, the revision bound is
positive.

`IntentStore_proofs` proves `TypeOK`, `LatestIntentOnly`,
`IntentMatchesFacts`, `ProjectionHonest`, `QuotaCurrent`, `KeysUsable` and
`SnapshotsCurrent`. None of these is inductive alone. That an intent built from
a snapshot is right needs the snapshot to be current; that a compare-and-set on
revisions is enough for this needs gap-free numbering; that a confirmation
leaves the keys sound needs the loaded key version to be the desired one. The
inductive invariant `IInv` is their conjunction, with two additions: a key's
version never exceeds the revision, and whatever an actor holds names an
existing row. The proof is in two layers. On records: every operation that a
transaction is made of (`CommitIntent`, `ApplyDecision`, `Settled`, `Metered`,
`ChangedPort`, `Rotated`, `SoftDeleted`, `Observed`, `Confirmed`, `Unfinished`)
takes a sound record to a sound record and either raises the revision or keeps
presence and key. On states: a step that changes one user's record in that way
keeps every snapshot current (`Preserved`), and each action is such a step.

The second half of the module builds on `IInv`. `NextShape` classifies every
step: it switches any number of users on or off (a batch, a rollover, or nothing
at all), or it changes one user's row by one of those operations. From the
classification follow

* `RegisterImplemented`: the initial rows map to an empty register, and every
  class of steps is a step of AccessRegister or a stutter (`StepRefines`).
  A confirmation needs `SnapshotsCurrent` here: it settles the wish that stands;
* `KeysDestroyedOnConfirmHolds` and `PortReleasedOnConfirmHolds`, the action
  properties;
* `PortsExclusiveHolds`, with the auxiliary invariant that every request asks
  for a port of the pool (`AskedPorts`).

### The calls to Xray

`Projection_proofs` takes the store's part, `IInv`, from `IntentStore_proofs`
and proves `ProjectionTypeOK`, `ManagedClientAlways`, `AbsentMeansGone`,
`RotationLeavesNewKey` and `NoSharedListener`. What a confirmation says of
Xray follows from where the synchronizer stands in its path of calls, so the
invariant `ProjInv` adds an account of each call (`PathOK`, `RotationPath`):
removals are on the path of absent users only; before the new key is added the
inbound has no key; what the safety client's removal and the read-back find is
the new key or nothing. `WorkSound` ties the work to its row and `Kept` says
what a confirmed intent implies for the inbound.

Two classes of steps carry the proof. A transaction that confirms nothing is
`Quiet`: it keeps the reasons of known intents, releases no port, and an intent
that is confirmed afterwards was confirmed before, with the same content. A
call lands (`Lands`) in a state that the account allows; here the fence matters,
because it makes the loaded key the desired one and keeps a released port away
from the create path. `EndWork` is the one step that turns the account into a
confirmation. The added assumption is that there is one synchronizer
(`OneSynchronizer`). An inbound that a late call has touched stays marked until
it is removed, so a late arrival keeps the account of every inbound that is not
(`Sent`, `Reached`). `NoSharedListenerHolds` is conditional on `ProbeSees`: on
UDP-only templates the property is false (see above).

`ProjectionShape` says of every step of the projection, remote calls, faults and
requests included, that for the rows it is one of the store's steps as
`NextShape` classifies them. Hence `ProjectionPortsExclusive` and
`ProjectionImplementsRegister`: what the store's theorems say of requests in two
steps holds of the whole.

`ServesDesiredKeyHolds` proves `ServesDesiredKey`, with `ServesAssignedPort` and
`ConfirmedListens`, of behaviours in which no port is changed (`PortChange`),
where the probe sees Xray's listeners and no bind fails after it. OldKey and the
list above show that it is false without these hypotheses: each of the three
events lets an inbound with an old key or on an old port, or one that does not
listen, be taken for the one just created. The theorem says that nothing else does:
no timeout, lost answer, restart, superseded or resumed rotation, in any number.
Its invariant `KeyInv` is that a registered inbound listens on its user's port
(`InboundsInPlace`). A creation over an inbound that is there therefore finds the
port occupied, and the code removes that inbound and tries again;
`existing tag found` is never answered, and what a read-back finds is the inbound
just created (`CreationSound`). Late calls do not change that, because a marked
inbound is exempt and a removal ends the mark. Together with `WorkSound` and `Kept` this gives
the key behind every confirmation (`KeysServed`). Convergence, whose instance has
one port and no `bind`, satisfies the hypotheses.

### The traffic meter

`TrafficMeter_proofs` proves `MeterTypeOK` from the module's assumptions alone:
`MeterSound` adds the shape of a round in each stage and that no counter
exceeds what was sent.

`NeverTwice` is proved from `Steady`: probes answer, Xray does not restart
between a probe and its reads (without either, TLC refutes it, see above), and
the interval is at least what rounding and clock corrections may move the
computed start time of one process by. A round of several batches can move it
by one second more at each end, if processes are so short-lived that two of
them pass `observationMismatch` in one round; `Slack` is that second, and 0
where the round has one batch or `MinUptime >= MaxSkew + 3`. The inductive
invariant `OnceInv` accounts for what lies between Xray and the total: the
ideal meter is never ahead of the counter (`CounterSound`), the cursor holds
what the ideal meter last saw and, while that process runs, a start time near
its own (`CursorSound`), every read is of the running process or has been
placed by the round's first observation (`ReadsSound`), and that observation is
of the process of the first read (`ObservationsSound`).

`NothingLost` is proved from `Sparse`: besides, processes run longer than an
interval plus those errors, and the columns can hold all that is ever sent.
`LossInv` adds to `OnceInv` that the ideal meter, the counters and the reads
under way never add up to more than was sent (`LedgerSound`), so that
`AddDelta` drops nothing, and that the stored start time of a process that is
gone is more than an interval before the one the round observed (`EpochsApart`,
`ReadsApart`), so that `RestartConfirmed` confirms every restart. Together the
two theorems say that a total is exactly what a meter that knows the process
would show. Meter satisfies `Steady` and MeterBatches both hypotheses.

### Quota cycles

`Cycles_proofs` is about every calendar, every set of reset days that all months
have and every set of zones that `ZonesAssumption` admits; Go's `Date` is taken as
the module defines it. `EndsAtNextBoundaryHolds` needs the invariant `Inv`, by which
the cycles are a history: none is empty, and each later one starts where the one
before ends and ends well (`Histories`). Its core is `CycleEnd`: the end that
`CycleBounds` computes is the first boundary after its argument, because
boundaries are in the order of their months. The loop of `settleCycles` is a recursive
function on the naturals. `Iteration` shows that it exists and `SettleCrosses`,
by induction over sets of naturals, that each turn appends one cycle and moves
the end by at least one tick, so that after `MaxTime + 1` turns the end
is past the time of the settlement.

`SettlementCatchesUp` says that one settlement leaves no boundary behind and no
late one moves the end back. Hence `OpenCycleHoldsNowHolds`, if the first cycle
held the time of its creation (`WholeFirstCycles`). This hypothesis is about the
constants alone; TLC evaluates it for the run's zones, and `FirstCyclesWhole`
proves it where no clock is put forward over the midnight of a reset day
(`MidnightsExist`).

### The capability gate

`Capability_proofs` proves `AdmittedByOpenGate`, `VerdictFitsContract` and
`NoStaleEvidence`. The first two rest on `CapabilityInv`: no row and no
validation carries a generation from the future, and a creation that found the
gate shut holds one that has passed (`GenSound`); a validation under way read
its contract together with its revision (`RunSound`); while a row, or the edit
that will write it back, says compatible, its evidence is of its contract
(`FitSound`). `NoStaleEvidence` needs more (`EvidenceInv`): which
process each generation, observation and verdict stands for, within the
one-second error of the computed start time (`ProcSound`, `ObsSound`,
`EvSound`). It is proved from `Gap > 2`. With `Gap = 2` TLC refutes it: two
starts two seconds apart can look no further apart than the tolerance.

### Drift removal

`Drift_proofs` proves `DriftTypeOK`, `NeverLeftToStrangers` and the action
property `ContractStaysWithInbounds` from `DriftInv`. That a removal of a
client never takes the last managed one depends on the steps of the worker and
of the round having a target of the right kind (`WorkSound`), on a user without
rows having nothing in Xray and a deleted one being removed until his port is
released (`RowsSound`), on the worker executing the newest intent behind the
fence (`JobSound`) and on the round having read every row that is confirmed now
as it is (`RoundSound`). Assumed: an orphan's tag is no user's
(`TagsAssumption`), and users, targets and the "none" value are different
things (`WorkAssumption`).

### Sessions and forms

`Sessions_proofs`, for any number of concurrent requests (a finite set,
`RequestsAssumption`) and tokens. `RevokedForGood`, `CurrentPasswordOnly` and
`NeverPastDeadline` follow from `SessionsInv`, whose core is that a live row
is of the administrator as he is now (`RowsSound`), that a request's copy of a
session agrees with its row, revoked or not (`RequestsSound`), and that a
revoked row is never live again (`NoneRevived`).
`AuditTellsSessions` has an invariant of its own. `ThrottleHolds` is proved by
counting: recorded attempts and attempts between check and record together stay
below the limit plus the number of requests.

`Commands_proofs`: `TakesEffectOnce`, `AcknowledgedIsApplied` and
`RetryIsAnswered` from `CommandsInv`, which adds that the command of a
repeated or acknowledged submission is on record with its fingerprint, and that
a repetition of a versioned form never gets past the search for it
(`SubmissionsSound`). Assumed: a form creates, is versioned or resets, and only
one of these (`FormsAssumption`); "none" is no fingerprint
(`NoneAssumption`).

### Only model-checked

The liveness properties `Converges`, `Settles` and `Cleans`: liveness under
fairness, and `ENABLED`, are outside the prover's reach and stay with TLC. Every
invariant and action property of the passing runs is a theorem, under the
hypotheses named above where it has any.

## Not modelled, and the plan

Left out of modelled parts: continuity events, daily sums and instance health
of the collector and the reconciler; the probe inbound of `ValidateTemplate`
and its cleanup; creating and archiving a template; the CSRF token.

Left out for good: HTML forms and views, configuration parsing, cryptography,
logging, dashboard queries, SQL migrations, command-line flags and the
repository's own test support. They transform data and keep no state that
interacts with the above.
