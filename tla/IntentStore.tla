---------------------------- MODULE IntentStore ----------------------------
(***************************************************************************)
(* The panel's authority: the SQLite rows that say who should be able to   *)
(* connect (managed_users, access_allocations, dedicated_inbounds,         *)
(* access_credentials, quota_cycles) and the queue of synchronization      *)
(* intents (synchronization_operations) through which every change reaches *)
(* Xray.                                                                   *)
(*                                                                         *)
(* One write connection serialises the transactions, so each transaction   *)
(* is one action.  What interleaves is everything around them: an HTTP     *)
(* handler reads a user, releases the connection and commits later; a      *)
(* worker leases an operation, talks to Xray and confirms later; the       *)
(* reconciler and the collector act on rows they read at the start of      *)
(* their round.  The snapshots those actors hold between two transactions  *)
(* are the variables req, work, seen and targets.                          *)
(***************************************************************************)
EXTENDS Integers, FiniteSets

CONSTANTS
    Allocs,           \* users; each has one access allocation
    NoAlloc,          \* "no user": an idle handler or worker
    Ports,            \* the template's port pool
    Limits,           \* quota limits an administrator may set; 0 is NULL
    MaxUsage,         \* bound: accounted traffic of a cycle, in units
    Handlers,         \* concurrent HTTP requests
    Workers,          \* lease owners of synchronization operations
    NoOwner,          \* lease_owner IS NULL
    MaxRevision,      \* bound: desired revisions of one allocation
    MaxUserRevision   \* bound: managed_users.revision

ASSUME AllocsAssumption == NoAlloc \notin Allocs
ASSUME PortsAssumption  == Ports \subseteq Nat \ {0}
ASSUME LimitsAssumption == Limits \subseteq Nat
ASSUME UsageAssumption  == MaxUsage \in Nat
ASSUME OwnerAssumption  == NoOwner \notin Workers
ASSUME BoundAssumption  == MaxRevision \in Nat \ {0} /\ MaxUserRevision \in Nat

VARIABLES
    db,       \* the committed rows of every user
    req,      \* handler -> the request it serves and the snapshot it read
    seen,     \* user -> the reconciler's snapshot of this round
    work,     \* worker -> the leased operation and the user rows it loaded
    targets   \* users in the collector's current round

vars == <<db, req, seen, work, targets>>

----------------------------------------------------------------------------
(* Values of the columns.                                                  *)

Revisions == 1 .. MaxRevision
Versions  == 1 .. MaxRevision     \* every rotation takes a revision

OpenStates  == {"pending", "leased", "retry_wait"}
OpState     == OpenStates \cup {"none", "succeeded", "superseded", "permanent_failed"}
Reasons     == {"create", "enable", "disable", "quota_block", "quota_restore",
                "rotate", "port_change", "delete", "reconcile"}
Projections == {"pending", "present", "absent", "error"}
KeyState    == {"none", "pending", "active", "destroyed"}
Kinds       == {"create", "port_change", "rotate", "delete", "reset"}

Operation == [state: OpState, present: BOOLEAN, cred: 0 .. MaxRevision,
              reason: Reasons \cup {"none"}, owner: Workers \cup {NoOwner},
              expired: BOOLEAN]

UserRow == [life: {"none", "active", "deleted"}, urev: 0 .. MaxUserRevision,
            admin: BOOLEAN, quota: {"within_limit", "exceeded"},
            limit: Limits \cup {0}, used: 0 .. MaxUsage,
            des: 0 .. MaxRevision, syn: 0 .. MaxRevision, proj: Projections,
            cdes: 0 .. MaxRevision, csyn: 0 .. MaxRevision,
            cred: [Versions -> KeyState],
            port: Ports \cup {0}, released: BOOLEAN, wanted: BOOLEAN,
            ops: [Revisions -> Operation]]

Request == [kind: Kinds \cup {"idle"}, alloc: Allocs \cup {NoAlloc},
            urev: 0 .. MaxUserRevision, des: 0 .. MaxRevision,
            present: BOOLEAN, cred: 0 .. MaxRevision,
            port: Ports \cup {0}, old: Ports \cup {0}, open: BOOLEAN]

Sighting == [step: {"none", "listed", "drifted"}, des: 0 .. MaxRevision,
             present: BOOLEAN, cred: 0 .. MaxRevision, settled: BOOLEAN]

Work == [alloc: Allocs \cup {NoAlloc}, rev: 0 .. MaxRevision, present: BOOLEAN,
         reason: Reasons \cup {"none"}, loaded: BOOLEAN,
         version: 0 .. MaxRevision, port: Ports \cup {0}]

NoOperation == [state |-> "none", present |-> FALSE, cred |-> 0,
                reason |-> "none", owner |-> NoOwner, expired |-> FALSE]

\* An allocation identifier nobody has drawn yet.
NoUser == [life |-> "none", urev |-> 0, admin |-> FALSE, quota |-> "within_limit",
           limit |-> 0, used |-> 0, des |-> 0, syn |-> 0, proj |-> "pending",
           cdes |-> 0, csyn |-> 0, cred |-> [v \in Versions |-> "none"],
           port |-> 0, released |-> FALSE, wanted |-> FALSE,
           ops |-> [r \in Revisions |-> NoOperation]]

NoRequest == [kind |-> "idle", alloc |-> NoAlloc, urev |-> 0, des |-> 0,
              present |-> FALSE, cred |-> 0, port |-> 0, old |-> 0, open |-> FALSE]

NoSighting == [step |-> "none", des |-> 0, present |-> FALSE, cred |-> 0,
               settled |-> FALSE]

NoWork == [alloc |-> NoAlloc, rev |-> 0, present |-> FALSE, reason |-> "none",
           loaded |-> FALSE, version |-> 0, port |-> 0]

----------------------------------------------------------------------------
(* Facts about one user.                                                   *)

Exists(u) == u.life # "none"

\* InboundDesiredPresent: the one truth table for "should listen".
DesiredPresent(u) == /\ u.life = "active"
                     /\ u.admin
                     /\ u.quota = "within_limit"

\* IsQuotaExceeded: no limit never blocks; reaching the limit does.
IsQuotaExceeded(limit, used) == limit # 0 /\ used >= limit

PendingSync(u) == u.des # u.syn \/ u.proj \in {"pending", "error"}

HasOpenOperation(u) == \E r \in Revisions : u.ops[r].state \in OpenStates

\* Ports a row still holds: UNIQUE(listen_address, port) WHERE released_at IS NULL.
AssignedPorts == {db[a].port : a \in {b \in Allocs : Exists(db[b]) /\ ~db[b].released}}

FreePorts == Ports \ AssignedPorts

NextAvailablePort == CHOOSE p \in FreePorts : \A q \in FreePorts : p <= q

----------------------------------------------------------------------------
(* Writing an intent.                                                      *)

Closed(op) == [op EXCEPT !.state = "superseded", !.owner = NoOwner, !.expired = FALSE]

\* Seeded fault: an operation a worker holds is left alone.
SupersedeOlder_KeepsLeased(ops, r) ==
    [s \in Revisions |->
        IF s < r /\ ops[s].state \in {"pending", "retry_wait", "permanent_failed"}
        THEN Closed(ops[s]) ELSE ops[s]]

\* supersedeOlder: every unfinished operation below revision r is closed.
SupersedeOlder(ops, r) ==
    [s \in Revisions |->
        IF s < r /\ ops[s].state \in OpenStates \cup {"permanent_failed"}
        THEN Closed(ops[s]) ELSE ops[s]]

NewOperation(present, cred, reason) ==
    [state |-> "pending", present |-> present, cred |-> cred, reason |-> reason,
     owner |-> NoOwner, expired |-> FALSE]

\* Seeded fault: no UNIQUE(allocation_id, desired_revision).
RowFree_NoIndex(u, r) == r \in Revisions

\* UNIQUE(allocation_id, desired_revision), within the revision bound.
RowFree(u, r) == r \in Revisions /\ u.ops[r].state = "none"

\* supersedeOlder; insertOperation (with setInboundDesired on an unreleased
\* inbound); desired_revision := r, projection_state := 'pending'.
CommitIntent(u, r, present, cred, reason) ==
    [u EXCEPT !.ops = [SupersedeOlder(u.ops, r) EXCEPT ![r] = NewOperation(present, cred, reason)],
              !.wanted = IF u.released THEN u.wanted ELSE present,
              !.des = r,
              !.proj = "pending"]

\* DecideTransition's reason for an operation.
DecisionReason(u, admin, exceeded) ==
    IF DesiredPresent(u)
    THEN IF exceeded /\ u.quota = "within_limit" /\ admin THEN "quota_block" ELSE "disable"
    ELSE IF u.quota = "exceeded" /\ ~exceeded /\ u.admin /\ admin
         THEN "quota_restore" ELSE "enable"

\* DecideTransition and applyDecision: the new switch and quota state, and an
\* operation at the next revision exactly when the desired presence changes.
Decided(u, admin, exceeded) ==
    [u EXCEPT !.admin = admin,
              !.quota = IF exceeded THEN "exceeded" ELSE "within_limit"]

ApplyDecision(u, admin, exceeded) ==
    LET v == Decided(u, admin, exceeded)
    IN  IF DesiredPresent(u) = DesiredPresent(v) THEN v
        ELSE CommitIntent(v, u.des + 1, DesiredPresent(v), u.cdes,
                          DecisionReason(u, admin, exceeded))

\* The transaction from u to v succeeds: every row it inserts was free.
Fits(u, v) == \A r \in u.des + 1 .. v.des : RowFree(u, r)

----------------------------------------------------------------------------
(* HTTP handlers: read a snapshot, then commit.                            *)

Finish(h) == req' = [req EXCEPT ![h] = NoRequest]

\* UserService.CreateUser up to the transaction: the requested port, or the
\* lowest free one, checked against the ports assigned now.
BeginCreate(h, p, explicit) ==
    /\ req[h].kind = "idle"
    /\ p \in FreePorts
    /\ explicit \/ p = NextAvailablePort
    /\ req' = [req EXCEPT ![h] = [NoRequest EXCEPT !.kind = "create", !.port = p]]
    /\ UNCHANGED <<db, seen, work, targets>>

NewUser(p, limit) ==
    [NoUser EXCEPT !.life = "active", !.admin = TRUE, !.limit = limit,
                   !.des = 1, !.cdes = 1, !.cred[1] = "pending", !.port = p,
                   !.wanted = TRUE, !.ops[1] = NewOperation(TRUE, 1, "create")]

\* Seeded fault: nothing looks at the port again, there is no unique index.
CommitCreate_NoIndex(h, a, limit) ==
    /\ req[h].kind = "create"
    /\ ~Exists(db[a])
    /\ db' = [db EXCEPT ![a] = NewUser(req[h].port, limit)]
    /\ Finish(h)
    /\ UNCHANGED <<seen, work, targets>>

\* Store.CreateUser: all rows in one transaction; the partial unique index on
\* the port refuses one that was taken since the check.
CommitCreate(h, a, limit) ==
    /\ req[h].kind = "create"
    /\ ~Exists(db[a])
    /\ req[h].port \notin AssignedPorts
    /\ db' = [db EXCEPT ![a] = NewUser(req[h].port, limit)]
    /\ Finish(h)
    /\ UNCHANGED <<seen, work, targets>>

Snapshot(kind, a, p) ==
    [kind |-> kind, alloc |-> a, urev |-> db[a].urev, des |-> db[a].des,
     present |-> DesiredPresent(db[a]), cred |-> db[a].cdes, port |-> p, old |-> db[a].port,
     open |-> TRUE]

Begin(h, kind, a, p) ==
    /\ req[h].kind = "idle"
    /\ db[a].life = "active"
    /\ req' = [req EXCEPT ![h] = Snapshot(kind, a, p)]
    /\ UNCHANGED <<db, seen, work, targets>>

\* UserService.ChangePort: another port of the pool that is free now.
BeginChangePort(h, a, p) == p \in FreePorts /\ p # db[a].port /\ Begin(h, "port_change", a, p)

\* UserService.RotateCredential: refused while the desired key is pending.
BeginRotate(h, a) ==
    /\ Exists(db[a]) /\ db[a].cred[db[a].cdes] # "pending"
    /\ Begin(h, "rotate", a, 0)

BeginDelete(h, a) == Begin(h, "delete", a, 0)

BeginReset(h, a) == Begin(h, "reset", a, 0)

\* The compare-and-set on managed_users.revision, and the free row for the
\* operation built from the snapshot.
Accepts(u, q) ==
    /\ u.life = "active"
    /\ u.urev = q.urev
    /\ u.urev < MaxUserRevision
    /\ RowFree(u, q.des + 1)

Touched(u) == [u EXCEPT !.urev = u.urev + 1]

\* Store.ChangeInboundPort.
ChangedPort(u, q) ==
    CommitIntent([Touched(u) EXCEPT !.port = q.port], q.des + 1, q.present, q.cred, "port_change")

CommitChangePort(h) ==
    LET q == req[h] IN
    /\ q.kind = "port_change"
    /\ Accepts(db[q.alloc], q)
    /\ db[q.alloc].port = q.old /\ ~db[q.alloc].released
    /\ q.port \notin AssignedPorts
    /\ db' = [db EXCEPT ![q.alloc] = ChangedPort(@, q)]
    /\ Finish(h)
    /\ UNCHANGED <<seen, work, targets>>

\* Seeded fault: a rotation switches the user on again.
Rotated_Enables(u, q) ==
    LET v == [Touched(u) EXCEPT !.cdes = q.cred + 1, !.cred[q.cred + 1] = "pending", !.admin = TRUE]
    IN  CommitIntent(v, q.des + 1, DesiredPresent(v), q.cred + 1, "rotate")

\* Seeded fault: the new key replaces the old one before Xray confirmed it.
Rotated_AtOnce(u, q) ==
    CommitIntent([Touched(u) EXCEPT !.cdes = q.cred + 1,
                                    !.cred = [x \in Versions |->
                                                IF x = q.cred + 1 THEN "active"
                                                ELSE IF u.cred[x] # "none" THEN "destroyed" ELSE u.cred[x]]],
                 q.des + 1, q.present, q.cred + 1, "rotate")

\* Store.RotateCredential: the next key is stored 'pending' with its intent.
Rotated(u, q) ==
    CommitIntent([Touched(u) EXCEPT !.cdes = q.cred + 1, !.cred[q.cred + 1] = "pending"],
                 q.des + 1, q.present, q.cred + 1, "rotate")

CommitRotate(h) ==
    LET q == req[h] IN
    /\ q.kind = "rotate"
    /\ Accepts(db[q.alloc], q)
    /\ \A v \in Versions : db[q.alloc].cred[v] # "pending"
    /\ db[q.alloc].cred[q.cred + 1] = "none"
    /\ db' = [db EXCEPT ![q.alloc] = Rotated(@, q)]
    /\ Finish(h)
    /\ UNCHANGED <<seen, work, targets>>

\* Seeded fault: port and keys go with the deletion, before Xray confirmed it.
SoftDeleted_Purges(u, q) ==
    [CommitIntent(Touched(u), q.des + 1, FALSE, 0, "delete")
        EXCEPT !.life = "deleted", !.admin = FALSE, !.released = TRUE,
               !.cred = [x \in Versions |-> IF u.cred[x] # "none" THEN "destroyed" ELSE u.cred[x]]]

\* Store.SoftDeleteUser.
SoftDeleted(u, q) ==
    CommitIntent([Touched(u) EXCEPT !.life = "deleted", !.admin = FALSE], q.des + 1, FALSE, 0, "delete")

CommitDelete(h) ==
    LET q == req[h] IN
    /\ q.kind = "delete"
    /\ Accepts(db[q.alloc], q)
    /\ db' = [db EXCEPT ![q.alloc] = SoftDeleted(@, q)]
    /\ Finish(h)
    /\ UNCHANGED <<seen, work, targets>>

\* Seeded fault: a reset grants the limit once more instead of zeroing.
Settled_Subtracts(u) == ApplyDecision([u EXCEPT !.used = u.used - u.limit], u.admin, FALSE)

\* accounted := 0, then the decision that a user within the limit gets.
Settled(u) == ApplyDecision([u EXCEPT !.used = 0], u.admin, FALSE)

\* Store.ResetCycleTraffic: no revision or lifecycle check in the transaction,
\* but the cycle that the request named must still be the open one.
CommitReset(h) ==
    LET q == req[h]  v == Settled(db[q.alloc]) IN
    /\ q.kind = "reset"
    /\ q.open
    /\ Fits(db[q.alloc], v)
    /\ db' = [db EXCEPT ![q.alloc] = v]
    /\ Finish(h)
    /\ UNCHANGED <<seen, work, targets>>

\* A conflict, a constraint or an I/O error: the transaction rolls back.
RejectRequest(h) ==
    /\ req[h].kind # "idle"
    /\ Finish(h)
    /\ UNCHANGED <<db, seen, work, targets>>

\* UserService.UpdateUser and SetAdminEnabled.  The service's own reads are
\* repeated inside the transaction, so the commit alone is the action: the
\* revision check, the new policy, and the decision from the rows as they are.
Updated(u, admin, limit) ==
    ApplyDecision([u EXCEPT !.urev = u.urev + 1, !.limit = limit], admin,
                  IsQuotaExceeded(limit, u.used))

UpdateUser(a, admin, limit) ==
    LET v == Updated(db[a], admin, limit) IN
    /\ db[a].life = "active"
    /\ db[a].urev < MaxUserRevision
    /\ Fits(db[a], v)
    /\ db' = [db EXCEPT ![a] = v]
    /\ UNCHANGED <<req, seen, work, targets>>

----------------------------------------------------------------------------
(* Scheduler and collector.                                                *)

\* The open cycle of these users is closed: a reset that named it will fail.
CloseCycles(users) ==
    req' = [h \in Handlers |-> IF req[h].kind = "reset" /\ req[h].alloc \in users
                               THEN [req[h] EXCEPT !.open = FALSE] ELSE req[h]]

\* RolloverDue / settleCycles: the open cycle ended (deleted users included).
RolloverCycle(a) ==
    LET v == Settled(db[a]) IN
    /\ Exists(db[a])
    /\ Fits(db[a], v)
    /\ db' = [db EXCEPT ![a] = v]
    /\ CloseCycles({a})
    /\ UNCHANGED <<seen, work, targets>>

\* CollectionTargets: the users whose counters this round will read.
CollectTargets ==
    /\ targets = {}
    /\ targets' = {a \in Allocs : db[a].life = "active" /\ db[a].proj = "present" /\ ~db[a].released}
    /\ targets' # {}
    /\ UNCHANGED <<db, req, seen, work>>

\* Seeded fault: the quota state read before the cycle was settled.
Metered_StaleFacts(u, ended, delta) ==
    LET s == IF ended THEN Settled(u) ELSE u
        m == [s EXCEPT !.used = s.used + delta]
    IN  IF IsQuotaExceeded(m.limit, m.used) /\ u.quota = "within_limit"
        THEN ApplyDecision(m, m.admin, TRUE) ELSE m

\* One update of CommitTrafficBatch: settle an ended cycle, add the delta to
\* the open one, and block the user that reached the limit.
Metered(u, ended, delta) ==
    LET s == IF ended THEN Settled(u) ELSE u
        m == [s EXCEPT !.used = s.used + delta]
    IN  IF IsQuotaExceeded(m.limit, m.used) /\ m.quota = "within_limit"
        THEN ApplyDecision(m, m.admin, TRUE) ELSE m

\* CommitTrafficBatch: the whole round in one transaction, from the rows as
\* they are now, whatever happened since CollectTargets.
CommitTrafficBatch(ended, delta) ==
    LET after == [a \in Allocs |->
                    IF a \in targets THEN Metered(db[a], a \in ended, delta[a]) ELSE db[a]]
    IN  /\ targets # {}
        /\ \A a \in targets :
              /\ (IF a \in ended THEN 0 ELSE db[a].used) + delta[a] <= MaxUsage
              /\ a \in ended => Fits(db[a], Settled(db[a]))
              /\ Fits(db[a], after[a])
        /\ db' = after
        /\ CloseCycles(ended)
        /\ targets' = {}
        /\ UNCHANGED <<seen, work>>

\* A failed read of the counters or a failed transaction ends the round.
DropBatch ==
    /\ targets # {}
    /\ targets' = {}
    /\ UNCHANGED <<db, req, seen, work>>

----------------------------------------------------------------------------
(* Reconciler.                                                             *)

\* ReconcileOnce reads all users, deleted ones included, before it asks Xray.
ReadForReconcile ==
    /\ \A a \in Allocs : seen[a].step = "none"
    /\ \E a \in Allocs : Exists(db[a])
    /\ seen' = [a \in Allocs |->
                 IF Exists(db[a])
                 THEN [step |-> "listed", des |-> db[a].des, present |-> DesiredPresent(db[a]),
                       cred |-> db[a].cdes, settled |-> ~PendingSync(db[a])]
                 ELSE NoSighting]
    /\ UNCHANGED <<db, req, work, targets>>

\* Seeded fault: an observation overwrites a pending intent's state.
Observed_Always(u, actual) == [u EXCEPT !.proj = IF actual THEN "present" ELSE "absent"]

\* RecordObservation corrects the projection state only when nothing is
\* pending; the snapshot decides whether the loop goes on to EnqueueReconcile.
Observed(u, actual) ==
    [u EXCEPT !.proj = IF u.des = u.syn THEN IF actual THEN "present" ELSE "absent" ELSE u.proj]

RecordObservation(a, actual) ==
    /\ seen[a].step = "listed"
    /\ db' = [db EXCEPT ![a] = Observed(@, actual)]
    /\ seen' = [seen EXCEPT ![a] = IF seen[a].settled /\ actual # seen[a].present
                                   THEN [@ EXCEPT !.step = "drifted"] ELSE NoSighting]
    /\ UNCHANGED <<req, work, targets>>

\* EnqueueReconcile: compare-and-set on desired_revision.
EnqueueReconcile(a) ==
    LET s == seen[a] IN
    /\ s.step = "drifted"
    /\ ~HasOpenOperation(db[a])
    /\ db[a].des = s.des
    /\ RowFree(db[a], s.des + 1)
    /\ db' = [db EXCEPT ![a] = CommitIntent(@, s.des + 1, s.present, s.cred, "reconcile")]
    /\ seen' = [seen EXCEPT ![a] = NoSighting]
    /\ UNCHANGED <<req, work, targets>>

\* The revision moved on, an operation is open, or the round was cut short.
SkipReconcile(a) ==
    /\ seen[a].step # "none"
    /\ seen' = [seen EXCEPT ![a] = NoSighting]
    /\ UNCHANGED <<db, req, work, targets>>

----------------------------------------------------------------------------
(* Synchronizer: lease, load, fence, finish.                               *)

\* Seeded fault: a lease that ran out is not taken over.
Due_NoReclaim(op) == op.state \in {"pending", "retry_wait"}

\* A waiting operation whose time has come, or a lease that ran out.
Due(op) == op.state \in {"pending", "retry_wait"} \/ (op.state = "leased" /\ op.expired)

\* LeaseDueSync's transaction.
LeaseDue(w, a, r) ==
    /\ work[w].alloc = NoAlloc
    /\ Due(db[a].ops[r])
    /\ db' = [db EXCEPT ![a].ops[r] = [@ EXCEPT !.state = "leased", !.owner = w, !.expired = FALSE]]
    /\ work' = [work EXCEPT ![w] = [NoWork EXCEPT !.alloc = a, !.rev = r,
                                        !.present = db[a].ops[r].present,
                                        !.reason = db[a].ops[r].reason]]
    /\ UNCHANGED <<req, seen, targets>>

\* Seeded fault: the credential last confirmed, not the desired one.
LoadWork_ConfirmedKey(w) ==
    LET a == work[w].alloc IN
    /\ a # NoAlloc
    /\ ~work[w].loaded
    /\ work' = [work EXCEPT ![w] = [@ EXCEPT !.loaded = TRUE, !.version = db[a].csyn, !.port = db[a].port]]
    /\ UNCHANGED <<db, req, seen, targets>>

\* The read of the user after that transaction.
LoadWork(w) ==
    LET a == work[w].alloc IN
    /\ a # NoAlloc
    /\ ~work[w].loaded
    /\ work' = [work EXCEPT ![w] = [@ EXCEPT !.loaded = TRUE, !.version = db[a].cdes, !.port = db[a].port]]
    /\ UNCHANGED <<db, req, seen, targets>>

Holds(w) == LET op == db[work[w].alloc].ops[work[w].rev]
            IN  op.state = "leased" /\ op.owner = w

\* RenewSyncLease: the lease, expired or not, is still ours and the operation
\* is still the latest intent; otherwise the work is dropped.
RenewSyncLease(w) ==
    LET a == work[w].alloc  r == work[w].rev IN
    /\ a # NoAlloc /\ work[w].loaded
    /\ IF Holds(w) /\ r = db[a].des
       THEN /\ db' = [db EXCEPT ![a].ops[r].expired = FALSE]
            /\ UNCHANGED work
       ELSE /\ work' = [work EXCEPT ![w] = NoWork]
            /\ UNCHANGED db
    /\ UNCHANGED <<req, seen, targets>>

\* Seeded fault: the replaced key is not destroyed.
ConfirmedPresent_KeepsOld(u, r, v) ==
    [u EXCEPT !.cred = [x \in Versions |->
                          IF x = v /\ u.cred[x] = "pending" THEN "active" ELSE u.cred[x]],
              !.proj = "present", !.syn = r, !.csyn = v,
              !.ops[r] = [@ EXCEPT !.state = "succeeded", !.owner = NoOwner, !.expired = FALSE]]

\* What ConfirmSync writes when the intent is in effect.
ConfirmedPresent(u, r, v) ==
    [u EXCEPT !.cred = [x \in Versions |->
                          IF x < v /\ u.cred[x] # "none" THEN "destroyed"
                          ELSE IF x = v /\ u.cred[x] = "pending" THEN "active" ELSE u.cred[x]],
              !.proj = "present", !.syn = r, !.csyn = v,
              !.ops[r] = [@ EXCEPT !.state = "succeeded", !.owner = NoOwner, !.expired = FALSE]]

ConfirmedAbsent(u, r) ==
    [u EXCEPT !.cred = [x \in Versions |->
                          IF u.life = "deleted" /\ u.cred[x] # "none" THEN "destroyed" ELSE u.cred[x]],
              !.released = u.released \/ u.life = "deleted",
              !.proj = "absent", !.syn = r, !.csyn = 0,
              !.ops[r] = [@ EXCEPT !.state = "succeeded", !.owner = NoOwner, !.expired = FALSE]]

Confirmed(u, r, present, v) ==
    IF present THEN ConfirmedPresent(u, r, v) ELSE ConfirmedAbsent(u, r)

\* RescheduleSync / FailSync on the current intent.
Unfinished(u, r, state) ==
    [u EXCEPT !.proj = IF state = "permanent_failed" THEN "error" ELSE "pending",
              !.ops[r] = [@ EXCEPT !.state = state, !.owner = NoOwner, !.expired = FALSE]]

\* finishLeased and the head of ConfirmSync: nothing without the lease; only
\* 'superseded' when a newer intent was committed; otherwise result.
FinishLeased(w, result) ==
    LET a == work[w].alloc  r == work[w].rev  u == db[a]
        closed == [u EXCEPT !.ops[r] = Closed(u.ops[r])]
    IN  /\ a # NoAlloc /\ work[w].loaded
        /\ db' = [db EXCEPT ![a] = IF ~Holds(w) THEN u ELSE IF r # u.des THEN closed ELSE result]
        /\ work' = [work EXCEPT ![w] = NoWork]
        /\ UNCHANGED <<req, seen, targets>>

ConfirmSync(w) ==
    FinishLeased(w, Confirmed(db[work[w].alloc], work[w].rev, work[w].present, work[w].version))

RescheduleSync(w) == FinishLeased(w, Unfinished(db[work[w].alloc], work[w].rev, "retry_wait"))

FailSync(w) == FinishLeased(w, Unfinished(db[work[w].alloc], work[w].rev, "permanent_failed"))

\* An error of the store ends the attempt; the row stays leased.
Abandon(w) ==
    /\ work[w].alloc # NoAlloc
    /\ work' = [work EXCEPT ![w] = NoWork]
    /\ UNCHANGED <<db, req, seen, targets>>

\* The clock passes lease_expires_at.
LeaseExpires(a, r) ==
    /\ db[a].ops[r].state = "leased"
    /\ db' = [db EXCEPT ![a].ops[r].expired = TRUE]
    /\ UNCHANGED <<req, seen, work, targets>>

\* The process dies and starts again: the rows stay, everything else is gone.
Restart ==
    /\ req' = [h \in Handlers |-> NoRequest]
    /\ seen' = [a \in Allocs |-> NoSighting]
    /\ work' = [w \in Workers |-> NoWork]
    /\ targets' = {}
    /\ UNCHANGED db

----------------------------------------------------------------------------
Init ==
    /\ db = [a \in Allocs |-> NoUser]
    /\ req = [h \in Handlers |-> NoRequest]
    /\ seen = [a \in Allocs |-> NoSighting]
    /\ work = [w \in Workers |-> NoWork]
    /\ targets = {}

HandlerStep(h) ==
    \/ \E p \in Ports, explicit \in BOOLEAN : BeginCreate(h, p, explicit)
    \/ \E a \in Allocs, limit \in Limits : CommitCreate(h, a, limit)
    \/ \E a \in Allocs, p \in Ports : BeginChangePort(h, a, p)
    \/ \E a \in Allocs : BeginRotate(h, a) \/ BeginDelete(h, a) \/ BeginReset(h, a)
    \/ CommitChangePort(h) \/ CommitRotate(h) \/ CommitDelete(h) \/ CommitReset(h)
    \/ RejectRequest(h)

QuotaStep ==
    \/ \E a \in Allocs, admin \in BOOLEAN, limit \in Limits : UpdateUser(a, admin, limit)
    \/ \E a \in Allocs : RolloverCycle(a)
    \/ CollectTargets
    \/ \E ended \in SUBSET targets, delta \in [targets -> 0 .. MaxUsage] : CommitTrafficBatch(ended, delta)
    \/ DropBatch

ReconcileStep ==
    \/ ReadForReconcile
    \/ \E a \in Allocs, actual \in BOOLEAN : RecordObservation(a, actual)
    \/ \E a \in Allocs : EnqueueReconcile(a) \/ SkipReconcile(a)

WorkerStep(w) ==
    \/ \E a \in Allocs, r \in Revisions : LeaseDue(w, a, r)
    \/ LoadWork(w) \/ RenewSyncLease(w) \/ Abandon(w)
    \/ ConfirmSync(w) \/ RescheduleSync(w) \/ FailSync(w)

Next ==
    \/ \E h \in Handlers : HandlerStep(h)
    \/ QuotaStep
    \/ ReconcileStep
    \/ \E w \in Workers : WorkerStep(w)
    \/ \E a \in Allocs, r \in Revisions : LeaseExpires(a, r)
    \/ Restart

Spec == Init /\ [][Next]_vars

----------------------------------------------------------------------------
(* What the store promises.                                                *)

\* Every row and every snapshot stays within its columns: usage neither
\* negative nor beyond the bound, revisions and key versions in range, though
\* resets, rollovers and batches compute them from rows read at commit time.
TypeOK ==
    /\ db \in [Allocs -> UserRow]
    /\ req \in [Handlers -> Request]
    /\ seen \in [Allocs -> Sighting]
    /\ work \in [Workers -> Work]
    /\ targets \subseteq Allocs

\* Operations are numbered without gaps, and only the newest can be open: an
\* operation that a newer intent replaced is closed in the same transaction,
\* so no worker can lease it again (supersedeOlder, insertOperation).
LatestOnly(u) ==
    /\ u.des \in Revisions
    /\ \A r \in Revisions :
        /\ r < u.des => u.ops[r].state \in {"succeeded", "superseded"}
        /\ r = u.des => u.ops[r].state \notin {"none", "superseded"}
        /\ r > u.des => u.ops[r].state = "none"

LatestIntentOnly == \A a \in Allocs : Exists(db[a]) => LatestOnly(db[a])

\* The newest intent asks for exactly what the rows say, whichever mix of
\* stale handlers, collector rounds, cycle rollovers and reconciler rounds
\* produced them: lifecycle, administrator switch and quota give the wanted
\* presence, and the key to install is the desired one.
Faithful(u) ==
    /\ u.ops[u.des].present = DesiredPresent(u)
    /\ DesiredPresent(u) => u.ops[u.des].cred = u.cdes
    /\ ~u.released => u.wanted = DesiredPresent(u)

IntentMatchesFacts == \A a \in Allocs : Exists(db[a]) => Faithful(db[a])

\* The panel shows a user as settled only when the newest intent was
\* confirmed, as failed only when that very intent failed; a user shown as
\* listening has the desired key in force and usable; an older operation's
\* late result never shows.
Honest(u) ==
    LET state == u.ops[u.des].state IN
    /\ u.syn <= u.des
    /\ (u.syn = u.des) <=> (state = "succeeded")
    /\ (u.proj \in {"present", "absent"}) <=> (state = "succeeded")
    /\ (u.proj = "error") <=> (state = "permanent_failed")
    /\ state = "succeeded" => u.csyn = IF DesiredPresent(u) THEN u.cdes ELSE 0
    /\ state = "succeeded" /\ DesiredPresent(u) => u.cred[u.cdes] = "active"

ProjectionHonest == \A a \in Allocs : Exists(db[a]) => Honest(db[a])

\* The quota state is what the current limit and the open cycle's usage say,
\* however policy updates, resets, rollovers and traffic batches interleave.
QuotaOK(u) == u.quota = "exceeded" <=> IsQuotaExceeded(u.limit, u.used)

QuotaCurrent == \A a \in Allocs : Exists(db[a]) => QuotaOK(db[a])

\* A live user always has a usable desired key; at most the key before it is
\* kept beside it, and only while the new one waits for its confirmation; the
\* keys of a deleted user survive exactly until its port is released.
KeysSound(u) ==
    /\ u.cdes \in Versions
    /\ \A v \in Versions : v > u.cdes => u.cred[v] = "none"
    /\ \/ /\ u.cred[u.cdes] = "active"
          /\ \A v \in Versions : v < u.cdes => u.cred[v] = "destroyed"
       \/ /\ u.cred[u.cdes] = "pending"
          /\ \A v \in Versions : v < u.cdes =>
                u.cred[v] = IF v + 1 = u.cdes THEN "active" ELSE "destroyed"
       \/ /\ u.life = "deleted" /\ u.released
          /\ \A v \in Versions : v <= u.cdes => u.cred[v] = "destroyed"
    /\ u.released => u.life = "deleted" /\ u.cred[u.cdes] = "destroyed"

KeysUsable == \A a \in Allocs : Exists(db[a]) => KeysSound(db[a])

\* Two users never hold the same port, even when two requests were checked
\* against the same list of free ports.
PortsExclusive ==
    \A a, b \in Allocs :
        /\ a # b /\ Exists(db[a]) /\ Exists(db[b])
        /\ ~db[a].released /\ ~db[b].released
        => db[a].port # db[b].port

\* What an actor read earlier is still right whenever the revision it read is
\* still the current one: every change of the desired presence or key takes a
\* revision, so comparing revisions at commit time is enough to refuse a
\* stale request, a stale reconciler round and a worker's stale load.
Current(u, des, present, cred) ==
    /\ Exists(u)
    /\ des <= u.des
    /\ des = u.des => present = DesiredPresent(u) /\ cred = u.cdes

SnapshotsCurrent ==
    /\ \A h \in Handlers : req[h].kind \in {"port_change", "rotate", "delete", "reset"} =>
            Current(db[req[h].alloc], req[h].des, req[h].present, req[h].cred)
    /\ \A a \in Allocs : seen[a].step # "none" =>
            Current(db[a], seen[a].des, seen[a].present, seen[a].cred)
    /\ \A w \in Workers : work[w].alloc # NoAlloc =>
            LET u == db[work[w].alloc] IN
            Current(u, work[w].rev, work[w].present,
                    IF work[w].loaded THEN work[w].version ELSE u.cdes)

\* A key is destroyed only in the transaction that confirms a newer key in
\* Xray, or in the one that confirms the removal of a deleted user: a retry,
\* a disable or a lost lease never costs a user the key in force.
KeyDestruction(u, v) ==
    (\E x \in Versions : u.cred[x] \in {"pending", "active"} /\ v.cred[x] = "destroyed")
    => /\ v.syn = v.des /\ v.des = u.des /\ u.syn < u.des
       /\ \/ v.cred[v.cdes] = "active" /\ v.csyn = v.cdes
          \/ v.life = "deleted" /\ v.released

KeysDestroyedOnConfirm == [][\A a \in Allocs : KeyDestruction(db[a], db'[a])]_vars

\* Revisions never move backwards, and a port goes back to the pool only when
\* the newest intent of a deleted user, its removal, is confirmed (FR-018).
ForwardOnly(u, v) ==
    /\ v.des >= u.des /\ v.syn >= u.syn
    /\ v.released /\ ~u.released => /\ v.life = "deleted"
                                   /\ v.syn = v.des
                                   /\ ~v.ops[v.des].present

PortReleasedOnConfirm == [][\A a \in Allocs : ForwardOnly(db[a], db'[a])]_vars
=============================================================================
