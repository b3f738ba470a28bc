----------------------------- MODULE Projection -----------------------------
(***************************************************************************)
(* How the synchronizer carries an intent of IntentStore into Xray.        *)
(*                                                                         *)
(* A leased intent is projected by a sequence of remote calls, each behind *)
(* a fence that renews the lease; administrators go on committing intents, *)
(* Xray and the panel may restart, and any call may fail with or without   *)
(* having taken effect; a call that timed out may take effect at any later *)
(* moment.  The node mutex keeps the synchronizer and the reconciler       *)
(* apart.  Xray itself is external: its answers are those that the adapter *)
(* classifies.                                                             *)
(*                                                                         *)
(* A creation chooses its port before its transaction.  Every other request*)
(* is one action here: IntentStore shows (SnapshotsCurrent) that one that  *)
(* still commits saw the rows it commits to.                               *)
(***************************************************************************)
EXTENDS IntentStore

CONSTANTS
    Faults,      \* which of FaultKinds may happen
    MaxFaults,   \* bound: how many do
    ProbeSees    \* net.Listen("tcp") meets Xray's own listener: TCP templates

FaultKinds == {"timeout", "internal", "unavailable", "rejected",   \* of a call
               "late",                      \* a call that timed out takes effect after all
               "bind", "occupied",          \* another process has the port
               "xray", "panel", "store"}    \* a restart, a restart, an SQL error

ASSUME FaultsAssumption == Faults \subseteq FaultKinds /\ MaxFaults \in Nat
ASSUME ProbeAssumption  == ProbeSees \in BOOLEAN
ASSUME OneSynchronizer  == \E w \in Workers : Workers = {w}    \* main starts one goroutine

VARIABLES
    xray,     \* user -> its dedicated inbound in Xray
    late,     \* user -> calls that timed out and have not reached Xray yet
    node,     \* who holds the node mutex
    call,     \* the synchronizer's next call for the work it handles
    faults    \* faults so far

remote == <<xray, late, node, call, faults>>
allVars == <<vars, remote>>

Inbound == [tag: BOOLEAN, port: Ports \cup {0}, listening: BOOLEAN,
            key: 0 .. MaxRevision,   \* version of the managed client's key, 0: no such client
            safety: BOOLEAN,         \* the rotation's transition client
            late: BOOLEAN]           \* history: a late call has created or changed it

NoInbound == [tag |-> FALSE, port |-> 0, listening |-> FALSE, key |-> 0, safety |-> FALSE, late |-> FALSE]

\* What a call asks Xray to do with a user's inbound; the reads do nothing.
Effects  == {"create", "remove", "add_safety", "drop_safety", "add_key", "drop_key"}
LateCall == [effect: Effects, port: Ports \cup {0}, key: 0 .. MaxRevision]

CallSteps == {"remove", "remove_check", "port_remove",
              "create", "create_check", "create_port", "create_exists",
              "rot_list", "rot_safety", "rot_safety_check", "rot_remove",
              "rot_add", "rot_add_check", "rot_clean"}
EndSteps  == {"confirm", "retry", "fail"}

\* main: the rotation's listing showed the managed client; cause: the error
\* that a read-back has to settle.
CallState == [pc: CallSteps \cup EndSteps \cup {"idle"}, main: BOOLEAN,
              cause: FaultKinds \cup {"none"}]

NoCall == [pc |-> "idle", main |-> FALSE, cause |-> "none"]

----------------------------------------------------------------------------
(* Calls and their outcomes.                                               *)

CallFaults == Faults \cap {"timeout", "internal", "unavailable", "rejected"}

Strike(f) == f \in Faults /\ faults < MaxFaults /\ faults' = faults + 1

\* retry: a timeout or an unreachable node is tried again, an internal error
\* up to maxInternalAttempts times (attempts are not counted here: either),
\* anything else is a permanent failure.
RetryOf(f) == CASE f \in {"timeout", "unavailable"} -> {"retry"}
                [] f = "internal" -> {"retry", "fail"}
                [] OTHER -> {"fail"}

\* describe: after a retryable error other than an unreachable node the call
\* may have taken effect, so the code reads back before it decides.
CheckAfter(f, check) == IF f \in {"timeout", "internal"} THEN {check} ELSE RetryOf(f)

\* fence / RenewSyncLease.
Fenced(w) == Holds(w) /\ work[w].rev = db[work[w].alloc].des

At(w, pc) == /\ node = "synchronizer"
             /\ call.pc = pc
             /\ Fenced(w)

Its(w) == xray[work[w].alloc]

\* The call is answered: Xray's inbound becomes x, the code goes on at pc.
Goes(w, x, pc) ==
    /\ xray' = [xray EXCEPT ![work[w].alloc] = x]
    /\ call' = [call EXCEPT !.pc = pc]
    /\ UNCHANGED <<vars, late, node>>

Answers(w, from, x, pc) == At(w, from) /\ Goes(w, x, pc) /\ UNCHANGED faults

\* A call whose deadline passed before Xray handled it is still on its way.
Sent(w, effect) == [late EXCEPT ![work[w].alloc] =
    IF "late" \in Faults /\ effect \in Effects
    THEN @ \cup {[effect |-> effect, port |-> work[w].port, key |-> work[w].version]} ELSE @]

\* The call fails with f, having taken effect (x) or not, or not yet.
Fails(w, from, f, x, effect, nexts) ==
    /\ At(w, from)
    /\ Strike(f)
    /\ \E pc \in nexts : call' = [call EXCEPT !.pc = pc, !.cause = f]
    /\ \/ xray' = xray /\ late' = IF f = "timeout" THEN Sent(w, effect) ELSE late
       \/ f # "rejected" /\ xray' = [xray EXCEPT ![work[w].alloc] = x] /\ late' = late
    /\ UNCHANGED <<vars, node>>

\* A read fails.
Unread(w, from, nexts) == \E f \in CallFaults : Fails(w, from, f, Its(w), "none", nexts)

----------------------------------------------------------------------------
(* handle: the intent is removal.                                          *)

\* Seeded fault: only the client is removed, the inbound stays.
Removed_ClientOnly(x) == [x EXCEPT !.key = 0]

Removed(x) == NoInbound

RemoveInbound(w) ==
    \/ Answers(w, "remove", Removed(Its(w)), "confirm")
    \/ \E f \in CallFaults : Fails(w, "remove", f, Removed(Its(w)), "remove", CheckAfter(f, "remove_check"))

\* Seeded fault: a failed listing counts as absence.
CheckRemoved_Optimistic(w) ==
    \/ \E pc \in IF Its(w).tag THEN RetryOf(call.cause) ELSE {"confirm"} :
          Answers(w, "remove_check", Its(w), pc)
    \/ Unread(w, "remove_check", {"confirm"})

CheckRemoved(w) ==
    \/ \E pc \in IF Its(w).tag THEN RetryOf(call.cause) ELSE {"confirm"} :
          Answers(w, "remove_check", Its(w), pc)
    \/ Unread(w, "remove_check", RetryOf(call.cause))

\* A port change removes the inbound under the old port, then creates.
RemoveForPortChange(w) ==
    \/ Answers(w, "port_remove", Removed(Its(w)), "create")
    \/ \E f \in CallFaults : Fails(w, "port_remove", f, Removed(Its(w)), "remove", RetryOf(f))

----------------------------------------------------------------------------
(* createDedicatedInbound.                                                 *)

NewInbound(port, key) == [NoInbound EXCEPT !.tag = TRUE, !.port = port, !.listening = TRUE, !.key = key]

Created(w) == NewInbound(work[w].port, work[w].version)

\* Seeded fault: the port is not probed.
ProbeRefuses_Never(p) == FALSE

\* probePort: somebody, Xray included, listens on the port.
ProbeRefuses(p) == ProbeSees /\ \E a \in Allocs : xray[a].listening /\ xray[a].port = p

CreateInbound(w) ==
    \/ ProbeRefuses(work[w].port) /\ Answers(w, "create", Its(w), "create_port")
    \/ Fails(w, "create", "occupied", Its(w), "none", {"create_port"})
    \/ /\ ~ProbeRefuses(work[w].port)
       /\ \/ Its(w).tag /\ Answers(w, "create", Its(w), "create_exists")
          \/ ~Its(w).tag /\ Answers(w, "create", Created(w), "confirm")
          \* AddInbound is not atomic: the tag stays registered, unheard.
          \/ /\ ~Its(w).tag
             /\ At(w, "create") /\ Strike("bind")
             /\ Goes(w, [Created(w) EXCEPT !.listening = FALSE], "create_port")
          \/ \E f \in CallFaults :
                Fails(w, "create", f, IF Its(w).tag THEN Its(w) ELSE Created(w), "create",
                      CheckAfter(f, "create_check"))

\* After a timeout a registered tag is taken for the inbound just created.
CheckCreated(w) ==
    \/ \E pc \in IF Its(w).tag THEN {"confirm"} ELSE RetryOf(call.cause) :
          Answers(w, "create_check", Its(w), pc)
    \/ Unread(w, "create_check", RetryOf(call.cause))

\* port_unavailable: the compensating removal is best effort, then retryLater.
ClearPort(w) ==
    \/ Answers(w, "create_port", Removed(Its(w)), "retry")
    \/ \E f \in CallFaults : Fails(w, "create_port", f, Removed(Its(w)), "remove", {"retry"})

\* inbound_already_exists: confirmed when it carries the managed client,
\* removed and retried when it does not; when the tag is not to be seen the
\* error, not retryable in itself, is final.
ClearTag(w) ==
    \/ ~Its(w).tag /\ Answers(w, "create_exists", Its(w), "fail")
    \/ Its(w).tag /\ Its(w).key # 0 /\ Answers(w, "create_exists", Its(w), "confirm")
    \/ Its(w).tag /\ Its(w).key = 0 /\ Answers(w, "create_exists", Removed(Its(w)), "retry")
    \* ListInbounds fails; or it does not, and ListUsers or the removal does.
    \/ Unread(w, "create_exists", {"fail"})
    \/ \E f \in CallFaults :
          Its(w).tag /\ At(w, "create_exists") /\ Strike(f) /\ Goes(w, Removed(Its(w)), "retry")
    \/ Its(w).tag /\ \E f \in CallFaults :
          Fails(w, "create_exists", f, Removed(Its(w)), "remove", {"retry"})

----------------------------------------------------------------------------
(* rotateWithinInbound: safety client in, old key out, new key in, safety  *)
(* client out, each step driven by what Xray shows.                        *)

AfterSafety == IF call.main THEN "rot_remove" ELSE "rot_add"

ListClients(w) ==
    \/ ~Its(w).tag /\ Answers(w, "rot_list", Its(w), "create")
    \/ /\ Its(w).tag /\ At(w, "rot_list")
       /\ call' = [call EXCEPT !.main = (Its(w).key # 0),
                               !.pc = IF ~Its(w).safety THEN "rot_safety"
                                      ELSE IF Its(w).key # 0 THEN "rot_remove" ELSE "rot_add"]
       /\ UNCHANGED <<vars, xray, late, node, faults>>
    \/ \E f \in CallFaults : Fails(w, "rot_list", f, Its(w), "none", RetryOf(f))

AddSafety(w) ==
    LET x == IF Its(w).tag THEN [Its(w) EXCEPT !.safety = TRUE] ELSE Its(w) IN
    \/ Answers(w, "rot_safety", x, IF Its(w).tag THEN AfterSafety ELSE "create")
    \/ \E f \in CallFaults : Fails(w, "rot_safety", f, x, "add_safety", CheckAfter(f, "rot_safety_check"))

CheckSafety(w) ==
    \/ \E pc \in IF Its(w).safety THEN {AfterSafety} ELSE RetryOf(call.cause) :
          Answers(w, "rot_safety_check", Its(w), pc)
    \/ Unread(w, "rot_safety_check", RetryOf(call.cause))

\* RemoveUser refuses to take the last managed client.
WithoutKey(x) == IF x.safety THEN [x EXCEPT !.key = 0] ELSE x
WithoutSafety(x) == IF x.key # 0 THEN [x EXCEPT !.safety = FALSE] ELSE x

RemoveOldKey(w) ==
    LET x == WithoutKey(Its(w)) IN
    \/ Answers(w, "rot_remove", x,
               IF ~Its(w).tag THEN "create"
               ELSE IF Its(w).key # 0 /\ ~Its(w).safety THEN "fail" ELSE "rot_add")
    \/ \E f \in CallFaults : Fails(w, "rot_remove", f, x, IF x.tag /\ x.key = 0 THEN "drop_key" ELSE "none", RetryOf(f))

\* AddUser on the managed client: an existing one keeps its key.
WithKey(x, v) == IF x.tag /\ x.key = 0 THEN [x EXCEPT !.key = v] ELSE x

AddNewKey(w) ==
    LET x == WithKey(Its(w), work[w].version) IN
    \/ Answers(w, "rot_add", x, IF Its(w).tag THEN "rot_clean" ELSE "create")
    \/ \E f \in CallFaults :
          Fails(w, "rot_add", f, x, "add_key",
                IF f \in {"timeout", "internal"} THEN {"rot_add_check"} ELSE {"retry"})

CheckNewKey(w) ==
    \/ Answers(w, "rot_add_check", Its(w), IF Its(w).key # 0 THEN "rot_clean" ELSE "retry")
    \/ Unread(w, "rot_add_check", {"retry"})

\* Seeded fault: the safety client is left in place.
RemoveSafety_Skipped(w) == Answers(w, "rot_clean", Its(w), "confirm")

\* A vanished inbound or client counts as cleaned up.
RemoveSafety(w) ==
    LET x == WithoutSafety(Its(w)) IN
    \/ Answers(w, "rot_clean", x, IF x.safety THEN "retry" ELSE "confirm")
    \/ \E f \in CallFaults : Fails(w, "rot_clean", f, x, IF x.tag /\ ~x.safety THEN "drop_safety" ELSE "none", {"retry"})

----------------------------------------------------------------------------
(* The synchronizer's loop.                                                *)

Release == node' = "free" /\ call' = NoCall

Lease(w, a) == (\E r \in Revisions : LeaseDue(w, a, r)) /\ UNCHANGED remote

Load(w) == LoadWork(w) /\ UNCHANGED remote

\* handle: the mutex, then the path that the operation calls for.
TakeNode(w) ==
    /\ node = "free" /\ work[w].loaded
    /\ node' = "synchronizer"
    /\ call' = [NoCall EXCEPT !.pc =
                   CASE ~work[w].present -> "remove"
                     [] work[w].present /\ work[w].reason = "rotate" -> "rot_list"
                     [] work[w].present /\ work[w].reason = "port_change" -> "port_remove"
                     [] OTHER -> "create"]
    /\ UNCHANGED <<vars, xray, late, faults>>

\* Seeded fault: the early return keeps the mutex.
DropWork_KeepsLock(w) ==
    /\ node = "synchronizer" /\ call.pc \in CallSteps
    /\ ~Fenced(w)
    /\ Abandon(w) /\ call' = NoCall
    /\ UNCHANGED <<xray, late, node, faults>>

\* A fence that fails: nothing is called, nothing is written.
DropWork(w) ==
    /\ node = "synchronizer" /\ call.pc \in CallSteps
    /\ ~Fenced(w)
    /\ Abandon(w) /\ Release
    /\ UNCHANGED <<xray, late, faults>>

\* confirm, retry / retryLater, fail: the store's verdict, then the unlock.
EndWork(w) ==
    /\ node = "synchronizer"
    /\ \/ call.pc = "confirm" /\ ConfirmSync(w)
       \/ call.pc = "retry" /\ RescheduleSync(w)
       \/ call.pc = "fail" /\ FailSync(w)
    /\ Release
    /\ UNCHANGED <<xray, late, faults>>

\* The store fails a load, a fence or a verdict: the row stays leased.
StoreError(w) ==
    /\ Strike("store")
    /\ Abandon(w)
    /\ IF node = "synchronizer" THEN Release ELSE UNCHANGED <<node, call>>
    /\ UNCHANGED <<xray, late>>

CallXray(w) ==
    /\ work[w].loaded
    /\ \/ RemoveInbound(w) \/ CheckRemoved(w) \/ RemoveForPortChange(w)
       \/ CreateInbound(w) \/ CheckCreated(w) \/ ClearPort(w) \/ ClearTag(w)
       \/ ListClients(w) \/ AddSafety(w) \/ CheckSafety(w) \/ RemoveOldKey(w)
       \/ AddNewKey(w) \/ CheckNewKey(w) \/ RemoveSafety(w)

\* An abandoned lease runs out.  While its holder is at work the expiry has no
\* effect: only this goroutine leases, and the fence ignores the deadline.
AbandonedLeaseExpires(a, r) ==
    /\ \A w \in Workers : work[w].alloc # a
    /\ ~db[a].ops[r].expired
    /\ LeaseExpires(a, r)
    /\ UNCHANGED remote

----------------------------------------------------------------------------
(* The reconciler's round, under the same mutex.                           *)

BeginRound ==
    /\ node = "free" /\ node' = "reconciler"
    /\ ReadForReconcile
    /\ UNCHANGED <<xray, late, call, faults>>

\* An inbound is there when it carries the managed client.
Observe(a) ==
    /\ node = "reconciler"
    /\ RecordObservation(a, xray[a].tag /\ xray[a].key # 0)
    /\ UNCHANGED remote

\* The open-operation check and EnqueueReconcile's compare-and-set.
Requeue(a) ==
    /\ node = "reconciler" /\ seen[a].step = "drifted"
    /\ IF HasOpenOperation(db[a]) \/ db[a].des # seen[a].des \/ ~RowFree(db[a], seen[a].des + 1)
       THEN SkipReconcile(a) ELSE EnqueueReconcile(a)
    /\ UNCHANGED remote

EndRound ==
    /\ node = "reconciler" /\ \A a \in Allocs : seen[a].step = "none"
    /\ node' = "free"
    /\ UNCHANGED <<vars, xray, late, call, faults>>

----------------------------------------------------------------------------
(* Administrators.                                                         *)

\* A request against the rows as they are.
Submit(a, kind, p, v) ==
    /\ db[a].life = "active"
    /\ Accepts(db[a], Snapshot(kind, a, p))
    /\ db' = [db EXCEPT ![a] = v]
    /\ UNCHANGED <<req, seen, work, targets, remote>>

\* A creation takes two steps: other requests may take the port that it chose
\* before its transaction begins.  Bound: only while there is a user to create.
ChoosePort(h, p) ==
    /\ \E a \in Allocs : ~Exists(db[a])
    /\ BeginCreate(h, p, TRUE)
    /\ UNCHANGED remote

CreateUser(h, a) == CommitCreate(h, a, 0) /\ UNCHANGED remote

RejectCreation(h) == RejectRequest(h) /\ UNCHANGED remote

SubmitChangePort(a, p) ==
    /\ p \in FreePorts
    /\ Submit(a, "port_change", p, ChangedPort(db[a], Snapshot("port_change", a, p)))

SubmitRotate(a) ==
    /\ \A v \in Versions : db[a].cred[v] # "pending"
    /\ Submit(a, "rotate", 0, Rotated(db[a], Snapshot("rotate", a, 0)))

SubmitDelete(a) == Submit(a, "delete", 0, SoftDeleted(db[a], Snapshot("delete", a, 0)))

SubmitToggle(a) == UpdateUser(a, ~db[a].admin, db[a].limit) /\ UNCHANGED remote

----------------------------------------------------------------------------
(* The environment.                                                        *)

\* What a late call does, when nobody looks any more before it acts: a tag that
\* is registered refuses another inbound, and a client keeps the key it has.
Reached(c, x) ==
    CASE c.effect = "create" /\ ~x.tag   -> [NewInbound(c.port, c.key) EXCEPT !.late = TRUE]
      [] c.effect = "remove"              -> NoInbound
      [] c.effect = "add_safety" /\ x.tag -> [x EXCEPT !.safety = TRUE, !.late = TRUE]
      [] c.effect = "drop_safety" /\ x.tag -> [x EXCEPT !.safety = FALSE, !.late = TRUE]
      [] c.effect = "add_key" /\ x.tag /\ x.key = 0 -> [x EXCEPT !.key = c.key, !.late = TRUE]
      [] c.effect = "drop_key" /\ x.tag   -> [x EXCEPT !.key = 0, !.late = TRUE]
      [] OTHER -> x

LateCallArrives(a, c) ==
    /\ c \in late[a]
    /\ late' = [late EXCEPT ![a] = @ \ {c}]
    /\ xray' = [xray EXCEPT ![a] = Reached(c, @)]
    /\ UNCHANGED <<vars, node, call, faults>>

\* Xray restarts: every runtime inbound is gone, and what was on its way to it.
XrayRestart ==
    /\ Strike("xray")
    /\ xray' = [a \in Allocs |-> NoInbound] /\ late' = [a \in Allocs |-> {}]
    /\ UNCHANGED <<vars, node, call>>

\* The panel dies and starts again: Xray keeps what it has.
PanelRestart ==
    /\ Strike("panel")
    /\ Restart /\ Release
    /\ UNCHANGED <<xray, late>>

----------------------------------------------------------------------------
ProjectionInit ==
    /\ Init
    /\ xray = [a \in Allocs |-> NoInbound] /\ late = [a \in Allocs |-> {}]
    /\ node = "free" /\ call = NoCall /\ faults = 0

SyncStep(w) == Load(w) \/ CallXray(w) \/ DropWork(w) \/ EndWork(w)

RoundStep == \/ \E a \in Allocs : Observe(a) \/ Requeue(a)
             \/ EndRound

AdminStep ==
    \/ \E h \in Handlers : \/ \E p \in Ports : ChoosePort(h, p)
                          \/ \E a \in Allocs : CreateUser(h, a)
                          \/ RejectCreation(h)
    \/ \E a \in Allocs : \/ \E p \in Ports : SubmitChangePort(a, p)
                        \/ SubmitRotate(a) \/ SubmitDelete(a) \/ SubmitToggle(a)

ProjectionNext ==
    \/ AdminStep
    \/ \E w \in Workers : \/ \E a \in Allocs : Lease(w, a)
                          \/ TakeNode(w) \/ SyncStep(w) \/ StoreError(w)
    \/ BeginRound \/ RoundStep
    \/ \E a \in Allocs, r \in Revisions : AbandonedLeaseExpires(a, r)
    \/ \E a \in Allocs : \E c \in late[a] : LateCallArrives(a, c)
    \/ XrayRestart \/ PanelRestart

\* The goroutines run and calls return (deadline); every due operation gets its
\* turn (ORDER BY next_attempt_at, backoff); the node mutex does not starve a
\* waiter (sync.Mutex); the reconciler has a ticker; an abandoned lease ends.
\* Nothing makes an administrator act, and no fault has to happen.
Fairness ==
    /\ \A w \in Workers :
        /\ WF_allVars(SyncStep(w))
        /\ SF_allVars(TakeNode(w))
        /\ \A a \in Allocs : SF_allVars(Lease(w, a))
    /\ SF_allVars(BeginRound)
    /\ WF_allVars(RoundStep)
    /\ \A a \in Allocs, r \in Revisions : WF_allVars(AbandonedLeaseExpires(a, r))

ProjectionSpec == ProjectionInit /\ [][ProjectionNext]_allVars

FairProjectionSpec == ProjectionSpec /\ Fairness

----------------------------------------------------------------------------
(* What the projection promises.                                           *)

\* The mutex, the work and the call agree: whoever holds the node is the only
\* one with calls under way, and a call always has a leased row behind it.
ProjectionTypeOK ==
    /\ xray \in [Allocs -> Inbound]
    /\ late \in [Allocs -> SUBSET LateCall]
    /\ call \in CallState
    /\ faults \in 0 .. MaxFaults
    /\ node \in {"free", "synchronizer", "reconciler"}
    /\ (node = "synchronizer") <=> (call.pc # "idle")
    /\ node = "synchronizer" => \E w \in Workers : work[w].loaded
    /\ node # "reconciler" => \A a \in Allocs : seen[a].step = "none"

\* An inbound that no late call has created or changed.  What a late call does
\* the panel cannot prevent, only repair (the reconciler, drift removal); so
\* the promises below are about the other inbounds, those of the same user
\* before and after it included.
Prompt(x) == x.tag /\ ~x.late

\* Whatever fails in the middle of a rotation, a removal or a creation, no
\* inbound is ever left without a managed client: the desired one or the
\* rotation's safety client (FR-019).
ManagedClientAlways == \A a \in Allocs : Prompt(xray[a]) => xray[a].key # 0 \/ xray[a].safety

\* A confirmed removal is real, and a port back in the pool is one that no
\* inbound of its former user holds in Xray (ConfirmSync, FR-018), unless an
\* AddInbound that timed out came after the confirmation.
Gone(u, x) ==
    /\ u.released => ~Prompt(x)
    /\ Exists(u) /\ u.ops[u.des].state = "succeeded" /\ ~u.ops[u.des].present => ~Prompt(x)

AbsentMeansGone == \A a \in Allocs : Gone(db[a], xray[a])

\* The newest intent is confirmed and wants the user to be served; the
\* inbound is there (a later Xray restart is the reconciler's to notice).
InForce(a) == /\ Exists(db[a])
              /\ db[a].ops[db[a].des].state = "succeeded" /\ db[a].ops[db[a].des].present
              /\ Prompt(xray[a])

\* A rotation is confirmed only when the inbound has the new key and the
\* safety client is gone, at whichever call the attempt was resumed
\* (rotateWithinInbound, FR-017).
RotationLeavesNewKey ==
    \A a \in Allocs :
        InForce(a) /\ db[a].ops[db[a].des].reason = "rotate"
        => xray[a].key = db[a].cdes /\ ~xray[a].safety

\* A confirmed user is served with the key that the panel shows.
ServesDesiredKey == \A a \in Allocs : InForce(a) => xray[a].key = db[a].cdes

\* A confirmed user is served on the port that the panel shows.
ServesAssignedPort == \A a \in Allocs : InForce(a) => xray[a].port = db[a].port

\* A confirmed user's inbound listens.
ConfirmedListens == \A a \in Allocs : InForce(a) => xray[a].listening

\* Two users' inbounds never listen on the same port: Xray would let them
\* share the listener without an error (R-002).
NoSharedListener ==
    \A a, b \in Allocs :
        a # b /\ Prompt(xray[a]) /\ Prompt(xray[b]) /\ xray[a].listening /\ xray[b].listening
        => xray[a].port # xray[b].port

\* Errors that are worth a retry never end in a permanent failure.
NoPermanentFailure ==
    \A a \in Allocs, r \in Revisions : db[a].ops[r].state # "permanent_failed"

\* Once administrators and faults come to rest, every user's inbound listens
\* exactly when it should, with the desired key and without a safety client;
\* in between the panel reports the intent as pending.
Matches(u, x) == /\ x.tag = DesiredPresent(u)
                 /\ x.listening = x.tag
                 /\ x.tag => x.key = u.cdes /\ ~x.safety
                 /\ ~PendingSync(u)

Converges == \A a \in Allocs : <>[](Exists(db[a]) => Matches(db[a], xray[a]))
=============================================================================
