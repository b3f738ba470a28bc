------------------------------- MODULE Drift -------------------------------
(***************************************************************************)
(* What is in Xray and should not be: inbounds in the panel's namespace    *)
(* that no row knows, and clients in a user's inbound that are not his.    *)
(*                                                                         *)
(* The reconciler finds them and writes a removal; the synchronizer leases *)
(* and executes it, between the intents of the same users.  Both hold the  *)
(* node mutex while they talk to Xray; administrators, other clients of    *)
(* Xray's API and restarts do not wait for it.  Intents are those of       *)
(* IntentStore, reduced to the newest one of each user; all users belong   *)
(* to one template.                                                        *)
(***************************************************************************)
EXTENDS Integers, FiniteSets

CONSTANTS
    Users,       \* users of the template
    Orphans,     \* tags of the namespace that have no row
    None,
    Upsets,      \* which of UpsetKinds may happen
    MaxUpsets    \* bound: how many do

UpsetKinds == {"timeout", "rejected", "unavailable",     \* of a call
               "late",                       \* a call that timed out takes effect after all
               "xray", "panel",              \* restarts
               "alien", "orphan",            \* somebody else uses Xray's API
               "incompatible",               \* the template's verdict
               "rotate", "edit"}             \* an administrator's request

ASSUME DriftAssumption == Upsets \subseteq UpsetKinds /\ MaxUpsets \in Nat
ASSUME TagsAssumption  == Users \cap Orphans = {}

VARIABLES
    up,       \* tags registered in Xray
    clients,  \* user -> clients in his inbound
    late,     \* users whose CreateInbound may still take effect
    user,     \* user -> his rows
    tpl,      \* row of inbound_templates
    removal,  \* target -> newest row of drift_removals
    node,     \* holder of the node mutex
    job,      \* the synchronizer's work
    round,    \* the reconciler's round
    upsets    \* upsets so far

vars == <<up, clients, late, user, tpl, removal, node, job, round, upsets>>

Clients == {"own", "safety", "alien"}      \* own: the desired identity

\* A removal is of one client of an inbound or of a whole inbound.
Targets == (Users \X {"safety", "alien"}) \cup (Orphans \X {"inbound"})
IsInbound(t) == t[2] = "inbound"

ASSUME WorkAssumption == None \notin Targets \cup Users /\ Users \cap Targets = {}

RowStates == {"none", "open", "leased", "failed", "done"}    \* open: pending or retry_wait
OpenRow   == {"open", "leased"}

\* op: state of the newest intent; seen: observed_present of the allocation.
User == [life: {"none", "active", "deleted"}, intent: {"create", "rotate", "remove"}, op: RowStates,
         seen: BOOLEAN, released: BOOLEAN]
NoUser == [life |-> "none", intent |-> "create", op |-> "none",
           seen |-> FALSE, released |-> FALSE]

DesiredPresent(u) == u.life = "active"
PendingSync(u)    == u.op # "done"
HasOpenRotation(u) == u.intent = "rotate" /\ u.op \in OpenRow

RemovalSteps == {"observe", "remove", "recheck"}
OpSteps      == {"create", "drop", "rot_list", "rot_safety", "rot_remove", "rot_add", "rot_clean"}

\* expected: the lease found the identity that the inbound belongs to;
\* main: the rotation's listing showed the own client.
Job == [pc: RemovalSteps \cup OpSteps \cup {"idle", "leased"}, on: Targets \cup Users \cup {None},
        reclaimed: BOOLEAN, expected: BOOLEAN, main: BOOLEAN]
Idle == [pc |-> "idle", on |-> None, reclaimed |-> FALSE, expected |-> FALSE, main |-> FALSE]

\* What a round has read: rows, the verdict, tags; listed: clients of a user.
Round == [pc: {"idle", "list", "users", "clients", "stale"}, rows: [Users -> User], skip: BOOLEAN,
          tags: SUBSET (Users \cup Orphans), todo: SUBSET Users, on: Users \cup {None},
          listed: SUBSET Clients]
NoRound == [pc |-> "idle", rows |-> [u \in Users |-> NoUser], skip |-> FALSE,
            tags |-> {}, todo |-> {}, on |-> None, listed |-> {}]

Upset(k) == k \in Upsets /\ upsets < MaxUpsets /\ upsets' = upsets + 1

----------------------------------------------------------------------------
(* Rows of drift_removals.                                                 *)

\* Seeded fault: a permanent failure blocks the next removal of its target.
Queued_FailedBlocks(r) == r \in OpenRow \cup {"failed"}

\* The unique index over unfinished rows.
Queued(r) == r \in OpenRow

\* EnqueueDriftRemoval: a new row, unless one is open; it supersedes the failed one.
Enqueued(rows, ts) == [t \in Targets |-> IF t \in ts /\ ~Queued(rows[t]) THEN "open" ELSE rows[t]]

\* A row that still freezes the contract: unfinished, or failed and not superseded.
Freezes(r) == r \in OpenRow \cup {"failed"}

----------------------------------------------------------------------------
(* Xray, as the adapter shows it.                                          *)

Present(t) == IF IsInbound(t) THEN t[1] \in up ELSE t[2] \in clients[t[1]]

\* Listing the clients of an inbound that is not there is an error, no answer.
Answers(t) == IsInbound(t) \/ t[1] \in up
Absent(t)  == Answers(t) /\ ~Present(t)

\* Seeded fault: any other client will do.
Survives_Anyone(u, c) == clients[u] \ {c} # {}

\* RemoveUser's last line of defence: the own client or its safety client stays.
Survives(u, c) == (clients[u] \ {c}) \cap {"own", "safety"} # {}

Refused(u, c) == c \in clients[u] /\ ~Survives(u, c)

Without(u, c) == [clients EXCEPT ![u] = @ \ {c}]
With(u, c)    == [clients EXCEPT ![u] = IF u \in up THEN @ \cup {c} ELSE @]

\* Xray's inbound of u comes or goes.
Registered(u)   == up' = up \cup {u} /\ clients' = [clients EXCEPT ![u] = {"own"}]
Deregistered(u) == up' = up \ {u} /\ clients' = [clients EXCEPT ![u] = {}]
SameXray == UNCHANGED <<up, clients>>

----------------------------------------------------------------------------
(* handleDriftRemoval.                                                     *)

\* Seeded fault: an early return keeps the mutex.
Release_KeepsNode == job' = Idle /\ UNCHANGED node

Release == node' = "free" /\ job' = Idle

\* LeaseDueDriftRemoval: a due row, or a leased one whose holder is gone.  The
\* inbound's identity is looked up now, and only while the port is assigned.
LeaseRemoval(t) ==
    /\ job = Idle
    /\ removal[t] \in OpenRow
    /\ IsInbound(t) \/ ~tpl.incompatible
    /\ removal' = [removal EXCEPT ![t] = "leased"]
    /\ job' = [Idle EXCEPT !.pc = "leased", !.on = t, !.reclaimed = (removal[t] = "leased"),
                           !.expected = ~IsInbound(t) /\ ~user[t[1]].released]
    /\ UNCHANGED <<up, clients, late, user, tpl, node, round, upsets>>

TakeRemoval ==
    /\ job.pc = "leased" /\ job.on \in Targets
    /\ node = "free" /\ node' = "synchronizer"
    /\ job' = [job EXCEPT !.pc = IF job.reclaimed THEN "observe" ELSE "remove"]
    /\ UNCHANGED <<up, clients, late, user, tpl, removal, round, upsets>>

\* Complete, Reschedule or FailDriftRemoval, then the unlock.
Finishes(state) == removal' = [removal EXCEPT ![job.on] = state] /\ Release
Continues(pc)   == job' = [job EXCEPT !.pc = pc] /\ UNCHANGED <<removal, node>>

\* After a reclaim the target may be gone already; a read that fails is no answer.
ObserveTarget ==
    /\ job.pc = "observe"
    /\ \/ Absent(job.on) /\ Finishes("done") /\ UNCHANGED upsets
       \/ ~Absent(job.on) /\ Continues("remove") /\ UNCHANGED upsets
       \/ Upset("unavailable") /\ Continues("remove")
    /\ SameXray /\ UNCHANGED <<late, user, tpl, round>>

\* RemoveInbound.
RemoveOrphan(t) == up' = up \ {t[1]} /\ UNCHANGED clients

\* RemoveUser: refused without an expected identity, or when it would take the
\* last managed client; a client or an inbound that is not there is no error.
RemoveTarget ==
    /\ job.pc = "remove"
    /\ LET t == job.on
           taken == IF IsInbound(t) THEN RemoveOrphan(t)
                    ELSE clients' = Without(t[1], t[2]) /\ UNCHANGED up
           refused == ~IsInbound(t) /\ (~job.expected \/ Refused(t[1], t[2])) IN
       \/ refused /\ SameXray /\ Finishes("failed") /\ UNCHANGED upsets
       \/ ~refused /\ taken /\ Finishes("done") /\ UNCHANGED upsets
       \/ ~refused /\ Upset("timeout") /\ (taken \/ SameXray) /\ Continues("recheck")
       \/ ~refused /\ Upset("unavailable") /\ (taken \/ SameXray) /\ Finishes("open")
       \/ ~refused /\ Upset("rejected") /\ SameXray /\ Finishes("failed")
    /\ UNCHANGED <<late, user, tpl, round>>

\* The read-back; what is still there is tried again, or given up when the
\* internal errors have used up their attempts.
RecheckTarget ==
    /\ job.pc = "recheck"
    /\ \/ Absent(job.on) /\ Finishes("done") /\ UNCHANGED upsets
       \/ ~Absent(job.on) /\ (\E s \in {"open", "failed"} : Finishes(s)) /\ UNCHANGED upsets
       \/ Upset("unavailable") /\ \E s \in {"open", "failed"} : Finishes(s)
    /\ SameXray /\ UNCHANGED <<late, user, tpl, round>>

----------------------------------------------------------------------------
(* handle: the newest intent of a user, each call behind the fence.        *)

LeaseOp(u) ==
    /\ job = Idle
    /\ user[u].op \in OpenRow /\ ~tpl.incompatible
    /\ user' = [user EXCEPT ![u].op = "leased"]
    /\ job' = [Idle EXCEPT !.pc = "leased", !.on = u]
    /\ UNCHANGED <<up, clients, late, tpl, removal, node, round, upsets>>

TakeOp ==
    /\ job.pc = "leased" /\ job.on \in Users
    /\ node = "free" /\ node' = "synchronizer"
    /\ job' = [job EXCEPT !.pc = CASE user[job.on].intent = "remove" -> "drop"
                                   [] user[job.on].intent = "rotate" -> "rot_list"
                                   [] OTHER -> "create"]
    /\ UNCHANGED <<up, clients, late, user, tpl, removal, round, upsets>>

\* A newer intent has taken the row away from the worker.
Fenced == user[job.on].op = "leased"

DropOp ==
    /\ job.pc \in OpSteps /\ ~Fenced /\ Release
    /\ UNCHANGED <<up, clients, late, user, tpl, removal, round, upsets>>

\* Reschedule and Fail.
Ends(state) == user' = [user EXCEPT ![job.on].op = state] /\ Release

\* ConfirmSync: the observation, and the port of a deleted user.
Confirms(present) ==
    /\ LET row == user[job.on] IN
       user' = [user EXCEPT ![job.on] =
                   [row EXCEPT !.op = "done", !.seen = present,
                               !.released = row.released \/ (~present /\ row.life = "deleted")]]
    /\ Release

Goes(pc) == job' = [job EXCEPT !.pc = pc] /\ UNCHANGED <<user, node>>

At(pc) == job.pc = pc /\ Fenced /\ UNCHANGED <<tpl, removal, round>>

\* An unreachable node is tried again, a rejected call is final.
CallFails == \/ Upset("unavailable") /\ Ends("open")
             \/ Upset("rejected") /\ Ends("failed")

\* createDedicatedInbound: a tag that is there is confirmed when it carries the
\* own client and removed when it does not.
CreateInbound ==
    /\ At("create")
    /\ LET u == job.on IN
       \/ u \notin up /\ Registered(u) /\ Confirms(TRUE) /\ UNCHANGED <<late, upsets>>
       \/ u \in up /\ "own" \in clients[u] /\ SameXray /\ Confirms(TRUE) /\ UNCHANGED <<late, upsets>>
       \/ u \in up /\ "own" \notin clients[u] /\ Deregistered(u) /\ Ends("open") /\ UNCHANGED <<late, upsets>>
       \/ Upset("timeout") /\ u \notin up /\ Ends("open") /\ SameXray
                           /\ late' = IF "late" \in Upsets THEN late \cup {u} ELSE late
       \/ CallFails /\ SameXray /\ UNCHANGED late

DropInbound ==
    /\ At("drop")
    /\ \/ Deregistered(job.on) /\ Confirms(FALSE) /\ UNCHANGED upsets
       \/ Upset("timeout") /\ Ends("open") /\ SameXray
       \/ CallFails /\ SameXray
    /\ UNCHANGED late

\* rotateWithinInbound.
RotateList ==
    /\ At("rot_list")
    /\ LET u == job.on  own == "own" \in clients[u] IN
       \/ /\ job' = [job EXCEPT !.main = own,
                         !.pc = CASE u \notin up -> "create"
                                  [] u \in up /\ "safety" \notin clients[u] -> "rot_safety"
                                  [] u \in up /\ "safety" \in clients[u] /\ own -> "rot_remove"
                                  [] OTHER -> "rot_add"]
          /\ UNCHANGED <<user, node, upsets>>
       \/ CallFails
    /\ SameXray /\ UNCHANGED late

Adds(c) == clients' = With(job.on, c) /\ UNCHANGED up
Takes(c) == clients' = Without(job.on, c) /\ UNCHANGED up

RotateSafety ==
    /\ At("rot_safety")
    /\ \/ /\ Adds("safety")
          /\ Goes(IF job.on \notin up THEN "create" ELSE IF job.main THEN "rot_remove" ELSE "rot_add")
          /\ UNCHANGED upsets
       \/ Upset("timeout") /\ Ends("open") /\ SameXray
       \/ CallFails /\ SameXray
    /\ UNCHANGED late

RotateRemove ==
    /\ At("rot_remove")
    /\ \/ Refused(job.on, "own") /\ SameXray /\ Ends("failed") /\ UNCHANGED upsets
       \/ /\ ~Refused(job.on, "own") /\ Takes("own")
          /\ Goes(IF job.on \notin up THEN "create" ELSE "rot_add") /\ UNCHANGED upsets
       \/ ~Refused(job.on, "own") /\ Upset("timeout") /\ Ends("open") /\ (Takes("own") \/ SameXray)
       \/ CallFails /\ SameXray
    /\ UNCHANGED late

\* rotationPending: whatever goes wrong now is tried again.
RotateAdd ==
    /\ At("rot_add")
    /\ \/ /\ Adds("own") /\ UNCHANGED upsets
          /\ Goes(IF job.on \notin up THEN "create" ELSE "rot_clean")
       \/ (Upset("timeout") \/ Upset("rejected")) /\ Ends("open") /\ SameXray
    /\ UNCHANGED late

RotateClean ==
    /\ At("rot_clean")
    /\ \/ Refused(job.on, "safety") /\ SameXray /\ Ends("open") /\ UNCHANGED upsets
       \/ ~Refused(job.on, "safety") /\ Takes("safety") /\ Confirms(TRUE) /\ UNCHANGED upsets
       \/ (Upset("timeout") \/ Upset("rejected")) /\ Ends("open") /\ SameXray
    /\ UNCHANGED late

----------------------------------------------------------------------------
(* ReconcileOnce.                                                          *)

\* The rows are read before Xray's inbounds.
BeginRound ==
    /\ node = "free" /\ node' = "reconciler"
    /\ round' = [NoRound EXCEPT !.pc = "list", !.rows = user, !.skip = tpl.incompatible]
    /\ UNCHANGED <<up, clients, late, user, tpl, removal, job, upsets>>

EndRound == round' = NoRound /\ node' = "free"

\* ListInbounds, and removals of tags without a row.  (The capability signal
\* that follows is a step of module Capability.)
ListInbounds ==
    /\ round.pc = "list"
    /\ \/ /\ removal' = Enqueued(removal, {<<o, "inbound">> : o \in up \cap Orphans})
          /\ round' = [round EXCEPT !.pc = "users", !.tags = up,
                          !.todo = IF round.skip THEN {} ELSE {u \in Users : round.rows[u].life # "none"}]
          /\ UNCHANGED <<node, upsets>>
       \/ Upset("unavailable") /\ EndRound /\ UNCHANGED removal
    /\ UNCHANGED <<up, clients, late, user, tpl, job>>

\* ListUsers, when the listing had the tag; an error ends the round.
ListUsers(u) ==
    /\ round.pc = "users" /\ u \in round.todo
    /\ \/ /\ u \in round.tags => u \in up
          /\ round' = [round EXCEPT !.pc = "clients", !.on = u, !.todo = @ \ {u},
                                    !.listed = IF u \in round.tags THEN clients[u] ELSE {}]
          /\ UNCHANGED <<node, upsets>>
       \/ u \in round.tags /\ u \notin up /\ EndRound /\ UNCHANGED upsets
       \/ u \in round.tags /\ Upset("unavailable") /\ EndRound
    /\ UNCHANGED <<up, clients, late, user, tpl, removal, job>>

\* A safety client is tolerated while a rotation is open.
Unknown(u) == {c \in round.listed \ {"own"} : ~(c = "safety" /\ HasOpenRotation(user[u]))}

\* Unknown clients are queued; the observation is recorded; a confirmed user
\* whose inbound is not as desired gets a new intent (EnqueueReconcile's
\* compare-and-set: no request came between).
ReconcileUser ==
    /\ round.pc = "clients"
    /\ LET u == round.on
           row == user[u]
           actual == "own" \in round.listed
           desired == DesiredPresent(round.rows[u])
           drifted == ~PendingSync(round.rows[u]) /\ actual # desired /\ row.op = "done" IN
       /\ removal' = Enqueued(removal, {<<u, c>> : c \in Unknown(u)})
       /\ user' = [user EXCEPT ![u] =
                      [row EXCEPT !.seen = actual,
                                  !.op = IF drifted THEN "open" ELSE row.op,
                                  !.intent = IF drifted THEN (IF desired THEN "create" ELSE "remove")
                                             ELSE row.intent]]
    /\ round' = [round EXCEPT !.pc = "users", !.on = None, !.listed = {}]
    /\ UNCHANGED <<up, clients, late, tpl, node, job, upsets>>

\* StaleDriftRemovals: a failed removal whose inbound is not listed is queued
\* again, so that its absence is confirmed.
RequeueStale ==
    /\ round.pc = "users" /\ round.todo = {}
    /\ removal' = Enqueued(removal, {t \in Targets : removal[t] = "failed" /\ t[1] \notin round.tags})
    /\ EndRound
    /\ UNCHANGED <<up, clients, late, user, tpl, job, upsets>>

----------------------------------------------------------------------------
(* Administrators.                                                         *)

Intends(u, r) == user' = [user EXCEPT ![u] = r]

CreateUser(u) ==
    /\ user[u].life = "none" /\ ~tpl.incompatible
    /\ Intends(u, [NoUser EXCEPT !.life = "active", !.op = "open"])
    /\ UNCHANGED <<up, clients, late, tpl, removal, node, job, round, upsets>>

RotateCredential(u) ==
    /\ user[u].life = "active" /\ ~HasOpenRotation(user[u]) /\ Upset("rotate")
    /\ Intends(u, [user[u] EXCEPT !.intent = "rotate", !.op = "open"])
    /\ UNCHANGED <<up, clients, late, tpl, removal, node, job, round>>

DeleteUser(u) ==
    /\ user[u].life = "active"
    /\ Intends(u, [user[u] EXCEPT !.life = "deleted", !.intent = "remove", !.op = "open"])
    /\ UNCHANGED <<up, clients, late, tpl, removal, node, job, round, upsets>>

\* Seeded fault: a deleted user no longer counts.
Live_Undeleted(u) == u.life = "active"

\* A user whose inbound may still exist.
Live(u) == u.life = "active" \/ (u.life = "deleted" /\ (u.op # "done" \/ u.seen))

\* UpdateTemplate with another method or listen address.
EditContract ==
    /\ Upset("edit")
    /\ \A u \in Users : ~Live(user[u]) /\ user[u].op \notin OpenRow
    /\ \A t \in Targets : ~Freezes(removal[t])
    /\ tpl' = [tpl EXCEPT !.contract = @ + 1]
    /\ UNCHANGED <<up, clients, late, user, removal, node, job, round>>

----------------------------------------------------------------------------
(* The environment.                                                        *)

\* The verdict of a validation or of trackDrift (module Capability).
FoundIncompatible ==
    /\ ~tpl.incompatible /\ Upset("incompatible")
    /\ tpl' = [tpl EXCEPT !.incompatible = TRUE]
    /\ UNCHANGED <<up, clients, late, user, removal, node, job, round>>

FoundCompatible ==
    /\ tpl.incompatible
    /\ tpl' = [tpl EXCEPT !.incompatible = FALSE]
    /\ UNCHANGED <<up, clients, late, user, removal, node, job, round, upsets>>

AddAlien(u) ==
    /\ u \in up /\ Upset("alien") /\ clients' = With(u, "alien")
    /\ UNCHANGED <<up, late, user, tpl, removal, node, job, round>>

AddOrphan(o) ==
    /\ o \notin up /\ Upset("orphan") /\ up' = up \cup {o}
    /\ UNCHANGED <<clients, late, user, tpl, removal, node, job, round>>

\* The CreateInbound that timed out reaches Xray.
LateCreate(u) ==
    /\ u \in late /\ late' = late \ {u}
    /\ IF u \in up THEN SameXray ELSE Registered(u)
    /\ UNCHANGED <<user, tpl, removal, node, job, round, upsets>>

XrayRestart ==
    /\ Upset("xray")
    /\ up' = {} /\ clients' = [u \in Users |-> {}] /\ late' = {}
    /\ UNCHANGED <<user, tpl, removal, node, job, round>>

\* Rows stay leased, goroutines start over.
PanelRestart ==
    /\ Upset("panel")
    /\ job' = Idle /\ round' = NoRound /\ node' = "free"
    /\ UNCHANGED <<up, clients, late, user, tpl, removal>>

----------------------------------------------------------------------------
Init ==
    /\ up = {} /\ clients = [u \in Users |-> {}] /\ late = {}
    /\ user = [u \in Users |-> NoUser]
    /\ tpl = [incompatible |-> FALSE, contract |-> 0]
    /\ removal = [t \in Targets |-> "none"]
    /\ node = "free" /\ job = Idle /\ round = NoRound /\ upsets = 0

SyncStep ==
    \/ ObserveTarget \/ RemoveTarget \/ RecheckTarget
    \/ DropOp \/ CreateInbound \/ DropInbound
    \/ RotateList \/ RotateSafety \/ RotateRemove \/ RotateAdd \/ RotateClean

RoundStep == ListInbounds \/ (\E u \in Users : ListUsers(u)) \/ ReconcileUser \/ RequeueStale

AdminStep == \/ \E u \in Users : CreateUser(u) \/ RotateCredential(u) \/ DeleteUser(u)
             \/ EditContract

Environment ==
    \/ FoundIncompatible \/ FoundCompatible \/ XrayRestart \/ PanelRestart
    \/ \E u \in Users : AddAlien(u) \/ LateCreate(u)
    \/ \E o \in Orphans : AddOrphan(o)

Next ==
    \/ (\E t \in Targets : LeaseRemoval(t)) \/ (\E u \in Users : LeaseOp(u))
    \/ TakeRemoval \/ TakeOp \/ SyncStep
    \/ BeginRound \/ RoundStep
    \/ AdminStep \/ Environment

\* The synchronizer and a round under way go on; every due row gets its turn;
\* sync.Mutex does not starve a waiter; the reconciler has a ticker.
Fairness ==
    /\ WF_vars(SyncStep \/ RoundStep)
    /\ SF_vars(TakeRemoval \/ TakeOp) /\ SF_vars(BeginRound)
    /\ \A t \in Targets : SF_vars(LeaseRemoval(t))
    /\ \A u \in Users : SF_vars(LeaseOp(u))

Spec == Init /\ [][Next]_vars

FairSpec == Spec /\ Fairness

----------------------------------------------------------------------------
(* What the removal of drift promises.                                     *)

\* Whoever holds the mutex has work under way, and the synchronizer's removal
\* is a row that it has leased.
DriftTypeOK ==
    /\ up \subseteq Users \cup Orphans /\ clients \in [Users -> SUBSET Clients]
    /\ late \subseteq Users /\ user \in [Users -> User]
    /\ tpl \in [incompatible: BOOLEAN, contract: 0 .. MaxUpsets]
    /\ removal \in [Targets -> RowStates]
    /\ job \in Job /\ round \in Round /\ upsets \in 0 .. MaxUpsets
    /\ node \in {"free", "synchronizer", "reconciler"}
    /\ (node = "synchronizer") <=> (job.pc \in RemovalSteps \cup OpSteps)
    /\ (node = "reconciler") <=> (round.pc # "idle")
    /\ job.on \in Targets => removal[job.on] = "leased"

\* However a removal that was queued for a leftover safety client meets a
\* rotation that needs it, an inbound is never left to strangers: the user's
\* own client or his safety client is in it (RemoveUser, FR-019).
NeverLeftToStrangers ==
    \A u \in Users : u \in up => clients[u] \cap {"own", "safety"} # {}

\* The method and the listen address only change once the removal of every
\* user's inbound has been confirmed; what a late call brings back after that
\* the panel cannot know (UpdateTemplate, FR-006).
ContractStaysWithInbounds ==
    [][tpl'.contract # tpl.contract => \A u \in up \cap Users : user[u].released]_vars

\* When nobody adds strangers any more, those that are there are removed,
\* whatever failed on the way: an inbound in Xray has one client, its user's
\* own, and its user is not deleted.  Only an incompatible template keeps more,
\* and a call of the user's newest intent that Xray has rejected (FR-031).
Clean(u) ==
    u \in up => CASE user[u].life = "deleted" -> user[u].op = "failed"
                 [] OTHER -> Cardinality(clients[u]) = 1 /\ ("own" \in clients[u] \/ user[u].op = "failed")

Cleans == <>[](tpl.incompatible \/ (up \cap Orphans = {} /\ \A u \in Users : Clean(u)))

\* When every user is gone, nothing keeps the contract frozen for ever
\* ("avoid locking the template for good", ReconcileOnce, FR-020).
Unlocks ==
    <>[](~tpl.incompatible /\ (\A u \in Users : user[u].released) => \A t \in Targets : ~Freezes(removal[t]))
=============================================================================
