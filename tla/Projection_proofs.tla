------------------------- MODULE Projection_proofs --------------------------
(***************************************************************************)
(* Proofs about Projection, for every set of users and ports, every bound  *)
(* and every selection of faults.  The store's part of the invariant comes *)
(* from IntentStore_proofs.  What is added is an account of every path of  *)
(* calls: what the synchronizer knows of Xray's inbound at each of them,   *)
(* whatever failed before and however often Xray restarted in between.  A  *)
(* late call is allowed to spoil what is known: the inbound is then marked.*)
(***************************************************************************)
EXTENDS Projection, IntentStore_proofs

----------------------------------------------------------------------------
(* The inductive invariant.                                                *)

RemoveSteps == {"remove", "remove_check"}

RotSteps == {"rot_list", "rot_safety", "rot_safety_check", "rot_remove",
             "rot_add", "rot_add_check", "rot_clean"}

\* An inbound that is registered carries a managed client, unless a late call
\* took it.
InboundOK(x) == /\ ~x.tag => x = NoInbound
                /\ Prompt(x) => x.key # 0 \/ x.safety

\* The new key and nothing else, where there is an inbound of prompt calls.
NewKeyOnly(x, v) == Prompt(x) => x.key = v /\ ~x.safety

\* A rotation to key v: what is known of the inbound x before the call at pc.
RotationPath(x, v, pc, main) ==
    /\ pc \in {"create", "create_exists"} => ~Prompt(x)
    /\ pc \in {"create_check", "confirm"} => NewKeyOnly(x, v)
    /\ pc = "rot_add" => (Prompt(x) => x.key = 0)
    /\ pc = "rot_add_check" => (Prompt(x) => x.key \in {0, v})
    /\ pc = "rot_clean" => (Prompt(x) => x.key = v)
    /\ pc \in {"rot_safety", "rot_safety_check"} /\ ~main => (Prompt(x) => x.key = 0)

\* The path of calls fits the intent k, and the inbound fits the path.
PathOK(k, x, pc, main) ==
    /\ pc \in RemoveSteps => ~k.present
    /\ pc \in CallSteps \ RemoveSteps => k.present
    /\ pc \in RotSteps => k.reason = "rotate"
    /\ pc = "confirm" /\ ~k.present => ~Prompt(x)
    /\ k.present /\ k.reason = "rotate" => RotationPath(x, k.version, pc, main)

PathSound == \A w \in Workers :
                node = "synchronizer" => PathOK(work[w], Its(w), call.pc, call.main)

\* The synchronizer's work is that of the row it leased, and loaded before the
\* node is taken.
WorkSound ==
    \A w \in Workers :
        /\ work[w].alloc # NoAlloc =>
              work[w].reason = db[work[w].alloc].ops[work[w].rev].reason
        /\ work[w].loaded => work[w].alloc # NoAlloc
        /\ node = "synchronizer" => work[w].loaded

InboundsSound == \A a \in Allocs : InboundOK(xray[a])

\* What a user's confirmed intent says of its inbound.
Kept(u, x) ==
    /\ Gone(u, x)
    /\ /\ Exists(u) /\ u.ops[u.des].state = "succeeded"
       /\ u.ops[u.des].present /\ u.ops[u.des].reason = "rotate"
       => NewKeyOnly(x, u.cdes)

UsersSound == \A a \in Allocs : Kept(db[a], xray[a])

ProjInv == /\ IInv /\ ProjectionTypeOK
           /\ WorkSound /\ InboundsSound /\ PathSound /\ UsersSound

----------------------------------------------------------------------------
(* Transactions that confirm nothing.                                      *)

\* The rows of known intents keep their reason, no port is released, and an
\* intent that is confirmed afterwards was confirmed before.
Quiet(u, v) ==
    /\ Exists(u) => \A r \in Revisions : r <= u.des => v.ops[r].reason = u.ops[r].reason
    /\ v.released => u.released
    /\ Exists(v) /\ v.ops[v.des].state = "succeeded" =>
          /\ Exists(u) /\ v.des = u.des /\ v.cdes = u.cdes
          /\ u.ops[u.des].state = "succeeded"
          /\ v.ops[v.des].present = u.ops[u.des].present
          /\ v.ops[v.des].reason = u.ops[u.des].reason

\* Rows that differ in nothing that an intent is about.
SameIntents(u, w) == w.ops = u.ops /\ w.des = u.des /\ w.released = u.released

LEMMA QuietRefl == ASSUME NEW u PROVE Quiet(u, u)
  BY DEF Quiet

\* Superseding keeps the reason of every row.
LEMMA SupersedeReasons ==
  ASSUME NEW ops \in [Revisions -> Operation], NEW r \in Revisions
  PROVE  \A s \in Revisions : SupersedeOlder(ops, r)[s].reason = ops[s].reason
  <1>1. ASSUME NEW op \in Operation PROVE Closed(op).reason = op.reason
    BY DEF Closed, Operation
  <1>2. \A s \in Revisions : SupersedeOlder(ops, r)[s] =
            IF s < r /\ ops[s].state \in OpenStates \cup {"permanent_failed"}
            THEN Closed(ops[s]) ELSE ops[s]
    BY DEF SupersedeOlder
  <1>3. \A s \in Revisions : ops[s] \in Operation
    OBVIOUS
  <1> QED BY <1>1, <1>2, <1>3

\* A new intent is pending, whatever it replaces.
LEMMA CommitQuiet ==
  ASSUME NEW u \in UserRow, NEW w \in UserRow, SameIntents(u, w), u.des + 1 \in Revisions,
         NEW present, NEW cred, NEW reason
  PROVE  Quiet(u, CommitIntent(w, u.des + 1, present, cred, reason))
  <1> DEFINE r == u.des + 1
             old == SupersedeOlder(w.ops, r)
             v == CommitIntent(w, r, present, cred, reason)
  <1>1. w.ops \in [Revisions -> Operation] /\ u.des \in Int /\ r \in Revisions /\ w.ops = u.ops
    BY DEF UserRow, SameIntents
  <1>2. old \in [Revisions -> Operation] /\ \A s \in Revisions : old[s].reason = u.ops[s].reason
    BY <1>1, SupersedeFacts, SupersedeReasons
  <1>3. /\ v.ops = [old EXCEPT ![r] = NewOperation(present, cred, reason)]
        /\ v.des = r /\ v.released = u.released
    BY DEF CommitIntent, UserRow, SameIntents
  <1> HIDE DEF v, old
  <1>4. v.ops[r].state = "pending"
    BY <1>1, <1>2, <1>3 DEF NewOperation
  <1>5. \A s \in Revisions : s <= u.des => v.ops[s].reason = u.ops[s].reason
    <2>1. \A s \in Revisions : s <= u.des => s # r
      BY <1>1 DEF Revisions
    <2> QED BY <1>1, <1>2, <1>3, <2>1
  <1>6. Quiet(u, v)
    BY <1>3, <1>4, <1>5 DEF Quiet
  <1> QED BY <1>6 DEF v

LEMMA DecisionQuiet ==
  ASSUME NEW u \in UserRow, NEW w \in UserRow, SameIntents(u, w), w.cdes = u.cdes, Exists(u),
         NEW admin \in BOOLEAN, NEW exceeded \in BOOLEAN,
         ApplyDecision(w, admin, exceeded).des \in Revisions
  PROVE  Quiet(u, ApplyDecision(w, admin, exceeded))
  <1> DEFINE d == Decided(w, admin, exceeded)
             v == ApplyDecision(w, admin, exceeded)
             i == CommitIntent(d, w.des + 1, DesiredPresent(d), w.cdes, DecisionReason(w, admin, exceeded))
  <1>1. v = IF DesiredPresent(w) = DesiredPresent(d) THEN d ELSE i
    BY DEF ApplyDecision
  <1>2. d \in UserRow /\ d.ops = u.ops /\ d.des = u.des /\ d.released = u.released /\ d.cdes = u.cdes
    BY ZenonT(60) DEF Decided, UserRow, SameIntents
  <1>3. w.des = u.des /\ SameIntents(u, d)
    BY <1>2 DEF SameIntents
  <1>4. Quiet(u, d)
    BY <1>2 DEF Quiet
  <1>5. CASE v = d
    BY <1>4, <1>5
  <1>6. CASE v = i
    <2>1. i.des = u.des + 1
      BY <1>2, <1>3, CommitIntentFrame
    <2>2. u.des + 1 \in Revisions
      BY <1>6, <2>1
    <2>3. Quiet(u, i)
      BY <1>2, <1>3, <2>2, CommitQuiet
    <2> QED BY <1>6, <2>3
  <1> QED BY <1>1, <1>5, <1>6

\* A new user's first intent is pending.
LEMMA NewUserQuiet ==
  ASSUME NEW u, ~Exists(u), NEW p, NEW limit
  PROVE  Quiet(u, NewUser(p, limit))
  <1> DEFINE v == NewUser(p, limit)
  <1>1. 1 \in Revisions
    BY BoundAssumption DEF Revisions
  <1>2. v.des = 1 /\ v.released = FALSE
        /\ v.ops = [NoUser.ops EXCEPT ![1] = NewOperation(TRUE, 1, "create")]
    BY DEF NewUser, NoUser
  <1>3. v.ops[v.des].state = "pending"
    BY <1>1, <1>2 DEF NoUser, NewOperation
  <1> HIDE DEF v
  <1>4. Quiet(u, v)
    BY <1>2, <1>3 DEF Quiet
  <1> QED BY <1>4 DEF v

LEMMA ObservedQuiet ==
  ASSUME NEW u \in UserRow, NEW actual
  PROVE  Quiet(u, Observed(u, actual))
  <1> DEFINE v == Observed(u, actual)
  <1>1. v.ops = u.ops /\ v.des = u.des /\ v.released = u.released /\ v.cdes = u.cdes /\ v.life = u.life
    BY DEF Observed, UserRow
  <1> HIDE DEF v
  <1>2. Quiet(u, v)
    BY <1>1 DEF Quiet, Exists
  <1> QED BY <1>2 DEF v

\* An operation that is still not confirmed, of the same reason.
LEMMA OperationQuiet ==
  ASSUME NEW u \in UserRow, NEW r \in Revisions, NEW op, NEW v,
         op.reason = u.ops[r].reason, op.state # "succeeded",
         v.ops = [u.ops EXCEPT ![r] = op], v.des = u.des, v.released = u.released,
         v.cdes = u.cdes, v.life = u.life, r = u.des
  PROVE  Quiet(u, v)
  <1>1. u.ops \in [Revisions -> Operation]
    BY DEF UserRow
  <1>2. \A s \in Revisions : v.ops[s] = IF s = r THEN op ELSE u.ops[s]
    BY <1>1
  <1> QED BY <1>2 DEF Quiet

LEMMA UnfinishedQuiet ==
  ASSUME NEW u \in UserRow, NEW r \in Revisions, r = u.des,
         NEW state \in {"retry_wait", "permanent_failed"}
  PROVE  Quiet(u, Unfinished(u, r, state))
  <1> DEFINE op == [u.ops[r] EXCEPT !.state = state, !.owner = NoOwner, !.expired = FALSE]
             v == Unfinished(u, r, state)
  <1>1. u.ops[r] \in Operation
    BY DEF UserRow
  <1>2. op.reason = u.ops[r].reason /\ op.state # "succeeded"
    BY <1>1 DEF Operation
  <1>3. v.ops = [u.ops EXCEPT ![r] = op] /\ v.des = u.des /\ v.released = u.released
        /\ v.cdes = u.cdes /\ v.life = u.life
    BY DEF Unfinished, UserRow
  <1> HIDE DEF v, op
  <1>4. Quiet(u, v)
    BY <1>2, <1>3, OperationQuiet
  <1> QED BY <1>4 DEF v

\* What a confirmed intent says of the inbound survives a quiet transaction.
LEMMA KeptQuiet ==
  ASSUME NEW u, NEW v, NEW x, Quiet(u, v), Kept(u, x)
  PROVE  Kept(v, x)
  BY DEF Quiet, Kept, Gone

----------------------------------------------------------------------------
(* Administrators' requests.                                               *)

LEMMA SnapshotFacts ==
  ASSUME IInv, NEW a \in Allocs, NEW kind \in Kinds, NEW p \in Ports \cup {0}, db[a].life = "active"
  PROVE  LET q == Snapshot(kind, a, p) IN
         q \in Request /\ q.des = db[a].des /\ Current(db[a], q.des, q.present, q.cred)
  <1> DEFINE q == Snapshot(kind, a, p)
  <1>1. db[a] \in UserRow /\ Exists(db[a])
    BY DEF IInv, TypeOK, Exists
  <1>2. q \in Request
    BY <1>1 DEF Snapshot, Request, UserRow, DesiredPresent
  <1>3. q.des = db[a].des /\ q.present = DesiredPresent(db[a]) /\ q.cred = db[a].cdes
    BY DEF Snapshot
  <1> HIDE DEF q
  <1>4. q \in Request /\ q.des = db[a].des /\ Current(db[a], q.des, q.present, q.cred)
    BY <1>1, <1>2, <1>3, RowNumbers DEF Current
  <1> QED BY <1>4 DEF q

\* A transaction of one user that confirms nothing.
QuietCommit(a) == \E v : /\ SoundStep(db[a], v) /\ Quiet(db[a], v)
                         /\ db' = [db EXCEPT ![a] = v]

LEMMA SubmitQuiet ==
  ASSUME IInv, NEW a \in Allocs,
         \/ \E p \in Ports : SubmitChangePort(a, p)
         \/ SubmitRotate(a) \/ SubmitDelete(a) \/ SubmitToggle(a)
  PROVE  QuietCommit(a) /\ UNCHANGED <<req, seen, work, targets, remote>>
  <1> DEFINE u == db[a]
  <1>0. u \in UserRow /\ UserOK(u)
    BY DEF IInv, TypeOK
  <1>2. ASSUME NEW kind \in Kinds, NEW p \in Ports \cup {0}, NEW w \in UserRow, NEW present, NEW cred, NEW reason,
               NEW v, Submit(a, kind, p, v),
               SameIntents(u, w), v = CommitIntent(w, Snapshot(kind, a, p).des + 1, present, cred, reason)
        PROVE  Quiet(u, v)
    <2>1. u.life = "active" /\ RowFree(u, Snapshot(kind, a, p).des + 1)
      BY <1>2 DEF Submit, Accepts
    <2>2. Snapshot(kind, a, p).des = u.des
      BY DEF Snapshot
    <2>3. u.des + 1 \in Revisions
      BY <2>1, <2>2 DEF RowFree
    <2> QED BY <1>0, <1>2, <2>2, <2>3, CommitQuiet
  <1>3. ASSUME NEW kind \in Kinds, NEW p \in Ports \cup {0}, NEW v, Submit(a, kind, p, v)
        PROVE  /\ Snapshot(kind, a, p) \in Request /\ Accepts(u, Snapshot(kind, a, p))
               /\ Current(u, Snapshot(kind, a, p).des, Snapshot(kind, a, p).present, Snapshot(kind, a, p).cred)
               /\ Touched(u) \in UserRow /\ SameIntents(u, Touched(u))
               /\ db' = [db EXCEPT ![a] = v] /\ UNCHANGED <<req, seen, work, targets, remote>>
    <2>1. /\ Accepts(u, Snapshot(kind, a, p)) /\ u.life = "active"
          /\ db' = [db EXCEPT ![a] = v] /\ UNCHANGED <<req, seen, work, targets, remote>>
      BY <1>3 DEF Submit
    <2>2. u.urev + 1 \in 0 .. MaxUserRevision
      BY <1>0, <2>1, BoundAssumption DEF Accepts, UserRow
    <2>3. Touched(u) \in UserRow /\ SameIntents(u, Touched(u))
      BY <1>0, <2>2 DEF Touched, UserRow, SameIntents
    <2> QED BY <2>1, <2>3, SnapshotFacts
  <1>4. ASSUME NEW p \in Ports, SubmitChangePort(a, p)
        PROVE  QuietCommit(a) /\ UNCHANGED <<req, seen, work, targets, remote>>
    <2> DEFINE q == Snapshot("port_change", a, p)
               v == ChangedPort(u, q)
               w == [Touched(u) EXCEPT !.port = q.port]
    <2>1. Submit(a, "port_change", p, v)
      BY <1>4 DEF SubmitChangePort
    <2>2. "port_change" \in Kinds /\ p \in Ports \cup {0} /\ q.port = p
      BY DEF Kinds, Snapshot
    <2>3. w \in UserRow /\ SameIntents(u, w)
      BY <2>1, <2>2, <1>3 DEF UserRow, SameIntents
    <2>4. v = CommitIntent(w, q.des + 1, q.present, q.cred, "port_change")
      BY DEF ChangedPort
    <2>5. SoundStep(u, v)
      BY <1>0, <1>3, <2>1, <2>2, ChangedPortSound
    <2> HIDE DEF v, w, q
    <2>6. Quiet(u, v)
      BY <1>2, <2>1, <2>2, <2>3, <2>4 DEF q
    <2> QED BY <1>3, <2>1, <2>2, <2>5, <2>6 DEF QuietCommit
  <1>5. CASE SubmitRotate(a)
    <2> DEFINE q == Snapshot("rotate", a, 0)
               v == Rotated(u, q)
               w == [Touched(u) EXCEPT !.cdes = q.cred + 1, !.cred[q.cred + 1] = "pending"]
    <2>1. Submit(a, "rotate", 0, v) /\ \A x \in Versions : u.cred[x] # "pending"
      BY <1>5 DEF SubmitRotate
    <2>2. "rotate" \in Kinds /\ 0 \in Ports \cup {0}
      BY DEF Kinds
    <2>3. q \in Request /\ Accepts(u, q) /\ Current(u, q.des, q.present, q.cred)
      BY <1>3, <2>1, <2>2
    <2>4. q.cred = u.cdes /\ q.cred <= u.des /\ u.des + 1 \in Revisions
      BY <1>0, <2>3, AcceptedIsCurrent DEF Consistent
    <2>5. q.cred + 1 \in 0 .. MaxRevision
      BY <1>0, <2>4, BoundAssumption DEF UserRow, Revisions
    <2>6. w \in UserRow /\ SameIntents(u, w)
      <3>1. Touched(u) \in UserRow /\ SameIntents(u, Touched(u))
        BY <1>3, <2>1, <2>2
      <3>2. [Touched(u).cred EXCEPT ![q.cred + 1] = "pending"] \in [Versions -> KeyState]
        BY <3>1 DEF UserRow, KeyState
      <3>3. w = [Touched(u) EXCEPT !.cdes = q.cred + 1, !.cred = [Touched(u).cred EXCEPT ![q.cred + 1] = "pending"]]
        BY <3>1 DEF UserRow
      <3> QED BY <2>5, <3>1, <3>2, <3>3 DEF UserRow, SameIntents
    <2>7. v = CommitIntent(w, q.des + 1, q.present, q.cred + 1, "rotate")
      BY DEF Rotated
    <2>8. SoundStep(u, v)
      BY <1>0, <2>1, <2>3, RotatedSound
    <2> HIDE DEF v, w, q
    <2>9. Quiet(u, v)
      BY <1>2, <2>1, <2>2, <2>6, <2>7 DEF q
    <2> QED BY <1>3, <2>1, <2>2, <2>8, <2>9 DEF QuietCommit
  <1>6. CASE SubmitDelete(a)
    <2> DEFINE q == Snapshot("delete", a, 0)
               v == SoftDeleted(u, q)
               w == [Touched(u) EXCEPT !.life = "deleted", !.admin = FALSE]
    <2>1. Submit(a, "delete", 0, v)
      BY <1>6 DEF SubmitDelete
    <2>2. "delete" \in Kinds /\ 0 \in Ports \cup {0}
      BY DEF Kinds
    <2>3. w \in UserRow /\ SameIntents(u, w)
      BY <2>1, <2>2, <1>3 DEF UserRow, SameIntents
    <2>4. v = CommitIntent(w, q.des + 1, FALSE, 0, "delete")
      BY DEF SoftDeleted
    <2>5. SoundStep(u, v)
      BY <1>0, <1>3, <2>1, <2>2, SoftDeletedSound
    <2> HIDE DEF v, w, q
    <2>6. Quiet(u, v)
      BY <1>2, <2>1, <2>2, <2>3, <2>4 DEF q
    <2> QED BY <1>3, <2>1, <2>2, <2>5, <2>6 DEF QuietCommit
  <1>7. CASE SubmitToggle(a)
    <2> DEFINE admin == ~u.admin
               v == Updated(u, admin, u.limit)
               w == [u EXCEPT !.urev = u.urev + 1, !.limit = u.limit]
               exceeded == IsQuotaExceeded(u.limit, u.used)
    <2>1. UpdateUser(a, admin, u.limit) /\ UNCHANGED remote
      BY <1>7 DEF SubmitToggle
    <2>2. /\ u.life = "active" /\ u.urev < MaxUserRevision /\ db' = [db EXCEPT ![a] = v]
          /\ UNCHANGED <<req, seen, work, targets>>
      BY <2>1 DEF UpdateUser
    <2>3. admin \in BOOLEAN /\ u.limit \in Limits \cup {0} /\ Exists(u) /\ exceeded \in BOOLEAN
      BY <1>0, <2>2 DEF UserRow, Exists, IsQuotaExceeded
    <2>4. SoundStep(u, v)
      <3>1. IInv' /\ SoundStep(db[a], db'[a])
        BY <2>1, <2>3, UpdateUserSound
      <3> QED BY <2>2, <3>1 DEF IInv, TypeOK
    <2>5. u.urev + 1 \in 0 .. MaxUserRevision
      BY <1>0, <2>2, BoundAssumption DEF UserRow
    <2>6. w \in UserRow /\ SameIntents(u, w) /\ w.cdes = u.cdes
      BY <1>0, <2>5 DEF UserRow, SameIntents
    <2>7. v = ApplyDecision(w, admin, exceeded)
      BY DEF Updated
    <2>8. v.des \in Revisions
      BY <2>4, <2>3 DEF SoundStep, Advance, UserOK, Consistent, LatestOnly
    <2> HIDE DEF v, w, admin, exceeded
    <2>9. Quiet(u, v)
      BY <1>0, <2>3, <2>6, <2>7, <2>8, DecisionQuiet
    <2> QED BY <2>1, <2>2, <2>4, <2>9 DEF QuietCommit
  <1> QED BY <1>4, <1>5, <1>6, <1>7

----------------------------------------------------------------------------
(* What a step leaves alone.                                               *)

QuietStep == \A a \in Allocs : Quiet(db[a], db'[a])

LEMMA OneUserQuiet ==
  ASSUME IInv, NEW a \in Allocs, NEW v, Quiet(db[a], v), db' = [db EXCEPT ![a] = v]
  PROVE  QuietStep
  <1>1. \A b \in Allocs : db'[b] = IF b = a THEN v ELSE db[b]
    BY DEF IInv, TypeOK
  <1> QED BY <1>1, QuietRefl DEF QuietStep

LEMMA SameRowsQuiet == ASSUME UNCHANGED db PROVE QuietStep
  BY QuietRefl DEF QuietStep

LEMMA QuietUsers ==
  ASSUME ProjInv, QuietStep, UNCHANGED xray
  PROVE  UsersSound'
  BY KeptQuiet DEF ProjInv, QuietStep, UsersSound

\* The row behind a worker's lease keeps its reason.
LEMMA QuietReason ==
  ASSUME ProjInv, QuietStep, NEW w \in Workers, work[w].alloc # NoAlloc
  PROVE  db'[work[w].alloc].ops[work[w].rev].reason = db[work[w].alloc].ops[work[w].rev].reason
  <1>1. /\ work[w].alloc \in Allocs /\ work[w].rev \in Revisions
        /\ Exists(db[work[w].alloc]) /\ work[w].rev <= db[work[w].alloc].des
    BY LoadedWork DEF ProjInv, Current
  <1> QED BY <1>1 DEF QuietStep, Quiet

LEMMA QuietWork ==
  ASSUME ProjInv, QuietStep, UNCHANGED work, node' = "synchronizer" => node = "synchronizer"
  PROVE  WorkSound'
  BY QuietReason DEF ProjInv, WorkSound

LEMMA SamePath ==
  ASSUME ProjInv, UNCHANGED <<work, xray, call>>, node' = "synchronizer" => node = "synchronizer"
  PROVE  PathSound'
  BY DEF ProjInv, PathSound, Its

\* A transaction of somebody else: the synchronizer's calls go on as before.
LEMMA QuietPreserves ==
  ASSUME ProjInv, IInv', QuietStep, UNCHANGED <<work, xray, call>>, ProjectionTypeOK',
         node' = "synchronizer" => node = "synchronizer"
  PROVE  ProjInv'
  <1>1. InboundsSound'
    BY DEF ProjInv, InboundsSound
  <1> QED BY <1>1, QuietUsers, QuietWork, SamePath DEF ProjInv

\* main starts one synchronizer.
LEMMA OneWorker == ASSUME NEW w \in Workers, NEW x \in Workers PROVE w = x
  BY OneSynchronizer

\* The synchronizer has let go of its work and of the node.
LEMMA ReleasedPreserves ==
  ASSUME ProjInv, IInv', UsersSound', ProjectionTypeOK', UNCHANGED xray,
         node' # "synchronizer", \A w \in Workers : work'[w] = NoWork
  PROVE  ProjInv'
  <1>1. InboundsSound' /\ PathSound'
    BY DEF ProjInv, InboundsSound, PathSound
  <1>2. WorkSound'
    BY DEF WorkSound, NoWork
  <1> QED BY <1>1, <1>2 DEF ProjInv

LEMMA NoCallTyped == NoCall \in CallState /\ NoCall.pc = "idle"
  BY DEF NoCall, CallState

----------------------------------------------------------------------------
(* Administrators, reconciler, leases.                                     *)

\* A creation: the port is chosen, the transaction commits or is given up.
CreationStep == \E h \in Handlers : \/ \E p \in Ports : ChoosePort(h, p)
                                    \/ \E a \in Allocs : CreateUser(h, a)
                                    \/ RejectCreation(h)

LEMMA CreationStepSound ==
  ASSUME ProjInv, CreationStep
  PROVE  IInv' /\ QuietStep /\ UNCHANGED <<seen, work, targets, remote>>
  <1>0. IInv
    BY DEF ProjInv
  <1>1. ASSUME NEW h \in Handlers, (\E p \in Ports : ChoosePort(h, p)) \/ RejectCreation(h)
        PROVE  IInv' /\ QuietStep /\ UNCHANGED <<seen, work, targets, remote>>
    <2>1. (\E p \in Ports, explicit \in BOOLEAN : BeginCreate(h, p, explicit)) \/ RejectRequest(h)
      BY <1>1 DEF ChoosePort, RejectCreation
    <2>2. UNCHANGED <<db, seen, work, targets, remote>>
      BY <1>1 DEF ChoosePort, RejectCreation, BeginCreate, RejectRequest
    <2>3. HandlerStep(h)
      BY <2>1 DEF HandlerStep
    <2> QED BY <1>0, <2>2, <2>3, HandlerStepSound, SameRowsQuiet
  <1>2. ASSUME NEW h \in Handlers, NEW a \in Allocs, CreateUser(h, a)
        PROVE  IInv' /\ QuietStep /\ UNCHANGED <<seen, work, targets, remote>>
    <2> DEFINE v == NewUser(req[h].port, 0)
    <2>1. /\ CommitCreate(h, a, 0) /\ ~Exists(db[a]) /\ db' = [db EXCEPT ![a] = v]
          /\ UNCHANGED <<seen, work, targets, remote>>
      BY <1>2 DEF CreateUser, CommitCreate
    <2>2. IInv'
      BY <1>0, <2>1, CommitCreateSound
    <2>3. Quiet(db[a], v)
      BY <2>1, NewUserQuiet
    <2> HIDE DEF v
    <2> QED BY <1>0, <2>1, <2>2, <2>3, OneUserQuiet
  <1> QED BY <1>1, <1>2 DEF CreationStep

LEMMA AdminStepSound ==
  ASSUME ProjInv, AdminStep
  PROVE  ProjInv' /\ QuietStep /\ UNCHANGED <<seen, work, targets, remote>>
  <1>1. CASE CreationStep
    <2>1. IInv' /\ QuietStep /\ UNCHANGED <<seen, work, targets, remote>>
      BY <1>1, CreationStepSound
    <2>2. ProjectionTypeOK'
      BY <2>1 DEF ProjInv, ProjectionTypeOK, remote
    <2> QED BY <2>1, <2>2, QuietPreserves DEF remote
  <1>2. ASSUME NEW a \in Allocs,
               \/ \E p \in Ports : SubmitChangePort(a, p)
               \/ SubmitRotate(a) \/ SubmitDelete(a) \/ SubmitToggle(a)
        PROVE  ProjInv' /\ QuietStep /\ UNCHANGED <<seen, work, targets, remote>>
    <2>1. QuietCommit(a) /\ UNCHANGED <<req, seen, work, targets, remote>>
      BY <1>2, SubmitQuiet DEF ProjInv
    <2>2. PICK v : SoundStep(db[a], v) /\ Quiet(db[a], v) /\ db' = [db EXCEPT ![a] = v]
      BY <2>1 DEF QuietCommit
    <2>3. IInv'
      BY <2>1, <2>2, PlainCommit DEF ProjInv
    <2>4. QuietStep
      BY <2>2, OneUserQuiet DEF ProjInv
    <2>5. ProjectionTypeOK'
      BY <2>1 DEF ProjInv, ProjectionTypeOK, remote
    <2> QED BY <2>1, <2>3, <2>4, <2>5, QuietPreserves DEF remote
  <1> QED BY <1>1, <1>2 DEF AdminStep, CreationStep

LEMMA RoundSound ==
  ASSUME ProjInv, BeginRound \/ RoundStep
  PROVE  ProjInv' /\ QuietStep
  <1>0. IInv /\ ProjectionTypeOK /\ \A a \in Allocs : db[a] \in UserRow
    BY DEF ProjInv, IInv, TypeOK
  <1>1. CASE BeginRound
    <2>1. IInv'
      BY <1>0, <1>1, ReconcileStepSound DEF BeginRound, ReconcileStep
    <2>2. QuietStep
      BY <1>1, SameRowsQuiet DEF BeginRound, ReadForReconcile
    <2>3. ProjectionTypeOK'
      BY <1>0, <1>1 DEF BeginRound, ReadForReconcile, ProjectionTypeOK
    <2> QED BY <1>1, <2>1, <2>2, <2>3, QuietPreserves DEF BeginRound, ReadForReconcile
  <1>2. ASSUME NEW a \in Allocs, Observe(a) PROVE ProjInv' /\ QuietStep
    <2> DEFINE actual == xray[a].tag /\ xray[a].key # 0
    <2>1. RecordObservation(a, actual) /\ UNCHANGED remote /\ node = "reconciler"
      BY <1>2 DEF Observe
    <2>2. actual \in BOOLEAN
      BY <1>0 DEF ProjectionTypeOK, Inbound
    <2> HIDE DEF actual
    <2>3. IInv'
      BY <1>0, <2>1, <2>2, ReconcileStepSound DEF ReconcileStep
    <2>4. db' = [db EXCEPT ![a] = Observed(db[a], actual)] /\ UNCHANGED work
      BY <2>1 DEF RecordObservation
    <2>5. QuietStep
      BY <1>0, <2>4, ObservedQuiet, OneUserQuiet
    <2>6. ProjectionTypeOK'
      BY <1>0, <2>1, <2>4 DEF ProjectionTypeOK, remote
    <2> QED BY <2>1, <2>3, <2>4, <2>5, <2>6, QuietPreserves DEF remote
  <1>3. ASSUME NEW a \in Allocs, Requeue(a) PROVE ProjInv' /\ QuietStep
    <2>1. (SkipReconcile(a) \/ EnqueueReconcile(a)) /\ UNCHANGED remote /\ node = "reconciler"
      BY <1>3 DEF Requeue
    <2>2. IInv' /\ UNCHANGED work
      BY <1>0, <2>1, ReconcileStepSound DEF ReconcileStep, SkipReconcile, EnqueueReconcile
    <2>3. QuietStep
      <3>1. CASE SkipReconcile(a)
        BY <3>1, SameRowsQuiet DEF SkipReconcile
      <3>2. CASE EnqueueReconcile(a)
        <4> DEFINE v == CommitIntent(db[a], db[a].des + 1, seen[a].present, seen[a].cred, "reconcile")
        <4>1. db' = [db EXCEPT ![a] = v] /\ db[a].des + 1 \in Revisions
          BY <3>2 DEF EnqueueReconcile, RowFree
        <4>2. Quiet(db[a], v)
          BY <1>0, <4>1, CommitQuiet DEF SameIntents
        <4> HIDE DEF v
        <4> QED BY <1>0, <4>1, <4>2, OneUserQuiet
      <3> QED BY <2>1, <3>1, <3>2
    <2>4. ProjectionTypeOK'
      BY <1>0, <2>1, <2>2 DEF ProjectionTypeOK, remote
    <2> QED BY <2>1, <2>2, <2>3, <2>4, QuietPreserves DEF remote
  <1>4. CASE EndRound
    <2>1. UNCHANGED <<db, req, seen, work, targets>>
      BY <1>4 DEF EndRound, vars
    <2>2. IInv'
      BY <1>0, <2>1, NoUserStep, Keeps, Preserved
    <2>3. ProjectionTypeOK'
      BY <1>0, <1>4, <2>1 DEF EndRound, ProjectionTypeOK
    <2> QED BY <1>4, <2>1, <2>2, <2>3, SameRowsQuiet, QuietPreserves DEF EndRound
  <1> QED BY <1>1, <1>2, <1>3, <1>4 DEF RoundStep

LEMMA ExpirySound ==
  ASSUME ProjInv, NEW a \in Allocs, NEW r \in Revisions, AbandonedLeaseExpires(a, r)
  PROVE  ProjInv' /\ QuietStep
  <1> DEFINE u == db[a]
             op == [u.ops[r] EXCEPT !.expired = TRUE]
             v == [u EXCEPT !.ops[r] = op]
  <1>0. IInv /\ ProjectionTypeOK /\ u \in UserRow /\ UserOK(u) /\ u.ops[r] \in Operation
    BY DEF ProjInv, IInv, TypeOK, UserRow
  <1>1. LeaseExpires(a, r) /\ UNCHANGED remote /\ u.ops[r].state = "leased"
    BY DEF AbandonedLeaseExpires, LeaseExpires
  <1>2. db' = [db EXCEPT ![a] = v] /\ UNCHANGED <<seen, work>>
    BY <1>0, <1>1 DEF LeaseExpires, IInv, TypeOK, UserRow
  <1>3. Exists(u) /\ r = u.des
    <2>1. Exists(u)
      BY <1>0, <1>1 DEF UserOK, NoUser, NoOperation
    <2> QED BY <1>0, <1>1, <2>1, OpenIsNewest DEF UserOK, Consistent, OpenStates
  <1>4. op.reason = u.ops[r].reason /\ op.state # "succeeded"
    BY <1>0, <1>1 DEF Operation
  <1>5. /\ v.ops = [u.ops EXCEPT ![r] = op] /\ v.des = u.des /\ v.released = u.released
        /\ v.cdes = u.cdes /\ v.life = u.life
    BY <1>0 DEF UserRow
  <1> HIDE DEF v, op
  <1>6. Quiet(u, v)
    BY <1>0, <1>3, <1>4, <1>5, OperationQuiet
  <1>7. QuietStep
    BY <1>0, <1>2, <1>6, OneUserQuiet
  <1>8. IInv'
    BY <1>0, <1>1, LeaseExpiresSound
  <1>9. ProjectionTypeOK'
    BY <1>0, <1>1, <1>2 DEF ProjectionTypeOK, remote
  <1> QED BY <1>1, <1>2, <1>7, <1>8, <1>9, QuietPreserves DEF remote

----------------------------------------------------------------------------
(* The synchronizer's loop.                                                *)

LEMMA LeaseSound ==
  ASSUME ProjInv, NEW w \in Workers, NEW a \in Allocs, Lease(w, a)
  PROVE  ProjInv' /\ QuietStep
  <1>1. PICK r \in Revisions : LeaseDue(w, a, r)
    BY DEF Lease
  <1> DEFINE u == db[a]
             op == [u.ops[r] EXCEPT !.state = "leased", !.owner = w, !.expired = FALSE]
             v == [u EXCEPT !.ops[r] = op]
             k == [NoWork EXCEPT !.alloc = a, !.rev = r, !.present = u.ops[r].present,
                                 !.reason = u.ops[r].reason]
  <1>0. IInv /\ ProjectionTypeOK /\ u \in UserRow /\ UserOK(u) /\ u.ops[r] \in Operation
    BY DEF ProjInv, IInv, TypeOK, UserRow
  <1>2. /\ work[w].alloc = NoAlloc /\ Due(u.ops[r]) /\ db' = [db EXCEPT ![a] = v]
        /\ work' = [work EXCEPT ![w] = k] /\ UNCHANGED <<seen, remote>>
    BY <1>0, <1>1 DEF LeaseDue, Lease, IInv, TypeOK, UserRow
  <1>3. Exists(u) /\ r = u.des
    <2>1. u.ops[r].state \in OpenStates
      BY <1>2 DEF Due, OpenStates
    <2>2. Exists(u)
      BY <1>0, <2>1 DEF UserOK, NoUser, NoOperation, OpenStates
    <2> QED BY <1>0, <2>1, <2>2, OpenIsNewest DEF UserOK, Consistent
  <1>4. op.reason = u.ops[r].reason /\ op.state # "succeeded"
    BY <1>0 DEF Operation
  <1>5. /\ v.ops = [u.ops EXCEPT ![r] = op] /\ v.des = u.des /\ v.released = u.released
        /\ v.cdes = u.cdes /\ v.life = u.life
    BY <1>0 DEF UserRow
  <1>6. k.alloc = a /\ k.rev = r /\ k.reason = u.ops[r].reason /\ k.loaded = FALSE
    BY DEF NoWork
  <1> HIDE DEF v, op, k
  <1>7. Quiet(u, v)
    BY <1>0, <1>3, <1>4, <1>5, OperationQuiet
  <1>8. QuietStep
    BY <1>0, <1>2, <1>7, OneUserQuiet
  <1>9. IInv'
    BY <1>0, <1>1, WorkerStepSound DEF WorkerStep
  <1>10. node # "synchronizer" /\ UNCHANGED <<xray, late, node, call, faults>>
    BY <1>2 DEF ProjInv, WorkSound, remote
  <1>11. ProjectionTypeOK'
    BY <1>0, <1>2, <1>10 DEF ProjectionTypeOK
  <1>12. \A x \in Workers : work'[x] = k
    BY <1>0, <1>2, OneWorker DEF IInv, TypeOK
  <1>13. db'[a].ops[r].reason = k.reason
    <2>1. db'[a] = v
      BY <1>0, <1>2 DEF IInv, TypeOK
    <2>2. v.ops[r] = op
      BY <1>0, <1>5 DEF UserRow
    <2> QED BY <1>4, <1>6, <2>1, <2>2
  <1>14. WorkSound'
    BY <1>6, <1>10, <1>12, <1>13 DEF WorkSound
  <1>15. InboundsSound' /\ PathSound'
    BY <1>10 DEF ProjInv, InboundsSound, PathSound
  <1> QED BY <1>8, <1>9, <1>10, <1>11, <1>14, <1>15, QuietUsers DEF ProjInv

LEMMA LoadSound ==
  ASSUME ProjInv, NEW w \in Workers, Load(w)
  PROVE  ProjInv'
  <1> DEFINE a == work[w].alloc
             k == [work[w] EXCEPT !.loaded = TRUE, !.version = db[a].cdes, !.port = db[a].port]
  <1>0. IInv /\ ProjectionTypeOK /\ work[w] \in Work
    BY DEF ProjInv, IInv, TypeOK
  <1>1. /\ LoadWork(w) /\ a # NoAlloc /\ ~work[w].loaded /\ work' = [work EXCEPT ![w] = k]
        /\ UNCHANGED <<db, seen>> /\ UNCHANGED <<xray, late, node, call, faults>>
    BY DEF Load, LoadWork, remote
  <1>2. IInv'
    BY <1>0, <1>1, WorkerStepSound DEF WorkerStep
  <1>3. node # "synchronizer"
    BY <1>1 DEF ProjInv, WorkSound
  <1>4. k.alloc = a /\ k.rev = work[w].rev /\ k.reason = work[w].reason
    BY <1>0 DEF Work
  <1> HIDE DEF k
  <1>5. \A x \in Workers : x = w /\ work'[x] = k
    BY <1>0, <1>1, OneWorker DEF IInv, TypeOK
  <1>6. WorkSound'
    <2>1. work[w].reason = db[a].ops[work[w].rev].reason
      BY <1>1 DEF ProjInv, WorkSound
    <2> QED BY <1>1, <1>3, <1>4, <1>5, <2>1 DEF WorkSound
  <1>7. ProjectionTypeOK'
    BY <1>0, <1>1, <1>3 DEF ProjectionTypeOK
  <1>8. InboundsSound' /\ PathSound'
    BY <1>1, <1>3 DEF ProjInv, InboundsSound, PathSound
  <1> QED BY <1>1, <1>2, <1>6, <1>7, <1>8, SameRowsQuiet, QuietUsers DEF ProjInv

\* The path that handle takes fits the operation; nothing is known of the
\* inbound yet.
LEMMA TakeNodeSound ==
  ASSUME ProjInv, NEW w \in Workers, TakeNode(w)
  PROVE  ProjInv'
  <1> DEFINE k == work[w]
             pc == CASE ~k.present -> "remove"
                     [] k.present /\ k.reason = "rotate" -> "rot_list"
                     [] k.present /\ k.reason = "port_change" -> "port_remove"
                     [] OTHER -> "create"
             c == [NoCall EXCEPT !.pc = pc]
  <1>0. IInv /\ ProjectionTypeOK /\ k \in Work
    BY DEF ProjInv, IInv, TypeOK
  <1>1. /\ node = "free" /\ k.loaded /\ node' = "synchronizer" /\ call' = c
        /\ UNCHANGED <<db, req, seen, work, targets>> /\ UNCHANGED <<xray, late, faults>>
    BY DEF TakeNode, vars
  <1>2. /\ pc \in {"remove", "rot_list", "port_remove", "create"}
        /\ pc = "remove" => ~k.present
        /\ pc # "remove" => k.present
        /\ k.present /\ k.reason = "rotate" => pc = "rot_list"
        /\ pc = "rot_list" => k.reason = "rotate"
    BY DEF pc
  <1> HIDE DEF pc
  <1>3. c \in CallState /\ c.pc = pc
    BY <1>2 DEF CallState, NoCall, CallSteps
  <1> HIDE DEF c
  <1>4. IInv'
    BY <1>0, <1>1, NoUserStep, Keeps, Preserved
  <1>5. ProjectionTypeOK'
    BY <1>0, <1>1, <1>2, <1>3 DEF ProjectionTypeOK
  <1>6. PathOK(k, xray[k.alloc], c.pc, c.main)
    BY <1>2, <1>3 DEF PathOK, RemoveSteps, RotSteps, CallSteps, RotationPath
  <1>7. PathSound'
    <2>1. ASSUME NEW x \in Workers PROVE PathOK(work[x], xray[work[x].alloc], c.pc, c.main)
      BY <1>6, OneWorker
    <2> QED BY <1>1, <2>1 DEF PathSound, Its
  <1>8. WorkSound'
    <2>1. \A x \in Workers : work[x].loaded
      BY <1>1, OneWorker
    <2> QED BY <1>1, <2>1 DEF ProjInv, WorkSound
  <1>9. InboundsSound'
    BY <1>1 DEF ProjInv, InboundsSound
  <1> QED BY <1>1, <1>4, <1>5, <1>7, <1>8, <1>9, SameRowsQuiet, QuietUsers DEF ProjInv

\* A fence that fails, an error of the store.
LEMMA AbandonSound ==
  ASSUME ProjInv, NEW w \in Workers, DropWork(w) \/ StoreError(w)
  PROVE  ProjInv'
  <1>0. IInv /\ ProjectionTypeOK
    BY DEF ProjInv
  <1>1. Abandon(w) /\ UNCHANGED <<xray, late>>
    BY DEF DropWork, StoreError
  <1>2. /\ IInv' /\ UNCHANGED <<db, seen>>
        /\ \A x \in Workers : work'[x] = NoWork
    <2>1. work' = [work EXCEPT ![w] = NoWork] /\ UNCHANGED <<db, seen>>
      BY <1>1 DEF Abandon
    <2>2. IInv'
      BY <1>0, <1>1, WorkerStepSound DEF WorkerStep
    <2> QED BY <1>0, <2>1, <2>2, OneWorker DEF IInv, TypeOK
  <1>3. faults' \in 0 .. MaxFaults
    BY <1>0, FaultsAssumption DEF DropWork, StoreError, Strike, ProjectionTypeOK
  <1>4. CASE node = "synchronizer" /\ Release
    <2>1. ProjectionTypeOK' /\ node' # "synchronizer"
      BY <1>0, <1>1, <1>2, <1>3, <1>4, NoCallTyped DEF Release, ProjectionTypeOK
    <2> QED BY <1>1, <1>2, <2>1, SameRowsQuiet, QuietUsers, ReleasedPreserves
  <1>5. CASE node # "synchronizer" /\ UNCHANGED <<node, call>>
    <2>1. ProjectionTypeOK'
      BY <1>0, <1>1, <1>2, <1>3, <1>5 DEF ProjectionTypeOK
    <2> QED BY <1>1, <1>2, <1>5, <2>1, SameRowsQuiet, QuietUsers, ReleasedPreserves
  <1> QED BY <1>4, <1>5 DEF DropWork, StoreError

\* What a confirmation leaves alone.
LEMMA ConfirmedRow ==
  ASSUME NEW u \in UserRow, Exists(u), UserOK(u), NEW k \in Work,
         k.rev = u.des, Current(u, k.rev, k.present, k.version)
  PROVE  LET v == Confirmed(u, k.rev, k.present, k.version) IN
         /\ v.des = u.des /\ v.cdes = u.cdes /\ v.life = u.life
         /\ v.ops[u.des].present = k.present /\ k.version = u.cdes
         /\ u.ops[u.des].present = k.present
         /\ v.ops[u.des].reason = u.ops[u.des].reason
         /\ v.released => u.released \/ ~k.present
  <1> DEFINE v == Confirmed(u, k.rev, k.present, k.version)
             op == [u.ops[k.rev] EXCEPT !.state = "succeeded", !.owner = NoOwner, !.expired = FALSE]
  <1>1. k.rev \in Revisions /\ k.rev = u.des
    BY DEF UserOK, Consistent, LatestOnly
  <1>2. v = IF k.present THEN ConfirmedPresent(u, k.rev, k.version) ELSE ConfirmedAbsent(u, k.rev)
    BY DEF Confirmed
  <1> HIDE DEF v
  <1>3. /\ v.des = u.des /\ v.cdes = u.cdes /\ v.life = u.life
        /\ v.ops = [u.ops EXCEPT ![k.rev] = op]
        /\ k.present => v.released = u.released
    <2>1. CASE k.present
      BY <1>2, <2>1 DEF ConfirmedPresent, UserRow
    <2>2. CASE ~k.present
      BY <1>2, <2>2 DEF ConfirmedAbsent, UserRow
    <2> QED BY <2>1, <2>2
  <1>4. u.ops \in [Revisions -> Operation] /\ u.ops[k.rev] \in Operation
    BY <1>1 DEF UserRow
  <1>5. op.reason = u.ops[k.rev].reason /\ op.present = u.ops[k.rev].present
    BY <1>4 DEF Operation
  <1> HIDE DEF op
  <1>6. v.ops[u.des] = op
    BY <1>1, <1>3, <1>4
  <1>7. u.ops[u.des].present = k.present /\ k.version = u.cdes
    BY <1>1 DEF Current, UserOK, Consistent, Faithful
  <1>8. v.released => u.released \/ ~k.present
    BY <1>3
  <1> QED BY <1>1, <1>3, <1>5, <1>6, <1>7, <1>8 DEF v

\* A confirmation says of the inbound what the path of calls has established.
LEMMA ConfirmedKept ==
  ASSUME NEW u \in UserRow, Exists(u), UserOK(u), NEW k \in Work, NEW x,
         k.rev = u.des, k.reason = u.ops[u.des].reason,
         Current(u, k.rev, k.present, k.version), Kept(u, x),
         ~k.present => ~Prompt(x),
         k.present /\ k.reason = "rotate" => NewKeyOnly(x, k.version)
  PROVE  Kept(Confirmed(u, k.rev, k.present, k.version), x)
  <1> DEFINE v == Confirmed(u, k.rev, k.present, k.version)
  <1>1. /\ v.des = u.des /\ v.cdes = u.cdes /\ v.life = u.life
        /\ v.ops[v.des].present = k.present /\ v.ops[v.des].reason = k.reason
        /\ k.version = u.cdes /\ (v.released => u.released \/ ~k.present)
    BY ConfirmedRow
  <1> HIDE DEF v
  <1>2. Gone(v, x)
    BY <1>1 DEF Gone, Kept
  <1>3. Kept(v, x)
    BY <1>1, <1>2 DEF Kept
  <1> QED BY <1>3 DEF v

LEMMA EndWorkSound ==
  ASSUME ProjInv, NEW w \in Workers, EndWork(w)
  PROVE  ProjInv'
  <1> DEFINE k == work[w]
             a == k.alloc
             u == db[a]
  <1>0. IInv /\ ProjectionTypeOK /\ k.loaded /\ a # NoAlloc /\ node = "synchronizer"
        /\ k.reason = u.ops[k.rev].reason /\ PathOK(k, xray[a], call.pc, call.main)
    BY DEF ProjInv, WorkSound, PathSound, Its, EndWork
  <1>1. /\ a \in Allocs /\ k.rev \in Revisions /\ k \in Work /\ u \in UserRow /\ UserOK(u) /\ Exists(u)
        /\ Current(u, k.rev, k.present, k.version) /\ Kept(u, xray[a])
    BY <1>0, LoadedWork DEF ProjInv, UsersSound
  <1>2. ASSUME NEW result, FinishLeased(w, result), Holds(w) => Kept(result, xray[a]),
               Holds(w) => k.rev = u.des
        PROVE  \A b \in Allocs : Kept(db'[b], xray[b])
    <2> DEFINE v == IF ~Holds(w) THEN u ELSE IF k.rev # u.des THEN [u EXCEPT !.ops[k.rev] = Closed(u.ops[k.rev])] ELSE result
    <2>1. db' = [db EXCEPT ![a] = v]
      BY <1>2 DEF FinishLeased
    <2>2. Kept(v, xray[a])
      BY <1>1, <1>2
    <2> HIDE DEF v
    <2>3. \A b \in Allocs : db'[b] = IF b = a THEN v ELSE db[b]
      BY <1>0, <1>1, <2>1 DEF IInv, TypeOK
    <2>4. \A b \in Allocs : Kept(db[b], xray[b])
      BY DEF ProjInv, UsersSound
    <2> QED BY <2>2, <2>3, <2>4
  <1>3. Holds(w) => k.rev = u.des
    BY <1>1, OpenIsNewest DEF Holds, OpenStates, UserOK, Consistent
  <1>4. ASSUME NEW state \in {"retry_wait", "permanent_failed"}, Holds(w)
        PROVE  Kept(Unfinished(u, k.rev, state), xray[a])
    BY <1>1, <1>3, <1>4, UnfinishedQuiet, KeptQuiet
  <1>5. \A b \in Allocs : Kept(db'[b], xray[b])
    <2>1. CASE call.pc = "confirm" /\ ConfirmSync(w)
      <3>1. ~k.present => ~Prompt(xray[a])
        BY <1>0, <2>1 DEF PathOK
      <3>2. k.present /\ k.reason = "rotate" => NewKeyOnly(xray[a], k.version)
        BY <1>0, <2>1 DEF PathOK, RotationPath
      <3>3. Holds(w) => Kept(Confirmed(u, k.rev, k.present, k.version), xray[a])
        BY <1>0, <1>1, <1>3, <3>1, <3>2, ConfirmedKept
      <3> QED BY <1>2, <1>3, <2>1, <3>3 DEF ConfirmSync
    <2>2. CASE RescheduleSync(w)
      BY <1>2, <1>3, <1>4, <2>2 DEF RescheduleSync
    <2>3. CASE FailSync(w)
      BY <1>2, <1>3, <1>4, <2>3 DEF FailSync
    <2> QED BY <2>1, <2>2, <2>3 DEF EndWork
  <1>6. /\ UNCHANGED <<xray, late, faults>> /\ UNCHANGED seen /\ node' = "free" /\ call' = NoCall
        /\ work' = [work EXCEPT ![w] = NoWork]
    BY DEF EndWork, ConfirmSync, RescheduleSync, FailSync, FinishLeased, Release
  <1>7. IInv'
    BY <1>0, WorkerStepSound DEF EndWork, WorkerStep
  <1>8. UsersSound'
    BY <1>5, <1>6 DEF UsersSound
  <1>9. \A x \in Workers : work'[x] = NoWork
    BY <1>0, <1>6, OneWorker DEF IInv, TypeOK
  <1>10. ProjectionTypeOK'
    BY <1>0, <1>6, NoCallTyped DEF ProjectionTypeOK
  <1> QED BY <1>6, <1>7, <1>8, <1>9, <1>10, ReleasedPreserves

----------------------------------------------------------------------------
(* Restarts.                                                               *)

LEMMA NoInboundSound == NoInbound \in Inbound /\ InboundOK(NoInbound) /\ NoInbound.tag = FALSE
                        /\ NoInbound.key = 0 /\ NoInbound.listening = FALSE /\ ~Prompt(NoInbound)
  BY BoundAssumption DEF NoInbound, Inbound, InboundOK, Prompt

\* An inbound that vanished, or was spoilt, contradicts no path and no
\* confirmation.
LEMMA SpoiltFits ==
  ASSUME NEW x, NEW y, y = x \/ ~Prompt(y)
  PROVE  /\ \A k, pc, main : PathOK(k, x, pc, main) => PathOK(k, y, pc, main)
         /\ \A u : Kept(u, x) => Kept(u, y)
  BY DEF PathOK, RotationPath, NewKeyOnly, Kept, Gone

LEMMA XrayRestartSound ==
  ASSUME ProjInv, XrayRestart
  PROVE  ProjInv'
  <1>0. IInv /\ ProjectionTypeOK
    BY DEF ProjInv
  <1>1. /\ xray' = [a \in Allocs |-> NoInbound] /\ late' = [a \in Allocs |-> {}]
        /\ UNCHANGED <<db, req, seen, work, targets>> /\ UNCHANGED <<node, call>>
    BY DEF XrayRestart, vars
  <1>2. IInv'
    BY <1>0, <1>1, NoUserStep, Keeps, Preserved
  <1>3. faults' \in 0 .. MaxFaults
    BY <1>0, FaultsAssumption DEF XrayRestart, Strike, ProjectionTypeOK
  <1>4. ProjectionTypeOK'
    BY <1>0, <1>1, <1>3, NoInboundSound DEF ProjectionTypeOK
  <1>5. InboundsSound'
    BY <1>1, NoInboundSound DEF InboundsSound
  <1>6. UsersSound'
    BY <1>1, NoInboundSound DEF UsersSound, Kept, Gone, NewKeyOnly
  <1>7. WorkSound'
    BY <1>1 DEF ProjInv, WorkSound
  <1>8. PathSound'
    <2>1. ASSUME NEW w \in Workers, node = "synchronizer" PROVE PathOK(work[w], xray'[work[w].alloc], call.pc, call.main)
      <3>1. work[w].alloc \in Allocs
        BY <1>0, <2>1, LoadedWork DEF ProjInv, WorkSound
      <3>2. PathOK(work[w], xray[work[w].alloc], call.pc, call.main)
        BY <2>1 DEF ProjInv, PathSound, Its
      <3> QED BY <1>1, <3>1, <3>2, NoInboundSound, SpoiltFits
    <2> QED BY <1>1, <2>1 DEF PathSound, Its
  <1> QED BY <1>2, <1>4, <1>5, <1>6, <1>7, <1>8 DEF ProjInv

\* A late call leaves nothing, the inbound as it was, or one that it marked.
LEMMA ReachedSound ==
  ASSUME NEW x \in Inbound, InboundOK(x), NEW c \in LateCall
  PROVE  /\ Reached(c, x) \in Inbound /\ InboundOK(Reached(c, x))
         /\ Reached(c, x) = x \/ ~Prompt(Reached(c, x))
  <1> DEFINE new == [NewInbound(c.port, c.key) EXCEPT !.late = TRUE]
  <1>1. c.port \in Ports \cup {0} /\ c.key \in 0 .. MaxRevision
    BY DEF LateCall
  <1>2. new \in Inbound /\ new.tag = TRUE /\ new.late = TRUE
    BY <1>1 DEF NewInbound, NoInbound, Inbound
  <1> HIDE DEF new
  <1>3. \/ Reached(c, x) \in {x, NoInbound, new}
        \/ x.tag /\ Reached(c, x) \in {[x EXCEPT !.safety = TRUE, !.late = TRUE],
                                       [x EXCEPT !.safety = FALSE, !.late = TRUE],
                                       [x EXCEPT !.key = c.key, !.late = TRUE],
                                       [x EXCEPT !.key = 0, !.late = TRUE]}
    BY DEF Reached, new
  <1>4. CASE Reached(c, x) \in {x, NoInbound, new}
    BY <1>2, <1>4, NoInboundSound DEF InboundOK, Prompt
  <1>5. ASSUME NEW y, x.tag, y \in Inbound, y.tag = x.tag, y.late = TRUE
        PROVE  InboundOK(y) /\ ~Prompt(y)
    BY <1>5 DEF InboundOK, Prompt
  <1>6. ASSUME NEW y \in {[x EXCEPT !.safety = TRUE, !.late = TRUE], [x EXCEPT !.safety = FALSE, !.late = TRUE],
                          [x EXCEPT !.key = c.key, !.late = TRUE], [x EXCEPT !.key = 0, !.late = TRUE]}
        PROVE  y \in Inbound /\ y.tag = x.tag /\ y.late = TRUE
    <2>1. CASE y = [x EXCEPT !.safety = TRUE, !.late = TRUE]
      BY <2>1 DEF Inbound
    <2>2. CASE y = [x EXCEPT !.safety = FALSE, !.late = TRUE]
      BY <2>2 DEF Inbound
    <2>3. CASE y = [x EXCEPT !.key = c.key, !.late = TRUE]
      BY <1>1, <2>3 DEF Inbound
    <2>4. CASE y = [x EXCEPT !.key = 0, !.late = TRUE]
      <3>1. 0 \in 0 .. MaxRevision
        BY BoundAssumption
      <3> QED BY <2>4, <3>1 DEF Inbound
    <2> QED BY <1>6, <2>1, <2>2, <2>3, <2>4
  <1>7. ASSUME x.tag, NEW y \in {[x EXCEPT !.safety = TRUE, !.late = TRUE], [x EXCEPT !.safety = FALSE, !.late = TRUE],
                                 [x EXCEPT !.key = c.key, !.late = TRUE], [x EXCEPT !.key = 0, !.late = TRUE]}
        PROVE  y \in Inbound /\ InboundOK(y) /\ ~Prompt(y)
    <2>1. y \in Inbound /\ y.tag = x.tag /\ y.late = TRUE
      BY <1>6, <1>7
    <2> QED BY <1>5, <1>7, <2>1
  <1> QED BY <1>3, <1>4, <1>7

LEMMA LateCallTouches ==
  ASSUME ProjInv, NEW a \in Allocs, NEW c \in late[a], LateCallArrives(a, c)
  PROVE  \A b \in Allocs : /\ xray'[b] = xray[b] \/ ~Prompt(xray'[b])
                           /\ InboundOK(xray'[b]) /\ xray'[b] \in Inbound
  <1>1. c \in LateCall /\ \A b \in Allocs : xray[b] \in Inbound /\ InboundOK(xray[b])
    BY DEF ProjInv, ProjectionTypeOK, InboundsSound
  <1>2. \A b \in Allocs : xray'[b] = IF b = a THEN Reached(c, xray[a]) ELSE xray[b]
    BY DEF LateCallArrives, ProjInv, ProjectionTypeOK
  <1> QED BY <1>1, <1>2, ReachedSound

LEMMA LateCallSound ==
  ASSUME ProjInv, NEW a \in Allocs, NEW c \in late[a], LateCallArrives(a, c)
  PROVE  ProjInv'
  <1>0. IInv /\ ProjectionTypeOK
    BY DEF ProjInv
  <1>1. /\ xray' = [xray EXCEPT ![a] = Reached(c, xray[a])] /\ late' = [late EXCEPT ![a] = late[a] \ {c}]
        /\ UNCHANGED <<db, req, seen, work, targets>> /\ UNCHANGED <<node, call, faults>>
    BY DEF LateCallArrives, vars
  <1>2. \A b \in Allocs : /\ xray'[b] = xray[b] \/ ~Prompt(xray'[b])
                          /\ InboundOK(xray'[b]) /\ xray'[b] \in Inbound
    BY LateCallTouches
  <1>3. IInv'
    BY <1>0, <1>1, NoUserStep, Keeps, Preserved
  <1>4. ProjectionTypeOK'
    <2>1. xray' \in [Allocs -> Inbound]
      BY <1>0, <1>1, <1>2 DEF ProjectionTypeOK
    <2>2. late' \in [Allocs -> SUBSET LateCall]
      BY <1>0, <1>1 DEF ProjectionTypeOK
    <2> QED BY <1>0, <1>1, <2>1, <2>2 DEF ProjectionTypeOK
  <1>5. InboundsSound'
    BY <1>2 DEF InboundsSound
  <1>6. UsersSound'
    BY <1>1, <1>2, SpoiltFits DEF ProjInv, UsersSound
  <1>7. WorkSound'
    BY <1>1 DEF ProjInv, WorkSound
  <1>8. PathSound'
    <2>1. ASSUME NEW w \in Workers, node = "synchronizer"
          PROVE  PathOK(work[w], xray'[work[w].alloc], call.pc, call.main)
      <3>1. work[w].alloc \in Allocs
        BY <1>0, <2>1, LoadedWork DEF ProjInv, WorkSound
      <3>2. PathOK(work[w], xray[work[w].alloc], call.pc, call.main)
        BY <2>1 DEF ProjInv, PathSound, Its
      <3> QED BY <1>2, <3>1, <3>2, SpoiltFits
    <2> QED BY <1>1, <2>1 DEF PathSound, Its
  <1> QED BY <1>3, <1>4, <1>5, <1>6, <1>7, <1>8 DEF ProjInv

LEMMA PanelRestartSound ==
  ASSUME ProjInv, PanelRestart
  PROVE  ProjInv'
  <1>0. IInv /\ ProjectionTypeOK
    BY DEF ProjInv
  <1>1. /\ Restart /\ UNCHANGED <<db, xray, late>> /\ node' = "free" /\ call' = NoCall
        /\ seen' = [a \in Allocs |-> NoSighting] /\ work' = [w \in Workers |-> NoWork]
    BY DEF PanelRestart, Restart, Release
  <1>2. IInv'
    BY <1>0, <1>1, RestartSound
  <1>3. faults' \in 0 .. MaxFaults
    BY <1>0, FaultsAssumption DEF PanelRestart, Strike, ProjectionTypeOK
  <1>4. ProjectionTypeOK'
    BY <1>0, <1>1, <1>3, NoCallTyped, NothingTyped DEF ProjectionTypeOK
  <1>5. UsersSound'
    BY <1>1, SameRowsQuiet, QuietUsers
  <1> QED BY <1>1, <1>2, <1>4, <1>5, ReleasedPreserves

----------------------------------------------------------------------------
(* The calls.                                                              *)

\* What is known when a call is made: the fence has passed.
LEMMA CallFacts ==
  ASSUME ProjInv, NEW w \in Workers, NEW from \in CallSteps, At(w, from)
  PROVE  /\ work[w].alloc \in Allocs /\ work[w] \in Work
         /\ Its(w) \in Inbound /\ InboundOK(Its(w))
         /\ PathOK(work[w], Its(w), from, call.main) /\ call \in CallState
         /\ db[work[w].alloc].ops[db[work[w].alloc].des].state = "leased"
         /\ work[w].present => ~db[work[w].alloc].released /\ work[w].version \in Versions
         /\ work[w].present => work[w].version # 0
  <1> DEFINE k == work[w]
             u == db[k.alloc]
  <1>1. /\ node = "synchronizer" /\ call.pc = from /\ k.rev = u.des
        /\ u.ops[k.rev].state = "leased"
    BY DEF At, Fenced, Holds
  <1>2. k.loaded /\ k.alloc # NoAlloc /\ PathOK(k, Its(w), from, call.main)
    BY <1>1 DEF ProjInv, WorkSound, PathSound
  <1>3. /\ k.alloc \in Allocs /\ k \in Work /\ UserOK(u) /\ Exists(u)
        /\ Current(u, k.rev, k.present, k.version)
    BY <1>2, LoadedWork DEF ProjInv
  <1>4. k.present => ~u.released /\ k.version \in Versions
    <2>1. k.present = DesiredPresent(u) /\ k.version = u.cdes
      BY <1>1, <1>3 DEF Current
    <2>2. KeysSound(u)
      BY <1>3 DEF UserOK, Consistent
    <2> QED BY <2>1, <2>2 DEF KeysSound, DesiredPresent
  <1>5. \A v \in Versions : v # 0
    BY DEF Versions
  <1>6. Its(w) \in Inbound /\ InboundOK(Its(w)) /\ call \in CallState
    BY <1>3 DEF ProjInv, ProjectionTypeOK, InboundsSound, Its
  <1> QED BY <1>1, <1>2, <1>3, <1>4, <1>5, <1>6

\* Where a call may take the inbound and the path.
Lands(w, from, y, pc, main) ==
    /\ y \in Inbound /\ InboundOK(y)
    /\ pc \in CallSteps \cup EndSteps
    /\ PathOK(work[w], y, pc, main)
    /\ from \in RemoveSteps /\ Prompt(y) => Prompt(Its(w))

LEMMA CallPreserves ==
  ASSUME ProjInv, NEW w \in Workers, NEW from \in CallSteps, At(w, from), NEW y, NEW c \in CallState,
         xray' = [xray EXCEPT ![work[w].alloc] = y], call' = c, UNCHANGED <<vars, node>>,
         faults' \in 0 .. MaxFaults, late' \in [Allocs -> SUBSET LateCall], Lands(w, from, y, c.pc, c.main)
  PROVE  ProjInv'
  <1> DEFINE a == work[w].alloc
             u == db[a]
  <1>0. IInv /\ ProjectionTypeOK /\ node = "synchronizer" /\ call.pc = from
    BY DEF ProjInv, At
  <1>1. UNCHANGED <<db, req, seen, work, targets>>
    BY DEF vars
  <1>2. IInv'
    BY <1>0, <1>1, NoUserStep, Keeps, Preserved
  <1>3. /\ a \in Allocs /\ PathOK(work[w], Its(w), from, call.main)
        /\ u.ops[u.des].state = "leased" /\ (work[w].present => ~u.released)
    BY CallFacts
  <1>4. \A b \in Allocs : xray'[b] = IF b = a THEN y ELSE xray[b]
    BY <1>0, <1>3 DEF ProjectionTypeOK
  <1>5. c.pc # "idle"
    BY DEF Lands, CallSteps, EndSteps
  <1>6. ProjectionTypeOK'
    <2>1. xray' \in [Allocs -> Inbound]
      BY <1>0 DEF ProjectionTypeOK, Lands
    <2> QED BY <1>0, <1>1, <1>5, <2>1 DEF ProjectionTypeOK
  <1>7. InboundsSound'
    BY <1>4 DEF ProjInv, InboundsSound, Lands
  <1>8. WorkSound'
    BY <1>1 DEF ProjInv, WorkSound
  <1>9. PathSound'
    <2>1. ASSUME NEW x \in Workers PROVE PathOK(work[x], xray'[work[x].alloc], c.pc, c.main)
      BY <1>3, <1>4, OneWorker DEF Lands
    <2> QED BY <1>1, <2>1 DEF PathSound, Its
  <1>10. Kept(u, y)
    <2>1. Kept(u, xray[a])
      BY <1>3 DEF ProjInv, UsersSound
    <2>2. u.released => from \in RemoveSteps
      BY <1>3 DEF PathOK
    <2>3. u.released => ~Prompt(y)
      BY <2>1, <2>2 DEF Kept, Gone, Lands, Its
    <2> QED BY <1>3, <2>3 DEF Kept, Gone
  <1>11. UsersSound'
    BY <1>1, <1>4, <1>10 DEF ProjInv, UsersSound
  <1> QED BY <1>2, <1>6, <1>7, <1>8, <1>9, <1>11 DEF ProjInv

LEMMA AnswersPreserves ==
  ASSUME ProjInv, NEW w \in Workers, NEW from \in CallSteps, NEW y, NEW pc,
         Answers(w, from, y, pc), Lands(w, from, y, pc, call.main)
  PROVE  ProjInv'
  <1> DEFINE c == [call EXCEPT !.pc = pc]
  <1>1. /\ At(w, from) /\ xray' = [xray EXCEPT ![work[w].alloc] = y] /\ call' = c
        /\ UNCHANGED <<vars, node>> /\ UNCHANGED <<late, faults>>
    BY DEF Answers, Goes
  <1>2. call \in CallState /\ faults \in 0 .. MaxFaults /\ late \in [Allocs -> SUBSET LateCall]
    BY DEF ProjInv, ProjectionTypeOK
  <1>3. c \in CallState /\ c.pc = pc /\ c.main = call.main
    BY <1>2 DEF CallState, Lands
  <1> HIDE DEF c
  <1> QED BY <1>1, <1>2, <1>3, CallPreserves

LEMMA StrikeBound == ASSUME ProjInv, NEW f, Strike(f) PROVE faults' \in 0 .. MaxFaults
  BY FaultsAssumption DEF ProjInv, ProjectionTypeOK, Strike

LEMMA SentTyped ==
  ASSUME ProjInv, NEW w \in Workers, work[w].alloc \in Allocs, work[w] \in Work, NEW effect
  PROVE  Sent(w, effect) \in [Allocs -> SUBSET LateCall]
  <1> DEFINE c == [effect |-> effect, port |-> work[w].port, key |-> work[w].version]
  <1>1. late \in [Allocs -> SUBSET LateCall]
    BY DEF ProjInv, ProjectionTypeOK
  <1>2. effect \in Effects => c \in LateCall
    BY DEF Work, LateCall
  <1> QED BY <1>1, <1>2 DEF Sent

\* A failed call had its effect, or not, and may still be on its way.
Outcome(w, f, y, nexts) ==
    \E z \in {Its(w), y}, pc \in nexts :
       /\ xray' = [xray EXCEPT ![work[w].alloc] = z]
       /\ call' = [call EXCEPT !.pc = pc, !.cause = f]

LEMMA FailsOutcome ==
  ASSUME ProjInv, NEW w \in Workers, work[w].alloc \in Allocs, work[w] \in Work,
         NEW from, NEW f, NEW y, NEW effect, NEW nexts, Fails(w, from, f, y, effect, nexts)
  PROVE  late' \in [Allocs -> SUBSET LateCall] /\ Outcome(w, f, y, nexts)
  <1>1. xray = [xray EXCEPT ![work[w].alloc] = Its(w)] /\ late \in [Allocs -> SUBSET LateCall]
    BY DEF ProjInv, ProjectionTypeOK, Its
  <1>2. PICK pc \in nexts : call' = [call EXCEPT !.pc = pc, !.cause = f]
    BY DEF Fails
  <1>3. xray' = xray \/ xray' = [xray EXCEPT ![work[w].alloc] = y]
    BY DEF Fails
  <1>4. late' = late \/ late' = Sent(w, effect)
    BY DEF Fails
  <1>5. late' \in [Allocs -> SUBSET LateCall]
    BY <1>1, <1>4, SentTyped
  <1> QED BY <1>1, <1>2, <1>3, <1>5 DEF Outcome

LEMMA FailsPreserves ==
  ASSUME ProjInv, NEW w \in Workers, NEW from \in CallSteps, NEW f \in FaultKinds, NEW y,
         NEW effect, NEW nexts, Fails(w, from, f, y, effect, nexts),
         \A pc \in nexts : Lands(w, from, y, pc, call.main) /\ Lands(w, from, Its(w), pc, call.main)
  PROVE  ProjInv'
  <1>1. At(w, from) /\ Strike(f) /\ UNCHANGED <<vars, node>>
    BY DEF Fails
  <1>2. work[w].alloc \in Allocs /\ work[w] \in Work
    BY <1>1, CallFacts
  <1>3. late' \in [Allocs -> SUBSET LateCall] /\ Outcome(w, f, y, nexts)
    BY <1>2, FailsOutcome
  <1>4. PICK z \in {Its(w), y}, pc \in nexts :
            /\ xray' = [xray EXCEPT ![work[w].alloc] = z]
            /\ call' = [call EXCEPT !.pc = pc, !.cause = f]
    BY <1>3 DEF Outcome
  <1> DEFINE c == [call EXCEPT !.pc = pc, !.cause = f]
  <1>5. call \in CallState
    BY DEF ProjInv, ProjectionTypeOK
  <1>6. Lands(w, from, z, pc, call.main)
    BY <1>4
  <1>7. c \in CallState /\ c.pc = pc /\ c.main = call.main
    BY <1>5, <1>6 DEF CallState, Lands
  <1> HIDE DEF c
  <1>8. call' = c
    BY <1>4 DEF c
  <1> QED BY <1>1, <1>3, <1>4, <1>6, <1>7, <1>8, StrikeBound, CallPreserves

LEMMA RetryFacts ==
  ASSUME NEW f, NEW check
  PROVE  /\ \A pc \in RetryOf(f) : pc \in {"retry", "fail"}
         /\ \A pc \in CheckAfter(f, check) : pc \in {check, "retry", "fail"}
  <1>1. \A pc \in RetryOf(f) : pc \in {"retry", "fail"}
    <2>1. CASE f \in {"timeout", "unavailable"}
      BY <2>1 DEF RetryOf
    <2>2. CASE f = "internal"
      BY <2>2 DEF RetryOf
    <2>3. CASE f \notin {"timeout", "unavailable", "internal"}
      BY <2>3 DEF RetryOf
    <2> QED BY <2>1, <2>2, <2>3
  <1> QED BY <1>1 DEF CheckAfter

LEMMA CallFaultKinds == ASSUME NEW f \in CallFaults PROVE f \in FaultKinds
  BY DEF CallFaults, FaultKinds

\* Giving up is possible at any call, with the inbound as it is, removed, or
\* brought into another sound shape.
LEMMA GivesUp ==
  ASSUME ProjInv, NEW w \in Workers, NEW from \in CallSteps, At(w, from), NEW pc \in {"retry", "fail"},
         NEW y \in Inbound, InboundOK(y), from \in RemoveSteps /\ Prompt(y) => Prompt(Its(w))
  PROVE  Lands(w, from, y, pc, call.main) /\ Lands(w, from, Its(w), pc, call.main)
  <1>1. Its(w) \in Inbound /\ InboundOK(Its(w))
    BY CallFacts
  <1>2. \A z : PathOK(work[w], z, pc, call.main)
    BY DEF PathOK, RotationPath, RemoveSteps, RotSteps, CallSteps
  <1>3. pc \in CallSteps \cup EndSteps
    BY DEF EndSteps
  <1> QED BY <1>1, <1>2, <1>3 DEF Lands

\* A failed read changes nothing and is retried or given up.
LEMMA UnreadPreserves ==
  ASSUME ProjInv, NEW w \in Workers, NEW from \in CallSteps, NEW nexts, Unread(w, from, nexts),
         \A pc \in nexts : pc \in {"retry", "fail"}
  PROVE  ProjInv'
  <1>1. PICK f \in CallFaults : Fails(w, from, f, Its(w), "none", nexts)
    BY DEF Unread
  <1>2. At(w, from)
    BY <1>1 DEF Fails
  <1>3. Its(w) \in Inbound /\ InboundOK(Its(w))
    BY <1>2, CallFacts
  <1>4. \A pc \in nexts : Lands(w, from, Its(w), pc, call.main)
    BY <1>2, <1>3, GivesUp
  <1> QED BY <1>1, <1>4, CallFaultKinds, FailsPreserves

LEMMA RemoveSound ==
  ASSUME ProjInv, NEW w \in Workers, RemoveInbound(w) \/ CheckRemoved(w)
  PROVE  ProjInv'
  <1> DEFINE x == Its(w)
             m == call.main
  <1>0. "remove" \in CallSteps /\ "remove_check" \in CallSteps
    BY DEF CallSteps
  <1>1. ASSUME NEW from \in RemoveSteps, At(w, from)
        PROVE  /\ x \in Inbound /\ InboundOK(x)
               /\ Lands(w, from, NoInbound, "confirm", m) /\ (~x.tag => Lands(w, from, x, "confirm", m))
               /\ Lands(w, from, NoInbound, "remove_check", m) /\ Lands(w, from, x, "remove_check", m)
    <2>1. from \in CallSteps
      BY <1>0 DEF RemoveSteps
    <2>2. x \in Inbound /\ InboundOK(x) /\ PathOK(work[w], x, from, m)
      BY <1>1, <2>1, CallFacts
    <2>3. ~work[w].present
      BY <2>2 DEF PathOK
    <2>4. \A z : /\ PathOK(work[w], z, "remove_check", m)
                 /\ ~z.tag => PathOK(work[w], z, "confirm", m)
      BY <2>3 DEF PathOK, RemoveSteps, RotSteps, CallSteps, Prompt
    <2> HIDE DEF x, m
    <2>5. "confirm" \in CallSteps \cup EndSteps /\ "remove_check" \in CallSteps \cup EndSteps
      BY <1>0 DEF EndSteps
    <2>6. NoInbound \in Inbound /\ InboundOK(NoInbound) /\ ~NoInbound.tag
         /\ ~Prompt(NoInbound)
      BY NoInboundSound
    <2>7. Prompt(x) => Prompt(Its(w))
      BY DEF x
    <2> QED BY <2>2, <2>4, <2>5, <2>6, <2>7 DEF Lands
  <1>2. CASE Answers(w, "remove", Removed(Its(w)), "confirm")
    BY <1>0, <1>1, <1>2, AnswersPreserves DEF Answers, Removed, RemoveSteps
  <1>3. ASSUME NEW f \in CallFaults, Fails(w, "remove", f, Removed(Its(w)), "remove", CheckAfter(f, "remove_check"))
        PROVE  ProjInv'
    <2>1. At(w, "remove") /\ Removed(Its(w)) = NoInbound
      BY <1>3 DEF Fails, Removed
    <2>2. ASSUME NEW pc \in CheckAfter(f, "remove_check")
          PROVE  Lands(w, "remove", NoInbound, pc, m) /\ Lands(w, "remove", x, pc, m)
      <3>1. CASE pc = "remove_check"
        BY <1>1, <2>1, <3>1 DEF RemoveSteps
      <3>2. CASE pc \in {"retry", "fail"}
        BY <1>0, <2>1, <3>2, GivesUp, NoInboundSound
      <3> QED BY <2>2, <3>1, <3>2, RetryFacts
    <2> QED BY <1>0, <1>3, <2>1, <2>2, CallFaultKinds, FailsPreserves
  <1>4. ASSUME NEW pc \in IF Its(w).tag THEN RetryOf(call.cause) ELSE {"confirm"},
               Answers(w, "remove_check", Its(w), pc)
        PROVE  ProjInv'
    <2>1. At(w, "remove_check")
      BY <1>4 DEF Answers
    <2>2. Lands(w, "remove_check", x, pc, m)
      <3>1. CASE Its(w).tag
        <4>1. pc \in {"retry", "fail"}
          BY <1>4, <3>1, RetryFacts
        <4>2. x \in Inbound /\ InboundOK(x)
          BY <1>1, <2>1 DEF RemoveSteps
        <4> QED BY <1>0, <2>1, <4>1, <4>2, GivesUp
      <3>2. CASE ~Its(w).tag
        BY <1>1, <1>4, <2>1, <3>2 DEF RemoveSteps
      <3> QED BY <3>1, <3>2
    <2> QED BY <1>0, <1>4, <2>2, AnswersPreserves
  <1>5. CASE Unread(w, "remove_check", RetryOf(call.cause))
    BY <1>0, <1>5, RetryFacts, UnreadPreserves
  <1> QED BY <1>2, <1>3, <1>4, <1>5 DEF RemoveInbound, CheckRemoved

LEMMA RemoveForPortChangeSound ==
  ASSUME ProjInv, NEW w \in Workers, RemoveForPortChange(w)
  PROVE  ProjInv'
  <1>0. "port_remove" \in CallSteps
    BY DEF CallSteps
  <1>1. CASE Answers(w, "port_remove", Removed(Its(w)), "create")
    <2>1. At(w, "port_remove")
      BY <1>1 DEF Answers
    <2>2. PathOK(work[w], Its(w), "port_remove", call.main)
      BY <1>0, <2>1, CallFacts
    <2>3. PathOK(work[w], NoInbound, "create", call.main)
      BY <2>2, NoInboundSound DEF PathOK, RotationPath, RemoveSteps, RotSteps, CallSteps
    <2>4. Lands(w, "port_remove", NoInbound, "create", call.main)
      BY <2>3, NoInboundSound DEF Lands, CallSteps
    <2> QED BY <1>0, <1>1, <2>4, AnswersPreserves DEF Removed
  <1>2. ASSUME NEW f \in CallFaults, Fails(w, "port_remove", f, Removed(Its(w)), "remove", RetryOf(f)) PROVE ProjInv'
    <2>1. At(w, "port_remove") /\ Removed(Its(w)) = NoInbound
      BY <1>2 DEF Fails, Removed
    <2>2. \A pc \in RetryOf(f) : /\ Lands(w, "port_remove", NoInbound, pc, call.main)
                                 /\ Lands(w, "port_remove", Its(w), pc, call.main)
      BY <1>0, <2>1, RetryFacts, GivesUp, NoInboundSound
    <2> QED BY <1>0, <1>2, <2>1, <2>2, CallFaultKinds, FailsPreserves
  <1> QED BY <1>1, <1>2 DEF RemoveForPortChange

\* A created inbound, heard or not, has the desired key.
LEMMA CreatedSound ==
  ASSUME ProjInv, NEW w \in Workers, NEW from \in CallSteps, At(w, from), work[w].present,
         NEW y \in {Created(w), [Created(w) EXCEPT !.listening = FALSE]}
  PROVE  y \in Inbound /\ InboundOK(y) /\ y.key = work[w].version /\ y.safety = FALSE
  <1>1. work[w] \in Work /\ work[w].version # 0
    BY CallFacts
  <1>2. work[w].port \in Ports \cup {0} /\ work[w].version \in 0 .. MaxRevision
    BY <1>1 DEF Work
  <1>3. y.tag = TRUE /\ y.key = work[w].version /\ y.safety = FALSE
    BY DEF Created, NewInbound, NoInbound
  <1>4. y \in Inbound
    <2>1. Created(w) \in Inbound
      BY <1>2 DEF Created, NewInbound, NoInbound, Inbound
    <2>2. [Created(w) EXCEPT !.listening = FALSE] \in Inbound
      BY <2>1 DEF Inbound
    <2> QED BY <2>1, <2>2
  <1> QED BY <1>1, <1>3, <1>4 DEF InboundOK

LEMMA CreateSound ==
  ASSUME ProjInv, NEW w \in Workers, CreateInbound(w)
  PROVE  ProjInv'
  <1> DEFINE x == Its(w)
             k == work[w]
             m == call.main
             new == Created(w)
             deaf == [Created(w) EXCEPT !.listening = FALSE]
  <1>0. "create" \in CallSteps /\ "create_port" \in CallSteps /\ "create_exists" \in CallSteps
        /\ "create_check" \in CallSteps /\ "confirm" \in EndSteps /\ "create" \notin RemoveSteps
    BY DEF CallSteps, EndSteps, RemoveSteps
  <1>1. ASSUME At(w, "create")
        PROVE  /\ x \in Inbound /\ InboundOK(x)
               /\ new \in Inbound /\ InboundOK(new) /\ deaf \in Inbound /\ InboundOK(deaf)
               /\ Lands(w, "create", x, "create_port", m)
               /\ Lands(w, "create", deaf, "create_port", m)
               /\ x.tag => Lands(w, "create", x, "create_exists", m)
               /\ Lands(w, "create", new, "confirm", m)
               /\ Lands(w, "create", new, "create_check", m)
               /\ Lands(w, "create", x, "create_check", m)
    <2>1. x \in Inbound /\ InboundOK(x) /\ PathOK(k, x, "create", m)
      BY <1>0, <1>1, CallFacts
    <2>2. k.present /\ (k.reason = "rotate" => ~Prompt(x))
      BY <1>0, <2>1 DEF PathOK, RotationPath
    <2>3. /\ new \in Inbound /\ InboundOK(new) /\ new.key = k.version /\ new.safety = FALSE
          /\ deaf \in Inbound /\ InboundOK(deaf)
      BY <1>0, <1>1, <2>2, CreatedSound
    <2> HIDE DEF x, k, m, new, deaf
    <2>4. \A z : PathOK(k, z, "create_port", m)
      BY <2>2 DEF PathOK, RotationPath, RemoveSteps, RotSteps, CallSteps
    <2>5. PathOK(k, x, "create_exists", m)
      BY <2>2 DEF PathOK, RotationPath, RemoveSteps, RotSteps, CallSteps
    <2>6. \A z : NewKeyOnly(z, k.version) => PathOK(k, z, "confirm", m) /\ PathOK(k, z, "create_check", m)
      BY <2>2 DEF PathOK, RotationPath, RemoveSteps, RotSteps, CallSteps
    <2>7. NewKeyOnly(new, k.version) /\ (k.reason = "rotate" => NewKeyOnly(x, k.version))
      BY <2>2, <2>3 DEF NewKeyOnly
    <2>8. k.reason # "rotate" => PathOK(k, x, "create_check", m)
      BY <2>2 DEF PathOK, RemoveSteps, RotSteps, CallSteps
    <2> QED BY <1>0, <2>1, <2>3, <2>4, <2>5, <2>6, <2>7, <2>8 DEF Lands, k
  <1>2. CASE Answers(w, "create", Its(w), "create_port")
    BY <1>0, <1>1, <1>2, AnswersPreserves DEF Answers
  <1>3. CASE Fails(w, "create", "occupied", Its(w), "none", {"create_port"})
    <2>1. At(w, "create") /\ "occupied" \in FaultKinds
      BY <1>3 DEF Fails, FaultKinds
    <2>2. \A pc \in {"create_port"} : Lands(w, "create", Its(w), pc, call.main)
      BY <1>1, <2>1
    <2> QED BY <1>0, <1>3, <2>1, <2>2, FailsPreserves
  <1>4. CASE Its(w).tag /\ Answers(w, "create", Its(w), "create_exists")
    BY <1>0, <1>1, <1>4, AnswersPreserves DEF Answers
  <1>5. CASE Answers(w, "create", Created(w), "confirm")
    BY <1>0, <1>1, <1>5, AnswersPreserves DEF Answers
  <1>6. CASE At(w, "create") /\ Strike("bind") /\ Goes(w, deaf, "create_port")
    <2> DEFINE c == [call EXCEPT !.pc = "create_port"]
    <2>8. late' \in [Allocs -> SUBSET LateCall]
      BY <1>6 DEF Goes, ProjInv, ProjectionTypeOK
    <2>1. Lands(w, "create", deaf, "create_port", m)
      BY <1>1, <1>6
    <2>2. xray' = [xray EXCEPT ![work[w].alloc] = deaf] /\ call' = c /\ UNCHANGED <<vars, node>>
      BY <1>6 DEF Goes
    <2>3. call \in CallState
      BY DEF ProjInv, ProjectionTypeOK
    <2>4. c \in CallState /\ c.pc = "create_port" /\ c.main = m
      BY <1>0, <2>3 DEF CallState
    <2>5. faults' \in 0 .. MaxFaults
      BY <1>0, <1>6, StrikeBound
    <2>6. Lands(w, "create", deaf, c.pc, c.main)
      BY <2>1, <2>4
    <2>7. At(w, "create") /\ "create" \in CallSteps
      BY <1>6 DEF CallSteps
    <2> HIDE DEF c, deaf
    <2> QED BY <1>0, <2>2, <2>4, <2>5, <2>6, <2>7, <2>8, CallPreserves
  <1>7. ASSUME NEW f \in CallFaults,
               Fails(w, "create", f, IF Its(w).tag THEN Its(w) ELSE Created(w), "create", CheckAfter(f, "create_check"))
        PROVE  ProjInv'
    <2> DEFINE y == IF Its(w).tag THEN Its(w) ELSE Created(w)
    <2>1. At(w, "create") /\ (y = x \/ y = new)
      BY <1>7 DEF Fails
    <2> HIDE DEF y
    <2>2. ASSUME NEW pc \in CheckAfter(f, "create_check")
          PROVE  Lands(w, "create", y, pc, m) /\ Lands(w, "create", x, pc, m)
      <3>1. CASE pc = "create_check"
        BY <1>1, <2>1, <3>1
      <3>2. CASE pc \in {"retry", "fail"}
        <4>1. y \in Inbound /\ InboundOK(y)
          BY <1>1, <2>1
        <4> QED BY <1>0, <2>1, <3>2, <4>1, GivesUp
      <3> QED BY <2>2, <3>1, <3>2, RetryFacts
    <2> QED BY <1>0, <1>7, <2>2, CallFaultKinds, FailsPreserves DEF y
  <1> QED BY <1>2, <1>3, <1>4, <1>5, <1>6, <1>7 DEF CreateInbound

LEMMA CheckCreatedSound ==
  ASSUME ProjInv, NEW w \in Workers, CheckCreated(w)
  PROVE  ProjInv'
  <1>0. "create_check" \in CallSteps /\ "create_check" \notin RemoveSteps /\ "confirm" \in EndSteps
    BY DEF CallSteps, RemoveSteps, EndSteps
  <1>1. ASSUME NEW pc \in IF Its(w).tag THEN {"confirm"} ELSE RetryOf(call.cause),
               Answers(w, "create_check", Its(w), pc)
        PROVE  ProjInv'
    <2>1. At(w, "create_check")
      BY <1>1 DEF Answers
    <2>2. /\ Its(w) \in Inbound /\ InboundOK(Its(w))
          /\ PathOK(work[w], Its(w), "create_check", call.main)
      BY <1>0, <2>1, CallFacts
    <2>3. PathOK(work[w], Its(w), "confirm", call.main)
      BY <2>2 DEF PathOK, RotationPath, RemoveSteps, RotSteps, CallSteps
    <2>4. Lands(w, "create_check", Its(w), "confirm", call.main)
      BY <1>0, <2>2, <2>3 DEF Lands
    <2>5. pc = "confirm" \/ pc \in {"retry", "fail"}
      BY <1>1, RetryFacts
    <2>6. Lands(w, "create_check", Its(w), pc, call.main)
      BY <1>0, <2>1, <2>2, <2>4, <2>5, GivesUp
    <2> QED BY <1>0, <1>1, <2>6, AnswersPreserves
  <1>2. CASE Unread(w, "create_check", RetryOf(call.cause))
    BY <1>0, <1>2, RetryFacts, UnreadPreserves
  <1> QED BY <1>1, <1>2 DEF CheckCreated

LEMMA ClearSound ==
  ASSUME ProjInv, NEW w \in Workers, ClearPort(w) \/ ClearTag(w)
  PROVE  ProjInv'
  <1> DEFINE x == Its(w)
             m == call.main
  <1>0. "create_port" \in CallSteps /\ "create_exists" \in CallSteps /\ "create_exists" \notin RemoveSteps
        /\ "confirm" \in EndSteps
    BY DEF CallSteps, RemoveSteps, EndSteps
  <1>1. ASSUME NEW from \in {"create_port", "create_exists"}, At(w, from), NEW pc \in {"retry", "fail"}
        PROVE  Lands(w, from, NoInbound, pc, m) /\ Lands(w, from, x, pc, m)
    BY <1>0, <1>1, GivesUp, NoInboundSound
  <1>2. ASSUME At(w, "create_exists") PROVE Lands(w, "create_exists", x, "confirm", m)
    <2>1. x \in Inbound /\ InboundOK(x) /\ PathOK(work[w], x, "create_exists", m)
      BY <1>0, <1>2, CallFacts
    <2>2. PathOK(work[w], x, "confirm", m)
      BY <2>1 DEF PathOK, RotationPath, NewKeyOnly, RemoveSteps, RotSteps, CallSteps
    <2> QED BY <1>0, <2>1, <2>2 DEF Lands
  <1>3. CASE Answers(w, "create_port", Removed(Its(w)), "retry")
    BY <1>0, <1>1, <1>3, AnswersPreserves DEF Answers, Removed
  <1>4. ASSUME NEW f \in CallFaults, Fails(w, "create_port", f, Removed(Its(w)), "remove", {"retry"}) PROVE ProjInv'
    <2>1. \A pc \in {"retry"} : Lands(w, "create_port", Removed(Its(w)), pc, m) /\ Lands(w, "create_port", x, pc, m)
      BY <1>1, <1>4 DEF Fails, Removed
    <2> QED BY <1>0, <1>4, <2>1, CallFaultKinds, FailsPreserves
  <1>5. CASE Answers(w, "create_exists", Its(w), "fail")
    BY <1>0, <1>1, <1>5, AnswersPreserves DEF Answers
  <1>6. CASE Answers(w, "create_exists", Its(w), "confirm")
    BY <1>0, <1>2, <1>6, AnswersPreserves DEF Answers
  <1>7. CASE Answers(w, "create_exists", Removed(Its(w)), "retry")
    BY <1>0, <1>1, <1>7, AnswersPreserves DEF Answers, Removed
  <1>8. CASE Unread(w, "create_exists", {"fail"})
    BY <1>0, <1>8, UnreadPreserves
  <1>9. ASSUME NEW f \in CallFaults, At(w, "create_exists"), Strike(f), Goes(w, Removed(Its(w)), "retry")
        PROVE  ProjInv'
    <2> DEFINE c == [call EXCEPT !.pc = "retry"]
    <2>1. Lands(w, "create_exists", NoInbound, "retry", m)
      BY <1>1, <1>9
    <2>2. xray' = [xray EXCEPT ![work[w].alloc] = NoInbound] /\ call' = c /\ UNCHANGED <<vars, node>>
      BY <1>9 DEF Goes, Removed
    <2>5. late' \in [Allocs -> SUBSET LateCall]
      BY <1>9 DEF Goes, ProjInv, ProjectionTypeOK
    <2>3. call \in CallState
      BY DEF ProjInv, ProjectionTypeOK
    <2>4. c \in CallState /\ c.pc = "retry" /\ c.main = m
      BY <2>3 DEF CallState, EndSteps
    <2> HIDE DEF c
    <2> QED BY <1>0, <1>9, <2>1, <2>2, <2>4, <2>5, StrikeBound, CallPreserves
  <1>10. ASSUME NEW f \in CallFaults, Fails(w, "create_exists", f, Removed(Its(w)), "remove", {"retry"}) PROVE ProjInv'
    <2>1. \A pc \in {"retry"} : Lands(w, "create_exists", Removed(Its(w)), pc, m) /\ Lands(w, "create_exists", x, pc, m)
      BY <1>1, <1>10 DEF Fails, Removed
    <2> QED BY <1>0, <1>10, <2>1, CallFaultKinds, FailsPreserves
  <1> QED BY <1>3, <1>4, <1>5, <1>6, <1>7, <1>8, <1>9, <1>10 DEF ClearPort, ClearTag

----------------------------------------------------------------------------
(* The calls of a rotation.                                                *)

\* What is known at a call of rotateWithinInbound.
LEMMA RotationFacts ==
  ASSUME ProjInv, NEW w \in Workers, NEW from \in RotSteps, At(w, from)
  PROVE  /\ from \in CallSteps /\ from \notin RemoveSteps
         /\ Its(w) \in Inbound /\ InboundOK(Its(w)) /\ call \in CallState
         /\ RotationPath(Its(w), work[w].version, from, call.main)
         /\ work[w].present /\ work[w].reason = "rotate"
         /\ work[w].version # 0 /\ work[w].version \in 0 .. MaxRevision
  <1>1. from \in CallSteps /\ from \notin RemoveSteps
    BY DEF RotSteps, CallSteps, RemoveSteps
  <1>2. /\ Its(w) \in Inbound /\ InboundOK(Its(w)) /\ call \in CallState
        /\ PathOK(work[w], Its(w), from, call.main) /\ work[w] \in Work
        /\ work[w].present => work[w].version # 0
    BY <1>1, CallFacts
  <1>3. work[w].present /\ work[w].reason = "rotate"
    BY <1>1, <1>2 DEF PathOK
  <1>4. RotationPath(Its(w), work[w].version, from, call.main)
    BY <1>2, <1>3 DEF PathOK
  <1>5. work[w].version \in 0 .. MaxRevision
    BY <1>2 DEF Work
  <1> QED BY <1>1, <1>2, <1>3, <1>4, <1>5

\* A call of the rotation goes on wherever the rotation's own account holds.
LEMMA RotationLands ==
  ASSUME ProjInv, NEW w \in Workers, NEW from \in RotSteps, At(w, from), NEW y \in Inbound, InboundOK(y),
         NEW pc \in RotSteps \cup {"create", "confirm", "retry", "fail"}, NEW main,
         RotationPath(y, work[w].version, pc, main)
  PROVE  Lands(w, from, y, pc, main)
  <1>1. from \notin RemoveSteps /\ work[w].present /\ work[w].reason = "rotate"
    BY RotationFacts
  <1>2. pc \in CallSteps \cup EndSteps /\ pc \notin RemoveSteps
    BY DEF RotSteps, CallSteps, EndSteps, RemoveSteps
  <1>3. PathOK(work[w], y, pc, main)
    BY <1>1, <1>2 DEF PathOK
  <1> QED BY <1>1, <1>2, <1>3 DEF Lands

\* A failing call of the rotation: it is read back, retried or given up.
LEMMA RotationFails ==
  ASSUME ProjInv, NEW w \in Workers, NEW from \in RotSteps, NEW f \in CallFaults, NEW y \in Inbound, InboundOK(y),
         NEW effect, NEW nexts, Fails(w, from, f, y, effect, nexts),
         NEW check \in RotSteps,
         \A pc \in nexts : pc \in {check, "retry", "fail"},
         check \in nexts => /\ RotationPath(y, work[w].version, check, call.main)
                            /\ RotationPath(Its(w), work[w].version, check, call.main)
  PROVE  ProjInv'
  <1>1. At(w, from)
    BY DEF Fails
  <1>2. from \in CallSteps /\ from \notin RemoveSteps /\ Its(w) \in Inbound /\ InboundOK(Its(w))
    BY <1>1, RotationFacts
  <1>3. ASSUME NEW pc \in nexts
        PROVE  Lands(w, from, y, pc, call.main) /\ Lands(w, from, Its(w), pc, call.main)
    <2>1. CASE pc = check
      BY <1>1, <1>2, <1>3, <2>1, RotationLands
    <2>2. CASE pc \in {"retry", "fail"}
      BY <1>1, <1>2, <2>2, GivesUp
    <2> QED BY <1>3, <2>1, <2>2
  <1> QED BY <1>2, <1>3, CallFaultKinds, FailsPreserves

LEMMA ListClientsSound ==
  ASSUME ProjInv, NEW w \in Workers, ListClients(w)
  PROVE  ProjInv'
  <1> DEFINE x == Its(w)
  <1>0. "rot_list" \in RotSteps
    BY DEF RotSteps
  <1>1. CASE ~Its(w).tag /\ Answers(w, "rot_list", Its(w), "create")
    <2>1. At(w, "rot_list")
      BY <1>1 DEF Answers
    <2>2. x \in Inbound /\ InboundOK(x) /\ "rot_list" \in CallSteps
      BY <1>0, <2>1, RotationFacts
    <2>3. RotationPath(x, work[w].version, "create", call.main)
      BY <1>1 DEF RotationPath, Prompt
    <2> QED BY <1>0, <1>1, <2>1, <2>2, <2>3, RotationLands, AnswersPreserves
  <1>2. CASE /\ Its(w).tag /\ At(w, "rot_list")
             /\ call' = [call EXCEPT !.main = (Its(w).key # 0),
                                     !.pc = IF ~Its(w).safety THEN "rot_safety"
                                            ELSE IF Its(w).key # 0 THEN "rot_remove" ELSE "rot_add"]
             /\ UNCHANGED <<vars, xray, late, node, faults>>
    <2> DEFINE main == (x.key # 0)
               pc == IF ~x.safety THEN "rot_safety" ELSE IF x.key # 0 THEN "rot_remove" ELSE "rot_add"
               c == [call EXCEPT !.main = main, !.pc = pc]
    <2>1. x \in Inbound /\ InboundOK(x) /\ "rot_list" \in CallSteps /\ call \in CallState
      BY <1>0, <1>2, RotationFacts
    <2>2. pc \in RotSteps /\ pc \in CallSteps
      BY DEF RotSteps, CallSteps
    <2>3. main \in BOOLEAN
      OBVIOUS
    <2>4. RotationPath(x, work[w].version, pc, main)
      BY DEF RotationPath
    <2> HIDE DEF pc, main
    <2>5. c \in CallState /\ c.pc = pc /\ c.main = main
      BY <2>1, <2>2, <2>3 DEF CallState
    <2>6. call' = c
      BY <1>2 DEF pc, main
    <2> HIDE DEF c
    <2>7. Lands(w, "rot_list", x, c.pc, c.main)
      BY <1>0, <1>2, <2>1, <2>2, <2>4, <2>5, RotationLands
    <2>8. /\ xray' = [xray EXCEPT ![work[w].alloc] = x] /\ faults' \in 0 .. MaxFaults
          /\ late' \in [Allocs -> SUBSET LateCall]
      BY <1>2 DEF Its, ProjInv, ProjectionTypeOK
    <2> HIDE DEF x
    <2> QED BY <1>2, <2>1, <2>5, <2>6, <2>7, <2>8, CallPreserves
  <1>3. ASSUME NEW f \in CallFaults, Fails(w, "rot_list", f, Its(w), "none", RetryOf(f)) PROVE ProjInv'
    <2>1. x \in Inbound /\ InboundOK(x) /\ "rot_list" \notin RetryOf(f)
      BY <1>0, <1>3, RotationFacts, RetryFacts DEF Fails
    <2> QED BY <1>0, <1>3, <2>1, RetryFacts, RotationFails
  <1> QED BY <1>1, <1>2, <1>3 DEF ListClients

LEMMA SafetySound ==
  ASSUME ProjInv, NEW w \in Workers, AddSafety(w) \/ CheckSafety(w)
  PROVE  ProjInv'
  <1> DEFINE x == Its(w)
             v == work[w].version
             m == call.main
             y == IF x.tag THEN [x EXCEPT !.safety = TRUE] ELSE x
  <1>0. "rot_safety" \in RotSteps /\ "rot_safety_check" \in RotSteps
    BY DEF RotSteps
  <1>1. AfterSafety \in RotSteps
    BY DEF AfterSafety, RotSteps
  <1>2. ASSUME NEW from \in {"rot_safety", "rot_safety_check"}, At(w, from)
        PROVE  /\ from \in CallSteps /\ x \in Inbound /\ InboundOK(x) /\ y \in Inbound /\ InboundOK(y)
               /\ RotationPath(x, v, AfterSafety, m) /\ RotationPath(y, v, AfterSafety, m)
               /\ RotationPath(x, v, "rot_safety_check", m) /\ RotationPath(y, v, "rot_safety_check", m)
    <2>1. from \in CallSteps /\ x \in Inbound /\ InboundOK(x) /\ RotationPath(x, v, from, m)
      BY <1>0, <1>2, RotationFacts
    <2>2. y \in Inbound /\ y.key = x.key /\ Prompt(y) = Prompt(x)
      BY <2>1 DEF Inbound, Prompt
    <2>3. InboundOK(y)
      BY <2>1 DEF Inbound, InboundOK, Prompt
    <2>4. ~m => (Prompt(x) => x.key = 0)
      BY <2>1 DEF RotationPath
    <2> HIDE DEF y, x
    <2>5. \A z : z.key = x.key /\ Prompt(z) = Prompt(x)
                => RotationPath(z, v, AfterSafety, m) /\ RotationPath(z, v, "rot_safety_check", m)
      BY <2>4 DEF RotationPath, AfterSafety
    <2> QED BY <2>1, <2>2, <2>3, <2>5
  <1>3. CASE Answers(w, "rot_safety", y, IF Its(w).tag THEN AfterSafety ELSE "create")
    <2>1. At(w, "rot_safety")
      BY <1>3 DEF Answers
    <2>2. CASE x.tag
      <3>1. Lands(w, "rot_safety", y, AfterSafety, m)
        BY <1>0, <1>1, <1>2, <2>1, RotationLands
      <3> HIDE DEF y
      <3> QED BY <1>2, <1>3, <2>1, <2>2, <3>1, AnswersPreserves
    <2>3. CASE ~x.tag
      <3>1. y = x
        BY <2>3
      <3>2. RotationPath(x, v, "create", m)
        BY <2>3 DEF RotationPath, Prompt
      <3>3. Lands(w, "rot_safety", x, "create", m)
        BY <1>0, <1>2, <2>1, <3>2, RotationLands
      <3> HIDE DEF y
      <3> QED BY <1>2, <1>3, <2>1, <2>3, <3>1, <3>3, AnswersPreserves
    <2> QED BY <2>2, <2>3
  <1>4. ASSUME NEW f \in CallFaults, Fails(w, "rot_safety", f, y, "add_safety", CheckAfter(f, "rot_safety_check")) PROVE ProjInv'
    <2>1. At(w, "rot_safety")
      BY <1>4 DEF Fails
    <2>2. /\ y \in Inbound /\ InboundOK(y)
          /\ RotationPath(x, v, "rot_safety_check", m) /\ RotationPath(y, v, "rot_safety_check", m)
      BY <1>2, <2>1
    <2> HIDE DEF y
    <2> QED BY <1>0, <1>4, <2>2, RetryFacts, RotationFails
  <1>5. ASSUME NEW pc \in IF Its(w).safety THEN {AfterSafety} ELSE RetryOf(call.cause),
               Answers(w, "rot_safety_check", Its(w), pc)
        PROVE  ProjInv'
    <2>1. At(w, "rot_safety_check")
      BY <1>5 DEF Answers
    <2>2. pc = AfterSafety \/ pc \in {"retry", "fail"}
      BY <1>5, RetryFacts
    <2>3. Lands(w, "rot_safety_check", x, pc, m)
      <3>1. CASE pc = AfterSafety
        BY <1>0, <1>1, <1>2, <2>1, <3>1, RotationLands
      <3>2. CASE pc \in {"retry", "fail"}
        BY <1>0, <1>2, <2>1, <3>2, RotationFacts, GivesUp
      <3> QED BY <2>2, <3>1, <3>2
    <2> QED BY <1>2, <1>5, <2>1, <2>3, AnswersPreserves
  <1>6. CASE Unread(w, "rot_safety_check", RetryOf(call.cause))
    <2>1. "rot_safety_check" \in CallSteps
      BY DEF CallSteps
    <2> QED BY <1>6, <2>1, RetryFacts, UnreadPreserves
  <1> QED BY <1>3, <1>4, <1>5, <1>6 DEF AddSafety, CheckSafety

LEMMA RemoveOldKeySound ==
  ASSUME ProjInv, NEW w \in Workers, RemoveOldKey(w)
  PROVE  ProjInv'
  <1> DEFINE x == Its(w)
             v == work[w].version
             m == call.main
             y == WithoutKey(x)
             pc == IF ~x.tag THEN "create" ELSE IF x.key # 0 /\ ~x.safety THEN "fail" ELSE "rot_add"
  <1>0. "rot_remove" \in RotSteps
    BY DEF RotSteps
  <1>1. ASSUME At(w, "rot_remove")
        PROVE  /\ "rot_remove" \in CallSteps /\ y \in Inbound /\ InboundOK(y)
               /\ RotationPath(y, v, pc, m)
    <2>1. "rot_remove" \in CallSteps /\ x \in Inbound /\ InboundOK(x)
      BY <1>0, <1>1, RotationFacts
    <2>2. y \in Inbound
      BY <2>1, BoundAssumption DEF Inbound, WithoutKey
    <2>3. InboundOK(y) /\ (~x.tag => ~y.tag) /\ (~(x.key # 0 /\ ~x.safety) => y.key = 0)
      BY <2>1, NoInboundSound DEF Inbound, InboundOK, WithoutKey, NoInbound, Prompt
    <2> HIDE DEF y, x
    <2>4. RotationPath(y, v, pc, m)
      BY <2>3 DEF RotationPath, Prompt
    <2> QED BY <2>1, <2>2, <2>3, <2>4
  <1>2. pc \in RotSteps \cup {"create", "fail"}
    BY DEF RotSteps
  <1>3. CASE Answers(w, "rot_remove", y, pc)
    <2>1. At(w, "rot_remove")
      BY <1>3 DEF Answers
    <2>2. Lands(w, "rot_remove", y, pc, m)
      BY <1>0, <1>1, <1>2, <2>1, RotationLands
    <2> HIDE DEF y, pc
    <2> QED BY <1>1, <1>3, <2>1, <2>2, AnswersPreserves
  <1>4. ASSUME NEW f \in CallFaults, Fails(w, "rot_remove", f, y, IF y.tag /\ y.key = 0 THEN "drop_key" ELSE "none", RetryOf(f)) PROVE ProjInv'
    <2>1. y \in Inbound /\ InboundOK(y) /\ "rot_remove" \notin RetryOf(f)
      BY <1>1, <1>4, RetryFacts DEF Fails
    <2> HIDE DEF y
    <2> QED BY <1>0, <1>4, <2>1, RetryFacts, RotationFails
  <1> QED BY <1>3, <1>4 DEF RemoveOldKey

LEMMA NewKeySound ==
  ASSUME ProjInv, NEW w \in Workers, AddNewKey(w) \/ CheckNewKey(w)
  PROVE  ProjInv'
  <1> DEFINE x == Its(w)
             v == work[w].version
             m == call.main
             y == WithKey(x, v)
  <1>0. "rot_add" \in RotSteps /\ "rot_add_check" \in RotSteps /\ "rot_clean" \in RotSteps
    BY DEF RotSteps
  <1>1. ASSUME At(w, "rot_add")
        PROVE  /\ "rot_add" \in CallSteps /\ y \in Inbound /\ InboundOK(y)
               /\ x.tag => RotationPath(y, v, "rot_clean", m)
               /\ ~x.tag => RotationPath(y, v, "create", m)
               /\ RotationPath(x, v, "rot_add_check", m) /\ RotationPath(y, v, "rot_add_check", m)
    <2>1. /\ "rot_add" \in CallSteps /\ x \in Inbound /\ InboundOK(x) /\ (Prompt(x) => x.key = 0)
          /\ v # 0 /\ v \in 0 .. MaxRevision
      BY <1>0, <1>1, RotationFacts DEF RotationPath
    <2> HIDE DEF x, v
    <2>2. y \in Inbound
      BY <2>1 DEF Inbound, WithKey
    <2>3. /\ Prompt(x) => y.key = v
          /\ Prompt(y) = Prompt(x)
          /\ ~x.tag => y = x /\ ~Prompt(x)
      BY <2>1 DEF Inbound, WithKey, Prompt
    <2>4. InboundOK(y)
      BY <2>1 DEF Inbound, InboundOK, WithKey, Prompt
    <2> HIDE DEF y
    <2>5. /\ x.tag => RotationPath(y, v, "rot_clean", m)
          /\ ~x.tag => RotationPath(y, v, "create", m)
          /\ RotationPath(x, v, "rot_add_check", m) /\ RotationPath(y, v, "rot_add_check", m)
      BY <2>1, <2>3 DEF RotationPath
    <2> QED BY <2>1, <2>2, <2>4, <2>5
  <1>2. CASE Answers(w, "rot_add", y, IF Its(w).tag THEN "rot_clean" ELSE "create")
    <2> DEFINE pc == IF x.tag THEN "rot_clean" ELSE "create"
    <2>1. At(w, "rot_add")
      BY <1>2 DEF Answers
    <2>2. pc \in RotSteps \cup {"create"} /\ RotationPath(y, v, pc, m)
      BY <1>0, <1>1, <2>1
    <2>3. Lands(w, "rot_add", y, pc, m)
      <3> HIDE DEF pc, y
      <3> QED BY <1>0, <1>1, <2>1, <2>2, RotationLands DEF y
    <2>4. Answers(w, "rot_add", y, pc)
      BY <1>2
    <2> HIDE DEF y, pc
    <2> QED BY <1>1, <2>1, <2>3, <2>4, AnswersPreserves
  <1>3. ASSUME NEW f \in CallFaults,
               Fails(w, "rot_add", f, y, "add_key", IF f \in {"timeout", "internal"} THEN {"rot_add_check"} ELSE {"retry"})
        PROVE  ProjInv'
    <2> DEFINE nexts == IF f \in {"timeout", "internal"} THEN {"rot_add_check"} ELSE {"retry"}
    <2>1. /\ y \in Inbound /\ InboundOK(y)
          /\ RotationPath(x, v, "rot_add_check", m) /\ RotationPath(y, v, "rot_add_check", m)
      BY <1>1, <1>3 DEF Fails
    <2>2. \A pc \in nexts : pc \in {"rot_add_check", "retry", "fail"}
      OBVIOUS
    <2>3. Fails(w, "rot_add", f, y, "add_key", nexts)
      BY <1>3
    <2> HIDE DEF y, nexts
    <2> QED BY <1>0, <2>1, <2>2, <2>3, RotationFails
  <1>4. CASE Answers(w, "rot_add_check", Its(w), IF Its(w).key # 0 THEN "rot_clean" ELSE "retry")
    <2> DEFINE pc == IF x.key # 0 THEN "rot_clean" ELSE "retry"
    <2>1. At(w, "rot_add_check")
      BY <1>4 DEF Answers
    <2>2. "rot_add_check" \in CallSteps /\ x \in Inbound /\ InboundOK(x) /\ (Prompt(x) => x.key \in {0, v})
      BY <1>0, <2>1, RotationFacts DEF RotationPath
    <2>3. RotationPath(x, v, pc, m) /\ pc \in RotSteps \cup {"retry"}
      BY <1>0, <2>2 DEF RotationPath
    <2>4. Answers(w, "rot_add_check", x, pc)
      BY <1>4
    <2> HIDE DEF pc
    <2>5. Lands(w, "rot_add_check", x, pc, m)
      BY <1>0, <2>1, <2>2, <2>3, RotationLands
    <2> QED BY <2>2, <2>4, <2>5, AnswersPreserves
  <1>5. CASE Unread(w, "rot_add_check", {"retry"})
    <2>1. "rot_add_check" \in CallSteps
      BY DEF CallSteps
    <2> QED BY <1>5, <2>1, UnreadPreserves
  <1> QED BY <1>2, <1>3, <1>4, <1>5 DEF AddNewKey, CheckNewKey

LEMMA RemoveSafetySound ==
  ASSUME ProjInv, NEW w \in Workers, RemoveSafety(w)
  PROVE  ProjInv'
  <1> DEFINE x == Its(w)
             v == work[w].version
             m == call.main
             y == WithoutSafety(x)
             pc == IF y.safety THEN "retry" ELSE "confirm"
  <1>0. "rot_clean" \in RotSteps
    BY DEF RotSteps
  <1>1. ASSUME At(w, "rot_clean")
        PROVE  /\ "rot_clean" \in CallSteps /\ y \in Inbound /\ InboundOK(y)
               /\ RotationPath(y, v, pc, m)
    <2>1. "rot_clean" \in CallSteps /\ x \in Inbound /\ InboundOK(x) /\ (Prompt(x) => x.key = v)
      BY <1>0, <1>1, RotationFacts DEF RotationPath
    <2> HIDE DEF x, v
    <2>2. y \in Inbound
      BY <2>1 DEF Inbound, WithoutSafety
    <2>3. Prompt(y) = Prompt(x) /\ y.key = x.key /\ InboundOK(y)
      BY <2>1, NoInboundSound DEF Inbound, InboundOK, WithoutSafety, Prompt
    <2> HIDE DEF y
    <2>4. RotationPath(y, v, pc, m)
      BY <2>1, <2>3 DEF RotationPath, NewKeyOnly
    <2> QED BY <2>1, <2>2, <2>3, <2>4
  <1>2. CASE Answers(w, "rot_clean", y, pc)
    <2>1. At(w, "rot_clean")
      BY <1>2 DEF Answers
    <2>2. pc \in {"retry", "confirm"}
      OBVIOUS
    <2>3. Lands(w, "rot_clean", y, pc, m)
      BY <1>0, <1>1, <2>1, <2>2, RotationLands
    <2> HIDE DEF y, pc
    <2> QED BY <1>1, <1>2, <2>1, <2>3, AnswersPreserves
  <1>3. ASSUME NEW f \in CallFaults, Fails(w, "rot_clean", f, y, IF y.tag /\ ~y.safety THEN "drop_safety" ELSE "none", {"retry"}) PROVE ProjInv'
    <2>1. y \in Inbound /\ InboundOK(y)
      BY <1>1, <1>3 DEF Fails
    <2> HIDE DEF y
    <2> QED BY <1>0, <1>3, <2>1, RotationFails
  <1> QED BY <1>2, <1>3 DEF RemoveSafety

LEMMA CallXraySound ==
  ASSUME ProjInv, NEW w \in Workers, CallXray(w)
  PROVE  ProjInv'
  BY RemoveSound, RemoveForPortChangeSound, CreateSound, CheckCreatedSound, ClearSound,
     ListClientsSound, SafetySound, RemoveOldKeySound, NewKeySound, RemoveSafetySound DEF CallXray

----------------------------------------------------------------------------
(* The specification.                                                      *)

LEMMA ProjectionInitSound == ProjectionInit => ProjInv
  <1> SUFFICES ASSUME ProjectionInit PROVE ProjInv
    OBVIOUS
  <1>1. /\ Init /\ xray = [a \in Allocs |-> NoInbound] /\ late = [a \in Allocs |-> {}] /\ node = "free" /\ call = NoCall /\ faults = 0
        /\ db = [a \in Allocs |-> NoUser] /\ seen = [a \in Allocs |-> NoSighting]
        /\ work = [w \in Workers |-> NoWork]
    BY DEF ProjectionInit, Init
  <1>2. IInv
    BY <1>1, InitSound
  <1>3. ProjectionTypeOK
    BY <1>1, NoInboundSound, NoCallTyped, NothingTyped, FaultsAssumption DEF ProjectionTypeOK
  <1>4. WorkSound /\ PathSound
    BY <1>1 DEF WorkSound, PathSound, NoWork
  <1>5. InboundsSound
    BY <1>1, NoInboundSound DEF InboundsSound
  <1>6. UsersSound
    BY <1>1, NoInboundSound DEF UsersSound, Kept, Gone, NewKeyOnly
  <1> QED BY <1>2, <1>3, <1>4, <1>5, <1>6 DEF ProjInv

LEMMA ProjectionStutters == ASSUME ProjInv, UNCHANGED allVars PROVE ProjInv'
  <1>1. UNCHANGED <<db, req, seen, work, targets>> /\ UNCHANGED <<xray, late, node, call, faults>>
    BY DEF allVars, vars, remote
  <1>2. IInv'
    BY <1>1, NoUserStep, Keeps, Preserved DEF ProjInv
  <1>3. ProjectionTypeOK'
    BY <1>1 DEF ProjInv, ProjectionTypeOK
  <1> QED BY <1>1, <1>2, <1>3, SameRowsQuiet, QuietPreserves

LEMMA ProjectionNextSound == ProjInv /\ [ProjectionNext]_allVars => ProjInv'
  <1> SUFFICES ASSUME ProjInv, [ProjectionNext]_allVars PROVE ProjInv'
    OBVIOUS
  <1>1. CASE AdminStep
    BY <1>1, AdminStepSound
  <1>2. ASSUME NEW w \in Workers, NEW a \in Allocs, Lease(w, a) PROVE ProjInv'
    BY <1>2, LeaseSound
  <1>3. ASSUME NEW w \in Workers, TakeNode(w) PROVE ProjInv'
    BY <1>3, TakeNodeSound
  <1>4. ASSUME NEW w \in Workers, SyncStep(w) PROVE ProjInv'
    BY <1>4, LoadSound, CallXraySound, AbandonSound, EndWorkSound DEF SyncStep
  <1>5. ASSUME NEW w \in Workers, StoreError(w) PROVE ProjInv'
    BY <1>5, AbandonSound
  <1>6. CASE BeginRound \/ RoundStep
    BY <1>6, RoundSound
  <1>7. ASSUME NEW a \in Allocs, NEW r \in Revisions, AbandonedLeaseExpires(a, r) PROVE ProjInv'
    BY <1>7, ExpirySound
  <1>8. CASE XrayRestart
    BY <1>8, XrayRestartSound
  <1>9. CASE PanelRestart
    BY <1>9, PanelRestartSound
  <1>10. CASE UNCHANGED allVars
    BY <1>10, ProjectionStutters
  <1>11. ASSUME NEW a \in Allocs, NEW c \in late[a], LateCallArrives(a, c) PROVE ProjInv'
    BY <1>11, LateCallSound
  <1> QED BY <1>1, <1>2, <1>3, <1>4, <1>5, <1>6, <1>7, <1>8, <1>9, <1>10, <1>11 DEF ProjectionNext

\* The inductive invariant of the projection, over every interleaving of
\* calls, faults, restarts, rounds and requests.
THEOREM ProjectionInvariant == ProjectionSpec => []ProjInv
  BY ProjectionInitSound, ProjectionNextSound, PTL DEF ProjectionSpec

----------------------------------------------------------------------------
(* What the projection promises.                                           *)

\* The node mutex, the synchronizer's work and its calls agree: no call
\* without the mutex and a leased row, no calls during a reconciler's round.
THEOREM ProjectionTypeCorrect == ProjectionSpec => []ProjectionTypeOK
  <1>1. ProjInv => ProjectionTypeOK
    BY DEF ProjInv
  <1> QED BY <1>1, ProjectionInvariant, PTL

\* ManagedClientAlways: rotateWithinInbound and createDedicatedInbound never
\* leave an inbound without a managed client, whatever fails (FR-019), unless
\* a call of theirs that timed out takes effect later.
THEOREM ManagedClientAlwaysHolds == ProjectionSpec => []ManagedClientAlways
  <1>1. ProjInv => ManagedClientAlways
    BY DEF ProjInv, InboundsSound, InboundOK, ManagedClientAlways
  <1> QED BY <1>1, ProjectionInvariant, PTL

\* AbsentMeansGone: a removal that ConfirmSync recorded took place, and a
\* released port is not held by its former user's inbound (FR-018); the one
\* that may be there again is that of an AddInbound which timed out and came
\* late, and carries the mark.
THEOREM AbsentMeansGoneHolds == ProjectionSpec => []AbsentMeansGone
  <1>1. ProjInv => AbsentMeansGone
    BY DEF ProjInv, UsersSound, Kept, AbsentMeansGone
  <1> QED BY <1>1, ProjectionInvariant, PTL

\* RotationLeavesNewKey: a confirmed rotation has the new key in force and
\* the safety client gone, at whichever call it was resumed (FR-017), where
\* no late call has touched the inbound.
THEOREM RotationLeavesNewKeyHolds == ProjectionSpec => []RotationLeavesNewKey
  <1>1. ProjInv => RotationLeavesNewKey
    BY DEF ProjInv, UsersSound, Kept, NewKeyOnly, InForce, RotationLeavesNewKey
  <1> QED BY <1>1, ProjectionInvariant, PTL

----------------------------------------------------------------------------
(* What a step does to the rows.                                           *)

\* A call is made behind the fence, changes no row and keeps the node.
LEMMA CallFrame ==
  ASSUME NEW w \in Workers, CallXray(w)
  PROVE  /\ work[w].loaded /\ At(w, call.pc) /\ call.pc \in CallSteps /\ UNCHANGED <<vars, node>>
         /\ \/ RemoveForPortChange(w) \/ CreateInbound(w) \/ CheckCreated(w) \/ ClearPort(w) \/ ClearTag(w)
            \/ call.pc \in RemoveSteps \cup RotSteps
  <1> DEFINE Made(pcs) == call.pc \in pcs /\ At(w, call.pc) /\ UNCHANGED <<vars, node>>
  <1>1. ASSUME NEW pcs, NEW from \in pcs, NEW y, NEW pc, Answers(w, from, y, pc) PROVE Made(pcs)
    BY <1>1 DEF Answers, Goes, At
  <1>2. ASSUME NEW pcs, NEW from \in pcs, NEW f, NEW y, NEW effect, NEW nexts, Fails(w, from, f, y, effect, nexts) PROVE Made(pcs)
    BY <1>2 DEF Fails, At
  <1>3. ASSUME NEW pcs, NEW from \in pcs, NEW nexts, Unread(w, from, nexts) PROVE Made(pcs)
    BY <1>2, <1>3 DEF Unread
  <1>4. ASSUME NEW pcs, NEW from \in pcs, At(w, from), NEW y, NEW pc, Goes(w, y, pc) PROVE Made(pcs)
    BY <1>4 DEF Goes, At
  <1>5. CASE RemoveInbound(w)
    <2>1. Made({"remove"})
      BY <1>1, <1>2, <1>5 DEF RemoveInbound
    <2> QED BY <2>1 DEF CallXray, CallSteps, RemoveSteps
  <1>6. CASE CheckRemoved(w)
    <2>1. Made({"remove_check"})
      BY <1>1, <1>3, <1>6 DEF CheckRemoved
    <2> QED BY <2>1 DEF CallXray, CallSteps, RemoveSteps
  <1>7. CASE RemoveForPortChange(w)
    <2>1. Made({"port_remove"})
      BY <1>1, <1>2, <1>7 DEF RemoveForPortChange
    <2> QED BY <1>7, <2>1 DEF CallXray, CallSteps
  <1>8. CASE CreateInbound(w)
    <2>1. Made({"create"})
      BY <1>1, <1>2, <1>4, <1>8 DEF CreateInbound
    <2> QED BY <1>8, <2>1 DEF CallXray, CallSteps
  <1>9. CASE CheckCreated(w)
    <2>1. Made({"create_check"})
      BY <1>1, <1>3, <1>9 DEF CheckCreated
    <2> QED BY <1>9, <2>1 DEF CallXray, CallSteps
  <1>10. CASE ClearPort(w)
    <2>1. Made({"create_port"})
      BY <1>1, <1>2, <1>10 DEF ClearPort
    <2> QED BY <1>10, <2>1 DEF CallXray, CallSteps
  <1>11. CASE ClearTag(w)
    <2>1. Made({"create_exists"})
      BY <1>1, <1>2, <1>3, <1>4, <1>11 DEF ClearTag
    <2> QED BY <1>11, <2>1 DEF CallXray, CallSteps
  <1>12. CASE ListClients(w)
    <2>1. Made({"rot_list"})
      BY <1>1, <1>2, <1>12 DEF ListClients, At
    <2> QED BY <2>1 DEF CallXray, CallSteps, RotSteps
  <1>13. CASE AddSafety(w) \/ CheckSafety(w)
    <2>1. Made({"rot_safety", "rot_safety_check"})
      BY <1>1, <1>2, <1>3, <1>13 DEF AddSafety, CheckSafety
    <2> QED BY <2>1 DEF CallXray, CallSteps, RotSteps
  <1>14. CASE RemoveOldKey(w) \/ RemoveSafety(w)
    <2>1. Made({"rot_remove", "rot_clean"})
      BY <1>1, <1>2, <1>14 DEF RemoveOldKey, RemoveSafety
    <2> QED BY <2>1 DEF CallXray, CallSteps, RotSteps
  <1>15. CASE AddNewKey(w) \/ CheckNewKey(w)
    <2>1. Made({"rot_add", "rot_add_check"})
      BY <1>1, <1>2, <1>3, <1>15 DEF AddNewKey, CheckNewKey
    <2> QED BY <2>1 DEF CallXray, CallSteps, RotSteps
  <1> QED BY <1>5, <1>6, <1>7, <1>8, <1>9, <1>10, <1>11, <1>12, <1>13, <1>14, <1>15 DEF CallXray

PortChange == \E a \in Allocs, p \in Ports : SubmitChangePort(a, p)

\* No existing user gets another port.
PortKept == \A a \in Allocs : Exists(db[a]) => Exists(db'[a]) /\ db'[a].port = db[a].port

LEMMA SamePlace ==
  ASSUME IInv, NEW a \in Allocs, NEW v, db' = [db EXCEPT ![a] = v],
         Exists(db[a]) => Exists(v) /\ v.port = db[a].port
  PROVE  PortKept
  <1>1. db'[a] = v /\ OthersKeep(a)
    BY OneEntry
  <1> QED BY <1>1 DEF PortKept, OthersKeep

LEMMA SteadyShape ==
  ASSUME IInv, NEW a \in Allocs, NEW v, db' = [db EXCEPT ![a] = v],
         \/ Switched(db[a], v) \/ Rekeyed(db[a], v) \/ Dismissed(db[a], v)
         \/ Entered(db[a], v) /\ v.port \in Ports /\ v.port \notin AssignedPorts
  PROVE  Shape /\ PortKept
  <1>1. db'[a] = v /\ OthersKeep(a)
    BY OneEntry
  <1>2. Shape
    BY <1>1, OneSwitches DEF Shape, Taken
  <1>3. Exists(db[a]) => Exists(v) /\ v.port = db[a].port
    BY DEF Switched, Same, Opened, Rekeyed, Dismissed, Entered, KeepsPlace, Exists
  <1> QED BY <1>2, <1>3, SamePlace

LEMMA AdminShape ==
  ASSUME IInv, AskedPorts, AdminStep
  PROVE  Shape /\ (PortChange \/ PortKept)
  <1>0. \A a \in Allocs : db[a] \in UserRow /\ UserOK(db[a])
    BY DEF IInv, TypeOK
  <1>1. ASSUME NEW h \in Handlers, NEW a \in Allocs, CreateUser(h, a) PROVE Shape /\ PortKept
    <2> DEFINE p == req[h].port
               v == NewUser(p, 0)
    <2>1. db' = [db EXCEPT ![a] = v] /\ ~Exists(db[a]) /\ p \in Ports /\ p \notin AssignedPorts
      BY <1>1 DEF CreateUser, CommitCreate, AskedPorts
    <2>2. /\ v.life = "active" /\ v.admin = TRUE /\ v.quota = "within_limit" /\ v.cdes = 1 /\ v.csyn = 0
          /\ v.syn = 0 /\ v.des = 1 /\ v.proj = "pending" /\ v.released = FALSE /\ v.port = p
      BY DEF NewUser, NoUser
    <2> HIDE DEF v, p
    <2>3. Entered(db[a], v)
      BY <2>1, <2>2 DEF Entered, DesiredPresent
    <2> QED BY <2>1, <2>2, <2>3, SteadyShape
  <1>7. ASSUME NEW h \in Handlers, (\E p \in Ports : ChoosePort(h, p)) \/ RejectCreation(h)
        PROVE  Shape /\ PortKept
    <2>1. UNCHANGED db
      BY <1>7 DEF ChoosePort, RejectCreation, BeginCreate, RejectRequest
    <2> QED BY <2>1, NoneSwitches DEF PortKept
  <1>2. ASSUME NEW a \in Allocs, NEW kind \in Kinds, NEW p \in Ports \cup {0}, NEW v, Submit(a, kind, p, v)
        PROVE  LET q == Snapshot(kind, a, p) IN
               /\ q \in Request /\ q.port = p /\ Accepts(db[a], q) /\ Current(db[a], q.des, q.present, q.cred)
               /\ ~db[a].released /\ db' = [db EXCEPT ![a] = v]
    <2>1. db[a].life = "active" /\ Accepts(db[a], Snapshot(kind, a, p)) /\ db' = [db EXCEPT ![a] = v]
      BY <1>2 DEF Submit
    <2>2. ~db[a].released
      BY <1>0, <2>1 DEF UserOK, Exists, Consistent, KeysSound
    <2>3. Snapshot(kind, a, p).port = p
      BY DEF Snapshot
    <2> QED BY <2>1, <2>2, <2>3, SnapshotFacts
  <1>3. ASSUME NEW a \in Allocs, NEW p \in Ports, SubmitChangePort(a, p) PROVE Shape
    <2> DEFINE q == Snapshot("port_change", a, p)
               v == ChangedPort(db[a], q)
    <2>1. p \notin AssignedPorts /\ Submit(a, "port_change", p, v) /\ "port_change" \in Kinds /\ p \in Ports \cup {0}
      BY <1>3 DEF SubmitChangePort, FreePorts, Kinds
    <2>2. /\ q \in Request /\ q.port = p /\ Accepts(db[a], q) /\ Current(db[a], q.des, q.present, q.cred)
          /\ ~db[a].released /\ db' = [db EXCEPT ![a] = v]
      BY <1>2, <2>1
    <2>3. Moved(db[a], v) /\ v.port = p
      BY <1>0, <2>2, PortMoves
    <2> HIDE DEF v, q
    <2>4. db'[a] = v /\ OthersKeep(a)
      BY <2>2, OneEntry
    <2> QED BY <2>1, <2>3, <2>4 DEF Shape, Taken
  <1>4. ASSUME NEW a \in Allocs, SubmitRotate(a) PROVE Shape /\ PortKept
    <2> DEFINE q == Snapshot("rotate", a, 0)
               v == Rotated(db[a], q)
    <2>1. Submit(a, "rotate", 0, v) /\ "rotate" \in Kinds
      BY <1>4 DEF SubmitRotate, Kinds
    <2>2. /\ q \in Request /\ Accepts(db[a], q) /\ Current(db[a], q.des, q.present, q.cred)
          /\ db' = [db EXCEPT ![a] = v]
      BY <1>2, <2>1
    <2>3. Rekeyed(db[a], v)
      BY <1>0, <2>2, KeyRotates
    <2> HIDE DEF v, q
    <2> QED BY <2>2, <2>3, SteadyShape
  <1>5. ASSUME NEW a \in Allocs, SubmitDelete(a) PROVE Shape /\ PortKept
    <2> DEFINE q == Snapshot("delete", a, 0)
               v == SoftDeleted(db[a], q)
    <2>1. Submit(a, "delete", 0, v) /\ "delete" \in Kinds
      BY <1>5 DEF SubmitDelete, Kinds
    <2>2. /\ q \in Request /\ Accepts(db[a], q) /\ Current(db[a], q.des, q.present, q.cred)
          /\ db' = [db EXCEPT ![a] = v]
      BY <1>2, <2>1
    <2>3. Dismissed(db[a], v)
      BY <1>0, <2>2, UserRemoved
    <2> HIDE DEF v, q
    <2> QED BY <2>2, <2>3, SteadyShape
  <1>6. ASSUME NEW a \in Allocs, SubmitToggle(a) PROVE Shape /\ PortKept
    <2> DEFINE v == Updated(db[a], ~db[a].admin, db[a].limit)
    <2>1. db[a].life = "active" /\ db[a].urev < MaxUserRevision /\ db' = [db EXCEPT ![a] = v]
      BY <1>6 DEF SubmitToggle, UpdateUser
    <2>2. Exists(db[a]) /\ (~db[a].admin) \in BOOLEAN /\ db[a].limit \in Limits \cup {0}
      BY <1>0, <2>1 DEF UserRow, Exists
    <2>3. Switched(db[a], v)
      BY <1>0, <2>1, <2>2, UpdatedSwitches
    <2> HIDE DEF v
    <2> QED BY <2>1, <2>3, SteadyShape
  <1> QED BY <1>1, <1>3, <1>4, <1>5, <1>6, <1>7 DEF AdminStep, PortChange

\* The synchronizer's verdict leaves the port alone.
LEMMA VerdictKeepsPort ==
  ASSUME IInv, NEW w \in Workers, ConfirmSync(w) \/ RescheduleSync(w) \/ FailSync(w)
  PROVE  PortKept
  <1> DEFINE a == work[w].alloc
             u == db[a]
             r == work[w].rev
  <1>1. ASSUME NEW result, FinishLeased(w, result), result.life = u.life, result.port = u.port
        PROVE  PortKept
    <2>1. a \in Allocs /\ u \in UserRow /\ (db' = db \/ db' = [db EXCEPT ![a] = result])
      BY <1>1, FinishShape
    <2>2. CASE db' = db
      BY <2>2 DEF PortKept
    <2>3. CASE db' = [db EXCEPT ![a] = result]
      <3> HIDE DEF a
      <3> QED BY <1>1, <2>1, <2>3, SamePlace DEF Exists
    <2> QED BY <2>1, <2>2, <2>3
  <1>2. ASSUME NEW result, FinishLeased(w, result) PROVE u \in UserRow
    BY <1>2, FinishShape
  <1>3. CASE ConfirmSync(w)
    <2> DEFINE v == Confirmed(u, r, work[w].present, work[w].version)
    <2>1. FinishLeased(w, v)
      BY <1>3 DEF ConfirmSync
    <2>2. u \in UserRow
      BY <1>2, <2>1
    <2>3. /\ ConfirmedPresent(u, r, work[w].version).life = u.life
          /\ ConfirmedPresent(u, r, work[w].version).port = u.port
      BY <2>2 DEF ConfirmedPresent, UserRow
    <2>4. ConfirmedAbsent(u, r).life = u.life /\ ConfirmedAbsent(u, r).port = u.port
      BY <2>2 DEF ConfirmedAbsent, UserRow
    <2>5. v.life = u.life /\ v.port = u.port
      BY <2>3, <2>4 DEF Confirmed
    <2> HIDE DEF v
    <2> QED BY <1>1, <2>1, <2>5
  <1>4. ASSUME NEW state, FinishLeased(w, Unfinished(u, r, state)) PROVE PortKept
    <2>1. Unfinished(u, r, state).life = u.life /\ Unfinished(u, r, state).port = u.port
      BY <1>2, <1>4 DEF Unfinished, UserRow
    <2> QED BY <1>1, <1>4, <2>1
  <1> QED BY <1>3, <1>4 DEF RescheduleSync, FailSync

\* A request asks for a port of the pool.
LEMMA AskedStep ==
  ASSUME AskedPorts, ProjInv, [ProjectionNext]_allVars
  PROVE  AskedPorts'
  <1>1. ASSUME UNCHANGED req PROVE AskedPorts'
    BY <1>1 DEF AskedPorts
  <1>2. CASE CreationStep
    <2>1. req \in [Handlers -> Request]
      BY DEF ProjInv, IInv, TypeOK
    <2>2. ASSUME NEW h \in Handlers, NEW p \in Ports, BeginCreate(h, p, TRUE) PROVE AskedPorts'
      BY <2>1, <2>2 DEF BeginCreate, AskedPorts, NoRequest
    <2>3. ASSUME NEW h \in Handlers, Finish(h) PROVE AskedPorts'
      BY <2>1, <2>3 DEF Finish, AskedPorts, NoRequest
    <2> QED BY <1>2, <2>2, <2>3
            DEF CreationStep, ChoosePort, CreateUser, RejectCreation, CommitCreate, RejectRequest
  <1>3. ASSUME AdminStep, ~CreationStep PROVE UNCHANGED req
    BY <1>3 DEF AdminStep, CreationStep, SubmitChangePort, SubmitRotate, SubmitDelete, SubmitToggle,
                Submit, UpdateUser
  <1>4. ASSUME NEW w \in Workers,
               \/ \E a \in Allocs : Lease(w, a)
               \/ TakeNode(w) \/ Load(w) \/ DropWork(w) \/ EndWork(w) \/ StoreError(w)
        PROVE  UNCHANGED req
    BY <1>4 DEF Lease, LeaseDue, TakeNode, Load, LoadWork, DropWork, StoreError, Abandon, EndWork,
                ConfirmSync, RescheduleSync, FailSync, FinishLeased, vars
  <1>5. ASSUME NEW w \in Workers, CallXray(w) PROVE UNCHANGED req
    BY <1>5, CallFrame DEF vars
  <1>6. ASSUME BeginRound \/ RoundStep PROVE UNCHANGED req
    BY <1>6 DEF BeginRound, ReadForReconcile, RoundStep, Observe, RecordObservation, Requeue,
                SkipReconcile, EnqueueReconcile, EndRound, vars
  <1>7. ASSUME NEW a \in Allocs, \/ \E r \in Revisions : AbandonedLeaseExpires(a, r)
                                 \/ \E c \in late[a] : LateCallArrives(a, c)
        PROVE  UNCHANGED req
    BY <1>7 DEF AbandonedLeaseExpires, LeaseExpires, LateCallArrives, vars
  <1>8. CASE PanelRestart
    BY <1>8 DEF PanelRestart, Restart, AskedPorts, NoRequest
  <1>9. ASSUME XrayRestart \/ UNCHANGED allVars PROVE UNCHANGED req
    BY <1>9 DEF XrayRestart, allVars, vars
  <1> QED BY <1>1, <1>2, <1>3, <1>4, <1>5, <1>6, <1>7, <1>8, <1>9 DEF ProjectionNext, SyncStep

LEMMA ProjectionAsked == ProjectionSpec => []AskedPorts
  <1>1. ProjectionInit => AskedPorts
    BY DEF ProjectionInit, Init, AskedPorts, NoRequest
  <1>2. ProjInv /\ AskedPorts /\ [ProjectionNext]_allVars => AskedPorts'
    BY AskedStep
  <1> QED BY <1>1, <1>2, ProjectionInvariant, PTL DEF ProjectionSpec

\* Every step of the projection is, for the rows, one of the store's.
LEMMA ProjectionShape ==
  ASSUME ProjInv, AskedPorts, [ProjectionNext]_allVars
  PROVE  Shape /\ (PortChange \/ PortKept)
  <1>0. IInv /\ \A a \in Allocs : db[a] \in UserRow
    BY DEF ProjInv, IInv, TypeOK
  <1>1. ASSUME UNCHANGED db PROVE Shape /\ PortKept
    BY <1>1, NoneSwitches DEF PortKept
  <1>3. ASSUME NEW w \in Workers, NEW a \in Allocs, Lease(w, a) PROVE Shape /\ PortKept
    <2>1. PICK r \in Revisions : LeaseDue(w, a, r)
      BY <1>3 DEF Lease
    <2> DEFINE ops == [db[a].ops EXCEPT ![r] = [@ EXCEPT !.state = "leased", !.owner = w, !.expired = FALSE]]
    <2>2. db' = [db EXCEPT ![a] = [db[a] EXCEPT !.ops = ops]]
      BY <1>0, <2>1 DEF LeaseDue, UserRow, IInv, TypeOK
    <2> HIDE DEF ops
    <2>3. Switched(db[a], [db[a] EXCEPT !.ops = ops])
      BY <1>0, OperationsHidden DEF Switched
    <2> QED BY <1>0, <2>2, <2>3, SteadyShape
  <1>4. ASSUME NEW w \in Workers, EndWork(w) PROVE Shape /\ PortKept
    <2>1. ConfirmSync(w) \/ RescheduleSync(w) \/ FailSync(w)
      BY <1>4 DEF EndWork
    <2>2. PortKept
      BY <1>0, <2>1, VerdictKeepsPort
    <2> QED BY <1>0, <2>1, <2>2, WorkerShape DEF WorkerStep
  <1>5. ASSUME NEW a \in Allocs, Observe(a) PROVE Shape /\ PortKept
    <2> DEFINE actual == xray[a].tag /\ xray[a].key # 0
    <2>1. actual \in BOOLEAN
      BY DEF ProjInv, ProjectionTypeOK, Inbound
    <2>2. RecordObservation(a, actual)
      BY <1>5 DEF Observe
    <2> HIDE DEF actual
    <2>3. Shape
      BY <1>0, <2>1, <2>2, ReconcileShape DEF ReconcileStep
    <2>4. db' = [db EXCEPT ![a] = Observed(db[a], actual)]
      BY <2>2 DEF RecordObservation
    <2>5. Observed(db[a], actual).life = db[a].life /\ Observed(db[a], actual).port = db[a].port
      BY <1>0 DEF Observed, UserRow
    <2> QED BY <1>0, <2>3, <2>4, <2>5, SamePlace DEF Exists
  <1>6. ASSUME NEW a \in Allocs, EnqueueReconcile(a) PROVE Shape /\ PortKept
    <2> DEFINE v == CommitIntent(db[a], db[a].des + 1, seen[a].present, seen[a].cred, "reconcile")
    <2>1. Shape
      BY <1>0, <1>6, ReconcileShape DEF ReconcileStep
    <2>2. db' = [db EXCEPT ![a] = v]
      BY <1>6 DEF EnqueueReconcile
    <2>3. v.life = db[a].life /\ v.port = db[a].port
      BY <1>0, CommitIntentFrame
    <2> HIDE DEF v
    <2> QED BY <1>0, <2>1, <2>2, <2>3, SamePlace DEF Exists
  <1>7. CASE AdminStep
    BY <1>0, <1>7, AdminShape
  <1>8. ASSUME NEW w \in Workers, TakeNode(w) \/ Load(w) \/ CallXray(w) \/ DropWork(w) \/ StoreError(w)
        PROVE  UNCHANGED db
    <2>1. CASE TakeNode(w) \/ Load(w) \/ DropWork(w) \/ StoreError(w)
      BY <2>1 DEF TakeNode, Load, LoadWork, DropWork, StoreError, Abandon, vars
    <2>2. CASE CallXray(w)
      BY <2>2, CallFrame DEF vars
    <2> QED BY <1>8, <2>1, <2>2
  <1>9. CASE BeginRound \/ RoundStep
    <2>1. ASSUME NEW a \in Allocs, Requeue(a) PROVE Shape /\ PortKept
      BY <1>1, <1>6, <2>1 DEF Requeue, SkipReconcile
    <2> QED BY <1>1, <1>5, <1>9, <2>1 DEF BeginRound, ReadForReconcile, RoundStep, EndRound, vars
  <1>10. ASSUME NEW a \in Allocs, NEW r \in Revisions, AbandonedLeaseExpires(a, r) PROVE Shape /\ PortKept
    <2> DEFINE ops == [db[a].ops EXCEPT ![r] = [@ EXCEPT !.expired = TRUE]]
    <2>1. db' = [db EXCEPT ![a] = [db[a] EXCEPT !.ops = ops]]
      BY <1>0, <1>10 DEF AbandonedLeaseExpires, LeaseExpires, UserRow, IInv, TypeOK
    <2> HIDE DEF ops
    <2>2. Switched(db[a], [db[a] EXCEPT !.ops = ops])
      BY <1>0, OperationsHidden DEF Switched
    <2> QED BY <1>0, <2>1, <2>2, SteadyShape
  <1>11. CASE XrayRestart \/ PanelRestart \/ UNCHANGED allVars
    BY <1>1, <1>11 DEF XrayRestart, PanelRestart, Restart, allVars, vars
  <1>12. ASSUME NEW a \in Allocs, NEW c \in late[a], LateCallArrives(a, c) PROVE Shape /\ PortKept
    BY <1>1, <1>12 DEF LateCallArrives, vars
  <1> QED BY <1>1, <1>3, <1>4, <1>7, <1>8, <1>9, <1>10, <1>11, <1>12 DEF ProjectionNext, SyncStep

\* PortsExclusive: the requests of administrators, the synchronizer's verdicts
\* and the reconciler's rounds, interleaved with remote calls, faults and
\* restarts, never leave two users with the same port (the partial unique
\* index on dedicated_inbounds).
THEOREM ProjectionPortsExclusive == ProjectionSpec => []PortsExclusive
  <1>1. ProjectionInit => PortsExclusive
    BY NoUserTyped DEF ProjectionInit, Init, PortsExclusive
  <1>2. ProjInv /\ AskedPorts /\ PortsExclusive /\ [ProjectionNext]_allVars => PortsExclusive'
    BY ProjectionShape, PortStep
  <1> QED BY <1>1, <1>2, ProjectionInvariant, ProjectionAsked, PTL DEF ProjectionSpec

\* ImplementsRegister: also with the remote calls, whose answers and failures
\* decide when an intent is confirmed, retried or given up, the panel's rows
\* implement the administrator's register.
THEOREM ProjectionImplementsRegister == ProjectionSpec => ImplementsRegister
  <1>1. ProjectionInit => Register!Init
    BY InitRefines DEF ProjectionInit
  <1>2. ProjInv /\ ProjInv' /\ AskedPorts /\ [ProjectionNext]_allVars => [Register!Next]_Entries
    BY ProjectionShape, StepRefines DEF ProjInv
  <1> QED BY <1>1, <1>2, ProjectionInvariant, ProjectionAsked, PTL
          DEF ProjectionSpec, ImplementsRegister, Register!Spec, Entries

----------------------------------------------------------------------------
(* Listeners.                                                              *)

\* What a call makes of an inbound: nothing, the same listener, or a new one
\* where the probe found nobody, deaf when the bind fails.
Opens(w, x, y) ==
    \/ y = NoInbound
    \/ y.tag = x.tag /\ y.late = x.late /\ y.listening = x.listening /\ y.port = x.port
    \/ /\ ~ProbeRefuses(work[w].port)
       /\ \/ y = Created(w)
          \/ "bind" \in Faults /\ y = [Created(w) EXCEPT !.listening = FALSE]

OpensOne(w) == \E y : /\ xray' = [xray EXCEPT ![work[w].alloc] = y]
                      /\ Opens(w, Its(w), y)

LEMMA OpensPlain ==
  ASSUME NEW w, NEW x \in Inbound
  PROVE  /\ Opens(w, x, x) /\ Opens(w, x, NoInbound)
         /\ Opens(w, x, [x EXCEPT !.safety = TRUE])
         /\ Opens(w, x, WithoutKey(x)) /\ Opens(w, x, WithoutSafety(x))
         /\ \A v : Opens(w, x, WithKey(x, v))
  <1>1. Opens(w, x, x) /\ Opens(w, x, NoInbound)
    BY DEF Opens
  <1>2. Opens(w, x, [x EXCEPT !.safety = TRUE])
    BY DEF Opens, Inbound
  <1>3. Opens(w, x, WithoutKey(x)) /\ Opens(w, x, WithoutSafety(x))
    BY DEF Opens, Inbound, WithoutKey, WithoutSafety
  <1>4. \A v : Opens(w, x, WithKey(x, v))
    BY DEF Opens, Inbound, WithKey
  <1> QED BY <1>1, <1>2, <1>3, <1>4

LEMMA OpensAnswers ==
  ASSUME NEW w \in Workers, work[w].alloc \in Allocs, NEW from, NEW y, NEW pc, Answers(w, from, y, pc),
         Opens(w, Its(w), y)
  PROVE  OpensOne(w)
  BY DEF Answers, Goes, OpensOne, Its

LEMMA OpensFails ==
  ASSUME ProjInv, NEW w \in Workers, work[w].loaded, NEW from, NEW f, NEW y, NEW effect, NEW nexts,
         Fails(w, from, f, y, effect, nexts), Opens(w, Its(w), y), Opens(w, Its(w), Its(w))
  PROVE  OpensOne(w)
  <1>1. work[w].alloc \in Allocs /\ work[w] \in Work
    BY LoadedWork DEF ProjInv, WorkSound, IInv, TypeOK
  <1>2. Outcome(w, f, y, nexts)
    BY <1>1, FailsOutcome
  <1> QED BY <1>2 DEF Outcome, OpensOne

LEMMA CallOpens ==
  ASSUME ProjInv, NEW w \in Workers, CallXray(w)
  PROVE  OpensOne(w)
  <1> DEFINE x == Its(w)
  <1>1. work[w].alloc \in Allocs /\ work[w].loaded
    BY LoadedWork DEF CallXray, ProjInv, WorkSound
  <1>2. x \in Inbound
    BY <1>1 DEF ProjInv, ProjectionTypeOK, Its
  <1>3. /\ Opens(w, x, x) /\ Opens(w, x, NoInbound) /\ Opens(w, x, [x EXCEPT !.safety = TRUE])
        /\ Opens(w, x, WithoutKey(x)) /\ Opens(w, x, WithoutSafety(x)) /\ \A v : Opens(w, x, WithKey(x, v))
    BY <1>2, OpensPlain
  <1> HIDE DEF x
  <1>4. ASSUME NEW from, NEW nexts, Unread(w, from, nexts) PROVE OpensOne(w)
    BY <1>1, <1>3, <1>4, OpensFails DEF Unread, x
  <1>5. CASE RemoveInbound(w) \/ CheckRemoved(w) \/ RemoveForPortChange(w)
    BY <1>1, <1>3, <1>4, <1>5, OpensAnswers, OpensFails
       DEF RemoveInbound, CheckRemoved, RemoveForPortChange, Removed, x
  <1>6. CASE CreateInbound(w)
    <2>1. ~ProbeRefuses(work[w].port) => Opens(w, x, Created(w))
      BY DEF Opens
    <2>2. ASSUME Strike("bind"), Goes(w, [Created(w) EXCEPT !.listening = FALSE], "create_port"),
                 ~ProbeRefuses(work[w].port)
          PROVE  OpensOne(w)
      <3>1. Opens(w, x, [Created(w) EXCEPT !.listening = FALSE])
        BY <2>2 DEF Opens, Strike
      <3> QED BY <1>1, <2>2, <3>1 DEF Goes, OpensOne, Its, x
    <2>3. ASSUME ~ProbeRefuses(work[w].port), NEW f \in CallFaults,
                 Fails(w, "create", f, IF Its(w).tag THEN Its(w) ELSE Created(w), "create", CheckAfter(f, "create_check"))
          PROVE  OpensOne(w)
      <3>1. Opens(w, x, IF Its(w).tag THEN Its(w) ELSE Created(w))
        BY <1>3, <2>1, <2>3 DEF x
      <3> QED BY <1>1, <1>3, <2>3, <3>1, OpensFails DEF x
    <2>4. CASE Answers(w, "create", Its(w), "create_port") \/ Answers(w, "create", Its(w), "create_exists")
      BY <1>1, <1>3, <2>4, OpensAnswers DEF x
    <2>5. CASE Fails(w, "create", "occupied", Its(w), "none", {"create_port"})
      BY <1>1, <1>3, <2>5, OpensFails DEF x
    <2>6. CASE ~ProbeRefuses(work[w].port) /\ Answers(w, "create", Created(w), "confirm")
      BY <1>1, <2>1, <2>6, OpensAnswers DEF x
    <2> QED BY <1>6, <2>2, <2>3, <2>4, <2>5, <2>6 DEF CreateInbound
  <1>7. CASE CheckCreated(w) \/ ClearPort(w)
    BY <1>1, <1>3, <1>4, <1>7, OpensAnswers, OpensFails DEF CheckCreated, ClearPort, Removed, x
  <1>8. CASE ClearTag(w)
    <2>1. ASSUME Goes(w, Removed(Its(w)), "retry") PROVE OpensOne(w)
      BY <1>1, <1>3, <2>1 DEF Goes, OpensOne, Removed, Its, x
    <2> QED BY <1>1, <1>3, <1>4, <1>8, <2>1, OpensAnswers, OpensFails DEF ClearTag, Removed, x
  <1>9. CASE ListClients(w)
    <2>1. ASSUME UNCHANGED xray PROVE OpensOne(w)
      <3>1. xray' = [xray EXCEPT ![work[w].alloc] = xray[work[w].alloc]]
        BY <2>1 DEF ProjInv, ProjectionTypeOK
      <3> QED BY <1>1, <1>3, <3>1 DEF OpensOne, Its, x
    <2> QED BY <1>1, <1>3, <1>9, <2>1, OpensAnswers, OpensFails DEF ListClients, x
  <1>10. CASE AddSafety(w) \/ CheckSafety(w)
    <2>1. Opens(w, x, IF Its(w).tag THEN [Its(w) EXCEPT !.safety = TRUE] ELSE Its(w))
      BY <1>3 DEF x
    <2> QED BY <1>1, <1>3, <1>4, <1>10, <2>1, OpensAnswers, OpensFails DEF AddSafety, CheckSafety, x
  <1>11. CASE RemoveOldKey(w) \/ AddNewKey(w) \/ CheckNewKey(w) \/ RemoveSafety(w)
    BY <1>1, <1>3, <1>4, <1>11, OpensAnswers, OpensFails
       DEF RemoveOldKey, AddNewKey, CheckNewKey, RemoveSafety, x
  <1> QED BY <1>5, <1>6, <1>7, <1>8, <1>9, <1>10, <1>11 DEF CallXray

LEMMA OpensKeepsApart ==
  ASSUME ProjInv, ProbeSees, NoSharedListener, NEW w \in Workers, work[w].loaded, OpensOne(w)
  PROVE  NoSharedListener'
  <1>0. PICK a \in Allocs : a = work[w].alloc
    BY LoadedWork DEF ProjInv, WorkSound
  <1>1. PICK y : xray' = [xray EXCEPT ![a] = y] /\ Opens(w, xray[a], y)
    BY <1>0 DEF OpensOne, Its
  <1>2. \A b \in Allocs : xray'[b] = IF b = a THEN y ELSE xray[b]
    BY <1>1 DEF ProjInv, ProjectionTypeOK
  <1>3. \A b \in Allocs : b # a /\ Prompt(y) /\ Prompt(xray[b]) /\ y.listening /\ xray[b].listening
                           => y.port # xray[b].port
    <2>1. \/ ~y.listening
          \/ Prompt(y) = Prompt(xray[a]) /\ y.listening = xray[a].listening /\ y.port = xray[a].port
          \/ ~ProbeRefuses(y.port)
      BY <1>1, NoInboundSound DEF Opens, Created, NewInbound, NoInbound, Prompt
    <2> QED BY <2>1 DEF ProbeRefuses, NoSharedListener
  <1> QED BY <1>2, <1>3 DEF NoSharedListener

LEMMA ListenersStep ==
  ASSUME ProjInv, ProbeSees, NoSharedListener, [ProjectionNext]_allVars
  PROVE  NoSharedListener'
  <1>1. ASSUME UNCHANGED xray PROVE NoSharedListener'
    BY <1>1 DEF NoSharedListener
  <1>2. ASSUME NEW w \in Workers, CallXray(w) PROVE NoSharedListener'
    BY <1>2, CallOpens, OpensKeepsApart DEF CallXray
  <1>3. CASE XrayRestart
    BY <1>3, NoInboundSound DEF XrayRestart, NoSharedListener
  <1>4. ASSUME AdminStep PROVE UNCHANGED xray
    BY <1>4, AdminStepSound DEF remote
  <1>5. ASSUME NEW w \in Workers, \/ \E a \in Allocs : Lease(w, a)
                                  \/ TakeNode(w) \/ Load(w) \/ DropWork(w) \/ EndWork(w) \/ StoreError(w)
        PROVE  UNCHANGED xray
    BY <1>5 DEF Lease, TakeNode, Load, DropWork, EndWork, StoreError, remote
  <1>6. ASSUME BeginRound \/ RoundStep PROVE UNCHANGED xray
    BY <1>6 DEF BeginRound, RoundStep, Observe, Requeue, EndRound, remote
  <1>7. ASSUME NEW a \in Allocs, NEW r \in Revisions, AbandonedLeaseExpires(a, r) PROVE UNCHANGED xray
    BY <1>7 DEF AbandonedLeaseExpires, remote
  <1>8. ASSUME PanelRestart \/ UNCHANGED allVars PROVE UNCHANGED xray
    BY <1>8 DEF PanelRestart, allVars, remote
  <1>9. ASSUME NEW a \in Allocs, NEW c \in late[a], LateCallArrives(a, c) PROVE NoSharedListener'
    <2>1. \A b \in Allocs : xray'[b] = xray[b] \/ ~Prompt(xray'[b])
      BY <1>9, LateCallTouches
    <2> QED BY <2>1 DEF NoSharedListener
  <1> QED BY <1>1, <1>2, <1>3, <1>4, <1>5, <1>6, <1>7, <1>8, <1>9 DEF ProjectionNext, SyncStep

\* NoSharedListener: on a template whose port the probe can test (probePort,
\* TCP), two users' inbounds never listen on the same port, though a port
\* change frees the old port before Xray has let go of it (R-002); inbounds
\* that a late AddInbound registered, which nobody probes for, excepted.
THEOREM NoSharedListenerHolds == ProjectionSpec => [](ProbeSees => NoSharedListener)
  <1>1. ProjectionInit => (ProbeSees => NoSharedListener)
    BY NoInboundSound DEF ProjectionInit, NoSharedListener
  <1>2. ProjInv /\ (ProbeSees => NoSharedListener) /\ [ProjectionNext]_allVars
        => (ProbeSees => NoSharedListener)'
    BY ListenersStep
  <1> QED BY <1>1, <1>2, ProjectionInvariant, PTL DEF ProjectionSpec
----------------------------------------------------------------------------
(* A confirmed user is served with the key and on the port that the panel  *)
(* shows, as long as nobody changes a port, no other process takes one     *)
(* between the probe and the bind, and the probe can see Xray's listeners. *)
(* Each of the three lets an inbound with an old key, or none that listens,*)
(* be taken for the one just created.  So does a late call; the inbound it *)
(* brought about is not spoken of.                                         *)

\* A registered inbound listens on its user's port.
InPlace(u, x) == Prompt(x) => Exists(u) /\ x.listening /\ x.port = u.port

InboundsInPlace == \A a \in Allocs : InPlace(db[a], xray[a])

WorkInPlace == \A w \in Workers : work[w].loaded => work[w].port = db[work[w].alloc].port

\* A creation never meets an inbound that is there already, and what a
\* read-back finds, or a confirmation reports, has the key of the intent.
CreationOK(k, x, pc) ==
    /\ pc = "create_exists" => ~Prompt(x)
    /\ k.present /\ pc \in {"create_check", "confirm"} => NewKeyOnly(x, k.version)

CreationSound == \A w \in Workers : node = "synchronizer" => CreationOK(work[w], Its(w), call.pc)

Served(u, x) ==
    Exists(u) /\ u.ops[u.des].state = "succeeded" /\ u.ops[u.des].present => NewKeyOnly(x, u.cdes)

KeysServed == \A a \in Allocs : Served(db[a], xray[a])

KeyInv == InboundsInPlace /\ WorkInPlace /\ CreationSound /\ KeysServed

LEMMA ServedQuiet ==
  ASSUME NEW u, NEW v, NEW x, Quiet(u, v), Served(u, x)
  PROVE  Served(v, x)
  BY DEF Quiet, Served

\* Rows whose users keep their ports.
LEMMA RowsInPlace ==
  ASSUME ProjInv, KeyInv, PortKept, UNCHANGED xray
  PROVE  InboundsInPlace'
  BY DEF KeyInv, InboundsInPlace, InPlace, PortKept

LEMMA SameWorkInPlace ==
  ASSUME ProjInv, KeyInv, PortKept, UNCHANGED work
  PROVE  WorkInPlace'
  <1>1. ASSUME NEW w \in Workers, work[w].loaded
        PROVE  db'[work[w].alloc].port = db[work[w].alloc].port
    BY <1>1, LoadedWork DEF ProjInv, WorkSound, PortKept
  <1> QED BY <1>1 DEF KeyInv, WorkInPlace

\* Transactions and steps that make no call and end none.
LEMMA QuietKeys ==
  ASSUME ProjInv, KeyInv, QuietStep, PortKept, WorkInPlace', UNCHANGED xray,
         node' = "synchronizer" => UNCHANGED <<work, call, node>>
  PROVE  KeyInv'
  <1>1. KeysServed'
    BY ServedQuiet DEF KeyInv, KeysServed, QuietStep
  <1>2. CreationSound'
    BY DEF KeyInv, CreationSound, Its
  <1> QED BY <1>1, <1>2, RowsInPlace DEF KeyInv

LEMMA StoreKeys ==
  ASSUME ProjInv, KeyInv, PortKept,
         \/ AdminStep \/ BeginRound \/ RoundStep
         \/ \E a \in Allocs, r \in Revisions : AbandonedLeaseExpires(a, r)
         \/ UNCHANGED allVars
  PROVE  KeyInv'
  <1>1. QuietStep
    BY AdminStepSound, RoundSound, ExpirySound, SameRowsQuiet DEF allVars, vars
  <1>2. UNCHANGED <<work, xray, call>>
    <2>1. CASE AdminStep
      BY <2>1, AdminStepSound DEF remote
    <2>2. CASE BeginRound \/ RoundStep
      BY <2>2 DEF BeginRound, RoundStep, ReadForReconcile, Observe, RecordObservation, Requeue,
                  SkipReconcile, EnqueueReconcile, EndRound, vars, remote
    <2>3. ASSUME NEW a \in Allocs, NEW r \in Revisions, AbandonedLeaseExpires(a, r)
          PROVE  UNCHANGED <<work, xray, call>>
      BY <2>3 DEF AbandonedLeaseExpires, LeaseExpires, remote
    <2> QED BY <2>1, <2>2, <2>3 DEF allVars, vars, remote
  <1>3. node' = "synchronizer" => UNCHANGED node
    <2>1. CASE AdminStep
      BY <2>1, AdminStepSound DEF remote
    <2>2. CASE BeginRound \/ RoundStep
      BY <2>2 DEF BeginRound, RoundStep, Observe, Requeue, EndRound, remote
    <2>3. ASSUME NEW a \in Allocs, NEW r \in Revisions, AbandonedLeaseExpires(a, r)
          PROVE  UNCHANGED node
      BY <2>3 DEF AbandonedLeaseExpires, remote
    <2> QED BY <2>1, <2>2, <2>3 DEF allVars, remote
  <1> QED BY <1>1, <1>2, <1>3, SameWorkInPlace, QuietKeys

LEMMA LeaseKeys ==
  ASSUME ProjInv, KeyInv, PortKept, NEW w \in Workers, NEW a \in Allocs, Lease(w, a)
  PROVE  KeyInv'
  <1>1. PICK r \in Revisions : LeaseDue(w, a, r)
    BY DEF Lease
  <1>2. work[w].alloc = NoAlloc /\ UNCHANGED remote
    BY <1>1 DEF LeaseDue, Lease
  <1>3. node # "synchronizer" /\ UNCHANGED <<node, xray>>
    BY <1>2 DEF ProjInv, WorkSound, remote
  <1>4. work'[w].loaded = FALSE
    BY <1>1 DEF LeaseDue, NoWork, ProjInv, IInv, TypeOK
  <1>5. WorkInPlace'
    BY <1>4, OneWorker DEF WorkInPlace
  <1> QED BY <1>3, <1>5, LeaseSound, QuietKeys

LEMMA LoadKeys ==
  ASSUME ProjInv, KeyInv, PortKept, NEW w \in Workers, Load(w)
  PROVE  KeyInv'
  <1> DEFINE k == [work[w] EXCEPT !.loaded = TRUE, !.version = db[work[w].alloc].cdes, !.port = db[work[w].alloc].port]
  <1>1. /\ work[w].alloc # NoAlloc /\ ~work[w].loaded /\ work' = [work EXCEPT ![w] = k]
        /\ UNCHANGED db /\ UNCHANGED <<xray, node>>
    BY DEF Load, LoadWork, remote
  <1>2. node # "synchronizer" /\ work[w] \in Work
    BY <1>1 DEF ProjInv, WorkSound, IInv, TypeOK
  <1>3. work'[w] = k /\ k.port = db[work[w].alloc].port /\ k.alloc = work[w].alloc
    BY <1>1, <1>2 DEF Work, ProjInv, IInv, TypeOK
  <1> HIDE DEF k
  <1>4. WorkInPlace'
    BY <1>1, <1>3, OneWorker DEF WorkInPlace
  <1> QED BY <1>1, <1>2, <1>4, SameRowsQuiet, QuietKeys

LEMMA TakeNodeKeys ==
  ASSUME ProjInv, KeyInv, PortKept, NEW w \in Workers, TakeNode(w)
  PROVE  KeyInv'
  <1> DEFINE pc == CASE ~work[w].present -> "remove"
                     [] work[w].present /\ work[w].reason = "rotate" -> "rot_list"
                     [] work[w].present /\ work[w].reason = "port_change" -> "port_remove"
                     [] OTHER -> "create"
             c == [NoCall EXCEPT !.pc = pc]
  <1>1. call' = c /\ UNCHANGED <<db, work, xray>>
    BY DEF TakeNode, vars
  <1>2. pc \in {"remove", "rot_list", "port_remove", "create"}
    BY DEF pc
  <1> HIDE DEF pc
  <1>3. c.pc \in {"remove", "rot_list", "port_remove", "create"}
    BY <1>2 DEF NoCall
  <1> HIDE DEF c
  <1>4. CreationSound'
    BY <1>1, <1>3 DEF CreationSound, CreationOK
  <1> QED BY <1>1, <1>4 DEF KeyInv, InboundsInPlace, WorkInPlace, KeysServed

\* The synchronizer lets go of its work; the rows stay as they are.
LEMMA DroppedKeys ==
  ASSUME ProjInv, KeyInv, PortKept,
         \/ \E w \in Workers : DropWork(w) \/ StoreError(w)
         \/ PanelRestart
  PROVE  KeyInv'
  <1>1. UNCHANGED <<db, xray>>
    BY DEF DropWork, StoreError, Abandon, PanelRestart, Restart
  <1>2. \A w \in Workers : work'[w] = NoWork
    <2>1. CASE PanelRestart
      BY <2>1 DEF PanelRestart, Restart
    <2>2. ASSUME NEW w \in Workers, DropWork(w) \/ StoreError(w) PROVE work'[w] = NoWork
      BY <2>2 DEF DropWork, StoreError, Abandon, ProjInv, IInv, TypeOK
    <2> QED BY <2>1, <2>2, OneWorker
  <1>3. node' # "synchronizer"
    BY DEF DropWork, StoreError, PanelRestart, Release
  <1>4. WorkInPlace'
    BY <1>2 DEF WorkInPlace, NoWork
  <1> QED BY <1>1, <1>3, <1>4, SameRowsQuiet, QuietKeys

LEMMA XrayRestartKeys ==
  ASSUME ProjInv, KeyInv, XrayRestart
  PROVE  KeyInv'
  <1>1. xray' = [a \in Allocs |-> NoInbound] /\ UNCHANGED <<db, work, node, call>>
    BY DEF XrayRestart, vars
  <1>2. InboundsInPlace' /\ WorkInPlace' /\ KeysServed'
    BY <1>1, NoInboundSound DEF KeyInv, InboundsInPlace, InPlace, WorkInPlace, KeysServed, Served, NewKeyOnly
  <1>3. ASSUME NEW w \in Workers, node = "synchronizer" PROVE CreationOK(work[w], xray'[work[w].alloc], call.pc)
    <2>1. work[w].alloc \in Allocs
      BY <1>3, LoadedWork DEF ProjInv, WorkSound
    <2> QED BY <1>1, <2>1, NoInboundSound DEF CreationOK, NewKeyOnly
  <1> QED BY <1>1, <1>2, <1>3 DEF KeyInv, CreationSound, Its

\* What a late call leaves is what was there, or is not spoken of.
LEMMA LateCallKeys ==
  ASSUME ProjInv, KeyInv, NEW a \in Allocs, NEW c \in late[a], LateCallArrives(a, c)
  PROVE  KeyInv'
  <1>1. UNCHANGED <<db, work, node, call>>
    BY DEF LateCallArrives, vars
  <1>2. \A b \in Allocs : xray'[b] = xray[b] \/ ~Prompt(xray'[b])
    BY LateCallTouches
  <1>3. InboundsInPlace' /\ WorkInPlace' /\ KeysServed'
    BY <1>1, <1>2 DEF KeyInv, InboundsInPlace, InPlace, WorkInPlace, KeysServed, Served, NewKeyOnly
  <1>4. ASSUME NEW w \in Workers, node = "synchronizer" PROVE CreationOK(work[w], xray'[work[w].alloc], call.pc)
    <2>1. work[w].alloc \in Allocs
      BY <1>4, LoadedWork DEF ProjInv, WorkSound
    <2>2. CreationOK(work[w], xray[work[w].alloc], call.pc)
      BY <1>4 DEF KeyInv, CreationSound, Its
    <2> QED BY <1>2, <2>1, <2>2 DEF CreationOK, NewKeyOnly
  <1> QED BY <1>1, <1>3, <1>4 DEF KeyInv, CreationSound, Its

LEMMA ConfirmedServed ==
  ASSUME NEW u \in UserRow, Exists(u), UserOK(u), NEW k \in Work, NEW x,
         k.rev = u.des, Current(u, k.rev, k.present, k.version),
         k.present => NewKeyOnly(x, k.version)
  PROVE  Served(Confirmed(u, k.rev, k.present, k.version), x)
  <1> DEFINE v == Confirmed(u, k.rev, k.present, k.version)
  <1>1. v.des = u.des /\ v.cdes = u.cdes /\ v.ops[u.des].present = k.present /\ k.version = u.cdes
    BY ConfirmedRow
  <1> HIDE DEF v
  <1>2. Served(v, x)
    BY <1>1 DEF Served
  <1> QED BY <1>2 DEF v

LEMMA EndWorkKeys ==
  ASSUME ProjInv, KeyInv, PortKept, NEW w \in Workers, EndWork(w)
  PROVE  KeyInv'
  <1> DEFINE k == work[w]
             a == k.alloc
             u == db[a]
  <1>0. IInv /\ k.loaded /\ a # NoAlloc /\ CreationOK(k, xray[a], call.pc)
    BY DEF ProjInv, WorkSound, KeyInv, CreationSound, Its, EndWork
  <1>1. /\ a \in Allocs /\ k \in Work /\ u \in UserRow /\ UserOK(u) /\ Exists(u)
        /\ Current(u, k.rev, k.present, k.version) /\ Served(u, xray[a])
    BY <1>0, LoadedWork DEF KeyInv, KeysServed
  <1>2. ASSUME NEW result, FinishLeased(w, result),
               k.rev = u.des => Served(result, xray[a])
        PROVE  KeysServed'
    <2>1. db' = db \/ (db' = [db EXCEPT ![a] = result] /\ k.rev = u.des)
      BY <1>0, <1>2, FinishShape
    <2>2. UNCHANGED xray
      BY DEF EndWork
    <2>3. \A b \in Allocs : db'[b] = db[b] \/ (b = a /\ Served(db'[b], xray[b]))
      BY <1>0, <1>1, <1>2, <2>1 DEF IInv, TypeOK
    <2> QED BY <2>2, <2>3 DEF KeyInv, KeysServed
  <1>3. ASSUME NEW state \in {"retry_wait", "permanent_failed"}, FinishLeased(w, Unfinished(u, k.rev, state))
        PROVE  KeysServed'
    <2>1. ASSUME k.rev = u.des PROVE Served(Unfinished(u, k.rev, state), xray[a])
      <3>1. k.rev \in Revisions
        BY <1>1, <2>1 DEF UserOK, Consistent, LatestOnly
      <3> QED BY <1>1, <2>1, <3>1, UnfinishedQuiet, ServedQuiet
    <2> QED BY <1>2, <1>3, <2>1
  <1>4. ASSUME call.pc = "confirm", ConfirmSync(w)
        PROVE  KeysServed'
    <2> DEFINE v == Confirmed(u, k.rev, k.present, k.version)
    <2>1. FinishLeased(w, v)
      BY <1>4 DEF ConfirmSync
    <2>2. k.present => NewKeyOnly(xray[a], k.version)
      BY <1>0, <1>4 DEF CreationOK
    <2>3. k.rev = u.des => Served(v, xray[a])
      BY <1>1, <2>2, ConfirmedServed
    <2> HIDE DEF v
    <2> QED BY <1>2, <2>1, <2>3
  <1>5. KeysServed'
    BY <1>3, <1>4 DEF EndWork, RescheduleSync, FailSync
  <1>6. /\ UNCHANGED xray /\ node' = "free"
        /\ work' = [work EXCEPT ![w] = NoWork]
    BY DEF EndWork, ConfirmSync, RescheduleSync, FailSync, FinishLeased, Release
  <1>7. WorkInPlace'
    BY <1>6, OneWorker DEF WorkInPlace, NoWork, ProjInv, IInv, TypeOK
  <1>8. CreationSound'
    BY <1>6 DEF CreationSound
  <1> QED BY <1>5, <1>6, <1>7, <1>8, RowsInPlace DEF KeyInv

\* Where a call leaves the inbound and the path.
Reaches(w, y, pc) == xray'[work[w].alloc] = y /\ call'.pc = pc

LEMMA AnswersReach ==
  ASSUME ProjInv, NEW w \in Workers, work[w].alloc \in Allocs, NEW from, NEW y, NEW pc, Answers(w, from, y, pc)
  PROVE  Reaches(w, y, pc)
  BY DEF Answers, Goes, Reaches, ProjInv, ProjectionTypeOK, CallState

LEMMA FailsReach ==
  ASSUME ProjInv, NEW w \in Workers, work[w].alloc \in Allocs, NEW from, NEW f, NEW y, NEW effect, NEW nexts,
         Fails(w, from, f, y, effect, nexts)
  PROVE  \E z \in {Its(w), y}, pc \in nexts : Reaches(w, z, pc)
  <1>1. Outcome(w, f, y, nexts)
    BY FailsOutcome DEF ProjInv, IInv, TypeOK
  <1>2. PICK z \in {Its(w), y}, pc \in nexts :
            /\ xray' = [xray EXCEPT ![work[w].alloc] = z]
            /\ call' = [call EXCEPT !.pc = pc, !.cause = f]
    BY <1>1 DEF Outcome
  <1> QED BY <1>2 DEF Reaches, ProjInv, ProjectionTypeOK, CallState

\* The calls of a creation and of the removal before it: the probe refuses
\* while an inbound is there, and what is created has the key of the intent.
LEMMA CreationCalls ==
  ASSUME ProjInv, KeyInv, ProbeSees, "bind" \notin Faults, NEW w \in Workers, work[w].loaded,
         RemoveForPortChange(w) \/ CreateInbound(w) \/ CheckCreated(w) \/ ClearPort(w) \/ ClearTag(w)
  PROVE  CreationOK(work[w], xray'[work[w].alloc], call'.pc)
  <1> DEFINE k == work[w]
             x == Its(w)
             Goal == CreationOK(work[w], xray'[work[w].alloc], call'.pc)
             Ends == {"create", "create_port", "retry", "fail"}
             Allowed(y, pc) == \/ pc \in Ends
                               \/ pc \in {"create_check", "confirm"} /\ NewKeyOnly(y, k.version)
                               \/ pc = "create_exists" /\ ~Prompt(y)
  <1>0. k.alloc \in Allocs
    BY LoadedWork DEF ProjInv, WorkSound
  <1> SUFFICES Goal
    OBVIOUS
  <1>1. ASSUME NEW y, NEW pc, Reaches(w, y, pc), Allowed(y, pc) PROVE Goal
    BY <1>1 DEF Reaches, CreationOK
  <1> HIDE DEF Goal
  <1>2. \A y : \A pc \in Ends : Allowed(y, pc)
    OBVIOUS
  <1>3. \A y : NewKeyOnly(y, k.version) => Allowed(y, "create_check") /\ Allowed(y, "confirm")
    OBVIOUS
  <1>4. \A y : ~Prompt(y) => Allowed(y, "create_exists")
    OBVIOUS
  <1> HIDE DEF Allowed
  <1>5. ASSUME NEW from, NEW y, NEW pc, Answers(w, from, y, pc), Allowed(y, pc) PROVE Goal
    BY <1>0, <1>1, <1>5, AnswersReach
  <1>6. ASSUME NEW from, NEW f, NEW y, NEW effect, NEW nexts, Fails(w, from, f, y, effect, nexts),
               \A pc \in nexts : Allowed(y, pc) /\ Allowed(x, pc)
        PROVE  Goal
    <2>1. PICK z \in {Its(w), y}, pc \in nexts : Reaches(w, z, pc)
      BY <1>0, <1>6, FailsReach
    <2>2. Allowed(z, pc)
      BY <1>6, <2>1
    <2> QED BY <1>1, <2>1, <2>2
  <1>7. ASSUME NEW from, NEW nexts, Unread(w, from, nexts), \A pc \in nexts : pc \in Ends PROVE Goal
    BY <1>6, <1>7, <1>2 DEF Unread
  <1>8. "create" \in Ends /\ "create_port" \in Ends /\ "retry" \in Ends /\ "fail" \in Ends
    OBVIOUS
  <1>9. \A f : \A pc \in RetryOf(f) : pc \in Ends
    BY <1>8, RetryFacts
  <1> HIDE DEF Ends
  <1>10. ASSUME NEW from, NEW y, NEW pc \in Ends, Answers(w, from, y, pc) PROVE Goal
    BY <1>5, <1>2, <1>10
  <1>11. ASSUME NEW from, NEW f, NEW y, NEW effect, NEW nexts, Fails(w, from, f, y, effect, nexts),
                \A pc \in nexts : pc \in Ends
         PROVE  Goal
    BY <1>6, <1>2, <1>11
  <1>12. CASE RemoveForPortChange(w)
    BY <1>12, <1>8, <1>9, <1>10, <1>11 DEF RemoveForPortChange
  <1>13. CASE CreateInbound(w)
    <2>1. Prompt(x) => ProbeRefuses(k.port)
      BY <1>0 DEF KeyInv, InboundsInPlace, InPlace, WorkInPlace, ProbeRefuses, Its
    <2>2. NewKeyOnly(Created(w), k.version) /\ (~Prompt(x) => NewKeyOnly(x, k.version))
      BY DEF NewKeyOnly, Created, NewInbound, NoInbound
    <2>3. ASSUME Answers(w, "create", Created(w), "confirm") PROVE Goal
      BY <1>5, <1>3, <2>2, <2>3
    <2>4. ASSUME ~Prompt(x), NEW f, NEW y \in {x, Created(w)},
                 Fails(w, "create", f, y, "create", CheckAfter(f, "create_check"))
          PROVE  Goal
      <3>1. NewKeyOnly(y, k.version) /\ NewKeyOnly(x, k.version)
        BY <2>2, <2>4
      <3>2. \A pc \in CheckAfter(f, "create_check") : pc = "create_check" \/ pc \in Ends
        BY <1>8, RetryFacts
      <3>3. \A pc \in CheckAfter(f, "create_check") : Allowed(y, pc) /\ Allowed(x, pc)
        BY <1>2, <1>3, <3>1, <3>2
      <3> QED BY <1>6, <2>4, <3>3
    <2>5. CASE Answers(w, "create", Its(w), "create_port") \/ Fails(w, "create", "occupied", Its(w), "none", {"create_port"})
      BY <1>8, <1>10, <1>11, <2>5
    <2>6. ASSUME ~Prompt(x), Answers(w, "create", Its(w), "create_exists") PROVE Goal
      BY <1>5, <1>4, <2>6
    <2>7. ~Strike("bind")
      BY DEF Strike
    <2>8. ASSUME ~Prompt(x), NEW f \in CallFaults,
                 Fails(w, "create", f, IF Its(w).tag THEN Its(w) ELSE Created(w), "create", CheckAfter(f, "create_check"))
          PROVE  Goal
      BY <2>4, <2>8
    <2> HIDE DEF x
    <2> QED BY <1>13, <2>1, <2>3, <2>5, <2>6, <2>7, <2>8 DEF CreateInbound
  <1>14. CASE CheckCreated(w)
    <2>1. ASSUME NEW pc \in IF Its(w).tag THEN {"confirm"} ELSE RetryOf(call.cause),
                 Answers(w, "create_check", Its(w), pc)
          PROVE  Goal
      <3>1. k.present /\ CreationOK(k, x, "create_check")
        <4>1. At(w, "create_check") /\ "create_check" \in CallSteps \ RemoveSteps
          BY <2>1 DEF Answers, CallSteps, RemoveSteps
        <4> QED BY <4>1 DEF At, ProjInv, PathSound, PathOK, KeyInv, CreationSound
      <3>2. NewKeyOnly(x, k.version)
        BY <3>1 DEF CreationOK
      <3>3. pc = "confirm" \/ pc \in Ends
        BY <1>9, <2>1
      <3> QED BY <1>5, <1>2, <1>3, <2>1, <3>2, <3>3
    <2> QED BY <1>7, <1>14, <1>9, <2>1 DEF CheckCreated
  <1>15. CASE ClearPort(w)
    BY <1>15, <1>8, <1>10, <1>11 DEF ClearPort
  <1>16. CASE ClearTag(w)
    <2>1. ASSUME Answers(w, "create_exists", Its(w), "confirm") PROVE Goal
      <3>1. ~Prompt(x)
        BY <2>1 DEF Answers, At, KeyInv, CreationSound, CreationOK
      <3>2. NewKeyOnly(x, k.version)
        BY <3>1 DEF NewKeyOnly
      <3> QED BY <1>5, <1>3, <2>1, <3>2
    <2>2. ASSUME Goes(w, Removed(Its(w)), "retry") PROVE Goal
      <3>1. Reaches(w, Removed(Its(w)), "retry")
        BY <1>0, <2>2 DEF Goes, Reaches, ProjInv, ProjectionTypeOK, CallState
      <3> QED BY <1>1, <1>2, <1>8, <3>1
    <2>3. CASE Answers(w, "create_exists", Its(w), "fail") \/ Answers(w, "create_exists", Removed(Its(w)), "retry")
      BY <1>8, <1>10, <2>3
    <2>4. ASSUME NEW f \in CallFaults, Fails(w, "create_exists", f, Removed(Its(w)), "remove", {"retry"}) PROVE Goal
      BY <1>8, <1>11, <2>4
    <2>5. CASE Unread(w, "create_exists", {"fail"})
      BY <1>7, <1>8, <2>5
    <2> QED BY <1>16, <2>1, <2>2, <2>3, <2>4, <2>5 DEF ClearTag
  <1> QED BY <1>12, <1>13, <1>14, <1>15, <1>16

\* Outside a creation the paths of ProjInv already say as much.
LEMMA CallCreation ==
  ASSUME ProjInv, ProjInv', KeyInv, ProbeSees, "bind" \notin Faults, NEW w \in Workers, CallXray(w)
  PROVE  CreationOK(work[w], xray'[work[w].alloc], call'.pc)
  <1> DEFINE k == work[w]
             y == xray'[work[w].alloc]
  <1>1. k.loaded /\ node = "synchronizer" /\ PathOK(k, Its(w), call.pc, call.main)
        /\ CreationOK(k, Its(w), call.pc) /\ UNCHANGED <<work, node>>
    <2>1. k.loaded /\ node = "synchronizer" /\ UNCHANGED <<vars, node>>
      BY CallFrame DEF At
    <2> QED BY <2>1 DEF ProjInv, PathSound, KeyInv, CreationSound, vars
  <1>2. PathOK(k, y, call'.pc, call'.main)
    BY <1>1 DEF ProjInv, PathSound, Its
  <1>3. CASE ~k.present
    <2>1. "create_exists" \in CallSteps \ RemoveSteps
      BY DEF CallSteps, RemoveSteps
    <2> QED BY <1>2, <1>3, <2>1 DEF PathOK, CreationOK
  <1>4. CASE k.present /\ k.reason = "rotate"
    BY <1>2, <1>4 DEF PathOK, RotationPath, CreationOK
  <1>5. CASE k.present /\ k.reason # "rotate"
    <2>1. call.pc \notin RemoveSteps /\ call.pc \notin RotSteps
      BY <1>1, <1>5 DEF PathOK
    <2>2. RemoveForPortChange(w) \/ CreateInbound(w) \/ CheckCreated(w) \/ ClearPort(w) \/ ClearTag(w)
      BY <2>1, CallFrame
    <2> QED BY <1>1, <2>2, CreationCalls
  <1> QED BY <1>3, <1>4, <1>5

LEMMA CallKeys ==
  ASSUME ProjInv, ProjInv', KeyInv, ProbeSees, "bind" \notin Faults, NEW w \in Workers, CallXray(w)
  PROVE  KeyInv'
  <1> DEFINE u == db[work[w].alloc]
  <1>1. PICK a \in Allocs : a = work[w].alloc
    BY LoadedWork DEF CallXray, ProjInv, WorkSound
  <1>2. UNCHANGED <<db, work>> /\ \E from \in CallSteps : At(w, from)
    <2>1. UNCHANGED vars /\ At(w, call.pc) /\ call.pc \in CallSteps
      BY CallFrame
    <2> QED BY <2>1 DEF vars
  <1>3. /\ Exists(db[a]) /\ db[a].ops[db[a].des].state = "leased"
        /\ work[w].port = db[a].port
    BY <1>1, <1>2, CallFacts, LoadedWork DEF ProjInv, CallXray, KeyInv, WorkInPlace, WorkSound
  <1>4. PICK y : xray' = [xray EXCEPT ![a] = y] /\ Opens(w, xray[a], y)
    BY <1>1, CallOpens DEF OpensOne, Its
  <1>5. \A b \in Allocs : xray'[b] = IF b = a THEN y ELSE xray[b]
    BY <1>4 DEF ProjInv, ProjectionTypeOK
  <1>6. InPlace(db[a], y)
    <2>1. InPlace(db[a], xray[a])
      BY DEF KeyInv, InboundsInPlace
    <2>2. InPlace(db[a], Created(w)) /\ InPlace(db[a], NoInbound)
      BY <1>3, NoInboundSound DEF Created, NewInbound, NoInbound, InPlace
    <2>3. \/ y = NoInbound \/ y = Created(w)
          \/ Prompt(y) = Prompt(xray[a]) /\ y.listening = xray[a].listening /\ y.port = xray[a].port
      BY <1>4 DEF Opens, Prompt
    <2> QED BY <2>1, <2>2, <2>3 DEF InPlace
  <1>7. InboundsInPlace'
    BY <1>2, <1>5, <1>6 DEF KeyInv, InboundsInPlace
  <1>8. KeysServed'
    BY <1>2, <1>3, <1>5 DEF KeyInv, KeysServed, Served
  <1>9. WorkInPlace'
    BY <1>2 DEF KeyInv, WorkInPlace
  <1>10. CreationSound'
    <2>1. ASSUME NEW v \in Workers PROVE CreationOK(work[v], xray'[work[v].alloc], call'.pc)
      BY CallCreation, OneWorker
    <2> QED BY <1>2, <2>1 DEF CreationSound, Its
  <1> QED BY <1>7, <1>8, <1>9, <1>10 DEF KeyInv

LEMMA KeyStepSound ==
  ASSUME ProbeSees, "bind" \notin Faults,
         ProjInv, ProjInv', AskedPorts, KeyInv, [ProjectionNext]_allVars, [~PortChange]_allVars
  PROVE  KeyInv'
  <1>1. PortKept
    <2>1. CASE UNCHANGED allVars
      BY <2>1 DEF PortKept, allVars, vars
    <2> QED BY <2>1, ProjectionShape
  <1>2. ASSUME NEW w \in Workers, SyncStep(w) PROVE KeyInv'
    BY <1>1, <1>2, LoadKeys, CallKeys, DroppedKeys, EndWorkKeys DEF SyncStep
  <1> QED BY <1>1, <1>2, StoreKeys, LeaseKeys, TakeNodeKeys, DroppedKeys, XrayRestartKeys, LateCallKeys
         DEF ProjectionNext

\* ServesDesiredKey, ServesAssignedPort, ConfirmedListens: where the probe can
\* see Xray's listeners and no bind fails after it, a stale key, a stale port
\* or a deaf inbound behind a confirmed intent takes a port change: failed,
\* repeated or resumed creations and rotations, restarts and reconciliations
\* never confirm an inbound that is not the desired one
\* (createDedicatedInbound, rotateWithinInbound).  Nothing is said of an
\* inbound that a late call registered or changed.
THEOREM ServesDesiredKeyHolds ==
  ASSUME ProbeSees, "bind" \notin Faults
  PROVE  ProjectionSpec /\ [][~PortChange]_allVars
         => [](ServesDesiredKey /\ ServesAssignedPort /\ ConfirmedListens)
  <1>1. ProjectionInit => KeyInv
    BY NoInboundSound, NoUserTyped
       DEF ProjectionInit, Init, KeyInv, InboundsInPlace, InPlace, WorkInPlace, CreationSound,
           KeysServed, Served, NewKeyOnly, NoWork
  <1>2. ProjInv /\ ProjInv' /\ AskedPorts /\ KeyInv /\ [ProjectionNext]_allVars /\ [~PortChange]_allVars => KeyInv'
    BY KeyStepSound
  <1>3. KeyInv => ServesDesiredKey /\ ServesAssignedPort /\ ConfirmedListens
    BY DEF KeyInv, KeysServed, Served, NewKeyOnly, InboundsInPlace, InPlace, InForce,
           Prompt, ServesDesiredKey, ServesAssignedPort, ConfirmedListens
  <1> QED BY <1>1, <1>2, <1>3, ProjectionInvariant, ProjectionAsked, PTL DEF ProjectionSpec
=============================================================================
