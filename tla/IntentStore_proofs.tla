------------------------- MODULE IntentStore_proofs -------------------------
(***************************************************************************)
(* Proofs about IntentStore, for every set of users, ports, handlers and   *)
(* workers and every bound.  Transactions rewrite one user's record at a   *)
(* time, so the argument is made on records first (what CommitIntent,      *)
(* ApplyDecision, a confirmation ... do to a sound record) and lifted to   *)
(* the actions afterwards.                                                 *)
(*                                                                         *)
(* The second half shows that the store implements the register.  A step   *)
(* is first classified by what it does to the fields of the users' rows    *)
(* that the register, the port pool and the key store can see (Shape); the *)
(* refinement, the exclusiveness of ports and the two action properties    *)
(* then follow from the shape alone.                                       *)
(***************************************************************************)
EXTENDS IntentRefinement, TLAPS

----------------------------------------------------------------------------
(* The inductive invariant.                                                *)

\* A user's rows: numbering of the intents, the newest one's content, the
\* projection and the keys, and the quota state.
Consistent(u) ==
    /\ LatestOnly(u) /\ Faithful(u) /\ Honest(u) /\ KeysSound(u)
    /\ u.cdes <= u.des      \* every key took a revision of its own

UserOK(u) == IF Exists(u) THEN Consistent(u) /\ QuotaOK(u) ELSE u = NoUser

\* A worker that holds work names an existing row.
WorkNamed == \A w \in Workers : work[w].alloc # NoAlloc =>
                work[w].alloc \in Allocs /\ work[w].rev \in Revisions

RequestNamed == \A h \in Handlers : req[h].kind \in {"port_change", "rotate", "delete", "reset"} =>
                req[h].alloc \in Allocs

TargetsExist == \A a \in targets : Exists(db[a])

IInv ==
    /\ TypeOK
    /\ \A a \in Allocs : UserOK(db[a])
    /\ WorkNamed /\ RequestNamed /\ TargetsExist
    /\ SnapshotsCurrent

\* What any transaction does to a user, as seen by an actor's snapshot.
Advance(u, v) ==
    Exists(u) => /\ Exists(v)
                 /\ v.des >= u.des
                 /\ v.des = u.des => /\ DesiredPresent(v) = DesiredPresent(u)
                                     /\ v.cdes = u.cdes

\* One user's record goes from sound to sound.
SoundStep(u, v) == v \in UserRow /\ UserOK(v) /\ Advance(u, v)

----------------------------------------------------------------------------
(* Records.                                                                *)

LEMMA NoUserTyped == NoUser \in UserRow /\ ~Exists(NoUser)
  BY OwnerAssumption, UsageAssumption, BoundAssumption
     DEF NoUser, UserRow, NoOperation, Operation, OpState, OpenStates, Projections,
         KeyState, Exists, Revisions, Versions

LEMMA RowNumbers ==
  ASSUME NEW u \in UserRow
  PROVE  /\ u.limit \in Nat /\ u.used \in Nat /\ u.des \in Int /\ u.syn \in Int /\ u.cdes \in Int
         /\ u.quota \in {"within_limit", "exceeded"}
  <1>1. u.limit \in Limits \cup {0}
    BY DEF UserRow
  <1>2. \A x \in Limits : x \in Nat
    BY LimitsAssumption
  <1>3. u.limit \in Nat
    BY <1>1, <1>2
  <1>4. u.used \in Nat /\ u.des \in Int /\ u.syn \in Int /\ u.cdes \in Int
        /\ u.quota \in {"within_limit", "exceeded"}
    BY DEF UserRow
  <1> QED BY <1>3, <1>4

\* supersedeOlder keeps every row's content but the state and the lease.
LEMMA SupersedeFacts ==
  ASSUME NEW ops \in [Revisions -> Operation], NEW r \in Revisions
  PROVE  /\ SupersedeOlder(ops, r) \in [Revisions -> Operation]
         /\ \A s \in Revisions : s >= r => SupersedeOlder(ops, r)[s] = ops[s]
         /\ \A s \in Revisions : s < r =>
               IF ops[s].state \in OpenStates \cup {"permanent_failed"}
               THEN SupersedeOlder(ops, r)[s].state = "superseded"
               ELSE SupersedeOlder(ops, r)[s] = ops[s]
  <1>1. ASSUME NEW op \in Operation
        PROVE  Closed(op) \in Operation /\ Closed(op).state = "superseded"
    BY DEF Closed, Operation, OpState
  <1>2. \A s \in Revisions : ops[s] \in Operation
    OBVIOUS
  <1>3. \A s \in Revisions : SupersedeOlder(ops, r)[s] =
            IF s < r /\ ops[s].state \in OpenStates \cup {"permanent_failed"}
            THEN Closed(ops[s]) ELSE ops[s]
    BY DEF SupersedeOlder
  <1>4. SupersedeOlder(ops, r) \in [Revisions -> Operation]
    BY <1>1, <1>2 DEF SupersedeOlder
  <1>5. \A s \in Revisions : s >= r => ~(s < r)
    BY BoundAssumption DEF Revisions
  <1> QED BY <1>1, <1>2, <1>3, <1>4, <1>5

\* Committing an intent at the next revision of a user whose rows are sound.
LEMMA CommitIntentFacts ==
  ASSUME NEW u \in UserRow, LatestOnly(u), u.des + 1 \in Revisions,
         NEW present \in BOOLEAN, NEW cred \in 0 .. MaxRevision, NEW reason \in Reasons
  PROVE  LET v == CommitIntent(u, u.des + 1, present, cred, reason) IN
         /\ v \in UserRow
         /\ LatestOnly(v)
         /\ v.des = u.des + 1
         /\ v.ops[v.des] = NewOperation(present, cred, reason)
         /\ v.wanted = IF u.released THEN u.wanted ELSE present
         /\ v.proj = "pending"
  <1> DEFINE r == u.des + 1
             old == SupersedeOlder(u.ops, r)
             new == NewOperation(present, cred, reason)
             v == CommitIntent(u, r, present, cred, reason)
  <1>1. u.ops \in [Revisions -> Operation] /\ u.des \in Revisions /\ r \in Revisions
    BY DEF UserRow, LatestOnly
  <1>2. new \in Operation
    BY DEF NewOperation, Operation, OpState, OpenStates
  <1>3. old \in [Revisions -> Operation]
    BY <1>1, SupersedeFacts
  <1>4. v.ops = [old EXCEPT ![r] = new] /\ v.des = r /\ v.proj = "pending"
        /\ v.wanted = IF u.released THEN u.wanted ELSE present
    BY DEF CommitIntent, UserRow
  <1>5. v \in UserRow
    <2>1. [old EXCEPT ![r] = new] \in [Revisions -> Operation]
      BY <1>1, <1>2, <1>3
    <2>2. r \in 0 .. MaxRevision
      BY <1>1 DEF Revisions
    <2> DEFINE wanted == IF u.released THEN u.wanted ELSE present
    <2>3. wanted \in BOOLEAN
      BY DEF UserRow
    <2>4. v = [u EXCEPT !.ops = [old EXCEPT ![r] = new], !.wanted = wanted, !.des = r, !.proj = "pending"]
      BY DEF CommitIntent
    <2> HIDE DEF r, old, new, wanted, v
    <2> QED BY <2>1, <2>2, <2>3, <2>4 DEF UserRow, Projections
  <1>6. v.ops[r] = new
    BY <1>1, <1>3, <1>4
  <1>10. /\ \A s \in Revisions : s >= r => old[s] = u.ops[s]
         /\ \A s \in Revisions : s < r =>
               IF u.ops[s].state \in OpenStates \cup {"permanent_failed"}
               THEN old[s].state = "superseded" ELSE old[s] = u.ops[s]
    BY <1>1, SupersedeFacts
  <1>11. u.des \in Int /\ \A s \in Revisions : s \in Int
    BY <1>1 DEF Revisions
  <1>12. \A s \in Revisions : s # r => v.ops[s] = old[s]
    <2> HIDE DEF r, old, new, v
    <2> QED BY <1>1, <1>3, <1>4
  <1>7. ASSUME NEW s \in Revisions, s < r
        PROVE  v.ops[s].state \in {"succeeded", "superseded"}
    <2>1. v.ops[s] = old[s]
      BY <1>12, <1>7, <1>11
    <2>2. u.ops[s].state \in {"succeeded", "superseded"} \/ (s = u.des /\ u.ops[s].state \notin {"none", "superseded"})
      BY <1>7, <1>11 DEF LatestOnly
    <2>3. u.ops[s].state \in OpState
      BY <1>1 DEF Operation
    <2> HIDE DEF r, old, new, v
    <2> QED BY <2>1, <2>2, <2>3, <1>10, <1>7 DEF OpState, OpenStates
  <1>8. ASSUME NEW s \in Revisions, s > r
        PROVE  v.ops[s].state = "none"
    <2>1. v.ops[s] = old[s]
      BY <1>12, <1>8, <1>11
    <2>2. s >= r /\ s > u.des
      BY <1>8, <1>11
    <2> HIDE DEF r, old, new, v
    <2> QED BY <2>1, <2>2, <1>10 DEF LatestOnly
  <1>9. LatestOnly(v)
    <2> HIDE DEF old, v
    <2> QED BY <1>1, <1>4, <1>6, <1>7, <1>8, <1>11 DEF LatestOnly, NewOperation
  <1> QED BY <1>4, <1>5, <1>6, <1>9

LEMMA CommitIntentFrame ==
  ASSUME NEW u \in UserRow, NEW r, NEW present, NEW cred, NEW reason
  PROVE  LET v == CommitIntent(u, r, present, cred, reason) IN
         /\ v.life = u.life /\ v.admin = u.admin /\ v.quota = u.quota
         /\ v.limit = u.limit /\ v.used = u.used /\ v.urev = u.urev
         /\ v.syn = u.syn /\ v.csyn = u.csyn /\ v.cdes = u.cdes /\ v.cred = u.cred
         /\ v.port = u.port /\ v.released = u.released /\ v.des = r
  BY DEF CommitIntent, UserRow

\* Whatever a transaction changed in the user's rows, an intent that asks for
\* what they now say leaves them consistent.
LEMMA IntentSound ==
  ASSUME NEW u \in UserRow, Exists(u), LatestOnly(u), KeysSound(u), u.syn <= u.des,
         u.cdes <= u.des + 1, u.des + 1 \in Revisions,
         NEW present \in BOOLEAN, present = DesiredPresent(u),
         NEW cred \in 0 .. MaxRevision, present => cred = u.cdes,
         NEW reason \in Reasons
  PROVE  LET v == CommitIntent(u, u.des + 1, present, cred, reason) IN
         v \in UserRow /\ Exists(v) /\ Consistent(v) /\ v.des = u.des + 1
  <1> DEFINE v == CommitIntent(u, u.des + 1, present, cred, reason)
  <1>1. /\ v \in UserRow /\ LatestOnly(v) /\ v.des = u.des + 1
        /\ v.ops[v.des] = NewOperation(present, cred, reason)
        /\ v.wanted = IF u.released THEN u.wanted ELSE present
        /\ v.proj = "pending"
    BY CommitIntentFacts
  <1>2. /\ v.life = u.life /\ v.admin = u.admin /\ v.quota = u.quota
        /\ v.syn = u.syn /\ v.csyn = u.csyn /\ v.cdes = u.cdes /\ v.cred = u.cred
        /\ v.released = u.released
    BY CommitIntentFrame
  <1>3. u.des \in Int /\ u.syn \in Int /\ u.cdes \in Int
    BY DEF UserRow
  <1> HIDE DEF v
  <1>4. Exists(v) /\ DesiredPresent(v) = DesiredPresent(u)
    BY <1>2 DEF Exists, DesiredPresent
  <1>5. Faithful(v)
    BY <1>1, <1>2, <1>4 DEF Faithful, NewOperation
  <1>6. Honest(v)
    BY <1>1, <1>2, <1>3 DEF Honest, NewOperation
  <1>7. KeysSound(v)
    BY <1>1, <1>2, <1>3 DEF KeysSound
  <1>8. v.cdes <= v.des
    BY <1>1, <1>2
  <1> QED BY <1>1, <1>4, <1>5, <1>6, <1>7, <1>8 DEF Consistent, v

\* applyDecision moves the revision by at most one.
LEMMA DecisionRevision ==
  ASSUME NEW u \in UserRow, NEW admin, NEW exceeded
  PROVE  ApplyDecision(u, admin, exceeded).des \in {u.des, u.des + 1}
  <1>1. Decided(u, admin, exceeded).des = u.des
    BY DEF Decided, UserRow
  <1>2. ASSUME NEW present, NEW reason
        PROVE  CommitIntent(Decided(u, admin, exceeded), u.des + 1, present, u.cdes, reason).des = u.des + 1
    BY DEF CommitIntent, Decided, UserRow
  <1> QED BY <1>1, <1>2 DEF ApplyDecision

LEMMA DecisionFrame ==
  ASSUME NEW u \in UserRow, NEW admin, NEW exceeded
  PROVE  ApplyDecision(u, admin, exceeded).used = u.used
  <1>1. Decided(u, admin, exceeded).used = u.used
    BY DEF Decided, UserRow
  <1>2. ASSUME NEW present, NEW reason
        PROVE  CommitIntent(Decided(u, admin, exceeded), u.des + 1, present, u.cdes, reason).used = u.used
    BY DEF CommitIntent, Decided, UserRow
  <1> QED BY <1>1, <1>2 DEF ApplyDecision

\* DecideTransition and applyDecision on a consistent user, with the exceeded
\* flag that its limit and usage give.
LEMMA DecisionSound ==
  ASSUME NEW u \in UserRow, Exists(u), Consistent(u),
         NEW admin \in BOOLEAN, NEW exceeded \in BOOLEAN,
         exceeded = IsQuotaExceeded(u.limit, u.used),
         ApplyDecision(u, admin, exceeded).des \in Revisions
  PROVE  SoundStep(u, ApplyDecision(u, admin, exceeded))
  <1> DEFINE w == Decided(u, admin, exceeded)
             v == ApplyDecision(u, admin, exceeded)
             quota == IF exceeded THEN "exceeded" ELSE "within_limit"
  <1>1. w = [u EXCEPT !.admin = admin, !.quota = quota] /\ quota \in {"within_limit", "exceeded"}
    BY DEF Decided
  <1>2. /\ w \in UserRow
        /\ w.admin = admin /\ w.quota = quota
        /\ w.life = u.life /\ w.des = u.des /\ w.syn = u.syn /\ w.csyn = u.csyn /\ w.ops = u.ops
        /\ w.cdes = u.cdes /\ w.cred = u.cred /\ w.proj = u.proj /\ w.released = u.released
        /\ w.wanted = u.wanted /\ w.limit = u.limit /\ w.used = u.used
    <2> HIDE DEF quota, w
    <2> QED BY <1>1 DEF UserRow
  <1>3. Exists(w) /\ LatestOnly(w) /\ KeysSound(w) /\ QuotaOK(w)
    <2> HIDE DEF w
    <2>1. Exists(w) BY <1>2 DEF Exists
    <2>2. LatestOnly(w) BY <1>2 DEF LatestOnly, Consistent
    <2>3. KeysSound(w) BY <1>2 DEF KeysSound, Consistent
    <2>4. QuotaOK(w) BY <1>2 DEF QuotaOK
    <2> QED BY <2>1, <2>2, <2>3, <2>4
  <1>4. u.des \in Int /\ u.syn <= u.des /\ u.cdes \in 0 .. MaxRevision /\ u.cdes <= u.des + 1
    BY DEF UserRow, Consistent, Honest
  <1>5. CASE DesiredPresent(u) = DesiredPresent(w)
    <2>1. v = w
      BY <1>5 DEF ApplyDecision
    <2> HIDE DEF w, v
    <2>2. Faithful(w)
      BY <1>2, <1>5 DEF Faithful, Consistent
    <2>3. Honest(w)
      BY <1>2, <1>5 DEF Honest, Consistent
    <2>4. Advance(u, w)
      BY <1>2, <1>3, <1>4, <1>5 DEF Advance
    <2>5. w.cdes <= w.des
      BY <1>2 DEF Consistent
    <2> QED BY <1>2, <1>3, <2>1, <2>2, <2>3, <2>4, <2>5 DEF SoundStep, UserOK, Consistent, v
  <1>6. CASE DesiredPresent(u) # DesiredPresent(w)
    <2> DEFINE present == DesiredPresent(w)
               reason == DecisionReason(u, admin, exceeded)
    <2>1. v = CommitIntent(w, w.des + 1, present, u.cdes, reason)
      BY <1>2, <1>6 DEF ApplyDecision
    <2>2. reason \in Reasons
      BY DEF DecisionReason, Reasons
    <2>3. v.des = w.des + 1
      BY <2>1, <1>2, CommitIntentFrame
    <2>4. w.des + 1 \in Revisions
      BY <2>3
    <2>5. present \in BOOLEAN
      BY <1>2 DEF DesiredPresent
    <2>6. v.limit = w.limit /\ v.used = w.used /\ v.quota = w.quota
      BY <2>1, <1>2, CommitIntentFrame
    <2> HIDE DEF w, v, reason
    <2>7. v \in UserRow /\ Exists(v) /\ Consistent(v)
      BY <1>2, <1>3, <1>4, <2>1, <2>2, <2>4, <2>5, IntentSound
    <2>8. QuotaOK(v)
      BY <1>3, <2>6 DEF QuotaOK
    <2>9. Advance(u, v)
      BY <1>2, <1>4, <2>3, <2>7 DEF Advance
    <2> QED BY <2>7, <2>8, <2>9 DEF SoundStep, UserOK, v
  <1> QED BY <1>5, <1>6

\* Usage, limit, user revision and port are no part of consistency.
LEMMA ConsistentFrame ==
  ASSUME NEW u, NEW w, Exists(u), Consistent(u),
         w.life = u.life, w.admin = u.admin, w.quota = u.quota, w.des = u.des, w.syn = u.syn,
         w.csyn = u.csyn, w.ops = u.ops, w.cdes = u.cdes, w.cred = u.cred, w.proj = u.proj,
         w.released = u.released, w.wanted = u.wanted
  PROVE  Exists(w) /\ Consistent(w) /\ DesiredPresent(w) = DesiredPresent(u)
  <1>1. Exists(w) BY DEF Exists
  <1>2. DesiredPresent(w) = DesiredPresent(u) BY DEF DesiredPresent
  <1>3. LatestOnly(w) BY DEF Consistent, LatestOnly
  <1>4. Faithful(w) BY <1>2 DEF Consistent, Faithful
  <1>5. Honest(w) BY <1>2 DEF Consistent, Honest
  <1>6. KeysSound(w) BY DEF Consistent, KeysSound
  <1> QED BY <1>1, <1>2, <1>3, <1>4, <1>5, <1>6 DEF Consistent

LEMMA AdvanceTransitive ==
  ASSUME NEW u \in UserRow, NEW v \in UserRow, NEW w \in UserRow, Advance(u, v), Advance(v, w)
  PROVE  Advance(u, w)
  <1>1. u.des \in Int /\ v.des \in Int /\ w.des \in Int
    BY DEF UserRow
  <1> QED BY <1>1 DEF Advance

LEMMA SettledFrame ==
  ASSUME NEW u \in UserRow
  PROVE  Settled(u).used = 0 /\ Settled(u).des \in {u.des, u.des + 1}
  <1> DEFINE w == [u EXCEPT !.used = 0]
  <1>1. w \in UserRow /\ w.used = 0 /\ w.des = u.des
    BY UsageAssumption DEF UserRow
  <1> QED BY <1>1, DecisionFrame, DecisionRevision DEF Settled

\* ResetCycleTraffic and settleCycles.
LEMMA SettledSound ==
  ASSUME NEW u \in UserRow, Exists(u), UserOK(u), Settled(u).des \in Revisions
  PROVE  SoundStep(u, Settled(u))
  <1> DEFINE w == [u EXCEPT !.used = 0]
  <1>1. w \in UserRow /\ w.used = 0 /\ w.limit = u.limit /\ w.des = u.des /\ w.admin \in BOOLEAN
    BY UsageAssumption DEF UserRow
  <1>2. Exists(w) /\ Consistent(w) /\ DesiredPresent(w) = DesiredPresent(u) /\ w.cdes = u.cdes
    <2>1. /\ w.life = u.life /\ w.admin = u.admin /\ w.quota = u.quota /\ w.des = u.des /\ w.syn = u.syn
          /\ w.csyn = u.csyn /\ w.ops = u.ops /\ w.cdes = u.cdes /\ w.cred = u.cred /\ w.proj = u.proj
          /\ w.released = u.released /\ w.wanted = u.wanted
      BY DEF UserRow
    <2> HIDE DEF w
    <2> QED BY <2>1, ConsistentFrame DEF UserOK
  <1>3. FALSE = IsQuotaExceeded(w.limit, w.used)
    BY <1>1, LimitsAssumption DEF IsQuotaExceeded, UserRow
  <1>4. Settled(u) = ApplyDecision(w, w.admin, FALSE)
    BY DEF Settled, UserRow
  <1>5. Advance(u, w)
    BY <1>1, <1>2 DEF Advance, UserRow
  <1> HIDE DEF w
  <1>6. SoundStep(w, Settled(u))
    BY <1>1, <1>2, <1>3, <1>4, DecisionSound
  <1> QED BY <1>1, <1>5, <1>6, AdvanceTransitive DEF SoundStep

\* UpdateUser.
LEMMA UpdatedSound ==
  ASSUME NEW u \in UserRow, Exists(u), UserOK(u), u.urev < MaxUserRevision,
         NEW admin \in BOOLEAN, NEW limit \in Limits \cup {0}, Updated(u, admin, limit).des \in Revisions
  PROVE  SoundStep(u, Updated(u, admin, limit))
  <1> DEFINE w == [u EXCEPT !.urev = u.urev + 1, !.limit = limit]
  <1>1. w \in UserRow /\ w.used = u.used /\ w.limit = limit /\ w.des = u.des
    <2>1. u.urev + 1 \in 0 .. MaxUserRevision
      BY BoundAssumption DEF UserRow
    <2> QED BY <2>1 DEF UserRow
  <1>2. Exists(w) /\ Consistent(w) /\ DesiredPresent(w) = DesiredPresent(u) /\ w.cdes = u.cdes
    <2>1. /\ w.life = u.life /\ w.admin = u.admin /\ w.quota = u.quota /\ w.des = u.des /\ w.syn = u.syn
          /\ w.csyn = u.csyn /\ w.ops = u.ops /\ w.cdes = u.cdes /\ w.cred = u.cred /\ w.proj = u.proj
          /\ w.released = u.released /\ w.wanted = u.wanted
      BY DEF UserRow
    <2> HIDE DEF w
    <2> QED BY <2>1, ConsistentFrame DEF UserOK
  <1>3. IsQuotaExceeded(limit, u.used) \in BOOLEAN
    BY DEF IsQuotaExceeded
  <1>4. Updated(u, admin, limit) = ApplyDecision(w, admin, IsQuotaExceeded(limit, u.used))
    BY DEF Updated
  <1>5. Advance(u, w)
    BY <1>1, <1>2 DEF Advance, UserRow
  <1> HIDE DEF w
  <1>6. SoundStep(w, Updated(u, admin, limit))
    BY <1>1, <1>2, <1>3, <1>4, DecisionSound
  <1> QED BY <1>1, <1>5, <1>6, AdvanceTransitive DEF SoundStep

\* A transaction that fits ends at a revision within the bound.
LEMMA FitsBound ==
  ASSUME NEW u \in UserRow, Exists(u), UserOK(u), NEW v,
         v.des \in {u.des, u.des + 1, u.des + 2}, Fits(u, v)
  PROVE  v.des \in Revisions
  <1>1. u.des \in Revisions /\ u.des \in Int
    BY DEF UserOK, Consistent, LatestOnly, UserRow
  <1>2. v.des # u.des => v.des \in u.des + 1 .. v.des
    BY <1>1
  <1> QED BY <1>1, <1>2 DEF Fits, RowFree

\* Adding a delta, and the block it may bring.
LEMMA BlockedSound ==
  ASSUME NEW u \in UserRow, Exists(u), UserOK(u), NEW delta \in Nat, u.used + delta <= MaxUsage,
         Metered(u, FALSE, delta).des \in Revisions
  PROVE  SoundStep(u, Metered(u, FALSE, delta))
  <1> DEFINE m == [u EXCEPT !.used = u.used + delta]
             v == Metered(u, FALSE, delta)
             block == IsQuotaExceeded(m.limit, m.used) /\ m.quota = "within_limit"
  <1>1. v = IF block THEN ApplyDecision(m, m.admin, TRUE) ELSE m
    BY DEF Metered
  <1>2. m \in UserRow /\ m.admin \in BOOLEAN
    <2>1. u.used + delta \in 0 .. MaxUsage
      BY UsageAssumption DEF UserRow
    <2> QED BY <2>1 DEF UserRow
  <1>3. /\ m.life = u.life /\ m.admin = u.admin /\ m.quota = u.quota /\ m.des = u.des /\ m.syn = u.syn
        /\ m.csyn = u.csyn /\ m.ops = u.ops /\ m.cdes = u.cdes /\ m.cred = u.cred /\ m.proj = u.proj
        /\ m.released = u.released /\ m.wanted = u.wanted /\ m.limit = u.limit /\ m.used = u.used + delta
    BY DEF UserRow
  <1>4. u.des \in Int /\ u.used \in Nat /\ u.limit \in Nat /\ u.quota \in {"within_limit", "exceeded"}
    BY RowNumbers
  <1> HIDE DEF m, v
  <1>5. Exists(m) /\ Consistent(m) /\ DesiredPresent(m) = DesiredPresent(u)
    BY <1>3, ConsistentFrame DEF UserOK
  <1>6. Advance(u, m)
    BY <1>3, <1>4, <1>5 DEF Advance
  <1>7. CASE block
    <2>1. TRUE = IsQuotaExceeded(m.limit, m.used)
      BY <1>7
    <2>2. v = ApplyDecision(m, m.admin, TRUE)
      BY <1>1, <1>7
    <2>3. v.des \in Revisions
      BY DEF v
    <2>4. SoundStep(m, v)
      BY <1>2, <1>5, <2>1, <2>2, <2>3, DecisionSound
    <2> QED BY <1>2, <1>6, <2>4, AdvanceTransitive DEF SoundStep, v
  <1>8. CASE ~block
    <2>1. v = m
      BY <1>1, <1>8
    <2>2. QuotaOK(u)
      BY DEF UserOK
    <2>3. QuotaOK(m)
      BY <1>3, <1>4, <1>8, <2>2 DEF QuotaOK, IsQuotaExceeded
    <2> QED BY <1>2, <1>5, <1>6, <2>1, <2>3 DEF SoundStep, UserOK, v
  <1> QED BY <1>7, <1>8

LEMMA MeteredRevision ==
  ASSUME NEW u \in UserRow, NEW delta \in Nat, u.used + delta <= MaxUsage
  PROVE  Metered(u, FALSE, delta).des \in {u.des, u.des + 1}
  <1> DEFINE m == [u EXCEPT !.used = u.used + delta]
  <1>1. m \in UserRow /\ m.des = u.des
    <2>1. u.used + delta \in 0 .. MaxUsage
      BY UsageAssumption DEF UserRow
    <2> QED BY <2>1 DEF UserRow
  <1> QED BY <1>1, DecisionRevision DEF Metered

\* One update of CommitTrafficBatch.
LEMMA MeteredSound ==
  ASSUME NEW u \in UserRow, Exists(u), UserOK(u), NEW ended \in BOOLEAN, NEW delta \in Nat,
         (IF ended THEN 0 ELSE u.used) + delta <= MaxUsage,
         ended => Fits(u, Settled(u)), Fits(u, Metered(u, ended, delta))
  PROVE  SoundStep(u, Metered(u, ended, delta))
  <1> DEFINE s == Settled(u)
  <1>0. u.des \in Int
    BY DEF UserRow
  <1>1. CASE ended
    <2>1. s.used = 0 /\ s.des \in {u.des, u.des + 1}
      BY SettledFrame
    <2>2. SoundStep(u, s)
      BY <1>1, <2>1, FitsBound, SettledSound
    <2>3. s \in UserRow /\ Exists(s) /\ UserOK(s) /\ s.used + delta <= MaxUsage
      BY <1>1, <2>1, <2>2 DEF SoundStep, Advance
    <2>4. Metered(u, ended, delta) = Metered(s, FALSE, delta)
      BY <1>1 DEF Metered
    <2>5. Metered(s, FALSE, delta).des \in {s.des, s.des + 1}
      BY <2>3, MeteredRevision
    <2>6. Metered(s, FALSE, delta).des \in {u.des, u.des + 1, u.des + 2}
      <3> DEFINE d == Metered(s, FALSE, delta).des
                 e == s.des
      <3>1. d \in {e, e + 1} /\ e \in {u.des, u.des + 1}
        BY <2>1, <2>5
      <3> HIDE DEF d, e
      <3>2. d \in {u.des, u.des + 1, u.des + 2}
        BY <3>1, <1>0
      <3> QED BY <3>2 DEF d
    <2>7. Metered(s, FALSE, delta).des \in Revisions
      <3> DEFINE v == Metered(s, FALSE, delta)
      <3>1. Fits(u, v)
        BY <2>4
      <3> HIDE DEF v, s
      <3>2. v.des \in {u.des, u.des + 1, u.des + 2}
        BY <2>6 DEF v
      <3>3. v.des \in Revisions
        BY <3>1, <3>2, FitsBound
      <3> QED BY <3>3 DEF v
    <2>8. SoundStep(s, Metered(s, FALSE, delta))
      BY <2>3, <2>7, BlockedSound
    <2> QED BY <2>2, <2>4, <2>8, AdvanceTransitive DEF SoundStep
  <1>2. CASE ~ended
    <2>1. Metered(u, ended, delta) = Metered(u, FALSE, delta) /\ u.used + delta <= MaxUsage
      BY <1>2 DEF Metered
    <2>2. Metered(u, FALSE, delta).des \in {u.des, u.des + 1}
      BY <2>1, MeteredRevision
    <2>3. Metered(u, FALSE, delta).des \in Revisions
      <3> DEFINE v == Metered(u, FALSE, delta)
      <3>1. Fits(u, v) /\ v.des \in {u.des, u.des + 1}
        BY <2>1, <2>2
      <3> HIDE DEF v
      <3>2. v.des \in Revisions
        BY <3>1, FitsBound
      <3> QED BY <3>2 DEF v
    <2> QED BY <2>1, <2>3, BlockedSound
  <1> QED BY <1>1, <1>2

----------------------------------------------------------------------------
(* Requests built from a snapshot.                                         *)

\* A request whose revisions pass describes the user as it is.
LEMMA AcceptedIsCurrent ==
  ASSUME NEW u \in UserRow, UserOK(u), NEW q \in Request, Accepts(u, q),
         Current(u, q.des, q.present, q.cred)
  PROVE  /\ Exists(u) /\ Consistent(u) /\ QuotaOK(u)
         /\ q.des = u.des /\ u.des + 1 \in Revisions
         /\ q.present = DesiredPresent(u) /\ q.present \in BOOLEAN /\ q.cred = u.cdes
         /\ u.urev + 1 \in 0 .. MaxUserRevision
  <1>1. Exists(u) /\ Consistent(u) /\ QuotaOK(u)
    BY DEF Current, UserOK
  <1>2. q.des \in Int /\ u.des \in Int /\ q.des <= u.des /\ q.des + 1 \in Revisions
    BY DEF Request, UserRow, Current, Accepts, RowFree
  <1>3. u.ops[q.des + 1].state = "none"
    BY DEF Accepts, RowFree
  <1>4. q.des + 1 > u.des
    BY <1>1, <1>2, <1>3 DEF Consistent, LatestOnly
  <1>5. q.des = u.des
    BY <1>2, <1>4
  <1>6. u.urev + 1 \in 0 .. MaxUserRevision
    BY BoundAssumption DEF Accepts, UserRow
  <1> QED BY <1>1, <1>2, <1>5, <1>6 DEF Current, Request

\* ChangeInboundPort.
LEMMA ChangedPortSound ==
  ASSUME NEW u \in UserRow, UserOK(u), NEW q \in Request, Accepts(u, q),
         Current(u, q.des, q.present, q.cred)
  PROVE  SoundStep(u, ChangedPort(u, q))
  <1> DEFINE w == [Touched(u) EXCEPT !.port = q.port]
             v == ChangedPort(u, q)
  <1>1. /\ Exists(u) /\ Consistent(u) /\ QuotaOK(u)
        /\ q.des = u.des /\ u.des + 1 \in Revisions
        /\ q.present = DesiredPresent(u) /\ q.present \in BOOLEAN /\ q.cred = u.cdes
        /\ u.urev + 1 \in 0 .. MaxUserRevision
    BY AcceptedIsCurrent
  <1>2. w \in UserRow
    BY <1>1 DEF Touched, UserRow, Request
  <1>3. /\ w.life = u.life /\ w.admin = u.admin /\ w.quota = u.quota /\ w.des = u.des /\ w.syn = u.syn
        /\ w.csyn = u.csyn /\ w.ops = u.ops /\ w.cdes = u.cdes /\ w.cred = u.cred /\ w.proj = u.proj
        /\ w.released = u.released /\ w.wanted = u.wanted /\ w.limit = u.limit /\ w.used = u.used
    BY DEF Touched, UserRow
  <1>4. v = CommitIntent(w, w.des + 1, q.present, q.cred, "port_change")
    BY <1>1, <1>3 DEF ChangedPort
  <1>5. u.des \in Int /\ u.cdes \in 0 .. MaxRevision /\ u.syn <= u.des /\ u.cdes <= u.des
    BY <1>1 DEF UserRow, Consistent, Honest
  <1> HIDE DEF w, v
  <1>6. Exists(w) /\ Consistent(w) /\ DesiredPresent(w) = DesiredPresent(u)
    BY <1>1, <1>3, ConsistentFrame
  <1>7. LatestOnly(w) /\ KeysSound(w) /\ w.syn <= w.des /\ w.cdes <= w.des + 1 /\ "port_change" \in Reasons
    BY <1>3, <1>5, <1>6 DEF Consistent, Reasons
  <1>8. v \in UserRow /\ Exists(v) /\ Consistent(v) /\ v.des = u.des + 1
    BY <1>1, <1>2, <1>3, <1>4, <1>5, <1>6, <1>7, IntentSound
  <1>9. v.limit = w.limit /\ v.used = w.used /\ v.quota = w.quota
    BY <1>2, <1>4, CommitIntentFrame
  <1> QED BY <1>1, <1>3, <1>5, <1>8, <1>9 DEF SoundStep, UserOK, Advance, QuotaOK, v

\* SoftDeleteUser.
LEMMA SoftDeletedSound ==
  ASSUME NEW u \in UserRow, UserOK(u), NEW q \in Request, Accepts(u, q),
         Current(u, q.des, q.present, q.cred)
  PROVE  SoundStep(u, SoftDeleted(u, q))
  <1> DEFINE w == [Touched(u) EXCEPT !.life = "deleted", !.admin = FALSE]
             v == SoftDeleted(u, q)
  <1>1. /\ Exists(u) /\ Consistent(u) /\ QuotaOK(u)
        /\ q.des = u.des /\ u.des + 1 \in Revisions
        /\ u.urev + 1 \in 0 .. MaxUserRevision
    BY AcceptedIsCurrent
  <1>2. w \in UserRow
    BY <1>1 DEF Touched, UserRow
  <1>3. /\ w.life = "deleted" /\ w.quota = u.quota /\ w.des = u.des /\ w.syn = u.syn
        /\ w.ops = u.ops /\ w.cdes = u.cdes /\ w.cred = u.cred
        /\ w.released = u.released /\ w.limit = u.limit /\ w.used = u.used
    BY DEF Touched, UserRow
  <1>4. v = CommitIntent(w, w.des + 1, FALSE, 0, "delete")
    BY <1>1, <1>3 DEF SoftDeleted
  <1>5. u.des \in Int /\ 0 \in 0 .. MaxRevision /\ u.syn <= u.des /\ u.cdes <= u.des /\ u.cdes \in Int
    BY <1>1, BoundAssumption DEF UserRow, Consistent, Honest
  <1>6. u.life = "active" /\ "delete" \in Reasons
    BY DEF Accepts, Reasons
  <1> HIDE DEF w, v
  <1>7. Exists(w) /\ FALSE = DesiredPresent(w) /\ w.syn <= w.des /\ w.cdes <= w.des + 1
    BY <1>3, <1>5 DEF Exists, DesiredPresent
  <1>8. LatestOnly(w)
    BY <1>1, <1>3 DEF Consistent, LatestOnly
  <1>9. KeysSound(w)
    BY <1>1, <1>3, <1>6 DEF Consistent, KeysSound
  <1>10. v \in UserRow /\ Exists(v) /\ Consistent(v) /\ v.des = u.des + 1
    <2> DEFINE present == FALSE
    <2>1. present \in BOOLEAN /\ present = DesiredPresent(w) /\ (present => 0 = w.cdes)
      BY <1>7
    <2>2. v = CommitIntent(w, w.des + 1, present, 0, "delete") /\ w.des + 1 \in Revisions
      BY <1>1, <1>3, <1>4
    <2> HIDE DEF present
    <2> QED BY <1>2, <1>3, <1>5, <1>6, <1>7, <1>8, <1>9, <2>1, <2>2, IntentSound
  <1>11. v.limit = w.limit /\ v.used = w.used /\ v.quota = w.quota
    BY <1>2, <1>4 DEF CommitIntent, UserRow
  <1> QED BY <1>1, <1>3, <1>5, <1>10, <1>11 DEF SoundStep, UserOK, Advance, QuotaOK, v

\* RotateCredential: the key in force stays beside the new pending one.
LEMMA RotatedSound ==
  ASSUME NEW u \in UserRow, UserOK(u), NEW q \in Request, Accepts(u, q),
         Current(u, q.des, q.present, q.cred),
         \A x \in Versions : u.cred[x] # "pending"
  PROVE  SoundStep(u, Rotated(u, q))
  <1> DEFINE key == q.cred + 1
             keys == [u.cred EXCEPT ![key] = "pending"]
             w == [Touched(u) EXCEPT !.cdes = key, !.cred[key] = "pending"]
             v == Rotated(u, q)
  <1>1. /\ Exists(u) /\ Consistent(u) /\ QuotaOK(u)
        /\ q.des = u.des /\ u.des + 1 \in Revisions
        /\ q.present = DesiredPresent(u) /\ q.present \in BOOLEAN /\ q.cred = u.cdes
        /\ u.urev + 1 \in 0 .. MaxUserRevision
    BY AcceptedIsCurrent
  <1>2. /\ u.des \in Int /\ u.cdes \in Versions /\ u.cdes \in Int /\ u.syn <= u.des /\ u.cdes <= u.des
        /\ u.life = "active" /\ ~u.released
    BY <1>1 DEF UserRow, Consistent, Honest, KeysSound, Accepts
  <1>3. key \in Versions /\ key = u.cdes + 1 /\ key \in 0 .. MaxRevision
    BY <1>1, <1>2, BoundAssumption DEF Versions, Revisions
  <1>4. keys \in [Versions -> KeyState]
    BY <1>3 DEF UserRow, KeyState
  <1>5. w = [Touched(u) EXCEPT !.cdes = key, !.cred = keys]
    BY DEF Touched, UserRow
  <1>6. w \in UserRow
    <2> HIDE DEF w, keys, key
    <2> QED BY <1>1, <1>3, <1>4, <1>5 DEF Touched, UserRow
  <1>7. /\ w.life = u.life /\ w.admin = u.admin /\ w.quota = u.quota /\ w.des = u.des /\ w.syn = u.syn
        /\ w.ops = u.ops /\ w.cdes = key /\ w.cred = keys
        /\ w.released = u.released /\ w.limit = u.limit /\ w.used = u.used
    <2> HIDE DEF w, keys, key
    <2> QED BY <1>5 DEF Touched, UserRow
  <1>8. v = CommitIntent(w, w.des + 1, q.present, key, "rotate")
    BY <1>1, <1>7 DEF Rotated
  <1>9. Exists(w) /\ DesiredPresent(w) = DesiredPresent(u)
    <2> HIDE DEF w
    <2> QED BY <1>1, <1>7 DEF Exists, DesiredPresent
  <1>10. LatestOnly(w)
    <2> HIDE DEF w
    <2> QED BY <1>1, <1>7 DEF Consistent, LatestOnly
  <1>11. u.cred[u.cdes] = "active" /\ \A x \in Versions : x < u.cdes => u.cred[x] = "destroyed"
    BY <1>1, <1>2 DEF Consistent, KeysSound
  <1>12. /\ keys[key] = "pending"
         /\ \A x \in Versions : x # key => keys[x] = u.cred[x]
    <2> HIDE DEF key
    <2> QED BY <1>3 DEF UserRow
  <1>13. \A x \in Versions : x \in Int
    BY DEF Versions
  <1>14. KeysSound(w)
    <2>1. \A x \in Versions : x > key => keys[x] = "none"
      <3>1. \A x \in Versions : x > u.cdes => u.cred[x] = "none"
        BY <1>1 DEF Consistent, KeysSound
      <3> HIDE DEF key, keys
      <3> QED BY <3>1, <1>2, <1>3, <1>12, <1>13
    <2>2. \A x \in Versions : x < key => keys[x] = IF x + 1 = key THEN "active" ELSE "destroyed"
      <3> HIDE DEF key, keys
      <3> QED BY <1>2, <1>3, <1>11, <1>12, <1>13
    <2> HIDE DEF w, key, keys
    <2>3. w.cdes \in Versions /\ ~w.released
      BY <1>2, <1>3, <1>7
    <2>4. \A x \in Versions : x > w.cdes => w.cred[x] = "none"
      BY <2>1, <1>7
    <2>5. w.cred[w.cdes] = "pending"
      BY <1>7, <1>12
    <2>6. \A x \in Versions : x < w.cdes => w.cred[x] = IF x + 1 = w.cdes THEN "active" ELSE "destroyed"
      BY <2>2, <1>7
    <2> QED BY <2>3, <2>4, <2>5, <2>6 DEF KeysSound
  <1>15. w.syn <= w.des /\ w.cdes <= w.des + 1 /\ "rotate" \in Reasons
    BY <1>2, <1>3, <1>7 DEF Reasons
  <1> HIDE DEF w, v, key, keys
  <1>16. v.limit = w.limit /\ v.used = w.used /\ v.quota = w.quota
    BY <1>6, <1>8, CommitIntentFrame
  <1>17. v \in UserRow /\ Exists(v) /\ Consistent(v) /\ v.des = u.des + 1
    BY <1>1, <1>3, <1>6, <1>7, <1>8, <1>9, <1>10, <1>14, <1>15, IntentSound
  <1> QED BY <1>1, <1>2, <1>7, <1>16, <1>17 DEF SoundStep, UserOK, Advance, QuotaOK, v

\* EnqueueReconcile.
LEMMA ReconciledSound ==
  ASSUME NEW u \in UserRow, UserOK(u), NEW s \in Sighting, u.des = s.des, RowFree(u, s.des + 1),
         Current(u, s.des, s.present, s.cred)
  PROVE  SoundStep(u, CommitIntent(u, s.des + 1, s.present, s.cred, "reconcile"))
  <1> DEFINE v == CommitIntent(u, s.des + 1, s.present, s.cred, "reconcile")
  <1>1. Exists(u) /\ Consistent(u) /\ QuotaOK(u) /\ u.des + 1 \in Revisions
        /\ s.present = DesiredPresent(u) /\ s.cred = u.cdes /\ s.present \in BOOLEAN
    BY DEF Current, UserOK, RowFree, Sighting
  <1>2. u.des \in Int /\ u.cdes \in 0 .. MaxRevision /\ u.syn <= u.des /\ u.cdes <= u.des
        /\ LatestOnly(u) /\ KeysSound(u) /\ "reconcile" \in Reasons
    BY <1>1 DEF UserRow, Consistent, Honest, Reasons
  <1>3. v.limit = u.limit /\ v.used = u.used /\ v.quota = u.quota
    BY CommitIntentFrame
  <1>4. u.cdes <= u.des + 1
    BY <1>2
  <1> HIDE DEF v
  <1>5. v \in UserRow /\ Exists(v) /\ Consistent(v) /\ v.des = u.des + 1
    BY <1>1, <1>2, <1>4, IntentSound DEF v
  <1> QED BY <1>1, <1>2, <1>3, <1>5 DEF SoundStep, UserOK, Advance, QuotaOK, v

----------------------------------------------------------------------------
(* Transactions of the workers and of the reconciler's observation.        *)

\* Only the newest operation can be open.
LEMMA OpenIsNewest ==
  ASSUME NEW u \in UserRow, LatestOnly(u), NEW r \in Revisions, u.ops[r].state \in OpenStates
  PROVE  r = u.des
  <1>1. r \in Int /\ u.des \in Int
    BY DEF Revisions, UserRow
  <1> QED BY <1>1 DEF LatestOnly, OpenStates

\* Leasing, renewing, expiring: an open operation stays open.
LEMMA StillOpenSound ==
  ASSUME NEW u \in UserRow, Exists(u), UserOK(u), NEW r \in Revisions, NEW op \in Operation,
         u.ops[r].state \in OpenStates, op.state \in OpenStates,
         op.present = u.ops[r].present, op.cred = u.ops[r].cred
  PROVE  SoundStep(u, [u EXCEPT !.ops[r] = op])
  <1> DEFINE ops == [u.ops EXCEPT ![r] = op]
             v == [u EXCEPT !.ops[r] = op]
  <1>1. Consistent(u) /\ QuotaOK(u) /\ r = u.des /\ u.des \in Int
    BY OpenIsNewest DEF UserOK, Consistent, UserRow
  <1>2. ops \in [Revisions -> Operation] /\ ops[r] = op /\ \A s \in Revisions : s # r => ops[s] = u.ops[s]
    BY DEF UserRow
  <1>3. v = [u EXCEPT !.ops = ops]
    BY DEF UserRow
  <1> HIDE DEF v, ops
  <1>4. v \in UserRow
    BY <1>2, <1>3 DEF UserRow
  <1>5. /\ v.life = u.life /\ v.admin = u.admin /\ v.quota = u.quota /\ v.des = u.des /\ v.syn = u.syn
        /\ v.csyn = u.csyn /\ v.cdes = u.cdes /\ v.cred = u.cred /\ v.proj = u.proj /\ v.ops = ops
        /\ v.released = u.released /\ v.wanted = u.wanted /\ v.limit = u.limit /\ v.used = u.used
    BY <1>3 DEF UserRow
  <1>6. Exists(v) /\ DesiredPresent(v) = DesiredPresent(u)
    BY <1>5 DEF Exists, DesiredPresent
  <1>7. LatestOnly(v)
    BY <1>1, <1>2, <1>5 DEF Consistent, LatestOnly, OpenStates
  <1>8. Faithful(v)
    BY <1>1, <1>2, <1>5, <1>6 DEF Consistent, Faithful
  <1>9. Honest(v)
    BY <1>1, <1>2, <1>5, <1>6 DEF Consistent, Honest, OpenStates
  <1>10. KeysSound(v) /\ v.cdes <= v.des
    BY <1>1, <1>5 DEF Consistent, KeysSound
  <1>11. QuotaOK(v)
    BY <1>1, <1>5 DEF QuotaOK
  <1>12. Advance(u, v)
    BY <1>1, <1>5, <1>6 DEF Advance
  <1> QED BY <1>4, <1>6, <1>7, <1>8, <1>9, <1>10, <1>11, <1>12 DEF SoundStep, UserOK, Consistent, v

\* RecordObservation.
LEMMA ObservedSound ==
  ASSUME NEW u \in UserRow, Exists(u), UserOK(u), NEW actual \in BOOLEAN
  PROVE  SoundStep(u, Observed(u, actual))
  <1> DEFINE proj == IF u.des = u.syn THEN IF actual THEN "present" ELSE "absent" ELSE u.proj
             v == Observed(u, actual)
  <1>1. Consistent(u) /\ QuotaOK(u) /\ u.des \in Int
    BY DEF UserOK, UserRow
  <1>2. proj \in Projections /\ (u.des = u.syn => proj \in {"present", "absent"}) /\ (u.des # u.syn => proj = u.proj)
    BY DEF Projections, UserRow
  <1>3. v = [u EXCEPT !.proj = proj]
    BY DEF Observed
  <1> HIDE DEF v, proj
  <1>4. v \in UserRow
    BY <1>2, <1>3 DEF UserRow
  <1>5. /\ v.life = u.life /\ v.admin = u.admin /\ v.quota = u.quota /\ v.des = u.des /\ v.syn = u.syn
        /\ v.csyn = u.csyn /\ v.cdes = u.cdes /\ v.cred = u.cred /\ v.proj = proj /\ v.ops = u.ops
        /\ v.released = u.released /\ v.wanted = u.wanted /\ v.limit = u.limit /\ v.used = u.used
    BY <1>3 DEF UserRow
  <1>6. Exists(v) /\ DesiredPresent(v) = DesiredPresent(u)
    BY <1>5 DEF Exists, DesiredPresent
  <1>7. LatestOnly(v)
    BY <1>1, <1>5 DEF Consistent, LatestOnly
  <1>8. Faithful(v)
    BY <1>1, <1>5, <1>6 DEF Consistent, Faithful
  <1>9. Honest(v)
    BY <1>1, <1>2, <1>5, <1>6 DEF Consistent, Honest
  <1>10. KeysSound(v) /\ v.cdes <= v.des
    BY <1>1, <1>5 DEF Consistent, KeysSound
  <1>11. QuotaOK(v)
    BY <1>1, <1>5 DEF QuotaOK
  <1>12. Advance(u, v)
    BY <1>1, <1>5, <1>6 DEF Advance
  <1> QED BY <1>4, <1>6, <1>7, <1>8, <1>9, <1>10, <1>11, <1>12 DEF SoundStep, UserOK, Consistent, v

\* RescheduleSync and FailSync on the newest operation.
LEMMA UnfinishedSound ==
  ASSUME NEW u \in UserRow, Exists(u), UserOK(u), NEW r \in Revisions, u.ops[r].state = "leased",
         NEW state \in {"retry_wait", "permanent_failed"}
  PROVE  SoundStep(u, Unfinished(u, r, state))
  <1> DEFINE op == [u.ops[r] EXCEPT !.state = state, !.owner = NoOwner, !.expired = FALSE]
             ops == [u.ops EXCEPT ![r] = op]
             proj == IF state = "permanent_failed" THEN "error" ELSE "pending"
             v == Unfinished(u, r, state)
  <1>1. Consistent(u) /\ QuotaOK(u) /\ u.des \in Int /\ u.ops[r] \in Operation
    BY DEF UserOK, UserRow
  <1>2. r = u.des
    BY <1>1, OpenIsNewest DEF Consistent, OpenStates
  <1>3. /\ op \in Operation /\ op.state = state
        /\ op.present = u.ops[r].present /\ op.cred = u.ops[r].cred
    BY <1>1 DEF Operation, OpState, OpenStates
  <1>4. ops \in [Revisions -> Operation] /\ ops[r] = op /\ \A s \in Revisions : s # r => ops[s] = u.ops[s]
    <2> HIDE DEF op
    <2> QED BY <1>3 DEF UserRow
  <1>5. v = [u EXCEPT !.proj = proj, !.ops = ops] /\ proj \in Projections
    BY DEF Unfinished, Projections, UserRow
  <1> HIDE DEF v, ops, op
  <1>6. v \in UserRow
    BY <1>4, <1>5 DEF UserRow
  <1>7. /\ v.life = u.life /\ v.admin = u.admin /\ v.quota = u.quota /\ v.des = u.des /\ v.syn = u.syn
        /\ v.csyn = u.csyn /\ v.cdes = u.cdes /\ v.cred = u.cred /\ v.proj = proj /\ v.ops = ops
        /\ v.released = u.released /\ v.wanted = u.wanted /\ v.limit = u.limit /\ v.used = u.used
    BY <1>5 DEF UserRow
  <1>8. Exists(v) /\ DesiredPresent(v) = DesiredPresent(u)
    BY <1>7 DEF Exists, DesiredPresent
  <1>9. LatestOnly(v)
    BY <1>1, <1>2, <1>3, <1>4, <1>7 DEF Consistent, LatestOnly
  <1>10. Faithful(v)
    BY <1>1, <1>2, <1>3, <1>4, <1>7, <1>8 DEF Consistent, Faithful
  <1>11. Honest(v)
    BY <1>1, <1>2, <1>3, <1>4, <1>7, <1>8 DEF Consistent, Honest
  <1>12. KeysSound(v) /\ v.cdes <= v.des
    BY <1>1, <1>7 DEF Consistent, KeysSound
  <1>13. QuotaOK(v)
    BY <1>1, <1>7 DEF QuotaOK
  <1>14. Advance(u, v)
    BY <1>1, <1>7, <1>8 DEF Advance
  <1> QED BY <1>6, <1>8, <1>9, <1>10, <1>11, <1>12, <1>13, <1>14 DEF SoundStep, UserOK, Consistent, v

LEMMA ConfirmedTyped ==
  ASSUME NEW u \in UserRow, NEW keys \in [Versions -> KeyState], NEW released \in BOOLEAN,
         NEW proj \in Projections, NEW syn \in 0 .. MaxRevision, NEW csyn \in 0 .. MaxRevision,
         NEW ops \in [Revisions -> Operation]
  PROVE  [u EXCEPT !.cred = keys, !.released = released, !.proj = proj, !.syn = syn, !.csyn = csyn, !.ops = ops]
            \in UserRow
  BY DEF UserRow

\* ConfirmSync, from the facts both its branches share: the newest operation
\* succeeds, and the keys stay sound.
LEMMA ConfirmShape ==
  ASSUME NEW u \in UserRow, Exists(u), UserOK(u), u.ops[u.des].state = "leased",
         NEW keys \in [Versions -> KeyState], NEW released \in BOOLEAN,
         NEW proj \in {"present", "absent"}, NEW csyn \in 0 .. MaxRevision,
         csyn = IF DesiredPresent(u) THEN u.cdes ELSE 0,
         DesiredPresent(u) => keys[u.cdes] = "active",
         u.released => released,
         NEW v, v = [u EXCEPT !.cred = keys, !.released = released, !.proj = proj, !.syn = u.des, !.csyn = csyn,
                              !.ops[u.des] = [@ EXCEPT !.state = "succeeded", !.owner = NoOwner, !.expired = FALSE]],
         KeysSound(v)
  PROVE  SoundStep(u, v)
  <1> DEFINE r == u.des
             op == [u.ops[r] EXCEPT !.state = "succeeded", !.owner = NoOwner, !.expired = FALSE]
             ops == [u.ops EXCEPT ![r] = op]
  <1>1. Consistent(u) /\ QuotaOK(u) /\ u.des \in Int /\ r \in Revisions /\ r \in 0 .. MaxRevision
    BY DEF UserOK, Consistent, LatestOnly, UserRow
  <1>2. u.ops[r] \in Operation
    BY <1>1 DEF UserRow
  <1>3. /\ op \in Operation /\ op.state = "succeeded"
        /\ op.present = u.ops[r].present /\ op.cred = u.ops[r].cred
    BY <1>2 DEF Operation, OpState, OpenStates
  <1>4. ops \in [Revisions -> Operation] /\ ops[r] = op /\ \A s \in Revisions : s # r => ops[s] = u.ops[s]
    <2> HIDE DEF op, r
    <2> QED BY <1>1, <1>3 DEF UserRow
  <1>5. v = [u EXCEPT !.cred = keys, !.released = released, !.proj = proj, !.syn = r, !.csyn = csyn, !.ops = ops]
    BY DEF UserRow
  <1> HIDE DEF ops, op
  <1>6. v \in UserRow
    <2>1. proj \in Projections
      BY DEF Projections
    <2> QED BY ONLY u \in UserRow, keys \in [Versions -> KeyState], released \in BOOLEAN,
                    csyn \in 0 .. MaxRevision, <1>1, <1>4, <1>5, <2>1, ConfirmedTyped
  <1>7. /\ v.life = u.life /\ v.admin = u.admin /\ v.quota = u.quota /\ v.des = u.des /\ v.syn = r
        /\ v.csyn = csyn /\ v.cdes = u.cdes /\ v.cred = keys /\ v.proj = proj /\ v.ops = ops
        /\ v.released = released /\ v.wanted = u.wanted /\ v.limit = u.limit /\ v.used = u.used
    BY <1>5 DEF UserRow
  <1>8. Exists(v) /\ DesiredPresent(v) = DesiredPresent(u)
    BY <1>7 DEF Exists, DesiredPresent
  <1>9. LatestOnly(v)
    BY <1>1, <1>3, <1>4, <1>7 DEF Consistent, LatestOnly
  <1>10. Faithful(v)
    BY <1>1, <1>3, <1>4, <1>7, <1>8 DEF Consistent, Faithful
  <1>11. Honest(v)
    BY <1>1, <1>3, <1>4, <1>7, <1>8 DEF Honest
  <1>12. v.cdes <= v.des
    BY <1>1, <1>7 DEF Consistent
  <1>13. QuotaOK(v)
    BY <1>1, <1>7 DEF QuotaOK
  <1>14. Advance(u, v)
    BY <1>1, <1>7, <1>8 DEF Advance
  <1> QED BY <1>6, <1>8, <1>9, <1>10, <1>11, <1>12, <1>13, <1>14 DEF SoundStep, UserOK, Consistent

\* The desired key becomes the only usable one.
LEMMA ConfirmedPresentSound ==
  ASSUME NEW u \in UserRow, Exists(u), UserOK(u), u.ops[u.des].state = "leased", DesiredPresent(u)
  PROVE  SoundStep(u, ConfirmedPresent(u, u.des, u.cdes))
  <1> DEFINE keys == [x \in Versions |->
                        IF x < u.cdes /\ u.cred[x] # "none" THEN "destroyed"
                        ELSE IF x = u.cdes /\ u.cred[x] = "pending" THEN "active" ELSE u.cred[x]]
             v == ConfirmedPresent(u, u.des, u.cdes)
             released == u.released
  <1>1. KeysSound(u) /\ u.cdes \in Versions /\ u.cdes \in Int /\ u.cdes \in 0 .. MaxRevision
        /\ u.life = "active" /\ ~u.released
    BY DEF UserOK, Consistent, KeysSound, UserRow, DesiredPresent
  <1>2. \A x \in Versions : x \in Int /\ u.cred[x] \in KeyState
    <2>1. \A x \in Versions : x \in Int BY DEF Versions
    <2>2. \A x \in Versions : u.cred[x] \in KeyState BY DEF UserRow
    <2> QED BY <2>1, <2>2
  <1>3. keys \in [Versions -> KeyState]
    BY <1>2 DEF KeyState
  <1>4. keys[u.cdes] = "active"
    BY <1>1 DEF KeysSound
  <1>5. \A x \in Versions : x < u.cdes => keys[x] = "destroyed"
    BY <1>1, <1>2 DEF KeysSound
  <1>6. \A x \in Versions : x > u.cdes => keys[x] = "none"
    BY <1>1, <1>2 DEF KeysSound
  <1>7. v = [u EXCEPT !.cred = keys, !.released = released, !.proj = "present", !.syn = u.des, !.csyn = u.cdes,
                      !.ops[u.des] = [@ EXCEPT !.state = "succeeded", !.owner = NoOwner, !.expired = FALSE]]
    BY ZenonT(60) DEF ConfirmedPresent, UserRow
  <1>8. released \in BOOLEAN
    BY DEF UserRow
  <1> HIDE DEF keys, v
  <1>9. v.life = u.life /\ v.cdes = u.cdes /\ v.cred = keys /\ v.released = u.released
    BY <1>7 DEF UserRow
  <1>10. KeysSound(v)
    BY <1>1, <1>4, <1>5, <1>6, <1>9 DEF KeysSound
  <1>11. SoundStep(u, v)
    <2> HIDE DEF released
    <2>1. u.released => released
      BY DEF released
    <2> QED BY <1>1, <1>3, <1>4, <1>7, <1>8, <1>10, <2>1, ConfirmShape
  <1> QED BY <1>11 DEF v

\* A disabled user keeps its keys; a deleted one loses them and its port.
LEMMA ConfirmedAbsentSound ==
  ASSUME NEW u \in UserRow, Exists(u), UserOK(u), u.ops[u.des].state = "leased", ~DesiredPresent(u)
  PROVE  SoundStep(u, ConfirmedAbsent(u, u.des))
  <1> DEFINE keys == [x \in Versions |->
                        IF u.life = "deleted" /\ u.cred[x] # "none" THEN "destroyed" ELSE u.cred[x]]
             v == ConfirmedAbsent(u, u.des)
             released == u.released \/ u.life = "deleted"
  <1>1. KeysSound(u) /\ u.cdes \in Versions /\ u.cdes \in Int /\ u.released \in BOOLEAN
    BY DEF UserOK, Consistent, KeysSound, UserRow
  <1>2. \A x \in Versions : x \in Int /\ u.cred[x] \in KeyState
    <2>1. \A x \in Versions : x \in Int BY DEF Versions
    <2>2. \A x \in Versions : u.cred[x] \in KeyState BY DEF UserRow
    <2> QED BY <2>1, <2>2
  <1>3. keys \in [Versions -> KeyState] /\ 0 \in 0 .. MaxRevision
    BY <1>2, BoundAssumption DEF KeyState
  <1>4. \A x \in Versions : keys[x] = IF u.life = "deleted" /\ u.cred[x] # "none" THEN "destroyed" ELSE u.cred[x]
    OBVIOUS
  <1>5. v = [u EXCEPT !.cred = keys, !.released = released, !.proj = "absent", !.syn = u.des, !.csyn = 0,
                      !.ops[u.des] = [@ EXCEPT !.state = "succeeded", !.owner = NoOwner, !.expired = FALSE]]
    BY DEF ConfirmedAbsent
  <1>6. released \in BOOLEAN /\ (u.released => released) /\ (u.life = "deleted" => released)
        /\ (u.life # "deleted" => released = u.released)
    BY <1>1
  <1> HIDE DEF keys, v, released
  <1>7. v.life = u.life /\ v.cdes = u.cdes /\ v.cred = keys /\ v.released = released
    BY <1>5 DEF UserRow
  <1>8. KeysSound(v)
    <2>1. \A x \in Versions : x > v.cdes => v.cred[x] = "none"
      BY <1>1, <1>4, <1>7 DEF KeysSound
    <2>2. CASE u.life = "deleted"
      <3>1. \A x \in Versions : x <= u.cdes => u.cred[x] # "none"
        BY <1>1, <1>2 DEF KeysSound
      <3>2. \A x \in Versions : x <= v.cdes => v.cred[x] = "destroyed"
        BY <2>2, <3>1, <1>4, <1>7
      <3>3. v.cred[v.cdes] = "destroyed" /\ v.released /\ v.life = "deleted"
        BY <2>2, <3>2, <1>1, <1>6, <1>7
      <3> QED BY <2>1, <3>2, <3>3, <1>1, <1>7 DEF KeysSound
    <2>3. CASE u.life # "deleted"
      <3>1. \A x \in Versions : keys[x] = u.cred[x]
        BY <2>3, <1>4
      <3>2. v.released = u.released
        BY <2>3, <1>6, <1>7
      <3> QED BY <2>3, <3>1, <3>2, <1>1, <1>7 DEF KeysSound
    <2> QED BY <2>2, <2>3
  <1>9. SoundStep(u, v)
    BY <1>3, <1>5, <1>6, <1>8, ConfirmShape
  <1> QED BY <1>9 DEF v

----------------------------------------------------------------------------
(* From records to steps.                                                  *)

StepSound ==
    /\ db' \in [Allocs -> UserRow]
    /\ \A a \in Allocs : UserOK(db'[a]) /\ Advance(db[a], db'[a])

ReqKept ==
    /\ req' \in [Handlers -> Request]
    /\ \A h \in Handlers :
        \/ /\ req'[h].kind = req[h].kind /\ req'[h].alloc = req[h].alloc /\ req'[h].des = req[h].des
           /\ req'[h].present = req[h].present /\ req'[h].cred = req[h].cred
        \/ req'[h].kind \in {"idle", "create"}
        \/ /\ req'[h].alloc \in Allocs
           /\ Current(db'[req'[h].alloc], req'[h].des, req'[h].present, req'[h].cred)

SeenKept ==
    /\ seen' \in [Allocs -> Sighting]
    /\ \A a \in Allocs :
        \/ seen'[a].step = "none"
        \/ /\ seen[a].step # "none" /\ seen'[a].des = seen[a].des
           /\ seen'[a].present = seen[a].present /\ seen'[a].cred = seen[a].cred
        \/ Current(db'[a], seen'[a].des, seen'[a].present, seen'[a].cred)

WorkKept ==
    /\ work' \in [Workers -> Work]
    /\ \A w \in Workers :
        \/ work'[w] = work[w]
        \/ work'[w].alloc = NoAlloc
        \/ /\ work'[w].alloc \in Allocs /\ work'[w].rev \in Revisions
           /\ Current(db'[work'[w].alloc], work'[w].rev, work'[w].present,
                      IF work'[w].loaded THEN work'[w].version ELSE db'[work'[w].alloc].cdes)

TargetsKept == targets' \subseteq Allocs /\ \A a \in targets' : a \in targets \/ Exists(db'[a])

LEMMA CurrentKept ==
  ASSUME NEW u \in UserRow, NEW v \in UserRow, Advance(u, v), NEW des \in Int, NEW present, NEW cred,
         Current(u, des, present, cred)
  PROVE  Current(v, des, present, cred)
  BY RowNumbers DEF Advance, Current

\* The invariant survives a step that keeps every part of it.
LEMMA Preserved ==
  IInv /\ StepSound /\ ReqKept /\ SeenKept /\ WorkKept /\ TargetsKept => IInv'
  <1> SUFFICES ASSUME IInv, StepSound, ReqKept, SeenKept, WorkKept, TargetsKept PROVE IInv'
    OBVIOUS
  <1>1. TypeOK'
    BY DEF StepSound, ReqKept, SeenKept, WorkKept, TargetsKept, TypeOK
  <1>2. \A a \in Allocs : UserOK(db'[a])
    BY DEF StepSound
  <1>3. WorkNamed' /\ RequestNamed' /\ TargetsExist'
    <2>1. WorkNamed'
      BY DEF IInv, WorkNamed, WorkKept
    <2>2. RequestNamed'
      BY DEF IInv, RequestNamed, ReqKept
    <2>3. TargetsExist'
      BY DEF IInv, TypeOK, TargetsExist, TargetsKept, StepSound, Advance
    <2> QED BY <2>1, <2>2, <2>3
  <1>4. \A a \in Allocs : db[a] \in UserRow /\ db'[a] \in UserRow /\ Advance(db[a], db'[a])
    BY DEF IInv, TypeOK, StepSound
  <1>5. ASSUME NEW h \in Handlers, req'[h].kind \in {"port_change", "rotate", "delete", "reset"}
        PROVE  Current(db'[req'[h].alloc], req'[h].des, req'[h].present, req'[h].cred)
    <2>1. CASE /\ req'[h].kind = req[h].kind /\ req'[h].alloc = req[h].alloc /\ req'[h].des = req[h].des
               /\ req'[h].present = req[h].present /\ req'[h].cred = req[h].cred
      <3>1. req[h].alloc \in Allocs /\ req[h].des \in Int
        BY <1>5, <2>1 DEF IInv, RequestNamed, TypeOK, Request
      <3>2. Current(db[req[h].alloc], req[h].des, req[h].present, req[h].cred)
        BY <1>5, <2>1 DEF IInv, SnapshotsCurrent
      <3> QED BY <1>4, <2>1, <3>1, <3>2, CurrentKept
    <2> QED BY <1>5, <2>1 DEF ReqKept
  <1>6. ASSUME NEW a \in Allocs, seen'[a].step # "none"
        PROVE  Current(db'[a], seen'[a].des, seen'[a].present, seen'[a].cred)
    <2>1. CASE /\ seen[a].step # "none" /\ seen'[a].des = seen[a].des
               /\ seen'[a].present = seen[a].present /\ seen'[a].cred = seen[a].cred
      <3>1. seen[a].des \in Int
        BY DEF IInv, TypeOK, Sighting
      <3>2. Current(db[a], seen[a].des, seen[a].present, seen[a].cred)
        BY <2>1 DEF IInv, SnapshotsCurrent
      <3> QED BY <1>4, <2>1, <3>1, <3>2, CurrentKept
    <2> QED BY <1>6, <2>1 DEF SeenKept
  <1>7. ASSUME NEW w \in Workers, work'[w].alloc # NoAlloc
        PROVE  Current(db'[work'[w].alloc], work'[w].rev, work'[w].present,
                       IF work'[w].loaded THEN work'[w].version ELSE db'[work'[w].alloc].cdes)
    <2>1. CASE work'[w] = work[w]
      <3> DEFINE a == work[w].alloc
      <3>1. a \in Allocs /\ work[w].rev \in Int
        BY <1>7, <2>1 DEF IInv, WorkNamed, Revisions
      <3>2. Current(db[a], work[w].rev, work[w].present, IF work[w].loaded THEN work[w].version ELSE db[a].cdes)
        BY <1>7, <2>1 DEF IInv, SnapshotsCurrent
      <3>3. CASE work[w].loaded
        BY <1>4, <2>1, <3>1, <3>2, <3>3, CurrentKept
      <3>4. CASE ~work[w].loaded
        <4>1. Current(db'[a], work[w].rev, work[w].present, db[a].cdes)
          BY <1>4, <3>1, <3>2, <3>4, CurrentKept
        <4> QED BY <2>1, <3>4, <4>1 DEF Current
      <3> QED BY <3>3, <3>4
    <2> QED BY <1>7, <2>1 DEF WorkKept
  <1>8. SnapshotsCurrent'
    BY <1>5, <1>6, <1>7 DEF SnapshotsCurrent
  <1> QED BY <1>1, <1>2, <1>3, <1>8 DEF IInv

\* A transaction on one user.
LEMMA OneUserStep ==
  ASSUME IInv, NEW a \in Allocs, NEW v, SoundStep(db[a], v), db' = [db EXCEPT ![a] = v]
  PROVE  StepSound
  <1>1. \A b \in Allocs : db'[b] = IF b = a THEN v ELSE db[b]
    BY DEF IInv, TypeOK
  <1>2. \A b \in Allocs : db[b] \in UserRow /\ UserOK(db[b])
    BY DEF IInv, TypeOK
  <1>3. \A b \in Allocs : Advance(db[b], db[b])
    BY <1>2, RowNumbers DEF Advance
  <1>4. db' \in [Allocs -> UserRow]
    BY DEF IInv, TypeOK, SoundStep
  <1> QED BY <1>1, <1>2, <1>3, <1>4 DEF StepSound, SoundStep

LEMMA NoUserStep ==
  ASSUME IInv, UNCHANGED db
  PROVE  StepSound
  <1>2. \A b \in Allocs : db[b] \in UserRow /\ UserOK(db[b])
    BY DEF IInv, TypeOK
  <1>3. \A b \in Allocs : Advance(db[b], db[b])
    BY <1>2, RowNumbers DEF Advance
  <1> QED BY <1>2, <1>3 DEF StepSound, IInv, TypeOK

LEMMA Keeps ==
  ASSUME IInv
  PROVE  /\ UNCHANGED req => ReqKept
         /\ UNCHANGED seen => SeenKept
         /\ UNCHANGED work => WorkKept
         /\ UNCHANGED targets => TargetsKept
  BY DEF IInv, TypeOK, ReqKept, SeenKept, WorkKept, TargetsKept

----------------------------------------------------------------------------
(* The initial state.                                                      *)

LEMMA NothingTyped ==
  /\ NoRequest \in Request /\ NoRequest.kind = "idle"
  /\ NoSighting \in Sighting /\ NoSighting.step = "none"
  /\ NoWork \in Work /\ NoWork.alloc = NoAlloc
  <1>1. NoRequest \in Request /\ NoRequest.kind = "idle"
    BY BoundAssumption DEF NoRequest, Request, Kinds
  <1>2. NoSighting \in Sighting /\ NoSighting.step = "none"
    BY BoundAssumption DEF NoSighting, Sighting
  <1>3. NoWork \in Work /\ NoWork.alloc = NoAlloc
    BY BoundAssumption DEF NoWork, Work
  <1> QED BY <1>1, <1>2, <1>3

LEMMA InitSound == Init => IInv
  <1> SUFFICES ASSUME Init PROVE IInv
    OBVIOUS
  <1>1. TypeOK
    BY NoUserTyped, NothingTyped DEF Init, TypeOK
  <1>2. \A a \in Allocs : UserOK(db[a])
    BY NoUserTyped DEF Init, UserOK
  <1>3. WorkNamed /\ RequestNamed /\ TargetsExist
    BY NothingTyped DEF Init, WorkNamed, RequestNamed, TargetsExist
  <1>4. SnapshotsCurrent
    BY NothingTyped DEF Init, SnapshotsCurrent
  <1> QED BY <1>1, <1>2, <1>3, <1>4 DEF IInv

----------------------------------------------------------------------------
(* The actions.                                                            *)

\* The operation a new user starts with is its first and newest intent.
LEMMA NewUserSound ==
  ASSUME NEW u, ~Exists(u), NEW p \in Ports \cup {0}, NEW limit \in Limits \cup {0}
  PROVE  SoundStep(u, NewUser(p, limit))
  <1> DEFINE v == NewUser(p, limit)
             op == NewOperation(TRUE, 1, "create")
             keys == [NoUser.cred EXCEPT ![1] = "pending"]
             ops == [NoUser.ops EXCEPT ![1] = op]
  <1>1. 1 \in Revisions /\ 1 \in Versions /\ 1 \in 0 .. MaxRevision /\ limit \in Nat
        /\ \A r \in Revisions : r \in Int /\ r >= 1
    BY BoundAssumption, LimitsAssumption DEF Revisions, Versions
  <1>2. v = [NoUser EXCEPT !.life = "active", !.admin = TRUE, !.limit = limit,
                   !.des = 1, !.cdes = 1, !.cred = keys, !.port = p,
                   !.wanted = TRUE, !.ops = ops]
    BY DEF NewUser, NoUser
  <1>3. op \in Operation /\ op.state = "pending" /\ op.present = TRUE /\ op.cred = 1
    BY <1>1 DEF NewOperation, Operation, OpState, OpenStates, Reasons
  <1>4. keys \in [Versions -> KeyState] /\ keys[1] = "pending"
        /\ \A x \in Versions : x # 1 => keys[x] = "none"
    BY <1>1 DEF NoUser, KeyState
  <1>5. NoOperation \in Operation /\ NoOperation.state = "none"
    BY BoundAssumption DEF NoOperation, Operation, OpState
  <1>6. ops \in [Revisions -> Operation] /\ ops[1] = op
        /\ \A r \in Revisions : r # 1 => ops[r].state = "none"
    <2> HIDE DEF op
    <2> QED BY <1>1, <1>3, <1>5 DEF NoUser
  <1> HIDE DEF v, op, keys, ops
  <1>7. v \in UserRow
    BY <1>1, <1>2, <1>4, <1>6, NoUserTyped DEF UserRow
  <1>8. /\ v.life = "active" /\ v.admin = TRUE /\ v.quota = "within_limit" /\ v.limit = limit
        /\ v.used = 0 /\ v.des = 1 /\ v.syn = 0 /\ v.proj = "pending" /\ v.cdes = 1
        /\ v.cred = keys /\ v.released = FALSE /\ v.wanted = TRUE /\ v.ops = ops
    BY <1>2 DEF NoUser
  <1>9. Exists(v) /\ DesiredPresent(v)
    BY <1>8 DEF Exists, DesiredPresent
  <1>10. LatestOnly(v)
    BY <1>1, <1>3, <1>6, <1>8 DEF LatestOnly
  <1>11. Faithful(v) /\ Honest(v)
    <2>1. v.ops[v.des].present = TRUE /\ v.ops[v.des].cred = 1 /\ v.ops[v.des].state = "pending"
      BY <1>3, <1>6, <1>8
    <2>2. DesiredPresent(v) = TRUE
      BY <1>8 DEF DesiredPresent
    <2>3. Faithful(v)
      BY <2>1, <2>2, <1>8 DEF Faithful
    <2>4. Honest(v)
      BY <2>1, <1>8 DEF Honest
    <2> QED BY <2>3, <2>4
  <1>12. KeysSound(v)
    BY <1>1, <1>4, <1>8 DEF KeysSound, Versions, Revisions
  <1>13. QuotaOK(v)
    BY <1>1, <1>8 DEF QuotaOK, IsQuotaExceeded
  <1>14. Consistent(v)
    BY <1>8, <1>10, <1>11, <1>12 DEF Consistent
  <1>15. SoundStep(u, v)
    BY <1>7, <1>9, <1>13, <1>14 DEF SoundStep, UserOK, Advance
  <1> QED BY <1>15 DEF v

\* A handler that has answered holds nothing.
LEMMA FinishKeeps ==
  ASSUME IInv, NEW h \in Handlers, Finish(h)
  PROVE  ReqKept
  BY NothingTyped DEF IInv, TypeOK, Finish, ReqKept

LEMMA BeginKeeps ==
  ASSUME IInv, NEW h \in Handlers, NEW a \in Allocs, NEW kind \in Kinds, NEW p \in Ports \cup {0},
         Begin(h, kind, a, p)
  PROVE  IInv'
  <1> DEFINE q == Snapshot(kind, a, p)
  <1>1. db[a] \in UserRow /\ Exists(db[a]) /\ db'[a] = db[a]
    BY DEF IInv, TypeOK, Begin, Exists
  <1>2. q \in Request
    BY <1>1 DEF Snapshot, Request, UserRow, DesiredPresent
  <1>3. Current(db[a], q.des, q.present, q.cred) /\ q.alloc = a
    <2>1. q.des = db[a].des /\ q.present = DesiredPresent(db[a]) /\ q.cred = db[a].cdes /\ q.alloc = a
      BY DEF Snapshot
    <2> QED BY <1>1, <2>1, RowNumbers DEF Current
  <1>4. req' = [req EXCEPT ![h] = q]
    BY DEF Begin
  <1> HIDE DEF q
  <1>5. ReqKept
    BY <1>1, <1>2, <1>3, <1>4 DEF ReqKept, IInv, TypeOK
  <1>6. UNCHANGED db /\ UNCHANGED seen /\ UNCHANGED work /\ UNCHANGED targets
    BY DEF Begin
  <1> QED BY <1>5, <1>6, NoUserStep, Keeps, Preserved

\* A request whose revision check passed was built from current facts.
LEMMA AcceptedRequest ==
  ASSUME IInv, NEW h \in Handlers, req[h].kind \in {"port_change", "rotate", "delete", "reset"}
  PROVE  /\ req[h] \in Request /\ req[h].alloc \in Allocs
         /\ db[req[h].alloc] \in UserRow /\ UserOK(db[req[h].alloc]) /\ Exists(db[req[h].alloc])
         /\ Current(db[req[h].alloc], req[h].des, req[h].present, req[h].cred)
  <1>1. req[h] \in Request /\ req[h].alloc \in Allocs
        /\ Current(db[req[h].alloc], req[h].des, req[h].present, req[h].cred)
    BY DEF IInv, TypeOK, RequestNamed, SnapshotsCurrent
  <1> QED BY <1>1 DEF IInv, TypeOK, Current

\* A committed request: one user's rows and the handler's own state.
LEMMA HandlerCommit ==
  ASSUME IInv, NEW h \in Handlers, NEW a \in Allocs, NEW v, SoundStep(db[a], v),
         db' = [db EXCEPT ![a] = v], Finish(h), UNCHANGED <<seen, work, targets>>
  PROVE  IInv'
  BY OneUserStep, FinishKeeps, Keeps, Preserved

\* Settling a cycle takes one revision at most.
LEMMA SettledFits ==
  ASSUME NEW u \in UserRow, Exists(u), UserOK(u), Fits(u, Settled(u))
  PROVE  SoundStep(u, Settled(u))
  <1>1. Settled(u).des \in {u.des, u.des + 1}
    BY SettledFrame
  <1>2. Settled(u).des \in Revisions
    BY <1>1, FitsBound
  <1> QED BY <1>2, SettledSound

LEMMA CommitCreateSound ==
  ASSUME IInv, NEW h \in Handlers, NEW a \in Allocs, NEW limit \in Limits \cup {0}, CommitCreate(h, a, limit)
  PROVE  IInv'
  <1> DEFINE v == NewUser(req[h].port, limit)
  <1>1. req[h].port \in Ports \cup {0}
    BY DEF IInv, TypeOK, Request
  <1>2. SoundStep(db[a], v)
    BY <1>1, NewUserSound DEF CommitCreate
  <1>3. db' = [db EXCEPT ![a] = v] /\ Finish(h) /\ UNCHANGED <<seen, work, targets>>
    BY DEF CommitCreate
  <1> HIDE DEF v
  <1> QED BY <1>2, <1>3, HandlerCommit

LEMMA HandlerStepSound ==
  ASSUME IInv, NEW h \in Handlers, HandlerStep(h)
  PROVE  IInv'
  <1>1. ASSUME NEW p \in Ports, NEW explicit \in BOOLEAN, BeginCreate(h, p, explicit) PROVE IInv'
    <2> DEFINE q == [NoRequest EXCEPT !.kind = "create", !.port = p]
    <2>1. q \in Request /\ q.kind = "create"
      BY NothingTyped DEF Request, Kinds, NoRequest
    <2>2. req' = [req EXCEPT ![h] = q]
      BY <1>1 DEF BeginCreate
    <2> HIDE DEF q
    <2>3. ReqKept
      BY <2>1, <2>2 DEF ReqKept, IInv, TypeOK
    <2> QED BY <1>1, <2>3, NoUserStep, Keeps, Preserved DEF BeginCreate
  <1>2. ASSUME NEW a \in Allocs, NEW limit \in Limits, CommitCreate(h, a, limit) PROVE IInv'
    BY <1>2, CommitCreateSound
  <1>3. ASSUME NEW a \in Allocs, NEW p \in Ports, BeginChangePort(h, a, p) PROVE IInv'
    BY <1>3, BeginKeeps DEF BeginChangePort, Kinds
  <1>4. ASSUME NEW a \in Allocs, BeginRotate(h, a) PROVE IInv'
    BY <1>4, BeginKeeps DEF BeginRotate, Kinds
  <1>5. ASSUME NEW a \in Allocs, BeginDelete(h, a) PROVE IInv'
    BY <1>5, BeginKeeps DEF BeginDelete, Kinds
  <1>6. ASSUME NEW a \in Allocs, BeginReset(h, a) PROVE IInv'
    BY <1>6, BeginKeeps DEF BeginReset, Kinds
  <1>7. CASE CommitChangePort(h)
    <2> DEFINE q == req[h]
               a == q.alloc
               v == ChangedPort(db[a], q)
    <2>1. q \in Request /\ a \in Allocs /\ db[a] \in UserRow /\ UserOK(db[a])
          /\ Current(db[a], q.des, q.present, q.cred)
      BY <1>7, AcceptedRequest DEF CommitChangePort
    <2>2. SoundStep(db[a], v)
      BY <1>7, <2>1, ChangedPortSound DEF CommitChangePort
    <2>3. db' = [db EXCEPT ![a] = v] /\ Finish(h) /\ UNCHANGED <<seen, work, targets>>
      BY <1>7 DEF CommitChangePort
    <2> HIDE DEF q, a, v
    <2> QED BY <2>1, <2>2, <2>3, HandlerCommit
  <1>8. CASE CommitRotate(h)
    <2> DEFINE q == req[h]
               a == q.alloc
               v == Rotated(db[a], q)
    <2>1. q \in Request /\ a \in Allocs /\ db[a] \in UserRow /\ UserOK(db[a])
          /\ Current(db[a], q.des, q.present, q.cred)
      BY <1>8, AcceptedRequest DEF CommitRotate
    <2>2. SoundStep(db[a], v)
      BY <1>8, <2>1, RotatedSound DEF CommitRotate
    <2>3. db' = [db EXCEPT ![a] = v] /\ Finish(h) /\ UNCHANGED <<seen, work, targets>>
      BY <1>8 DEF CommitRotate
    <2> HIDE DEF q, a, v
    <2> QED BY <2>1, <2>2, <2>3, HandlerCommit
  <1>9. CASE CommitDelete(h)
    <2> DEFINE q == req[h]
               a == q.alloc
               v == SoftDeleted(db[a], q)
    <2>1. q \in Request /\ a \in Allocs /\ db[a] \in UserRow /\ UserOK(db[a])
          /\ Current(db[a], q.des, q.present, q.cred)
      BY <1>9, AcceptedRequest DEF CommitDelete
    <2>2. SoundStep(db[a], v)
      BY <1>9, <2>1, SoftDeletedSound DEF CommitDelete
    <2>3. db' = [db EXCEPT ![a] = v] /\ Finish(h) /\ UNCHANGED <<seen, work, targets>>
      BY <1>9 DEF CommitDelete
    <2> HIDE DEF q, a, v
    <2> QED BY <2>1, <2>2, <2>3, HandlerCommit
  <1>10. CASE CommitReset(h)
    <2> DEFINE a == req[h].alloc
               v == Settled(db[a])
    <2>1. a \in Allocs /\ db[a] \in UserRow /\ UserOK(db[a]) /\ Exists(db[a])
      BY <1>10, AcceptedRequest DEF CommitReset
    <2>2. SoundStep(db[a], v)
      BY <1>10, <2>1, SettledFits DEF CommitReset
    <2>3. db' = [db EXCEPT ![a] = v] /\ Finish(h) /\ UNCHANGED <<seen, work, targets>>
      BY <1>10 DEF CommitReset
    <2> HIDE DEF a, v
    <2> QED BY <2>1, <2>2, <2>3, HandlerCommit
  <1>11. CASE RejectRequest(h)
    <2>1. ReqKept
      BY <1>11, FinishKeeps DEF RejectRequest
    <2> QED BY <1>11, <2>1, NoUserStep, Keeps, Preserved DEF RejectRequest
  <1> QED BY <1>1, <1>2, <1>3, <1>4, <1>5, <1>6, <1>7, <1>8, <1>9, <1>10, <1>11 DEF HandlerStep

\* A policy update takes one revision at most.
LEMMA UpdatedRevision ==
  ASSUME NEW u \in UserRow, u.urev < MaxUserRevision, NEW admin \in BOOLEAN, NEW limit \in Limits \cup {0}
  PROVE  Updated(u, admin, limit).des \in {u.des, u.des + 1}
  <1> DEFINE w == [u EXCEPT !.urev = u.urev + 1, !.limit = limit]
             over == IsQuotaExceeded(limit, u.used)
  <1>1. w \in UserRow /\ w.des = u.des
    <2>1. u.urev + 1 \in 0 .. MaxUserRevision /\ limit \in Limits \cup {0}
      BY BoundAssumption DEF UserRow
    <2> QED BY <2>1 DEF UserRow
  <1>2. over \in BOOLEAN
    BY DEF IsQuotaExceeded
  <1>3. Updated(u, admin, limit) = ApplyDecision(w, admin, over)
    BY DEF Updated
  <1> HIDE DEF w, over
  <1> QED BY <1>1, <1>2, <1>3, DecisionRevision

\* A transaction that touches one user and no actor's own state.
LEMMA PlainCommit ==
  ASSUME IInv, NEW a \in Allocs, NEW v, SoundStep(db[a], v),
         db' = [db EXCEPT ![a] = v], UNCHANGED <<req, seen, work, targets>>
  PROVE  IInv'
  BY OneUserStep, Keeps, Preserved

LEMMA UpdateUserSound ==
  ASSUME IInv, NEW a \in Allocs, NEW admin \in BOOLEAN, NEW limit \in Limits \cup {0},
         UpdateUser(a, admin, limit)
  PROVE  IInv' /\ SoundStep(db[a], db'[a])
  <1> DEFINE v == Updated(db[a], admin, limit)
             u == db[a]
  <1>1. u \in UserRow /\ UserOK(u) /\ Exists(u) /\ u.urev < MaxUserRevision /\ Fits(u, v)
    BY DEF UpdateUser, Exists, IInv, TypeOK
  <1>2. v.des \in {u.des, u.des + 1}
    BY <1>1, UpdatedRevision
  <1>3. v.des \in Revisions
    <2> HIDE DEF v
    <2> QED BY <1>1, <1>2, FitsBound
  <1>4. SoundStep(u, v)
    BY <1>1, <1>3, UpdatedSound
  <1>5. db' = [db EXCEPT ![a] = v] /\ UNCHANGED <<req, seen, work, targets>> /\ db \in [Allocs -> UserRow]
    BY DEF UpdateUser, IInv, TypeOK
  <1> HIDE DEF v
  <1> QED BY <1>4, <1>5, PlainCommit

LEMMA CloseKeeps ==
  ASSUME IInv, NEW users, CloseCycles(users)
  PROVE  ReqKept
  <1>1. \A h \in Handlers : req[h] \in Request
    BY DEF IInv, TypeOK
  <1>2. \A q \in Request : LET x == [q EXCEPT !.open = FALSE] IN
          /\ x \in Request /\ x.kind = q.kind /\ x.alloc = q.alloc /\ x.des = q.des
          /\ x.present = q.present /\ x.cred = q.cred
    BY DEF Request
  <1>3. \A h \in Handlers : req'[h] = IF req[h].kind = "reset" /\ req[h].alloc \in users
                                      THEN [req[h] EXCEPT !.open = FALSE] ELSE req[h]
    BY DEF CloseCycles
  <1>4. req' \in [Handlers -> Request]
    BY <1>1, <1>2 DEF CloseCycles
  <1> QED BY <1>1, <1>2, <1>3, <1>4, ZenonT(60) DEF ReqKept

LEMMA QuotaStepSound ==
  ASSUME IInv, QuotaStep
  PROVE  IInv'
  <1> USE DEF QuotaStep
  <1>0. \A a \in Allocs : db[a] \in UserRow /\ UserOK(db[a])
    BY DEF IInv, TypeOK
  <1>1. ASSUME NEW a \in Allocs, NEW admin \in BOOLEAN, NEW limit \in Limits, UpdateUser(a, admin, limit)
        PROVE  IInv'
    BY <1>1, UpdateUserSound
  <1>2. ASSUME NEW a \in Allocs, RolloverCycle(a) PROVE IInv'
    <2> DEFINE v == Settled(db[a])
    <2>1. SoundStep(db[a], v)
      BY <1>0, <1>2, SettledFits DEF RolloverCycle
    <2>2. db' = [db EXCEPT ![a] = v] /\ CloseCycles({a}) /\ UNCHANGED <<seen, work, targets>>
      BY <1>2 DEF RolloverCycle
    <2> HIDE DEF v
    <2> QED BY <2>1, <2>2, OneUserStep, CloseKeeps, Keeps, Preserved
  <1>3. CASE CollectTargets
    <2>1. UNCHANGED db /\ UNCHANGED req /\ UNCHANGED seen /\ UNCHANGED work
      BY <1>3 DEF CollectTargets
    <2>2. TargetsKept
      BY <1>3 DEF CollectTargets, TargetsKept, Exists
    <2> QED BY <2>1, <2>2, NoUserStep, Keeps, Preserved
  <1>4. ASSUME NEW ended \in SUBSET targets, NEW delta \in [targets -> 0 .. MaxUsage],
               CommitTrafficBatch(ended, delta)
        PROVE  IInv'
    <2>1. ASSUME NEW a \in targets
          PROVE  /\ Metered(db[a], a \in ended, delta[a]) \in UserRow
                 /\ UserOK(Metered(db[a], a \in ended, delta[a]))
                 /\ Advance(db[a], Metered(db[a], a \in ended, delta[a]))
      <3> DEFINE over == a \in ended
                 d == delta[a]
                 u == db[a]
      <3>1. a \in Allocs /\ u \in UserRow /\ UserOK(u) /\ Exists(u)
        BY <1>0 DEF IInv, TypeOK, TargetsExist
      <3>2. over \in BOOLEAN /\ d \in Nat
        BY UsageAssumption
      <3>3. /\ (IF over THEN 0 ELSE u.used) + d <= MaxUsage
            /\ over => Fits(u, Settled(u))
            /\ Fits(u, Metered(u, over, d))
        BY <1>4, <3>1 DEF CommitTrafficBatch
      <3> HIDE DEF over, d, u
      <3>4. SoundStep(u, Metered(u, over, d))
        BY <3>1, <3>2, <3>3, MeteredSound
      <3> QED BY <3>4 DEF SoundStep, over, d, u
    <2>2. db' = [a \in Allocs |-> IF a \in targets THEN Metered(db[a], a \in ended, delta[a]) ELSE db[a]]
      BY <1>4 DEF CommitTrafficBatch
    <2>3. \A a \in Allocs : Advance(db[a], db[a])
      BY <1>0, RowNumbers DEF Advance
    <2>4. \A a \in Allocs : db'[a] \in UserRow /\ UserOK(db'[a]) /\ Advance(db[a], db'[a])
      BY <1>0, <2>1, <2>2, <2>3
    <2>5. db' \in [Allocs -> UserRow]
      BY <2>2, <2>4
    <2>6. StepSound
      BY <2>4, <2>5 DEF StepSound
    <2>7. TargetsKept /\ CloseCycles(ended) /\ UNCHANGED seen /\ UNCHANGED work
      BY <1>4 DEF CommitTrafficBatch, TargetsKept
    <2> QED BY <2>6, <2>7, CloseKeeps, Keeps, Preserved
  <1>5. CASE DropBatch
    <2>1. TargetsKept /\ UNCHANGED db /\ UNCHANGED req /\ UNCHANGED seen /\ UNCHANGED work
      BY <1>5 DEF DropBatch, TargetsKept
    <2> QED BY <2>1, NoUserStep, Keeps, Preserved
  <1> QED BY <1>1, <1>2, <1>3, <1>4, <1>5

\* A round of the reconciler ends for one user.
LEMMA SeenForgets ==
  ASSUME IInv, NEW a \in Allocs, seen' = [seen EXCEPT ![a] = NoSighting]
  PROVE  SeenKept
  <1>1. \A b \in Allocs : seen[b] \in Sighting
    BY DEF IInv, TypeOK
  <1>2. seen' \in [Allocs -> Sighting]
    BY NothingTyped DEF IInv, TypeOK
  <1>3. \A b \in Allocs : seen'[b] = IF b = a THEN NoSighting ELSE seen[b]
    BY DEF IInv, TypeOK
  <1> QED BY <1>1, <1>2, <1>3, NothingTyped DEF SeenKept

LEMMA ReconcileStepSound ==
  ASSUME IInv, ReconcileStep
  PROVE  IInv'
  <1>0. \A a \in Allocs : db[a] \in UserRow /\ UserOK(db[a]) /\ seen[a] \in Sighting
    BY DEF IInv, TypeOK
  <1>1. CASE ReadForReconcile
    <2>1. UNCHANGED db /\ UNCHANGED req /\ UNCHANGED work /\ UNCHANGED targets
      BY <1>1 DEF ReadForReconcile
    <2> DEFINE s(a) == [step |-> "listed", des |-> db[a].des, present |-> DesiredPresent(db[a]),
                        cred |-> db[a].cdes, settled |-> ~PendingSync(db[a])]
    <2>2. seen' = [a \in Allocs |-> IF Exists(db[a]) THEN s(a) ELSE NoSighting]
      BY <1>1 DEF ReadForReconcile
    <2>3. ASSUME NEW a \in Allocs, Exists(db[a])
          PROVE  s(a) \in Sighting /\ Current(db[a], s(a).des, s(a).present, s(a).cred)
      <3>1. db[a].des \in 0 .. MaxRevision /\ db[a].cdes \in 0 .. MaxRevision /\ db[a].des \in Int
        BY <1>0 DEF UserRow
      <3>2. DesiredPresent(db[a]) \in BOOLEAN /\ (~PendingSync(db[a])) \in BOOLEAN
        BY <1>0 DEF DesiredPresent, PendingSync, UserRow
      <3>3. s(a) \in Sighting
        BY <3>1, <3>2 DEF Sighting
      <3> QED BY <2>3, <3>1, <3>3 DEF Current
    <2> HIDE DEF s
    <2>4. \A a \in Allocs : seen'[a] = IF Exists(db[a]) THEN s(a) ELSE NoSighting
      BY <2>2
    <2>5. seen' \in [Allocs -> Sighting]
      BY <2>2, <2>3, NothingTyped
    <2>6. SeenKept
      BY <2>1, <2>3, <2>4, <2>5, NothingTyped DEF SeenKept
    <2> QED BY <2>1, <2>6, NoUserStep, Keeps, Preserved
  <1>2. ASSUME NEW a \in Allocs, NEW actual \in BOOLEAN, RecordObservation(a, actual) PROVE IInv'
    <2> DEFINE v == Observed(db[a], actual)
               s == IF seen[a].settled /\ actual # seen[a].present
                    THEN [seen[a] EXCEPT !.step = "drifted"] ELSE NoSighting
    <2>1. Exists(db[a])
      BY <1>2 DEF RecordObservation, IInv, SnapshotsCurrent, Current
    <2>2. SoundStep(db[a], v)
      BY <1>0, <2>1, ObservedSound
    <2>3. db' = [db EXCEPT ![a] = v] /\ seen' = [seen EXCEPT ![a] = s]
          /\ UNCHANGED req /\ UNCHANGED work /\ UNCHANGED targets /\ seen[a].step # "none"
      BY <1>2 DEF RecordObservation
    <2>4. s \in Sighting /\ \/ s.step = "none"
                            \/ s.des = seen[a].des /\ s.present = seen[a].present /\ s.cred = seen[a].cred
      BY <1>0, NothingTyped DEF Sighting
    <2> HIDE DEF v, s
    <2>5. SeenKept
      <3>1. \A b \in Allocs : seen'[b] = IF b = a THEN s ELSE seen[b]
        BY <2>3 DEF IInv, TypeOK
      <3>2. seen' \in [Allocs -> Sighting]
        BY <2>3, <2>4 DEF IInv, TypeOK
      <3> QED BY <2>3, <2>4, <3>1, <3>2 DEF SeenKept
    <2> QED BY <2>2, <2>3, <2>5, OneUserStep, Keeps, Preserved
  <1>3. ASSUME NEW a \in Allocs, EnqueueReconcile(a) PROVE IInv'
    <2> DEFINE v == CommitIntent(db[a], seen[a].des + 1, seen[a].present, seen[a].cred, "reconcile")
    <2>1. Current(db[a], seen[a].des, seen[a].present, seen[a].cred)
      BY <1>3 DEF EnqueueReconcile, IInv, SnapshotsCurrent
    <2>2. SoundStep(db[a], v)
      BY <1>0, <1>3, <2>1, ReconciledSound DEF EnqueueReconcile
    <2>3. db' = [db EXCEPT ![a] = v] /\ seen' = [seen EXCEPT ![a] = NoSighting]
          /\ UNCHANGED req /\ UNCHANGED work /\ UNCHANGED targets
      BY <1>3 DEF EnqueueReconcile
    <2> HIDE DEF v
    <2> QED BY <2>2, <2>3, SeenForgets, OneUserStep, Keeps, Preserved
  <1>4. ASSUME NEW a \in Allocs, SkipReconcile(a) PROVE IInv'
    BY <1>4, SeenForgets, NoUserStep, Keeps, Preserved DEF SkipReconcile
  <1> QED BY <1>1, <1>2, <1>3, <1>4 DEF ReconcileStep

\* A worker that drops or finishes its operation holds nothing.
LEMMA WorkForgets ==
  ASSUME IInv, NEW w \in Workers, work' = [work EXCEPT ![w] = NoWork]
  PROVE  WorkKept
  <1>1. work' \in [Workers -> Work]
    BY NothingTyped DEF IInv, TypeOK
  <1>2. \A x \in Workers : work'[x] = IF x = w THEN NoWork ELSE work[x]
    BY DEF IInv, TypeOK
  <1> QED BY <1>1, <1>2, NothingTyped DEF WorkKept

\* What a worker that loaded its operation knows.
LEMMA LoadedWork ==
  ASSUME IInv, NEW w \in Workers, work[w].alloc # NoAlloc
  PROVE  /\ work[w].alloc \in Allocs /\ work[w].rev \in Revisions /\ work[w] \in Work
         /\ db[work[w].alloc] \in UserRow /\ UserOK(db[work[w].alloc]) /\ Exists(db[work[w].alloc])
         /\ Current(db[work[w].alloc], work[w].rev, work[w].present,
                    IF work[w].loaded THEN work[w].version ELSE db[work[w].alloc].cdes)
  <1>1. work[w].alloc \in Allocs /\ work[w].rev \in Revisions /\ work[w] \in Work
    BY DEF IInv, WorkNamed, TypeOK
  <1>2. Current(db[work[w].alloc], work[w].rev, work[w].present,
                IF work[w].loaded THEN work[w].version ELSE db[work[w].alloc].cdes)
    BY DEF IInv, SnapshotsCurrent
  <1> QED BY <1>1, <1>2 DEF IInv, TypeOK, Current

\* Whatever a worker finishes with, the rows stay sound: without the lease
\* nothing changes, and with it the operation is the newest intent.
LEMMA FinishSound ==
  ASSUME IInv, NEW w \in Workers, NEW result, FinishLeased(w, result),
         Holds(w) => SoundStep(db[work[w].alloc], result)
  PROVE  IInv'
  <1> DEFINE a == work[w].alloc
             r == work[w].rev
             u == db[a]
             v == IF ~Holds(w) THEN u ELSE IF r # u.des THEN [u EXCEPT !.ops[r] = Closed(u.ops[r])] ELSE result
  <1>1. a # NoAlloc /\ db' = [db EXCEPT ![a] = v] /\ work' = [work EXCEPT ![w] = NoWork]
        /\ UNCHANGED req /\ UNCHANGED seen /\ UNCHANGED targets
    <2>1. a # NoAlloc /\ work' = [work EXCEPT ![w] = NoWork]
          /\ UNCHANGED req /\ UNCHANGED seen /\ UNCHANGED targets
      BY DEF FinishLeased
    <2>2. db' = [db EXCEPT ![a] = v]
      BY DEF FinishLeased
    <2> QED BY <2>1, <2>2
  <1>2. a \in Allocs /\ r \in Revisions /\ u \in UserRow /\ UserOK(u) /\ Exists(u)
    BY <1>1, LoadedWork
  <1>3. Holds(w) => r = u.des
    BY <1>2, OpenIsNewest DEF Holds, OpenStates, UserOK, Consistent
  <1>4. SoundStep(u, u)
    BY <1>2, RowNumbers DEF SoundStep, Advance
  <1>5. SoundStep(u, v)
    BY <1>3, <1>4
  <1> HIDE DEF v, u, r
  <1>6. SoundStep(db[a], v)
    BY <1>5 DEF u
  <1> HIDE DEF a
  <1>7. StepSound
    BY <1>1, <1>2, <1>6, OneUserStep
  <1> QED BY <1>1, <1>7, WorkForgets, Keeps, Preserved

LEMMA WorkerStepSound ==
  ASSUME IInv, NEW w \in Workers, WorkerStep(w)
  PROVE  IInv'
  <1>0. \A a \in Allocs : db[a] \in UserRow /\ UserOK(db[a])
    BY DEF IInv, TypeOK
  <1>1. ASSUME NEW a \in Allocs, NEW r \in Revisions, LeaseDue(w, a, r) PROVE IInv'
    <2> DEFINE u == db[a]
               op == [u.ops[r] EXCEPT !.state = "leased", !.owner = w, !.expired = FALSE]
               v == [u EXCEPT !.ops[r] = op]
               k == [NoWork EXCEPT !.alloc = a, !.rev = r, !.present = u.ops[r].present,
                                   !.reason = u.ops[r].reason]
    <2>1. db' = [db EXCEPT ![a] = v] /\ work' = [work EXCEPT ![w] = k]
          /\ UNCHANGED req /\ UNCHANGED seen /\ UNCHANGED targets
      BY <1>0, <1>1 DEF LeaseDue, IInv, TypeOK, UserRow
    <2>2. u.ops[r].state \in OpenStates /\ u.ops[r] \in Operation
      BY <1>0, <1>1 DEF LeaseDue, Due, OpenStates, UserRow
    <2>3. Exists(u) /\ u \in UserRow /\ UserOK(u)
      BY <1>0, <2>2 DEF UserOK, NoUser, NoOperation, OpenStates
    <2>4. op \in Operation /\ op.state \in OpenStates /\ op.present = u.ops[r].present /\ op.cred = u.ops[r].cred
      BY <2>2 DEF Operation, OpState, OpenStates
    <2>5. r = u.des /\ u.ops[r].present = DesiredPresent(u)
      BY <2>2, <2>3, OpenIsNewest DEF UserOK, Consistent, Faithful
    <2>6. k \in Work /\ k.alloc = a /\ k.rev = r /\ k.present = u.ops[r].present /\ k.loaded = FALSE
      <3>1. u.ops[r].present \in BOOLEAN /\ u.ops[r].reason \in Reasons \cup {"none"} /\ r \in 0 .. MaxRevision
        BY <2>2 DEF Operation, Revisions
      <3> HIDE DEF u
      <3> QED BY <3>1, NothingTyped DEF Work, NoWork
    <2> HIDE DEF op, k
    <2>7. SoundStep(u, v)
      BY <2>2, <2>3, <2>4, StillOpenSound
    <2>8. StepSound
      BY <2>1, <2>7, OneUserStep
    <2>9. DesiredPresent(v) = DesiredPresent(u) /\ v.des = u.des /\ Exists(v)
      BY <2>3 DEF UserRow, DesiredPresent, Exists
    <2>10. db'[a] = v
      BY <2>1 DEF IInv, TypeOK
    <2> HIDE DEF v, u
    <2>11. Current(db'[a], k.rev, k.present, db'[a].cdes)
      BY <2>5, <2>6, <2>9, <2>10 DEF Current, Revisions
    <2>12. WorkKept
      <3>1. work' \in [Workers -> Work]
        BY <2>1, <2>6 DEF IInv, TypeOK
      <3>2. \A x \in Workers : work'[x] = IF x = w THEN k ELSE work[x]
        BY <2>1 DEF IInv, TypeOK
      <3> QED BY <2>6, <2>11, <3>1, <3>2 DEF WorkKept
    <2> QED BY <2>1, <2>8, <2>12, Keeps, Preserved
  <1>2. CASE LoadWork(w)
    <2> DEFINE a == work[w].alloc
               u == db[a]
               k == [work[w] EXCEPT !.loaded = TRUE, !.version = u.cdes, !.port = u.port]
    <2>1. a # NoAlloc /\ ~work[w].loaded /\ work' = [work EXCEPT ![w] = k]
          /\ UNCHANGED db /\ UNCHANGED req /\ UNCHANGED seen /\ UNCHANGED targets
      BY <1>2 DEF LoadWork
    <2>2. a \in Allocs /\ work[w].rev \in Revisions /\ work[w] \in Work /\ u \in UserRow
          /\ Current(u, work[w].rev, work[w].present, u.cdes)
      BY <2>1, LoadedWork
    <2>3. k \in Work /\ k.alloc = a /\ k.rev = work[w].rev /\ k.present = work[w].present
          /\ k.loaded = TRUE /\ k.version = u.cdes
      BY <2>2 DEF Work, UserRow
    <2> HIDE DEF k
    <2>4. WorkKept
      <3>1. work' \in [Workers -> Work]
        BY <2>1, <2>3 DEF IInv, TypeOK
      <3>2. \A x \in Workers : work'[x] = IF x = w THEN k ELSE work[x]
        BY <2>1 DEF IInv, TypeOK
      <3> QED BY <2>1, <2>2, <2>3, <3>1, <3>2 DEF WorkKept
    <2> QED BY <2>1, <2>4, NoUserStep, Keeps, Preserved
  <1>3. CASE RenewSyncLease(w)
    <2> DEFINE a == work[w].alloc
               r == work[w].rev
               u == db[a]
    <2>1. a \in Allocs /\ r \in Revisions /\ u \in UserRow /\ UserOK(u) /\ Exists(u)
      BY <1>3, LoadedWork DEF RenewSyncLease
    <2>2. CASE Holds(w) /\ r = u.des
      <3> DEFINE op == [u.ops[r] EXCEPT !.expired = FALSE]
                 v == [u EXCEPT !.ops[r] = op]
      <3>1. db' = [db EXCEPT ![a] = v] /\ UNCHANGED work
            /\ UNCHANGED req /\ UNCHANGED seen /\ UNCHANGED targets
        BY <1>3, <2>1, <2>2 DEF RenewSyncLease, IInv, TypeOK, UserRow
      <3>2. u.ops[r].state \in OpenStates /\ u.ops[r] \in Operation
        BY <2>1, <2>2 DEF Holds, OpenStates, UserRow
      <3>3. op \in Operation /\ op.state \in OpenStates /\ op.present = u.ops[r].present /\ op.cred = u.ops[r].cred
        BY <3>2 DEF Operation
      <3> HIDE DEF op
      <3>4. SoundStep(u, v)
        BY <2>1, <3>2, <3>3, StillOpenSound
      <3> HIDE DEF v
      <3>5. StepSound
        BY <2>1, <3>1, <3>4, OneUserStep
      <3> QED BY <3>1, <3>5, Keeps, Preserved
    <2>3. CASE ~(Holds(w) /\ r = u.des)
      BY <1>3, <2>3, WorkForgets, NoUserStep, Keeps, Preserved DEF RenewSyncLease
    <2> QED BY <2>2, <2>3
  <1>4. CASE Abandon(w)
    BY <1>4, WorkForgets, NoUserStep, Keeps, Preserved DEF Abandon
  <1>5. CASE ConfirmSync(w)
    <2> DEFINE a == work[w].alloc
               r == work[w].rev
               u == db[a]
    <2>1. a # NoAlloc /\ work[w].loaded /\ FinishLeased(w, Confirmed(u, r, work[w].present, work[w].version))
      BY <1>5 DEF ConfirmSync, FinishLeased
    <2>2. a \in Allocs /\ r \in Revisions /\ u \in UserRow /\ UserOK(u) /\ Exists(u)
          /\ Current(u, r, work[w].present, work[w].version)
      BY <2>1, LoadedWork
    <2>3. ASSUME Holds(w) PROVE SoundStep(u, Confirmed(u, r, work[w].present, work[w].version))
      <3>1. u.ops[r].state = "leased" /\ r = u.des
        BY <2>2, <2>3, OpenIsNewest DEF Holds, OpenStates, UserOK, Consistent
      <3>2. work[w].present = DesiredPresent(u) /\ work[w].version = u.cdes
        BY <2>2, <3>1 DEF Current
      <3>3. CASE DesiredPresent(u)
        BY <2>2, <3>1, <3>2, <3>3, ConfirmedPresentSound DEF Confirmed
      <3>4. CASE ~DesiredPresent(u)
        BY <2>2, <3>1, <3>2, <3>4, ConfirmedAbsentSound DEF Confirmed
      <3> QED BY <3>3, <3>4
    <2> QED BY <2>1, <2>3, FinishSound
  <1>6. ASSUME NEW state \in {"retry_wait", "permanent_failed"},
               FinishLeased(w, Unfinished(db[work[w].alloc], work[w].rev, state))
        PROVE  IInv'
    <2> DEFINE a == work[w].alloc
               r == work[w].rev
               u == db[a]
    <2>1. a \in Allocs /\ r \in Revisions /\ u \in UserRow /\ UserOK(u) /\ Exists(u)
      BY <1>6, LoadedWork DEF FinishLeased
    <2>2. Holds(w) => SoundStep(u, Unfinished(u, r, state))
      BY <2>1, UnfinishedSound DEF Holds
    <2> QED BY <1>6, <2>2, FinishSound
  <1>7. CASE RescheduleSync(w)
    BY <1>6, <1>7 DEF RescheduleSync
  <1>8. CASE FailSync(w)
    BY <1>6, <1>8 DEF FailSync
  <1> QED BY <1>1, <1>2, <1>3, <1>4, <1>5, <1>7, <1>8 DEF WorkerStep

LEMMA LeaseExpiresSound ==
  ASSUME IInv, NEW a \in Allocs, NEW r \in Revisions, LeaseExpires(a, r)
  PROVE  IInv'
  <1> DEFINE u == db[a]
             op == [u.ops[r] EXCEPT !.expired = TRUE]
             v == [u EXCEPT !.ops[r] = op]
  <1>1. u \in UserRow /\ UserOK(u) /\ u.ops[r] \in Operation /\ u.ops[r].state = "leased"
    BY DEF IInv, TypeOK, UserRow, LeaseExpires
  <1>2. Exists(u) /\ u.ops[r].state \in OpenStates
    BY <1>1 DEF UserOK, NoUser, NoOperation, OpenStates
  <1>3. db' = [db EXCEPT ![a] = v] /\ UNCHANGED <<req, seen, work, targets>>
    BY <1>1 DEF LeaseExpires, IInv, TypeOK, UserRow
  <1>4. op \in Operation /\ op.state = u.ops[r].state /\ op.present = u.ops[r].present /\ op.cred = u.ops[r].cred
    BY <1>1 DEF Operation
  <1> HIDE DEF op
  <1>5. SoundStep(u, v)
    BY <1>1, <1>2, <1>4, StillOpenSound
  <1> HIDE DEF v
  <1> QED BY <1>3, <1>5, PlainCommit

\* A restart forgets every actor's state and no row.
LEMMA RestartSound ==
  ASSUME IInv, Restart
  PROVE  IInv'
  <1>1. ReqKept /\ SeenKept /\ WorkKept /\ TargetsKept
    BY NothingTyped DEF Restart, ReqKept, SeenKept, WorkKept, TargetsKept
  <1> QED BY <1>1, NoUserStep, Preserved DEF Restart

LEMMA NextSound == IInv /\ [Next]_vars => IInv'
  <1> SUFFICES ASSUME IInv, [Next]_vars PROVE IInv'
    OBVIOUS
  <1>1. ASSUME NEW h \in Handlers, HandlerStep(h) PROVE IInv'
    BY <1>1, HandlerStepSound
  <1>2. CASE QuotaStep
    BY <1>2, QuotaStepSound
  <1>3. CASE ReconcileStep
    BY <1>3, ReconcileStepSound
  <1>4. ASSUME NEW w \in Workers, WorkerStep(w) PROVE IInv'
    BY <1>4, WorkerStepSound
  <1>5. ASSUME NEW a \in Allocs, NEW r \in Revisions, LeaseExpires(a, r) PROVE IInv'
    BY <1>5, LeaseExpiresSound
  <1>6. CASE Restart
    BY <1>6, RestartSound
  <1>7. CASE UNCHANGED vars
    BY <1>7, NoUserStep, Keeps, Preserved DEF vars
  <1> QED BY <1>1, <1>2, <1>3, <1>4, <1>5, <1>6, <1>7 DEF Next

\* The inductive invariant holds in every reachable state.
THEOREM StoreInvariant == Spec => []IInv
  BY InitSound, NextSound, PTL DEF Spec

----------------------------------------------------------------------------
(* What the store promises.                                                *)

\* Every committed row and every snapshot an actor holds has its type, for
\* every number of users, handlers and workers.
THEOREM TypeCorrect == Spec => []TypeOK
  <1>1. IInv => TypeOK
    BY DEF IInv
  <1> QED BY <1>1, StoreInvariant, PTL

\* LatestIntentOnly: supersedeOlder and insertOperation leave exactly the
\* newest operation of a user open (store_traffic.go, store_sync.go).
THEOREM LatestIntentOnlyHolds == Spec => []LatestIntentOnly
  <1>1. IInv => LatestIntentOnly
    BY DEF IInv, LatestIntentOnly, UserOK, Consistent
  <1> QED BY <1>1, StoreInvariant, PTL

\* IntentMatchesFacts: stale requests, collector rounds and reconciler rounds
\* never leave a newest intent that contradicts the user's rows.
THEOREM IntentMatchesFactsHolds == Spec => []IntentMatchesFacts
  <1>1. IInv => IntentMatchesFacts
    BY DEF IInv, IntentMatchesFacts, UserOK, Consistent
  <1> QED BY <1>1, StoreInvariant, PTL

\* ProjectionHonest: projection_state and synced_revision tell the fate of
\* the newest intent and of no other (ConfirmSync, finishLeased).
THEOREM ProjectionHonestHolds == Spec => []ProjectionHonest
  <1>1. IInv => ProjectionHonest
    BY DEF IInv, ProjectionHonest, UserOK, Consistent
  <1> QED BY <1>1, StoreInvariant, PTL

\* QuotaCurrent: quota_state agrees with the limit and the open cycle.
THEOREM QuotaCurrentHolds == Spec => []QuotaCurrent
  <1>1. IInv => QuotaCurrent
    BY DEF IInv, QuotaCurrent, UserOK
  <1> QED BY <1>1, StoreInvariant, PTL

\* KeysUsable: a live user is never without a usable desired key, and a
\* deleted user's keys end with the release of its port.
THEOREM KeysUsableHolds == Spec => []KeysUsable
  <1>1. IInv => KeysUsable
    BY DEF IInv, KeysUsable, UserOK, Consistent
  <1> QED BY <1>1, StoreInvariant, PTL

\* SnapshotsCurrent: comparing revisions at commit time refuses every stale
\* request, reconciler round and worker load.
THEOREM SnapshotsCurrentHolds == Spec => []SnapshotsCurrent
  <1>1. IInv => SnapshotsCurrent
    BY DEF IInv
  <1> QED BY <1>1, StoreInvariant, PTL

----------------------------------------------------------------------------
(* What a step can do to one user's rows.                                  *)

KeepsKeys(u, v)  == v.cred = u.cred /\ v.syn = u.syn /\ v.csyn = u.csyn
KeepsPlace(u, v) == v.life = u.life /\ v.port = u.port /\ v.released = u.released

\* Nothing that the register shows.
Same(u, v) ==
    /\ KeepsKeys(u, v) /\ KeepsPlace(u, v)
    /\ v.cdes = u.cdes /\ v.des = u.des
    /\ DesiredPresent(v) = DesiredPresent(u) /\ Status(v) = Status(u)

\* A new intent, perhaps for another presence.
Opened(u, v) ==
    /\ Exists(u) /\ KeepsKeys(u, v) /\ KeepsPlace(u, v)
    /\ v.cdes = u.cdes /\ v.des > u.des /\ v.proj = "pending"

Switched(u, v) == Same(u, v) \/ Opened(u, v)

Moved(u, v) ==
    /\ u.life = "active" /\ KeepsKeys(u, v)
    /\ v.life = u.life /\ v.released = u.released /\ ~u.released
    /\ v.cdes = u.cdes /\ v.des > u.des /\ v.proj = "pending"
    /\ DesiredPresent(v) = DesiredPresent(u)

Rekeyed(u, v) ==
    /\ u.life = "active" /\ KeepsPlace(u, v) /\ v.syn = u.syn /\ v.csyn = u.csyn
    /\ v.cred = [u.cred EXCEPT ![u.cdes + 1] = "pending"]
    /\ v.cdes = u.cdes + 1 /\ v.des > u.des /\ v.proj = "pending"
    /\ DesiredPresent(v) = DesiredPresent(u)

Dismissed(u, v) ==
    /\ u.life = "active" /\ v.life = "deleted" /\ KeepsKeys(u, v)
    /\ v.port = u.port /\ v.released = u.released
    /\ v.cdes = u.cdes /\ v.des > u.des /\ v.proj = "pending"

Acknowledged(u, v) ==
    /\ Exists(u) /\ u.proj = "pending" /\ v.proj \in {"present", "absent"}
    /\ v.life = u.life /\ v.port = u.port /\ v.cdes = u.cdes
    /\ DesiredPresent(v) = DesiredPresent(u)
    /\ v.released = (u.released \/ u.life = "deleted")
    /\ v.des = u.des /\ v.syn = u.des /\ u.syn < u.des
    /\ v.csyn = IF DesiredPresent(u) THEN u.cdes ELSE 0
    /\ v.cred = u.cred \/ DesiredPresent(u) \/ u.life = "deleted"

Failed(u, v) ==
    /\ Exists(u) /\ u.proj = "pending" /\ v.proj = "error"
    /\ KeepsKeys(u, v) /\ KeepsPlace(u, v)
    /\ v.cdes = u.cdes /\ v.des = u.des
    /\ DesiredPresent(v) = DesiredPresent(u)

Entered(u, v) ==
    /\ ~Exists(u) /\ v.life = "active" /\ DesiredPresent(v)
    /\ v.cdes = 1 /\ v.csyn = 0 /\ v.syn = 0 /\ v.des = 1
    /\ v.proj = "pending" /\ ~v.released

OthersKeep(a) == \A b \in Allocs \ {a} : db'[b] = db[b]

Taken(a) == db'[a].port \in Ports /\ db'[a].port \notin AssignedPorts

\* What a step can do to the rows.
Shape ==
    \/ \A a \in Allocs : Switched(db[a], db'[a])
    \/ \E a \in Allocs :
        /\ OthersKeep(a)
        /\ \/ Entered(db[a], db'[a]) /\ Taken(a)
           \/ Moved(db[a], db'[a]) /\ Taken(a)
           \/ Rekeyed(db[a], db'[a])
           \/ Dismissed(db[a], db'[a])
           \/ Acknowledged(db[a], db'[a])
           \/ Failed(db[a], db'[a])

\* A request for a port names one of the pool.
AskedPorts == \A h \in Handlers : req[h].kind \in {"create", "port_change"} => req[h].port \in Ports

----------------------------------------------------------------------------
(* Records.                                                                *)

LEMMA SameSelf == \A u : Same(u, u)
  BY DEF Same, KeepsKeys, KeepsPlace

\* A committed intent opens the user's wish.
LEMMA IntentOpens ==
  ASSUME NEW u \in UserRow, Exists(u), NEW present, NEW cred, NEW reason
  PROVE  Opened(u, CommitIntent(u, u.des + 1, present, cred, reason))
  <1> DEFINE v == CommitIntent(u, u.des + 1, present, cred, reason)
  <1>1. /\ v.life = u.life /\ v.syn = u.syn /\ v.csyn = u.csyn /\ v.cdes = u.cdes /\ v.cred = u.cred
        /\ v.port = u.port /\ v.released = u.released /\ v.des = u.des + 1
    BY CommitIntentFrame
  <1>2. v.proj = "pending"
    BY DEF CommitIntent, UserRow
  <1>3. u.des \in Int
    BY DEF UserRow
  <1> HIDE DEF v
  <1>4. Opened(u, v)
    BY <1>1, <1>2, <1>3 DEF Opened, KeepsKeys, KeepsPlace
  <1> QED BY <1>4 DEF v

\* Only fields that nobody sees changed before the intent was written.
LEMMA OpenedAfter ==
  ASSUME NEW u, NEW w, NEW v, KeepsKeys(u, w), KeepsPlace(u, w), w.cdes = u.cdes, w.des = u.des, Opened(w, v)
  PROVE  Opened(u, v)
  BY DEF Opened, KeepsKeys, KeepsPlace, Exists

LEMMA SwitchedTwice ==
  ASSUME NEW u \in UserRow, NEW w \in UserRow, NEW v \in UserRow, Switched(u, w), Switched(w, v)
  PROVE  Switched(u, v)
  <1>1. u.des \in Int /\ w.des \in Int /\ v.des \in Int
    BY DEF UserRow
  <1>2. CASE Same(u, w) /\ Same(w, v)
    BY <1>2 DEF Switched, Same, KeepsKeys, KeepsPlace
  <1>3. CASE Same(u, w) /\ Opened(w, v)
    BY <1>3, OpenedAfter DEF Switched, Same
  <1>4. CASE Opened(u, w) /\ Same(w, v)
    <2>1. v.proj = "pending"
      BY <1>4 DEF Opened, Same, Status
    <2> QED BY <1>4, <2>1 DEF Switched, Opened, Same, KeepsKeys, KeepsPlace
  <1>5. CASE Opened(u, w) /\ Opened(w, v)
    BY <1>1, <1>5 DEF Switched, Opened, KeepsKeys, KeepsPlace
  <1> QED BY <1>2, <1>3, <1>4, <1>5 DEF Switched

LEMMA DecisionSwitches ==
  ASSUME NEW u \in UserRow, Exists(u), NEW admin \in BOOLEAN, NEW exceeded \in BOOLEAN
  PROVE  Switched(u, ApplyDecision(u, admin, exceeded))
  <1> DEFINE w == Decided(u, admin, exceeded)
  <1>1. /\ w \in UserRow /\ w.life = u.life /\ w.syn = u.syn /\ w.csyn = u.csyn /\ w.cdes = u.cdes
        /\ w.cred = u.cred /\ w.port = u.port /\ w.released = u.released /\ w.des = u.des /\ w.proj = u.proj
    BY DEF Decided, UserRow
  <1>2. ApplyDecision(u, admin, exceeded) =
          IF DesiredPresent(u) = DesiredPresent(w) THEN w
          ELSE CommitIntent(w, w.des + 1, DesiredPresent(w), u.cdes, DecisionReason(u, admin, exceeded))
    BY <1>1 DEF ApplyDecision
  <1> HIDE DEF w
  <1>3. Exists(w)
    BY <1>1 DEF Exists
  <1>4. DesiredPresent(u) = DesiredPresent(w) => Same(u, w)
    BY <1>1 DEF Same, KeepsKeys, KeepsPlace, Status
  <1>5. ASSUME NEW present, NEW cred, NEW reason
        PROVE  Opened(u, CommitIntent(w, w.des + 1, present, cred, reason))
    <2>1. Opened(w, CommitIntent(w, w.des + 1, present, cred, reason))
      BY <1>1, <1>3, IntentOpens
    <2> QED BY <1>1, <2>1, OpenedAfter DEF KeepsKeys, KeepsPlace
  <1> QED BY <1>2, <1>4, <1>5 DEF Switched

LEMMA SettledSwitches ==
  ASSUME NEW u \in UserRow, Exists(u)
  PROVE  Switched(u, Settled(u))
  <1> DEFINE w == [u EXCEPT !.used = 0]
  <1>1. /\ w \in UserRow /\ w.life = u.life /\ w.syn = u.syn /\ w.csyn = u.csyn /\ w.cdes = u.cdes
        /\ w.cred = u.cred /\ w.port = u.port /\ w.released = u.released /\ w.des = u.des /\ w.proj = u.proj
        /\ w.admin = u.admin /\ w.quota = u.quota /\ w.admin \in BOOLEAN
    BY UsageAssumption DEF UserRow
  <1>2. Settled(u) = ApplyDecision(w, w.admin, FALSE)
    BY <1>1 DEF Settled
  <1> HIDE DEF w
  <1>3. Exists(w) /\ Same(u, w)
    BY <1>1 DEF Exists, Same, KeepsKeys, KeepsPlace, Status, DesiredPresent
  <1>4. Switched(w, Settled(u))
    BY <1>1, <1>2, <1>3, DecisionSwitches
  <1> QED BY <1>3, <1>4, OpenedAfter DEF Switched, Same, KeepsKeys, KeepsPlace

\* Fields that only the quota rules read do not show.
LEMMA QuotaFieldsHidden ==
  ASSUME NEW u \in UserRow, Exists(u), NEW w \in UserRow, NEW v,
         KeepsKeys(u, w), KeepsPlace(u, w), w.cdes = u.cdes, w.des = u.des, w.proj = u.proj,
         w.admin = u.admin, w.quota = u.quota, Switched(w, v)
  PROVE  Switched(u, v)
  <1>1. Same(u, w)
    BY DEF Same, KeepsPlace, Status, DesiredPresent
  <1> QED BY <1>1, OpenedAfter DEF Switched, Same, KeepsKeys, KeepsPlace

LEMMA UpdatedSwitches ==
  ASSUME NEW u \in UserRow, Exists(u), u.urev < MaxUserRevision,
         NEW admin \in BOOLEAN, NEW limit \in Limits \cup {0}
  PROVE  Switched(u, Updated(u, admin, limit))
  <1> DEFINE w == [u EXCEPT !.urev = u.urev + 1, !.limit = limit]
             over == IsQuotaExceeded(limit, u.used)
  <1>1. u.urev + 1 \in 0 .. MaxUserRevision
    BY BoundAssumption DEF UserRow
  <1>2. /\ w \in UserRow /\ w.life = u.life /\ w.syn = u.syn /\ w.csyn = u.csyn /\ w.cdes = u.cdes
        /\ w.cred = u.cred /\ w.port = u.port /\ w.released = u.released /\ w.des = u.des /\ w.proj = u.proj
        /\ w.admin = u.admin /\ w.quota = u.quota
    BY <1>1 DEF UserRow
  <1>3. over \in BOOLEAN
    BY DEF IsQuotaExceeded
  <1>4. Updated(u, admin, limit) = ApplyDecision(w, admin, over)
    BY DEF Updated
  <1> HIDE DEF w, over
  <1>5. Exists(w)
    BY <1>2 DEF Exists
  <1>6. Switched(w, ApplyDecision(w, admin, over))
    BY <1>2, <1>3, <1>5, DecisionSwitches
  <1> QED BY <1>2, <1>4, <1>6, QuotaFieldsHidden DEF KeepsKeys, KeepsPlace

LEMMA BlockedSwitches ==
  ASSUME NEW u \in UserRow, Exists(u), NEW delta \in Nat, u.used + delta <= MaxUsage
  PROVE  Switched(u, Metered(u, FALSE, delta))
  <1> DEFINE m == [u EXCEPT !.used = u.used + delta]
             v == Metered(u, FALSE, delta)
  <1>1. u.used + delta \in 0 .. MaxUsage
    BY UsageAssumption DEF UserRow
  <1>2. /\ m \in UserRow /\ m.life = u.life /\ m.syn = u.syn /\ m.csyn = u.csyn /\ m.cdes = u.cdes
        /\ m.cred = u.cred /\ m.port = u.port /\ m.released = u.released /\ m.des = u.des /\ m.proj = u.proj
        /\ m.admin = u.admin /\ m.quota = u.quota /\ m.admin \in BOOLEAN
    BY <1>1 DEF UserRow
  <1>3. v = ApplyDecision(m, m.admin, TRUE) \/ v = m
    BY DEF Metered
  <1> HIDE DEF m, v
  <1>4. Exists(m)
    BY <1>2 DEF Exists
  <1>5. Switched(m, v)
    BY <1>2, <1>3, <1>4, DecisionSwitches, SameSelf DEF Switched
  <1>6. Switched(u, v)
    BY <1>2, <1>5, QuotaFieldsHidden DEF KeepsKeys, KeepsPlace
  <1> QED BY <1>6 DEF v

LEMMA MeteredSwitches ==
  ASSUME NEW u \in UserRow, Exists(u), UserOK(u), NEW ended \in BOOLEAN, NEW delta \in Nat,
         (IF ended THEN 0 ELSE u.used) + delta <= MaxUsage,
         ended => Fits(u, Settled(u)), Fits(u, Metered(u, ended, delta))
  PROVE  Switched(u, Metered(u, ended, delta))
  <1> DEFINE s == Settled(u)
             v == Metered(u, ended, delta)
  <1>1. CASE ~ended
    BY <1>1, BlockedSwitches
  <1>2. CASE ended
    <2>1. SoundStep(u, s) /\ s.used = 0
      BY <1>2, SettledFits, SettledFrame
    <2>2. s \in UserRow /\ Exists(s)
      BY <2>1 DEF SoundStep, Advance
    <2>3. v = Metered(s, FALSE, delta)
      BY <1>2 DEF Metered
    <2>4. Switched(u, s)
      BY SettledSwitches
    <2>5. v \in UserRow
      BY MeteredSound DEF SoundStep
    <2>6. s.used + delta <= MaxUsage
      BY <1>2, <2>1
    <2> HIDE DEF s, v
    <2>7. Switched(s, v)
      BY <2>2, <2>3, <2>6, BlockedSwitches
    <2>8. Switched(u, v)
      BY <2>2, <2>4, <2>5, <2>7, SwitchedTwice
    <2> QED BY <2>8 DEF v
  <1> QED BY <1>1, <1>2

LEMMA PortMoves ==
  ASSUME NEW u \in UserRow, UserOK(u), NEW q \in Request, Accepts(u, q),
         Current(u, q.des, q.present, q.cred), ~u.released
  PROVE  Moved(u, ChangedPort(u, q)) /\ ChangedPort(u, q).port = q.port
  <1> DEFINE w == [Touched(u) EXCEPT !.port = q.port]
             v == ChangedPort(u, q)
  <1>1. Exists(u) /\ q.des = u.des /\ u.urev + 1 \in 0 .. MaxUserRevision /\ u.life = "active"
    BY AcceptedIsCurrent DEF Accepts
  <1>2. /\ w \in UserRow /\ w.life = u.life /\ w.syn = u.syn /\ w.csyn = u.csyn /\ w.cdes = u.cdes
        /\ w.cred = u.cred /\ w.port = q.port /\ w.released = u.released /\ w.des = u.des
        /\ w.admin = u.admin /\ w.quota = u.quota
    BY <1>1 DEF Touched, UserRow, Request
  <1>3. v = CommitIntent(w, w.des + 1, q.present, q.cred, "port_change")
    BY <1>1, <1>2 DEF ChangedPort
  <1> HIDE DEF w, v
  <1>4. Exists(w)
    BY <1>1, <1>2 DEF Exists
  <1>5. Opened(w, v)
    BY <1>2, <1>3, <1>4, IntentOpens
  <1>6. v.admin = w.admin /\ v.quota = w.quota
    BY <1>2, <1>3, CommitIntentFrame
  <1>7. Moved(u, v) /\ v.port = q.port
    BY <1>1, <1>2, <1>5, <1>6 DEF Moved, Opened, KeepsKeys, KeepsPlace, DesiredPresent
  <1> QED BY <1>7 DEF v

LEMMA KeyRotates ==
  ASSUME NEW u \in UserRow, UserOK(u), NEW q \in Request, Accepts(u, q),
         Current(u, q.des, q.present, q.cred)
  PROVE  Rekeyed(u, Rotated(u, q))
  <1> DEFINE key == u.cdes + 1
             w == [Touched(u) EXCEPT !.cdes = key, !.cred[key] = "pending"]
             v == Rotated(u, q)
  <1>1. /\ Exists(u) /\ q.des = u.des /\ q.cred = u.cdes /\ u.life = "active"
        /\ u.urev + 1 \in 0 .. MaxUserRevision /\ u.des + 1 \in Revisions /\ u.cdes <= u.des
    BY AcceptedIsCurrent DEF Accepts, Consistent
  <1>2. key \in Versions /\ key \in 0 .. MaxRevision
    <2>1. u.cdes \in Versions
      BY <1>1 DEF UserOK, Consistent, KeysSound
    <2>2. u.des \in Int /\ MaxRevision \in Int
      BY BoundAssumption DEF UserRow
    <2> QED BY <1>1, <2>1, <2>2 DEF Versions, Revisions
  <1>3. [u.cred EXCEPT ![key] = "pending"] \in [Versions -> KeyState]
    BY <1>2 DEF UserRow, KeyState
  <1>4. /\ w \in UserRow /\ w.life = u.life /\ w.syn = u.syn /\ w.csyn = u.csyn /\ w.cdes = key
        /\ w.cred = [u.cred EXCEPT ![key] = "pending"]
        /\ w.port = u.port /\ w.released = u.released /\ w.des = u.des
        /\ w.admin = u.admin /\ w.quota = u.quota
    <2> HIDE DEF key
    <2> QED BY <1>1, <1>2, <1>3 DEF Touched, UserRow
  <1>5. v = CommitIntent(w, w.des + 1, q.present, key, "rotate")
    BY <1>1, <1>4 DEF Rotated
  <1> HIDE DEF w, v
  <1>6. Exists(w)
    BY <1>1, <1>4 DEF Exists
  <1>7. Opened(w, v)
    BY <1>4, <1>5, <1>6, IntentOpens
  <1>8. v.admin = w.admin /\ v.quota = w.quota
    BY <1>4, <1>5, CommitIntentFrame
  <1>9. Rekeyed(u, v)
    BY <1>1, <1>4, <1>7, <1>8 DEF Rekeyed, Opened, KeepsKeys, KeepsPlace, DesiredPresent
  <1> QED BY <1>9 DEF v

LEMMA UserRemoved ==
  ASSUME NEW u \in UserRow, UserOK(u), NEW q \in Request, Accepts(u, q),
         Current(u, q.des, q.present, q.cred)
  PROVE  Dismissed(u, SoftDeleted(u, q))
  <1> DEFINE w == [Touched(u) EXCEPT !.life = "deleted", !.admin = FALSE]
             v == SoftDeleted(u, q)
  <1>1. Exists(u) /\ q.des = u.des /\ u.urev + 1 \in 0 .. MaxUserRevision /\ u.life = "active"
    BY AcceptedIsCurrent DEF Accepts
  <1>2. /\ w \in UserRow /\ w.life = "deleted" /\ w.syn = u.syn /\ w.csyn = u.csyn /\ w.cdes = u.cdes
        /\ w.cred = u.cred /\ w.port = u.port /\ w.released = u.released /\ w.des = u.des
    BY <1>1 DEF Touched, UserRow
  <1>3. v = CommitIntent(w, w.des + 1, FALSE, 0, "delete")
    BY <1>1, <1>2 DEF SoftDeleted
  <1> HIDE DEF w, v
  <1>4. Exists(w)
    BY <1>2 DEF Exists
  <1>5. Opened(w, v)
    BY <1>2, <1>3, <1>4, IntentOpens
  <1>6. Dismissed(u, v)
    BY <1>1, <1>2, <1>5 DEF Dismissed, Opened, KeepsKeys, KeepsPlace
  <1> QED BY <1>6 DEF v

\* A leased operation belongs to a wish that is open.
LEMMA LeasedIsPending ==
  ASSUME NEW u \in UserRow, Exists(u), UserOK(u), u.ops[u.des].state = "leased"
  PROVE  u.proj = "pending" /\ u.syn < u.des
  <1>1. u.proj \in Projections /\ u.syn \in Int /\ u.des \in Int
    BY DEF UserRow
  <1> QED BY <1>1 DEF UserOK, Consistent, Honest, Projections

LEMMA ConfirmationAcknowledges ==
  ASSUME NEW u \in UserRow, Exists(u), UserOK(u), u.ops[u.des].state = "leased"
  PROVE  Acknowledged(u, Confirmed(u, u.des, DesiredPresent(u), u.cdes))
  <1> DEFINE p == ConfirmedPresent(u, u.des, u.cdes)
             n == ConfirmedAbsent(u, u.des)
  <1>1. u.proj = "pending" /\ u.syn < u.des /\ u.released \in BOOLEAN
    BY LeasedIsPending DEF UserRow
  <1>2. CASE DesiredPresent(u)
    <2>1. /\ p.proj = "present" /\ p.life = u.life /\ p.port = u.port /\ p.cdes = u.cdes
          /\ p.admin = u.admin /\ p.quota = u.quota /\ p.released = u.released
          /\ p.des = u.des /\ p.syn = u.des /\ p.csyn = u.cdes
      BY DEF ConfirmedPresent, UserRow
    <2> HIDE DEF p
    <2>2. u.life # "deleted"
      BY <1>2 DEF DesiredPresent
    <2>3. Acknowledged(u, p)
      BY <1>1, <1>2, <2>1, <2>2 DEF Acknowledged, DesiredPresent
    <2> QED BY <1>2, <2>3 DEF Confirmed, p
  <1>3. CASE ~DesiredPresent(u)
    <2>1. /\ n.proj = "absent" /\ n.life = u.life /\ n.port = u.port /\ n.cdes = u.cdes
          /\ n.admin = u.admin /\ n.quota = u.quota /\ n.released = (u.released \/ u.life = "deleted")
          /\ n.des = u.des /\ n.syn = u.des /\ n.csyn = 0
      BY DEF ConfirmedAbsent, UserRow
    <2>2. u.life # "deleted" => n.cred = u.cred
      BY DEF ConfirmedAbsent, UserRow
    <2> HIDE DEF n
    <2>3. Acknowledged(u, n)
      BY <1>1, <1>3, <2>1, <2>2 DEF Acknowledged, DesiredPresent
    <2> QED BY <1>3, <2>3 DEF Confirmed, n
  <1> QED BY <1>2, <1>3

LEMMA AttemptEnds ==
  ASSUME NEW u \in UserRow, Exists(u), UserOK(u), u.ops[u.des].state = "leased",
         NEW state \in {"retry_wait", "permanent_failed"}
  PROVE  Same(u, Unfinished(u, u.des, state)) \/ Failed(u, Unfinished(u, u.des, state))
  <1> DEFINE v == Unfinished(u, u.des, state)
  <1>1. u.proj = "pending"
    BY LeasedIsPending
  <1>2. /\ v.proj = (IF state = "permanent_failed" THEN "error" ELSE "pending")
        /\ v.life = u.life /\ v.syn = u.syn /\ v.csyn = u.csyn /\ v.cdes = u.cdes
        /\ v.cred = u.cred /\ v.port = u.port /\ v.released = u.released /\ v.des = u.des
        /\ v.admin = u.admin /\ v.quota = u.quota
    BY DEF Unfinished, UserRow
  <1> HIDE DEF v
  <1>3. Same(u, v) \/ Failed(u, v)
    BY <1>1, <1>2 DEF Same, Failed, KeepsKeys, KeepsPlace, DesiredPresent, Status
  <1> QED BY <1>3 DEF v

LEMMA ObservationHidden ==
  ASSUME NEW u \in UserRow, Exists(u), UserOK(u), NEW actual \in BOOLEAN
  PROVE  Same(u, Observed(u, actual))
  <1> DEFINE v == Observed(u, actual)
  <1>1. /\ v.life = u.life /\ v.syn = u.syn /\ v.csyn = u.csyn /\ v.cdes = u.cdes
        /\ v.cred = u.cred /\ v.port = u.port /\ v.released = u.released /\ v.des = u.des
        /\ v.admin = u.admin /\ v.quota = u.quota
        /\ v.proj = IF u.des = u.syn THEN IF actual THEN "present" ELSE "absent" ELSE u.proj
    BY DEF Observed, UserRow
  <1>2. u.des = u.syn => u.proj \in {"present", "absent"}
    BY DEF UserOK, Consistent, Honest
  <1> HIDE DEF v
  <1>3. Same(u, v)
    BY <1>1, <1>2 DEF Same, KeepsKeys, KeepsPlace, DesiredPresent, Status
  <1> QED BY <1>3 DEF v

\* The rows of the operations do not show.
LEMMA OperationsHidden ==
  ASSUME NEW u \in UserRow, NEW ops
  PROVE  Same(u, [u EXCEPT !.ops = ops])
  BY DEF Same, KeepsKeys, KeepsPlace, DesiredPresent, Status, UserRow

----------------------------------------------------------------------------
(* Steps.                                                                  *)

LEMMA AskedPortsInit == Init => AskedPorts
  BY NothingTyped DEF Init, AskedPorts

LEMMA AskedPortsKept == TypeOK /\ AskedPorts /\ [Next]_vars => AskedPorts'
  <1> SUFFICES ASSUME TypeOK, AskedPorts, [Next]_vars PROVE AskedPorts'
    OBVIOUS
  <1>0. req \in [Handlers -> Request]
    BY DEF TypeOK
  <1>1. ASSUME UNCHANGED req PROVE AskedPorts'
    BY <1>1 DEF AskedPorts
  <1>2. ASSUME NEW h \in Handlers, Finish(h) PROVE AskedPorts'
    BY <1>0, <1>2, NothingTyped DEF AskedPorts, Finish
  <1>3. ASSUME NEW users, CloseCycles(users) PROVE AskedPorts'
    <2>1. \A q \in Request : LET x == [q EXCEPT !.open = FALSE] IN x.kind = q.kind /\ x.port = q.port
      BY DEF Request
    <2>2. \A h \in Handlers : req'[h].kind = req[h].kind /\ req'[h].port = req[h].port
      BY <1>0, <1>3, <2>1 DEF CloseCycles
    <2> QED BY <2>2 DEF AskedPorts
  <1>4. ASSUME NEW h \in Handlers, NEW kind, NEW a \in Allocs, NEW p,
               Begin(h, kind, a, p), kind \in {"create", "port_change"} => p \in Ports
        PROVE  AskedPorts'
    <2>1. req' = [req EXCEPT ![h] = Snapshot(kind, a, p)]
      BY <1>4 DEF Begin
    <2>2. Snapshot(kind, a, p).kind = kind /\ Snapshot(kind, a, p).port = p
      BY DEF Snapshot
    <2> QED BY <1>0, <1>4, <2>1, <2>2 DEF AskedPorts
  <1>5. ASSUME NEW h \in Handlers, HandlerStep(h) PROVE AskedPorts'
    <2>1. ASSUME NEW p \in Ports, NEW explicit \in BOOLEAN, BeginCreate(h, p, explicit) PROVE AskedPorts'
      BY <1>0, <2>1 DEF BeginCreate, AskedPorts, NoRequest
    <2>2. ASSUME NEW a \in Allocs, NEW p \in Ports, BeginChangePort(h, a, p) PROVE AskedPorts'
      BY <1>4, <2>2 DEF BeginChangePort
    <2>3. ASSUME NEW a \in Allocs, BeginRotate(h, a) \/ BeginDelete(h, a) \/ BeginReset(h, a)
          PROVE  AskedPorts'
      <3>1. PICK kind \in {"rotate", "delete", "reset"} : Begin(h, kind, a, 0)
        BY <2>3 DEF BeginRotate, BeginDelete, BeginReset
      <3> QED BY <1>4, <3>1
    <2>4. ASSUME NEW a \in Allocs, NEW limit \in Limits, CommitCreate(h, a, limit) PROVE AskedPorts'
      BY <1>2, <2>4 DEF CommitCreate
    <2>5. CASE CommitChangePort(h) \/ CommitRotate(h) \/ CommitDelete(h) \/ CommitReset(h) \/ RejectRequest(h)
      BY <1>2, <2>5 DEF CommitChangePort, CommitRotate, CommitDelete, CommitReset, RejectRequest
    <2> QED BY <1>5, <2>1, <2>2, <2>3, <2>4, <2>5 DEF HandlerStep
  <1>6. CASE QuotaStep
    BY <1>1, <1>3, <1>6 DEF QuotaStep, UpdateUser, RolloverCycle, CollectTargets, CommitTrafficBatch, DropBatch
  <1>7. CASE ReconcileStep
    BY <1>1, <1>7 DEF ReconcileStep, ReadForReconcile, RecordObservation, EnqueueReconcile, SkipReconcile
  <1>8. ASSUME NEW w \in Workers, WorkerStep(w) PROVE AskedPorts'
    BY <1>1, <1>8 DEF WorkerStep, LeaseDue, LoadWork, RenewSyncLease, Abandon, ConfirmSync,
                      RescheduleSync, FailSync, FinishLeased
  <1>9. ASSUME NEW a \in Allocs, NEW r \in Revisions, LeaseExpires(a, r) PROVE AskedPorts'
    BY <1>1, <1>9 DEF LeaseExpires
  <1>10. CASE Restart
    BY <1>10, NothingTyped DEF Restart, AskedPorts
  <1>11. CASE UNCHANGED vars
    BY <1>1, <1>11 DEF vars
  <1> QED BY <1>5, <1>6, <1>7, <1>8, <1>9, <1>10, <1>11 DEF Next

\* One user's rows are replaced.
LEMMA OneEntry ==
  ASSUME IInv, NEW a \in Allocs, NEW v, db' = [db EXCEPT ![a] = v]
  PROVE  db'[a] = v /\ OthersKeep(a)
  BY DEF IInv, TypeOK, OthersKeep

LEMMA OneSwitches ==
  ASSUME IInv, NEW a \in Allocs, NEW v, db' = [db EXCEPT ![a] = v], Switched(db[a], v)
  PROVE  Shape
  <1>1. \A b \in Allocs : Switched(db[b], db'[b])
    BY OneEntry, SameSelf DEF OthersKeep, Switched
  <1> QED BY <1>1 DEF Shape

LEMMA NoneSwitches ==
  ASSUME UNCHANGED db
  PROVE  Shape
  BY SameSelf DEF Shape, Switched

LEMMA HandlerShape ==
  ASSUME IInv, AskedPorts, NEW h \in Handlers, HandlerStep(h)
  PROVE  Shape
  <1>1. ASSUME NEW a \in Allocs, NEW limit \in Limits, CommitCreate(h, a, limit) PROVE Shape
    <2> DEFINE v == NewUser(req[h].port, limit)
    <2>1. db' = [db EXCEPT ![a] = v] /\ ~Exists(db[a]) /\ req[h].port \notin AssignedPorts
          /\ req[h].port \in Ports
      BY <1>1 DEF CommitCreate, AskedPorts
    <2>2. /\ v.life = "active" /\ v.admin = TRUE /\ v.quota = "within_limit" /\ v.cdes = 1 /\ v.csyn = 0
          /\ v.syn = 0 /\ v.des = 1 /\ v.proj = "pending" /\ v.released = FALSE /\ v.port = req[h].port
      BY DEF NewUser, NoUser
    <2> HIDE DEF v
    <2>3. Entered(db[a], v)
      BY <2>1, <2>2 DEF Entered, DesiredPresent
    <2>4. db'[a] = v /\ OthersKeep(a)
      BY <2>1, OneEntry
    <2> QED BY <2>1, <2>2, <2>3, <2>4 DEF Shape, Taken
  <1>2. CASE CommitChangePort(h)
    <2> DEFINE q == req[h]
               a == q.alloc
               v == ChangedPort(db[a], q)
    <2>1. q \in Request /\ a \in Allocs /\ db[a] \in UserRow /\ UserOK(db[a])
          /\ Current(db[a], q.des, q.present, q.cred)
      BY <1>2, AcceptedRequest DEF CommitChangePort
    <2>2. Accepts(db[a], q) /\ ~db[a].released /\ q.port \notin AssignedPorts /\ q.port \in Ports
          /\ db' = [db EXCEPT ![a] = v]
      BY <1>2 DEF CommitChangePort, AskedPorts
    <2>3. Moved(db[a], v) /\ v.port = q.port
      BY <2>1, <2>2, PortMoves
    <2> HIDE DEF q, a, v
    <2>4. db'[a] = v /\ OthersKeep(a)
      BY <2>1, <2>2, OneEntry
    <2> QED BY <2>1, <2>2, <2>3, <2>4 DEF Shape, Taken
  <1>3. CASE CommitRotate(h)
    <2> DEFINE q == req[h]
               a == q.alloc
               v == Rotated(db[a], q)
    <2>1. q \in Request /\ a \in Allocs /\ db[a] \in UserRow /\ UserOK(db[a])
          /\ Current(db[a], q.des, q.present, q.cred)
      BY <1>3, AcceptedRequest DEF CommitRotate
    <2>2. Accepts(db[a], q) /\ db' = [db EXCEPT ![a] = v]
      BY <1>3 DEF CommitRotate
    <2>3. Rekeyed(db[a], v)
      BY <2>1, <2>2, KeyRotates
    <2> HIDE DEF q, a, v
    <2> QED BY <2>1, <2>2, <2>3, OneEntry DEF Shape
  <1>4. CASE CommitDelete(h)
    <2> DEFINE q == req[h]
               a == q.alloc
               v == SoftDeleted(db[a], q)
    <2>1. q \in Request /\ a \in Allocs /\ db[a] \in UserRow /\ UserOK(db[a])
          /\ Current(db[a], q.des, q.present, q.cred)
      BY <1>4, AcceptedRequest DEF CommitDelete
    <2>2. Accepts(db[a], q) /\ db' = [db EXCEPT ![a] = v]
      BY <1>4 DEF CommitDelete
    <2>3. Dismissed(db[a], v)
      BY <2>1, <2>2, UserRemoved
    <2> HIDE DEF q, a, v
    <2> QED BY <2>1, <2>2, <2>3, OneEntry DEF Shape
  <1>5. CASE CommitReset(h)
    <2> DEFINE a == req[h].alloc
    <2>1. a \in Allocs /\ db[a] \in UserRow /\ Exists(db[a])
      BY <1>5, AcceptedRequest DEF CommitReset
    <2>2. db' = [db EXCEPT ![a] = Settled(db[a])]
      BY <1>5 DEF CommitReset
    <2> HIDE DEF a
    <2> QED BY <2>1, <2>2, SettledSwitches, OneSwitches
  <1>6. CASE UNCHANGED db
    BY <1>6, NoneSwitches
  <1> QED BY <1>1, <1>2, <1>3, <1>4, <1>5, <1>6
          DEF HandlerStep, BeginCreate, BeginChangePort, BeginRotate, BeginDelete, BeginReset, Begin, RejectRequest

LEMMA QuotaShape ==
  ASSUME IInv, QuotaStep
  PROVE  Shape
  <1>0. \A a \in Allocs : db[a] \in UserRow /\ UserOK(db[a])
    BY DEF IInv, TypeOK
  <1>1. ASSUME NEW a \in Allocs, NEW admin \in BOOLEAN, NEW limit \in Limits, UpdateUser(a, admin, limit)
        PROVE  Shape
    <2>1. Exists(db[a]) /\ db[a].urev < MaxUserRevision
          /\ db' = [db EXCEPT ![a] = Updated(db[a], admin, limit)]
      BY <1>1 DEF UpdateUser, Exists
    <2> QED BY <1>0, <2>1, UpdatedSwitches, OneSwitches
  <1>2. ASSUME NEW a \in Allocs, RolloverCycle(a) PROVE Shape
    <2>1. Exists(db[a]) /\ db' = [db EXCEPT ![a] = Settled(db[a])]
      BY <1>2 DEF RolloverCycle
    <2> QED BY <1>0, <2>1, SettledSwitches, OneSwitches
  <1>3. CASE CollectTargets \/ DropBatch
    BY <1>3, NoneSwitches DEF CollectTargets, DropBatch
  <1>4. ASSUME NEW ended \in SUBSET targets, NEW delta \in [targets -> 0 .. MaxUsage],
               CommitTrafficBatch(ended, delta)
        PROVE  Shape
    <2>1. ASSUME NEW a \in targets PROVE Switched(db[a], Metered(db[a], a \in ended, delta[a]))
      <3> DEFINE over == a \in ended
                 d == delta[a]
                 u == db[a]
      <3>1. a \in Allocs /\ u \in UserRow /\ UserOK(u) /\ Exists(u)
        BY <1>0 DEF IInv, TypeOK, TargetsExist
      <3>2. over \in BOOLEAN /\ d \in Nat
        BY UsageAssumption
      <3>3. /\ (IF over THEN 0 ELSE u.used) + d <= MaxUsage
            /\ over => Fits(u, Settled(u))
            /\ Fits(u, Metered(u, over, d))
        BY <1>4, <3>1 DEF CommitTrafficBatch
      <3> HIDE DEF over, d, u
      <3>4. Switched(u, Metered(u, over, d))
        BY <3>1, <3>2, <3>3, MeteredSwitches
      <3> QED BY <3>4 DEF over, d, u
    <2>2. db' = [a \in Allocs |-> IF a \in targets THEN Metered(db[a], a \in ended, delta[a]) ELSE db[a]]
      BY <1>4 DEF CommitTrafficBatch
    <2>3. \A a \in Allocs : Switched(db[a], db[a])
      BY SameSelf DEF Switched
    <2>4. \A a \in Allocs : Switched(db[a], db'[a])
      BY <2>1, <2>2, <2>3
    <2> QED BY <2>4 DEF Shape
  <1> QED BY <1>1, <1>2, <1>3, <1>4 DEF QuotaStep

LEMMA ReconcileShape ==
  ASSUME IInv, ReconcileStep
  PROVE  Shape
  <1>0. \A a \in Allocs : db[a] \in UserRow /\ UserOK(db[a])
    BY DEF IInv, TypeOK
  <1>1. CASE ReadForReconcile
    BY <1>1, NoneSwitches DEF ReadForReconcile
  <1>2. ASSUME NEW a \in Allocs, NEW actual \in BOOLEAN, RecordObservation(a, actual) PROVE Shape
    <2>1. Exists(db[a]) /\ db' = [db EXCEPT ![a] = Observed(db[a], actual)]
      BY <1>2 DEF RecordObservation, IInv, SnapshotsCurrent, Current
    <2> QED BY <1>0, <2>1, ObservationHidden, OneSwitches DEF Switched
  <1>3. ASSUME NEW a \in Allocs, EnqueueReconcile(a) PROVE Shape
    <2> DEFINE v == CommitIntent(db[a], db[a].des + 1, seen[a].present, seen[a].cred, "reconcile")
    <2>1. Exists(db[a]) /\ db' = [db EXCEPT ![a] = v]
      BY <1>3 DEF EnqueueReconcile, IInv, SnapshotsCurrent, Current
    <2>2. Opened(db[a], v)
      BY <1>0, <2>1, IntentOpens
    <2> HIDE DEF v
    <2> QED BY <2>1, <2>2, OneSwitches DEF Switched
  <1>4. ASSUME NEW a \in Allocs, SkipReconcile(a) PROVE Shape
    BY <1>4, NoneSwitches DEF SkipReconcile
  <1> QED BY <1>1, <1>2, <1>3, <1>4 DEF ReconcileStep

\* The rows of one operation change and nothing else.
LEMMA OperationShape ==
  ASSUME IInv, NEW a \in Allocs, NEW ops, db' = [db EXCEPT ![a] = [db[a] EXCEPT !.ops = ops]]
  PROVE  Shape
  <1>1. db[a] \in UserRow
    BY DEF IInv, TypeOK
  <1>2. Same(db[a], [db[a] EXCEPT !.ops = ops])
    BY <1>1, OperationsHidden
  <1> QED BY <1>2, OneSwitches DEF Switched

\* Without the lease a worker's result changes nothing; with it, the result
\* is for the newest intent.
LEMMA FinishShape ==
  ASSUME IInv, NEW w \in Workers, NEW result, FinishLeased(w, result)
  PROVE  LET a == work[w].alloc IN
         /\ a \in Allocs /\ db[a] \in UserRow /\ UserOK(db[a]) /\ Exists(db[a])
         /\ \/ UNCHANGED db
            \/ /\ db' = [db EXCEPT ![a] = result]
               /\ work[w].rev = db[a].des /\ db[a].ops[db[a].des].state = "leased"
               /\ work[w].present = DesiredPresent(db[a]) /\ work[w].version = db[a].cdes
  <1> DEFINE a == work[w].alloc
             r == work[w].rev
             u == db[a]
             closed == [u EXCEPT !.ops[r] = Closed(u.ops[r])]
  <1>1. a # NoAlloc /\ work[w].loaded
        /\ db' = [db EXCEPT ![a] = IF ~Holds(w) THEN u ELSE IF r # u.des THEN closed ELSE result]
    BY DEF FinishLeased
  <1>2. a \in Allocs /\ r \in Revisions /\ u \in UserRow /\ UserOK(u) /\ Exists(u)
        /\ Current(u, r, work[w].present, work[w].version)
    BY <1>1, LoadedWork
  <1>3. Holds(w) => r = u.des /\ u.ops[r].state = "leased"
    BY <1>2, OpenIsNewest DEF Holds, OpenStates, UserOK, Consistent
  <1>4. CASE ~Holds(w)
    <2>1. db' = [db EXCEPT ![a] = db[a]]
      BY <1>1, <1>4
    <2>2. db' = db
      BY <1>2, <2>1 DEF IInv, TypeOK
    <2> QED BY <1>2, <2>2
  <1>5. CASE Holds(w)
    <2>1. db' = [db EXCEPT ![a] = result] /\ r = u.des /\ u.ops[u.des].state = "leased"
      BY <1>1, <1>3, <1>5
    <2>2. work[w].present = DesiredPresent(u) /\ work[w].version = u.cdes
      BY <1>2, <2>1 DEF Current
    <2> QED BY <1>2, <2>1, <2>2
  <1> QED BY <1>4, <1>5

LEMMA WorkerShape ==
  ASSUME IInv, NEW w \in Workers, WorkerStep(w)
  PROVE  Shape
  <1>0. db \in [Allocs -> UserRow] /\ \A a \in Allocs : db[a] \in UserRow
    BY DEF IInv, TypeOK
  <1>1. ASSUME NEW a \in Allocs, NEW r \in Revisions, LeaseDue(w, a, r) PROVE Shape
    <2> DEFINE ops == [db[a].ops EXCEPT ![r] = [@ EXCEPT !.state = "leased", !.owner = w, !.expired = FALSE]]
    <2>1. db' = [db EXCEPT ![a] = [db[a] EXCEPT !.ops = ops]]
      BY <1>0, <1>1 DEF LeaseDue, UserRow
    <2> HIDE DEF ops
    <2> QED BY <2>1, OperationShape
  <1>2. CASE LoadWork(w) \/ Abandon(w)
    BY <1>2, NoneSwitches DEF LoadWork, Abandon
  <1>3. CASE RenewSyncLease(w)
    <2> DEFINE a == work[w].alloc
               r == work[w].rev
               ops == [db[a].ops EXCEPT ![r] = [@ EXCEPT !.expired = FALSE]]
    <2>1. a \in Allocs /\ r \in Revisions
      BY <1>3, LoadedWork DEF RenewSyncLease
    <2>2. CASE Holds(w) /\ r = db[a].des
      <3>1. db' = [db EXCEPT ![a] = [db[a] EXCEPT !.ops = ops]]
        BY <1>0, <1>3, <2>1, <2>2 DEF RenewSyncLease, UserRow
      <3> HIDE DEF ops, a
      <3> QED BY <2>1, <3>1, OperationShape
    <2>3. CASE ~(Holds(w) /\ r = db[a].des)
      BY <1>3, <2>3, NoneSwitches DEF RenewSyncLease
    <2> QED BY <2>2, <2>3
  <1>4. CASE ConfirmSync(w)
    <2> DEFINE a == work[w].alloc
               u == db[a]
               v == Confirmed(u, work[w].rev, work[w].present, work[w].version)
    <2>1. FinishLeased(w, v)
      BY <1>4 DEF ConfirmSync
    <2>2. /\ a \in Allocs /\ u \in UserRow /\ UserOK(u) /\ Exists(u)
          /\ \/ UNCHANGED db
             \/ /\ db' = [db EXCEPT ![a] = v]
                /\ work[w].rev = u.des /\ u.ops[u.des].state = "leased"
                /\ work[w].present = DesiredPresent(u) /\ work[w].version = u.cdes
      BY <2>1, FinishShape
    <2>3. CASE UNCHANGED db
      BY <2>3, NoneSwitches
    <2>4. CASE /\ db' = [db EXCEPT ![a] = v]
               /\ work[w].rev = u.des /\ u.ops[u.des].state = "leased"
               /\ work[w].present = DesiredPresent(u) /\ work[w].version = u.cdes
      <3>1. Acknowledged(u, v)
        BY <2>2, <2>4, ConfirmationAcknowledges
      <3>2. db'[a] = v /\ OthersKeep(a)
        <4> HIDE DEF a, v
        <4> QED BY <2>2, <2>4, OneEntry
      <3> HIDE DEF v, a
      <3> QED BY <2>2, <3>1, <3>2 DEF Shape, u
    <2> QED BY <2>2, <2>3, <2>4
  <1>5. ASSUME NEW state \in {"retry_wait", "permanent_failed"},
               FinishLeased(w, Unfinished(db[work[w].alloc], work[w].rev, state))
        PROVE  Shape
    <2> DEFINE a == work[w].alloc
               u == db[a]
               v == Unfinished(u, work[w].rev, state)
    <2>1. FinishLeased(w, v)
      BY <1>5
    <2>2. /\ a \in Allocs /\ u \in UserRow /\ UserOK(u) /\ Exists(u)
          /\ \/ UNCHANGED db
             \/ /\ db' = [db EXCEPT ![a] = v]
                /\ work[w].rev = u.des /\ u.ops[u.des].state = "leased"
      BY <2>1, FinishShape
    <2>3. CASE UNCHANGED db
      BY <2>3, NoneSwitches
    <2>4. CASE /\ db' = [db EXCEPT ![a] = v]
               /\ work[w].rev = u.des /\ u.ops[u.des].state = "leased"
      <3>1. Same(u, v) \/ Failed(u, v)
        BY <2>2, <2>4, AttemptEnds
      <3>2. db'[a] = v /\ OthersKeep(a)
        <4> HIDE DEF a, v
        <4> QED BY <2>2, <2>4, OneEntry
      <3> HIDE DEF v, a
      <3>3. CASE Same(u, v)
        BY <2>2, <2>4, <3>3, OneSwitches DEF Switched, u
      <3>4. CASE Failed(u, v)
        BY <2>2, <3>2, <3>4 DEF Shape, u
      <3> QED BY <3>1, <3>3, <3>4
    <2> QED BY <2>2, <2>3, <2>4
  <1>6. CASE RescheduleSync(w) \/ FailSync(w)
    BY <1>5, <1>6 DEF RescheduleSync, FailSync
  <1> QED BY <1>1, <1>2, <1>3, <1>4, <1>6 DEF WorkerStep

LEMMA NextShape == IInv /\ AskedPorts /\ [Next]_vars => Shape
  <1> SUFFICES ASSUME IInv, AskedPorts, [Next]_vars PROVE Shape
    OBVIOUS
  <1>1. ASSUME NEW h \in Handlers, HandlerStep(h) PROVE Shape
    BY <1>1, HandlerShape
  <1>2. CASE QuotaStep
    BY <1>2, QuotaShape
  <1>3. CASE ReconcileStep
    BY <1>3, ReconcileShape
  <1>4. ASSUME NEW w \in Workers, WorkerStep(w) PROVE Shape
    BY <1>4, WorkerShape
  <1>5. ASSUME NEW a \in Allocs, NEW r \in Revisions, LeaseExpires(a, r) PROVE Shape
    <2> DEFINE ops == [db[a].ops EXCEPT ![r] = [@ EXCEPT !.expired = TRUE]]
    <2>1. db' = [db EXCEPT ![a] = [db[a] EXCEPT !.ops = ops]]
      BY <1>5 DEF LeaseExpires, IInv, TypeOK, UserRow
    <2> HIDE DEF ops
    <2> QED BY <2>1, OperationShape
  <1>6. CASE Restart \/ UNCHANGED vars
    BY <1>6, NoneSwitches DEF Restart, vars
  <1> QED BY <1>1, <1>2, <1>3, <1>4, <1>5, <1>6 DEF Next

----------------------------------------------------------------------------
(* The action properties.                                                  *)

Change(u, v) ==
    \/ Switched(u, v) \/ Entered(u, v) \/ Moved(u, v) \/ Rekeyed(u, v)
    \/ Dismissed(u, v) \/ Acknowledged(u, v) \/ Failed(u, v)

LEMMA ShapeOfOne ==
  ASSUME IInv, IInv', Shape, NEW a \in Allocs
  PROVE  /\ Change(db[a], db'[a])
         /\ db[a] \in UserRow /\ UserOK(db[a]) /\ db'[a] \in UserRow /\ UserOK(db'[a])
  <1>1. Change(db[a], db'[a])
    BY SameSelf DEF Shape, OthersKeep, Switched, Change
  <1>2. db[a] \in UserRow /\ UserOK(db[a]) /\ db'[a] \in UserRow /\ UserOK(db'[a])
    BY DEF IInv, TypeOK
  <1> QED BY <1>1, <1>2

LEMMA KeyStep ==
  ASSUME NEW u \in UserRow, NEW v \in UserRow, UserOK(u), UserOK(v), Change(u, v)
  PROVE  KeyDestruction(u, v)
  <1>3. CASE v.cred = u.cred
    BY <1>3 DEF KeyDestruction
  <1>4. CASE Entered(u, v)
    <2>1. \A x \in Versions : u.cred[x] = "none"
      BY <1>4 DEF Entered, UserOK, NoUser
    <2> QED BY <2>1 DEF KeyDestruction
  <1>5. CASE Rekeyed(u, v)
    <2>1. \A x \in Versions : v.cred[x] \in {u.cred[x], "pending"}
      BY <1>5 DEF Rekeyed, UserRow
    <2> QED BY <2>1 DEF KeyDestruction
  <1>6. CASE Acknowledged(u, v) /\ v.cred # u.cred
    <2>1. v.syn = v.des /\ v.des = u.des /\ u.syn < u.des /\ Exists(v) /\ v.cdes = u.cdes
      BY <1>6 DEF Acknowledged, Exists
    <2>2. v.ops[v.des].state = "succeeded"
      BY <2>1 DEF UserOK, Consistent, Honest
    <2>3. CASE DesiredPresent(u)
      <3>1. v.cred[v.cdes] = "active" /\ v.csyn = v.cdes
        BY <1>6, <2>1, <2>2, <2>3 DEF UserOK, Consistent, Honest, Acknowledged
      <3> QED BY <2>1, <3>1 DEF KeyDestruction
    <2>4. CASE u.life = "deleted"
      <3>1. v.life = "deleted" /\ v.released
        BY <1>6, <2>4 DEF Acknowledged
      <3> QED BY <2>1, <3>1 DEF KeyDestruction
    <2> QED BY <1>6, <2>3, <2>4 DEF Acknowledged
  <1> QED BY <1>3, <1>4, <1>5, <1>6
          DEF Change, Switched, Same, Opened, Moved, Dismissed, Failed, KeepsKeys

LEMMA ForwardStep ==
  ASSUME NEW u \in UserRow, NEW v \in UserRow, UserOK(u), UserOK(v), Change(u, v)
  PROVE  ForwardOnly(u, v)
  <1>1. u.des \in Int /\ v.des \in Int /\ u.syn \in Int /\ v.syn \in Int
    BY DEF UserRow
  <1>3. CASE Entered(u, v)
    <2>1. u.des = 0 /\ u.syn = 0 /\ ~v.released
      BY <1>3 DEF Entered, UserOK, NoUser
    <2> QED BY <1>3, <2>1 DEF ForwardOnly, Entered
  <1>4. CASE Acknowledged(u, v)
    <2>1. v.released /\ ~u.released => v.life = "deleted"
      BY <1>4 DEF Acknowledged
    <2>2. v.life = "deleted" => ~v.ops[v.des].present
      BY DEF UserOK, Exists, Consistent, Faithful, DesiredPresent
    <2>3. v.des = u.des /\ v.syn = u.des /\ u.syn < u.des
      BY <1>4 DEF Acknowledged
    <2> QED BY <1>1, <2>1, <2>2, <2>3 DEF ForwardOnly
  <1>5. CASE Switched(u, v) \/ Moved(u, v) \/ Rekeyed(u, v) \/ Dismissed(u, v) \/ Failed(u, v)
    <2>1. v.des >= u.des /\ v.syn = u.syn /\ v.released = u.released
      BY <1>1, <1>5 DEF Switched, Same, Opened, Moved, Rekeyed, Dismissed, Failed, KeepsKeys, KeepsPlace
    <2> QED BY <1>1, <2>1 DEF ForwardOnly
  <1> QED BY <1>3, <1>4, <1>5 DEF Change

\* AskedPorts holds in every reachable state.
LEMMA AskedPortsHolds == Spec => []AskedPorts
  BY AskedPortsInit, AskedPortsKept, TypeCorrect, PTL DEF Spec

\* KeysDestroyedOnConfirm: whichever snapshot a worker or a request held, a
\* key is destroyed only by the confirmation of its successor or of the
\* removal of a deleted user (ConfirmSync).
THEOREM KeysDestroyedOnConfirmHolds == Spec => KeysDestroyedOnConfirm
  <1>1. IInv /\ IInv' /\ AskedPorts /\ [Next]_vars => [\A a \in Allocs : KeyDestruction(db[a], db'[a])]_vars
    BY NextShape, ShapeOfOne, KeyStep
  <1> QED BY <1>1, StoreInvariant, AskedPortsHolds, PTL DEF Spec, KeysDestroyedOnConfirm

\* PortReleasedOnConfirm: revisions only grow, and a port goes back to the
\* pool only with the confirmed removal of its deleted user (ConfirmSync,
\* releaseInboundPort).
THEOREM PortReleasedOnConfirmHolds == Spec => PortReleasedOnConfirm
  <1>1. IInv /\ IInv' /\ AskedPorts /\ [Next]_vars => [\A a \in Allocs : ForwardOnly(db[a], db'[a])]_vars
    BY NextShape, ShapeOfOne, ForwardStep
  <1> QED BY <1>1, StoreInvariant, AskedPortsHolds, PTL DEF Spec, PortReleasedOnConfirm

----------------------------------------------------------------------------
(* Ports.                                                                  *)

\* A row that holds a port after the step held the same one before it, or
\* took one that no row held.
LEMMA PortStep ==
  ASSUME Shape, PortsExclusive
  PROVE  PortsExclusive'
  <1> DEFINE Holding(u) == Exists(u) /\ ~u.released
  <1>1. CASE \A a \in Allocs : Switched(db[a], db'[a])
    <2>1. \A a \in Allocs : Exists(db'[a]) = Exists(db[a]) /\ db'[a].released = db[a].released
                            /\ db'[a].port = db[a].port
      BY <1>1 DEF Switched, Same, Opened, KeepsPlace, Exists
    <2> QED BY <2>1 DEF PortsExclusive
  <1>2. ASSUME NEW a \in Allocs, OthersKeep(a), Holding(db'[a]) => Holding(db[a]) /\ db'[a].port = db[a].port
        PROVE  PortsExclusive'
    <2>1. \A b \in Allocs : Holding(db'[b]) => Holding(db[b]) /\ db'[b].port = db[b].port
      BY <1>2 DEF OthersKeep
    <2> QED BY <2>1 DEF PortsExclusive
  <1>3. ASSUME NEW a \in Allocs, OthersKeep(a), Taken(a)
        PROVE  PortsExclusive'
    <2>1. \A b \in Allocs \ {a} : Holding(db'[b]) => db'[b].port # db'[a].port
      BY <1>3 DEF OthersKeep, Taken, AssignedPorts
    <2>2. \A b, c \in Allocs \ {a} : b # c /\ Holding(db'[b]) /\ Holding(db'[c]) => db'[b].port # db'[c].port
      BY <1>3 DEF OthersKeep, PortsExclusive
    <2> QED BY <2>1, <2>2 DEF PortsExclusive
  <1>4. ASSUME NEW a \in Allocs,
               \/ Rekeyed(db[a], db'[a]) \/ Dismissed(db[a], db'[a])
               \/ Acknowledged(db[a], db'[a]) \/ Failed(db[a], db'[a])
        PROVE  Holding(db'[a]) => Holding(db[a]) /\ db'[a].port = db[a].port
    BY <1>4 DEF Rekeyed, Dismissed, Acknowledged, Failed, KeepsPlace, Exists
  <1> QED BY <1>1, <1>2, <1>3, <1>4 DEF Shape

\* PortsExclusive: two requests that were checked against the same list of
\* free ports never both get the same one, and the port of a deleted user is
\* not handed out before it is released (the partial unique index on
\* dedicated_inbounds, CreateUser, ChangeInboundPort).
THEOREM PortsExclusiveHolds == Spec => []PortsExclusive
  <1>1. Init => PortsExclusive
    BY NoUserTyped DEF Init, PortsExclusive
  <1>2. IInv /\ AskedPorts /\ PortsExclusive /\ [Next]_vars => PortsExclusive'
    BY NextShape, PortStep
  <1> QED BY <1>1, <1>2, StoreInvariant, AskedPortsHolds, PTL DEF Spec

----------------------------------------------------------------------------
(* The refinement.                                                         *)

Entries == [a \in Allocs |-> Entry(db[a])]

\* The register's fields of a row.
LEMMA EntryFields ==
  ASSUME NEW u
  PROVE  LET e == Entry(u) IN
         /\ e.life = u.life /\ e.present = DesiredPresent(u) /\ e.key = u.cdes
         /\ e.status = Status(u) /\ e.inForce = u.csyn
         /\ e.port = IF u.released THEN 0 ELSE u.port
  BY DEF Entry

LEMMA StatusOf ==
  ASSUME NEW u
  PROVE  /\ u.proj = "pending" <=> Status(u) = "pending"
         /\ u.proj = "error" <=> Status(u) = "failed"
         /\ u.proj \in {"present", "absent"} => Status(u) = "settled"
  BY DEF Status

\* An entry by its fields.
Line(life, present, key, status, inForce, port) ==
    [life |-> life, present |-> present, key |-> key, status |-> status,
     inForce |-> inForce, port |-> port]

HeldPort(u) == IF u.released THEN 0 ELSE u.port

LEMMA EntryLine ==
  ASSUME NEW u
  PROVE  Entry(u) = Line(u.life, DesiredPresent(u), u.cdes, Status(u), u.csyn, HeldPort(u))
  BY DEF Entry, Line, HeldPort

\* The updates of an entry; the provers need them as operators.
Restated(e, x) == [e EXCEPT !.status = x]
Reswitched(e, x, y) == [e EXCEPT !.status = x, !.present = y]
Replaced(e, x, y) == [e EXCEPT !.status = x, !.port = y]
Renewed(e, x, y) == [e EXCEPT !.status = x, !.key = y]

LEMMA RestatedLine ==
  ASSUME NEW l, NEW p, NEW k, NEW s, NEW i, NEW o, NEW x
  PROVE  Restated(Line(l, p, k, s, i, o), x) = Line(l, p, k, x, i, o)
  BY DEF Line, Restated

LEMMA ReswitchedLine ==
  ASSUME NEW l, NEW p, NEW k, NEW s, NEW i, NEW o, NEW x, NEW y
  PROVE  Reswitched(Line(l, p, k, s, i, o), x, y) = Line(l, y, k, x, i, o)
  <1> DEFINE f == [Line(l, p, k, s, i, o) EXCEPT !.status = x]
  <1>1. f = Line(l, p, k, x, i, o)
    BY DEF Line
  <1> HIDE DEF f
  <1>2. [f EXCEPT !.present = y] = Line(l, y, k, x, i, o)
    BY <1>1 DEF Line
  <1> QED BY <1>2, Zenon DEF f, Reswitched

LEMMA ReplacedLine ==
  ASSUME NEW l, NEW p, NEW k, NEW s, NEW i, NEW o, NEW x, NEW y
  PROVE  Replaced(Line(l, p, k, s, i, o), x, y) = Line(l, p, k, x, i, y)
  <1> DEFINE f == [Line(l, p, k, s, i, o) EXCEPT !.status = x]
  <1>1. f = Line(l, p, k, x, i, o)
    BY DEF Line
  <1> HIDE DEF f
  <1>2. [f EXCEPT !.port = y] = Line(l, p, k, x, i, y)
    BY <1>1 DEF Line
  <1> QED BY <1>2, Zenon DEF f, Replaced

LEMMA RenewedLine ==
  ASSUME NEW l, NEW p, NEW k, NEW s, NEW i, NEW o, NEW x, NEW y
  PROVE  Renewed(Line(l, p, k, s, i, o), x, y) = Line(l, p, y, x, i, o)
  <1> DEFINE f == [Line(l, p, k, s, i, o) EXCEPT !.status = x]
  <1>1. f = Line(l, p, k, x, i, o)
    BY DEF Line
  <1> HIDE DEF f
  <1>2. [f EXCEPT !.key = y] = Line(l, p, y, x, i, o)
    BY <1>1 DEF Line
  <1> QED BY <1>2, Zenon DEF f, Renewed

\* What each change of a row is in the register.
LEMMA EntryOfSame ==
  ASSUME NEW u, NEW v, Same(u, v)
  PROVE  Entry(v) = Entry(u)
  BY DEF Same, KeepsKeys, KeepsPlace, Entry

LEMMA EntryOfOpened ==
  ASSUME NEW u, NEW v, Opened(u, v)
  PROVE  Entry(v) = [Entry(u) EXCEPT !.status = "pending", !.present = DesiredPresent(v)]
  <1>1. Status(v) = "pending" /\ HeldPort(v) = HeldPort(u) /\ v.life = u.life /\ v.cdes = u.cdes /\ v.csyn = u.csyn
    BY DEF Opened, Status, HeldPort, KeepsKeys, KeepsPlace
  <1>2. Entry(u) = Line(u.life, DesiredPresent(u), u.cdes, Status(u), u.csyn, HeldPort(u))
    BY EntryLine
  <1>3. Entry(v) = Line(u.life, DesiredPresent(v), u.cdes, "pending", u.csyn, HeldPort(u))
    BY <1>1, EntryLine
  <1>4. Entry(v) = Reswitched(Entry(u), "pending", DesiredPresent(v))
    BY <1>2, <1>3, ReswitchedLine
  <1> QED BY <1>4, Zenon DEF Reswitched

LEMMA EntryOfMoved ==
  ASSUME NEW u, NEW v, Moved(u, v)
  PROVE  Entry(v) = [Entry(u) EXCEPT !.status = "pending", !.port = v.port]
  <1>1. /\ Status(v) = "pending" /\ HeldPort(v) = v.port /\ v.life = u.life /\ v.cdes = u.cdes
        /\ v.csyn = u.csyn /\ DesiredPresent(v) = DesiredPresent(u)
    BY DEF Moved, Status, HeldPort, KeepsKeys
  <1>2. Entry(u) = Line(u.life, DesiredPresent(u), u.cdes, Status(u), u.csyn, HeldPort(u))
    BY EntryLine
  <1>3. Entry(v) = Line(u.life, DesiredPresent(u), u.cdes, "pending", u.csyn, v.port)
    BY <1>1, EntryLine
  <1>4. Entry(v) = Replaced(Entry(u), "pending", v.port)
    BY <1>2, <1>3, ReplacedLine
  <1> QED BY <1>4, Zenon DEF Replaced

LEMMA EntryOfRekeyed ==
  ASSUME NEW u, NEW v, Rekeyed(u, v)
  PROVE  Entry(v) = [Entry(u) EXCEPT !.status = "pending", !.key = u.cdes + 1]
  <1>1. /\ Status(v) = "pending" /\ HeldPort(v) = HeldPort(u) /\ v.life = u.life /\ v.cdes = u.cdes + 1
        /\ v.csyn = u.csyn /\ DesiredPresent(v) = DesiredPresent(u)
    BY DEF Rekeyed, Status, HeldPort, KeepsPlace
  <1>2. Entry(u) = Line(u.life, DesiredPresent(u), u.cdes, Status(u), u.csyn, HeldPort(u))
    BY EntryLine
  <1>3. Entry(v) = Line(u.life, DesiredPresent(u), u.cdes + 1, "pending", u.csyn, HeldPort(u))
    BY <1>1, EntryLine
  <1>4. Entry(v) = Renewed(Entry(u), "pending", u.cdes + 1)
    BY <1>2, <1>3, RenewedLine
  <1> QED BY <1>4, Zenon DEF Renewed

LEMMA EntryOfRemoved ==
  ASSUME NEW u, NEW v, Dismissed(u, v)
  PROVE  Entry(v) = Register!Gone(Entry(u))
  <1>1. /\ Status(v) = "pending" /\ HeldPort(v) = HeldPort(u) /\ v.life = "deleted" /\ v.cdes = u.cdes
        /\ v.csyn = u.csyn /\ DesiredPresent(v) = FALSE
    BY DEF Dismissed, Status, DesiredPresent, HeldPort, KeepsKeys
  <1>2. Entry(u) = Line(u.life, DesiredPresent(u), u.cdes, Status(u), u.csyn, HeldPort(u))
    BY EntryLine
  <1>3. Entry(v) = Line("deleted", FALSE, u.cdes, "pending", u.csyn, HeldPort(u))
    BY <1>1, EntryLine
  <1> QED BY <1>2, <1>3 DEF Line, Register!Gone

LEMMA EntryOfAcknowledged ==
  ASSUME NEW u \in UserRow, UserOK(u), NEW v, Acknowledged(u, v)
  PROVE  Entry(v) = Register!Settled(Entry(u))
  <1> DEFINE force == IF DesiredPresent(u) THEN u.cdes ELSE 0
             port == IF u.life = "active" THEN HeldPort(u) ELSE 0
  <1>1. Status(v) = "settled"
    BY StatusOf DEF Acknowledged
  <1>2. u.life \in {"active", "deleted"}
    BY DEF Acknowledged, Exists, UserRow
  <1>3. HeldPort(v) = port
    BY <1>2, EntryFields DEF Acknowledged, HeldPort
  <1>4. /\ v.life = u.life /\ v.cdes = u.cdes /\ DesiredPresent(v) = DesiredPresent(u)
        /\ v.csyn = force
    BY DEF Acknowledged
  <1>5. Entry(u) = Line(u.life, DesiredPresent(u), u.cdes, Status(u), u.csyn, HeldPort(u))
    BY EntryLine
  <1>6. Entry(v) = Line(u.life, DesiredPresent(u), u.cdes, "settled", force, port)
    BY <1>1, <1>3, <1>4, EntryLine
  <1> QED BY <1>5, <1>6 DEF Line, Register!Settled

LEMMA EntryOfFailed ==
  ASSUME NEW u, NEW v, Failed(u, v)
  PROVE  Entry(v) = [Entry(u) EXCEPT !.status = "failed"]
  <1>1. /\ Status(v) = "failed" /\ HeldPort(v) = HeldPort(u) /\ v.life = u.life /\ v.cdes = u.cdes
        /\ v.csyn = u.csyn /\ DesiredPresent(v) = DesiredPresent(u)
    BY DEF Failed, Status, HeldPort, KeepsKeys, KeepsPlace
  <1>2. Entry(u) = Line(u.life, DesiredPresent(u), u.cdes, Status(u), u.csyn, HeldPort(u))
    BY EntryLine
  <1>3. Entry(v) = Line(u.life, DesiredPresent(u), u.cdes, "failed", u.csyn, HeldPort(u))
    BY <1>1, EntryLine
  <1>4. Entry(v) = Restated(Entry(u), "failed")
    BY <1>2, <1>3, RestatedLine
  <1> QED BY <1>4, Zenon DEF Restated

LEMMA EntryOfCreated ==
  ASSUME NEW u, UserOK(u), NEW v, Entered(u, v)
  PROVE  /\ Entry(u) = Register!Unused
         /\ Entry(v) = Line("active", TRUE, 1, "pending", 0, v.port)
  <1>1. u = NoUser
    BY DEF Entered, UserOK
  <1>2. Entry(u) = Register!Unused
    BY <1>1 DEF Entry, Register!Unused, NoUser, DesiredPresent, Status
  <1>3. Status(v) = "pending" /\ DesiredPresent(v) = TRUE /\ ~v.released
    BY DEF Entered, Status, DesiredPresent
  <1>4. Entry(v) = Line("active", TRUE, 1, "pending", 0, v.port)
    BY <1>3 DEF Entry, Line, Entered
  <1> QED BY <1>2, <1>4

\* A port of the pool that no row holds is free in the register.
LEMMA FreeInRegister ==
  ASSUME IInv, NEW p \in Ports, p \notin AssignedPorts
  PROVE  p \in Register!FreePorts
  <1>1. p # 0
    BY PortsAssumption
  <1>2. ASSUME NEW a \in Allocs PROVE Entry(db[a]).port # p
    <2>1. UserOK(db[a])
      BY DEF IInv
    <2>2. CASE ~Exists(db[a])
      BY <1>1, <2>1, <2>2, EntryFields DEF UserOK, NoUser
    <2>3. CASE Exists(db[a])
      BY <1>1, <2>3, EntryFields DEF AssignedPorts
    <2> QED BY <2>2, <2>3
  <1> QED BY <1>2 DEF Register!FreePorts

LEMMA InitRefines == Init => Register!Init
  <1> SUFFICES ASSUME Init PROVE Register!Init
    OBVIOUS
  <1>1. Entry(NoUser) = Register!Unused
    BY DEF Entry, Register!Unused, NoUser, DesiredPresent, Status
  <1> QED BY <1>1 DEF Init, Register!Init

\* The entry of one user is replaced.
LEMMA OnePut ==
  ASSUME NEW a \in Allocs, OthersKeep(a)
  PROVE  Entries' = [Entries EXCEPT ![a] = Entry(db'[a])]
  BY DEF OthersKeep, Entries

LEMMA StepRefines ==
  IInv /\ IInv' /\ Shape => [Register!Next]_Entries
  <1> SUFFICES ASSUME IInv, IInv', Shape PROVE [Register!Next]_Entries
    OBVIOUS
  <1>0. \A a \in Allocs : db[a] \in UserRow /\ UserOK(db[a])
    BY DEF IInv, TypeOK
  <1>1. CASE \A a \in Allocs : Switched(db[a], db'[a])
    <2> DEFINE users == {a \in Allocs : Opened(db[a], db'[a])}
               present == [a \in users |-> DesiredPresent(db'[a])]
    <2>1. users \in SUBSET Allocs /\ present \in [users -> BOOLEAN]
      BY DEF DesiredPresent
    <2>2. Register!Switch(users, present)
      <3>1. \A a \in users : Entries[a].life = "active" \/ (Entries[a].life = "deleted" /\ ~present[a])
        <4>1. ASSUME NEW a \in users
              PROVE  Entries[a].life = "active" \/ (Entries[a].life = "deleted" /\ ~present[a])
          <5>1. Entries[a].life = db[a].life /\ db'[a].life = db[a].life /\ db[a].life # "none"
                /\ present[a] = DesiredPresent(db'[a])
            BY EntryFields DEF Opened, KeepsPlace, Exists, Entries
          <5>2. db[a].life \in {"none", "active", "deleted"}
            BY <1>0 DEF UserRow
          <5> QED BY <5>1, <5>2 DEF DesiredPresent
        <4> QED BY <4>1
      <3>2. ASSUME NEW a \in Allocs
            PROVE  Entry(db'[a]) = IF a \in users
                                   THEN [Entry(db[a]) EXCEPT !.status = "pending", !.present = present[a]]
                                   ELSE Entry(db[a])
        BY <1>1, EntryOfSame, EntryOfOpened DEF Switched
      <3> QED BY <3>1, <3>2 DEF Register!Switch, Register!Live, Register!Open, Entries
    <2> HIDE DEF users, present
    <2> QED BY <2>1, <2>2 DEF Register!Next
  <1>2. ASSUME NEW a \in Allocs, OthersKeep(a), Entered(db[a], db'[a]), Taken(a)
        PROVE  Register!Next
    <2>1. db'[a].port \in Register!FreePorts /\ db'[a].port \in Ports
      BY <1>2, FreeInRegister DEF Taken
    <2>2. Entries[a] = Register!Unused
          /\ Entry(db'[a]) = Line("active", TRUE, 1, "pending", 0, db'[a].port)
      BY <1>0, <1>2, EntryOfCreated DEF Entries
    <2>3. Register!Register(a, db'[a].port)
      <3>1. Entries[a].life = "none"
        BY <2>2 DEF Register!Unused
      <3>2. Entries' = [Entries EXCEPT ![a] = Line("active", TRUE, 1, "pending", 0, db'[a].port)]
        BY <1>2, <2>2, OnePut
      <3>3. Register!Put(a, Line("active", TRUE, 1, "pending", 0, db'[a].port))
        BY <3>2 DEF Register!Put, Entries
      <3> QED BY <2>1, <3>1, <3>3, Zenon DEF Register!Register, Line, Entries
    <2> QED BY <2>1, <2>3 DEF Register!Next
  <1>3. ASSUME NEW a \in Allocs, OthersKeep(a), Moved(db[a], db'[a]), Taken(a)
        PROVE  Register!Next
    <2>1. db'[a].port \in Register!FreePorts /\ db'[a].port \in Ports
      BY <1>3, FreeInRegister DEF Taken
    <2>2. Entries[a].life = "active" /\ Entries[a] = Entry(db[a])
      BY <1>3, EntryFields DEF Moved, Entries
    <2>3. Register!Move(a, db'[a].port)
      BY <1>3, <2>1, <2>2, OnePut, EntryOfMoved, ZenonT(60)
         DEF Register!Move, Register!Put, Register!Live, Register!Open, Entries
    <2> QED BY <2>1, <2>3 DEF Register!Next
  <1>4. ASSUME NEW a \in Allocs, OthersKeep(a), Rekeyed(db[a], db'[a])
        PROVE  Register!Next
    <2>1. Entries[a].life = "active" /\ Entries[a].key = db[a].cdes /\ Entries[a] = Entry(db[a])
      BY <1>4, EntryFields DEF Rekeyed, Entries
    <2>2. Register!Rotate(a)
      <3>1. Entry(db'[a]) = [Register!Open(Entries[a]) EXCEPT !.key = db[a].cdes + 1]
        BY <1>4, <2>1, EntryOfRekeyed DEF Register!Open
      <3>2. Register!Put(a, [Register!Open(Entries[a]) EXCEPT !.key = Entries[a].key + 1])
        BY <1>4, <2>1, <3>1, OnePut DEF Register!Put, Entries
      <3> QED BY <2>1, <3>2, Zenon DEF Register!Rotate, Register!Live, Entries
    <2> QED BY <2>2 DEF Register!Next
  <1>5. ASSUME NEW a \in Allocs, OthersKeep(a), Dismissed(db[a], db'[a])
        PROVE  Register!Next
    <2>1. Entries[a].life = "active" /\ Entries[a] = Entry(db[a])
      BY <1>5, EntryFields DEF Dismissed, Entries
    <2>2. Register!Delete(a)
      BY <1>5, <2>1, OnePut, EntryOfRemoved DEF Register!Delete, Register!Put, Register!Live, Register!Open, Entries
    <2> QED BY <2>2 DEF Register!Next
  <1>6. ASSUME NEW a \in Allocs, OthersKeep(a), Acknowledged(db[a], db'[a])
        PROVE  Register!Next
    <2>1. /\ Entries[a].life = db[a].life /\ db[a].life # "none" /\ Entries[a].status = "pending"
          /\ Entries[a].present = DesiredPresent(db[a]) /\ Entries[a].key = db[a].cdes
          /\ Entries[a] = Entry(db[a])
      BY <1>6, EntryFields, StatusOf DEF Acknowledged, Exists, Entries
    <2>2. Register!Settle(a)
      BY <1>0, <1>6, <2>1, OnePut, EntryOfAcknowledged DEF Register!Settle, Register!Put, Register!Live, Entries
    <2> QED BY <2>2 DEF Register!Next
  <1>7. ASSUME NEW a \in Allocs, OthersKeep(a), Failed(db[a], db'[a])
        PROVE  Register!Next
    <2>1. /\ Entries[a].life = db[a].life /\ db[a].life # "none" /\ Entries[a].status = "pending"
          /\ Entries[a] = Entry(db[a])
      BY <1>7, EntryFields, StatusOf DEF Failed, Exists, Entries
    <2>2. Register!GiveUp(a)
      BY <1>7, <2>1, OnePut, EntryOfFailed DEF Register!GiveUp, Register!Put, Entries
    <2> QED BY <2>2 DEF Register!Next
  <1> QED BY <1>1, <1>2, <1>3, <1>4, <1>5, <1>6, <1>7 DEF Shape

\* ImplementsRegister: whatever handlers, quota paths, reconciler and workers
\* do with rows they read earlier, every transaction is a step of the
\* administrator's register or does not show there (store_sync.go,
\* store_users.go, store_quota.go, store_traffic.go).
THEOREM RegisterImplemented == Spec => ImplementsRegister
  <1>1. IInv /\ IInv' /\ AskedPorts /\ [Next]_vars => [Register!Next]_Entries
    BY NextShape, StepRefines
  <1> QED BY <1>1, InitRefines, StoreInvariant, AskedPortsHolds, PTL
          DEF Spec, ImplementsRegister, Register!Spec, Entries
=============================================================================
