---------------------------- MODULE Drift_proofs ----------------------------
(***************************************************************************)
(* Proofs about Drift, for any users, foreign inbounds, kinds and number   *)
(* of upsets.  The argument: a removal asks Xray's own list before it      *)
(* takes a client, and a deleted user's newest intent is a removal whose   *)
(* confirmation releases the port; the fence keeps the worker of an older  *)
(* intent from confirming in its place.                                    *)
(***************************************************************************)
EXTENDS Drift, TLAPS

----------------------------------------------------------------------------
(* The inductive invariant.                                                *)

WorkSound ==
    /\ job.pc \in RemovalSteps => job.on \in Targets
    /\ job.pc \in OpSteps => job.on \in Users
    /\ round.pc = "clients" => round.on \in Users
    /\ tpl.contract <= upsets

\* A user without rows has nothing in Xray; a deleted one is being removed
\* until his port is released.
SoundUser(row) ==
    /\ row.life = "none" => row.op = "none"
    /\ row.life = "deleted" => row.intent = "remove"
    /\ row.life = "deleted" /\ row.op = "done" => row.released

RowsSound == \A u \in Users : SoundUser(user[u]) /\ (user[u].life = "none" => u \notin up \cup late)

\* Behind the fence, the worker executes the newest intent.
JobSound ==
    /\ job.on \in Users => user[job.on].life # "none"
    /\ job.pc \in OpSteps /\ Fenced => (user[job.on].intent = "remove" <=> job.pc = "drop")

\* A row that is confirmed now was read as it is: the round keeps the mutex,
\* so nothing is confirmed beside it.
RoundSound ==
    round.pc # "idle" => \A u \in Users : user[u].op = "done" => round.rows[u].life = user[u].life

DriftInv == /\ DriftTypeOK /\ WorkSound /\ RowsSound /\ JobSound /\ RoundSound
            /\ NeverLeftToStrangers

----------------------------------------------------------------------------
(* The model's operators.                                                  *)

\* What a step may do to Xray: nobody's inbound but one of new appears.
XrayOK(new) ==
    /\ up' \subseteq up \cup new \cup Orphans /\ up' \subseteq Users \cup Orphans
    /\ clients' \in [Users -> SUBSET Clients] /\ NeverLeftToStrangers'

UpsetOK == upsets' \in 0 .. MaxUpsets /\ upsets <= upsets'

LEMMA UpsetFacts ==
  ASSUME DriftInv, UNCHANGED upsets \/ \E k : Upset(k)
  PROVE  UpsetOK
  BY DriftAssumption DEF DriftInv, DriftTypeOK, Upset, UpsetOK

LEMMA Types ==
  ASSUME DriftInv
  PROVE  /\ up \subseteq Users \cup Orphans /\ clients \in [Users -> SUBSET Clients]
         /\ late \subseteq Users /\ user \in [Users -> User]
         /\ removal \in [Targets -> RowStates] /\ job \in Job /\ round \in Round
         /\ NeverLeftToStrangers
  BY DEF DriftInv, DriftTypeOK

LEMMA SameXrayFacts ==
  ASSUME DriftInv, SameXray
  PROVE  XrayOK({})
  BY Types DEF XrayOK, SameXray, NeverLeftToStrangers

LEMMA RegisteredFacts ==
  ASSUME DriftInv, NEW u \in Users, Registered(u)
  PROVE  XrayOK({u})
  BY Types DEF XrayOK, Registered, NeverLeftToStrangers, Clients

LEMMA DeregisteredFacts ==
  ASSUME DriftInv, NEW u \in Users, Deregistered(u)
  PROVE  XrayOK({})
  BY Types DEF XrayOK, Deregistered, NeverLeftToStrangers, Clients

\* AddUser.
LEMMA WithFacts ==
  ASSUME DriftInv, NEW u \in Users, NEW c \in Clients, clients' = With(u, c), UNCHANGED up
  PROVE  XrayOK({})
  BY Types DEF XrayOK, With, NeverLeftToStrangers, Clients

\* RemoveUser, once its last line of defence has let it pass.
LEMMA WithoutFacts ==
  ASSUME DriftInv, NEW u \in Users, NEW c \in Clients, ~Refused(u, c),
         clients' = Without(u, c), UNCHANGED up
  PROVE  XrayOK({})
  <1>1. clients' = [clients EXCEPT ![u] = clients[u] \ {c}]
    BY DEF Without
  <1>2. clients' \in [Users -> SUBSET Clients]
    BY <1>1, Types
  <1>3. u \in up => clients'[u] \cap {"own", "safety"} # {}
    <2>1. clients'[u] = clients[u] \ {c}
      BY <1>1, Types
    <2>2. CASE c \in clients[u]
      BY <2>1, <2>2 DEF Refused, Survives
    <2>3. CASE c \notin clients[u]
      BY <2>1, <2>3, Types DEF NeverLeftToStrangers
    <2> QED BY <2>2, <2>3
  <1>4. NeverLeftToStrangers'
    BY <1>1, <1>3, Types DEF NeverLeftToStrangers
  <1> QED BY <1>2, <1>4, Types DEF XrayOK

\* RemoveInbound.
LEMMA RemoveOrphanFacts ==
  ASSUME DriftInv, NEW t, RemoveOrphan(t)
  PROVE  XrayOK({})
  BY Types DEF XrayOK, RemoveOrphan, NeverLeftToStrangers

----------------------------------------------------------------------------
(* handleDriftRemoval.                                                     *)

\* A client's removal is of a user's inbound.
LEMMA TargetFacts ==
  ASSUME NEW t \in Targets, ~IsInbound(t)
  PROVE  t[1] \in Users /\ t[2] \in Clients
  BY DEF Targets, IsInbound, Clients

LEMMA RemovalMoves ==
  ASSUME DriftInv, job.pc \in RemovalSteps, XrayOK({}), UpsetOK,
         UNCHANGED <<late, user, tpl, round>>,
         \/ \E s \in {"open", "failed", "done"} : Finishes(s)
         \/ \E pc \in RemovalSteps : Continues(pc)
  PROVE  DriftInv'
  <1>1. job.on \in Targets /\ node = "synchronizer" /\ round.pc = "idle"
    BY DEF DriftInv, DriftTypeOK, WorkSound
  <1>2. removal' \in [Targets -> RowStates]
    BY Types DEF Finishes, Continues, RowStates
  <1>3. CASE \E s \in {"open", "failed", "done"} : Finishes(s)
    <2>1. job' = Idle /\ node' = "free"
      BY <1>3 DEF Finishes, Release
    <2>2. job'.pc = "idle" /\ job'.on = None /\ job' \in Job
      BY <2>1 DEF Idle, Job
    <2>3. DriftTypeOK'
      BY <1>1, <1>2, <2>1, <2>2, WorkAssumption
         DEF DriftInv, DriftTypeOK, XrayOK, UpsetOK, RemovalSteps, OpSteps
    <2>4. WorkSound' /\ JobSound'
      BY <2>1, <2>2, <1>1, WorkAssumption DEF DriftInv, DriftTypeOK, WorkSound, JobSound, UpsetOK, RemovalSteps, OpSteps
    <2> QED BY <1>1, <2>3, <2>4, TagsAssumption DEF DriftInv, RowsSound, RoundSound, XrayOK
  <1>4. CASE \E pc \in RemovalSteps : Continues(pc)
    <2>1. PICK pc \in RemovalSteps : job' = [job EXCEPT !.pc = pc] /\ UNCHANGED <<removal, node>>
      BY <1>4 DEF Continues
    <2>2. job'.pc = pc /\ job'.on = job.on /\ job' \in Job
      BY <2>1, Types DEF Job
    <2>3. DriftTypeOK'
      BY <1>1, <1>2, <2>1, <2>2 DEF DriftInv, DriftTypeOK, XrayOK, UpsetOK
    <2>4. WorkSound' /\ JobSound'
      BY <2>1, <2>2, <1>1, WorkAssumption DEF DriftInv, DriftTypeOK, WorkSound, JobSound, UpsetOK, RemovalSteps, OpSteps
    <2> QED BY <1>1, <2>3, <2>4, TagsAssumption DEF DriftInv, RowsSound, RoundSound, XrayOK
  <1> QED BY <1>3, <1>4

LEMMA ObserveStep ==
  ASSUME DriftInv, ObserveTarget \/ RecheckTarget
  PROVE  DriftInv'
  <1>1. job.pc \in RemovalSteps /\ SameXray /\ UNCHANGED <<late, user, tpl, round>>
    BY DEF ObserveTarget, RecheckTarget, RemovalSteps
  <1>2. UNCHANGED upsets \/ Upset("unavailable")
    BY DEF ObserveTarget, RecheckTarget
  <1>3. \/ \E s \in {"open", "failed", "done"} : Finishes(s)
        \/ \E pc \in RemovalSteps : Continues(pc)
    BY DEF ObserveTarget, RecheckTarget, RemovalSteps
  <1> QED BY <1>1, <1>2, <1>3, UpsetFacts, SameXrayFacts, RemovalMoves

LEMMA RemoveStep ==
  ASSUME DriftInv, RemoveTarget
  PROVE  DriftInv'
  <1> DEFINE t == job.on
             taken == IF IsInbound(t) THEN RemoveOrphan(t)
                      ELSE clients' = Without(t[1], t[2]) /\ UNCHANGED up
             refused == ~IsInbound(t) /\ (~job.expected \/ Refused(t[1], t[2]))
  <1>1. job.pc = "remove" /\ UNCHANGED <<late, user, tpl, round>>
        /\ (SameXray \/ (~refused /\ taken))
    BY DEF RemoveTarget
  <1>2. t \in Targets
    BY <1>1 DEF DriftInv, WorkSound, RemovalSteps
  <1>3. XrayOK({})
    <2>1. CASE SameXray
      BY <2>1, SameXrayFacts
    <2>2. CASE ~refused /\ taken /\ IsInbound(t)
      BY <2>2, RemoveOrphanFacts
    <2>3. CASE ~refused /\ taken /\ ~IsInbound(t)
      BY <1>2, <2>3, TargetFacts, WithoutFacts
    <2> QED BY <1>1, <2>1, <2>2, <2>3
  <1>4. UNCHANGED upsets \/ Upset("timeout") \/ Upset("unavailable") \/ Upset("rejected")
    BY DEF RemoveTarget
  <1>5. \/ \E s \in {"open", "failed", "done"} : Finishes(s)
        \/ \E pc \in RemovalSteps : Continues(pc)
    BY DEF RemoveTarget, RemovalSteps
  <1> QED BY <1>1, <1>3, <1>4, <1>5, UpsetFacts, RemovalMoves DEF RemovalSteps

----------------------------------------------------------------------------
(* handle.                                                                 *)

LEMMA UserFields ==
  ASSUME NEW row \in User
  PROVE  /\ row.life \in {"none", "active", "deleted"} /\ row.intent \in {"create", "rotate", "remove"}
         /\ row.op \in RowStates /\ row.seen \in BOOLEAN /\ row.released \in BOOLEAN
  BY DEF User

\* The rows of one user change, not his life.
LEMMA OneRow ==
  ASSUME DriftInv, NEW w \in Users, NEW row \in User, user' = [user EXCEPT ![w] = row],
         SoundUser(row), row.life # "none",
         up' \cap Users \subseteq up \cup {w}, late' \subseteq late \cup {w}
  PROVE  RowsSound' /\ user' \in [Users -> User]
  BY Types DEF DriftInv, RowsSound

LEMMA ConfirmsFacts ==
  ASSUME DriftInv, job.on \in Users, NEW present \in BOOLEAN, Confirms(present)
  PROVE  \E row \in User : /\ user' = [user EXCEPT ![job.on] = row]
                           /\ row.life = user[job.on].life /\ row.intent = user[job.on].intent
                           /\ row.op = "done"
                           /\ ~present /\ row.life = "deleted" => row.released
  <1> DEFINE old == user[job.on]
             b == old.released \/ (~present /\ old.life = "deleted")
             row == [old EXCEPT !.op = "done", !.seen = present, !.released = b]
  <1>1. user' = [user EXCEPT ![job.on] = row]
    BY DEF Confirms
  <1>2. old \in User
    BY Types
  <1>3. b \in BOOLEAN /\ (~present /\ old.life = "deleted" => b)
    OBVIOUS
  <1> HIDE DEF b
  <1>4. row \in User /\ row.life = old.life /\ row.intent = old.intent /\ row.op = "done" /\ row.released = b
    BY <1>2, <1>3 DEF User, RowStates
  <1> QED BY <1>1, <1>3, <1>4

LEMMA EndsFacts ==
  ASSUME DriftInv, job.on \in Users, NEW s \in {"open", "failed"}, Ends(s)
  PROVE  \E row \in User : /\ user' = [user EXCEPT ![job.on] = row]
                           /\ row.life = user[job.on].life /\ row.intent = user[job.on].intent
                           /\ row.op = s
  <1> DEFINE row == [user[job.on] EXCEPT !.op = s]
  <1>1. user' = [user EXCEPT ![job.on] = row]
    BY DEF Ends
  <1>2. user[job.on] \in User
    BY Types
  <1>3. row \in User /\ row.life = user[job.on].life /\ row.intent = user[job.on].intent /\ row.op = s
    BY <1>2 DEF User, RowStates
  <1> QED BY <1>1, <1>3

\* The worker ends: the lease is over, whatever became of it.
LEMMA OpEnds ==
  ASSUME DriftInv, job.pc \in OpSteps, XrayOK({job.on}), UpsetOK,
         late' \subseteq late \cup {job.on}, UNCHANGED <<tpl, removal, round>>, Release,
         user' \in [Users -> User], RowsSound'
  PROVE  DriftInv'
  <1>1. job.on \in Users /\ node = "synchronizer" /\ round.pc = "idle"
    BY DEF DriftInv, DriftTypeOK, WorkSound
  <1>2. job' = Idle /\ node' = "free" /\ job'.pc = "idle" /\ job'.on = None /\ job' \in Job
    BY DEF Release, Idle, Job
  <1>3. DriftTypeOK'
    BY <1>1, <1>2, WorkAssumption DEF DriftInv, DriftTypeOK, XrayOK, UpsetOK, RemovalSteps, OpSteps
  <1>4. WorkSound' /\ JobSound'
    BY <1>1, <1>2, WorkAssumption DEF DriftInv, DriftTypeOK, WorkSound, JobSound, UpsetOK, RemovalSteps, OpSteps
  <1> QED BY <1>1, <1>3, <1>4 DEF DriftInv, RoundSound, XrayOK

\* Reschedule, Fail and ConfirmSync.
LEMMA OpCloses ==
  ASSUME DriftInv, job.pc \in OpSteps, XrayOK({job.on}), UpsetOK,
         late' \subseteq late \cup {job.on}, UNCHANGED <<tpl, removal, round>>,
         \/ \E s \in {"open", "failed"} : Ends(s)
         \/ job.pc # "drop" /\ Fenced /\ Confirms(TRUE)
         \/ Confirms(FALSE)
  PROVE  DriftInv'
  <1>1. job.on \in Users /\ user[job.on] \in User /\ SoundUser(user[job.on]) /\ user[job.on].life # "none"
    BY Types DEF DriftInv, WorkSound, RowsSound, JobSound
  <1>2. up' \cap Users \subseteq up \cup {job.on}
    BY TagsAssumption DEF XrayOK
  <1>3. Release
    BY DEF Ends, Confirms
  <1>4. \E row \in User : /\ user' = [user EXCEPT ![job.on] = row]
                          /\ SoundUser(row) /\ row.life = user[job.on].life
    <2>1. CASE \E s \in {"open", "failed"} : Ends(s)
      BY <1>1, <2>1, EndsFacts DEF SoundUser
    <2>2. CASE job.pc # "drop" /\ Fenced /\ Confirms(TRUE)
      <3>1. user[job.on].intent # "remove"
        BY <2>2 DEF DriftInv, JobSound
      <3>2. user[job.on].life # "deleted"
        BY <1>1, <3>1 DEF SoundUser
      <3> QED BY <1>1, <2>2, <3>2, ConfirmsFacts DEF SoundUser
    <2>3. CASE Confirms(FALSE)
      BY <1>1, <2>3, ConfirmsFacts DEF SoundUser
    <2> QED BY <2>1, <2>2, <2>3
  <1>5. RowsSound' /\ user' \in [Users -> User]
    BY <1>1, <1>2, <1>4, OneRow
  <1> QED BY <1>3, <1>5, OpEnds

\* The worker goes on.
LEMMA OpGoesOn ==
  ASSUME DriftInv, job.pc \in OpSteps \ {"drop"}, Fenced, XrayOK({}), UpsetOK,
         UNCHANGED <<late, user, tpl, removal, round, node>>,
         NEW pc \in OpSteps \ {"drop"}, NEW main \in BOOLEAN, job' = [job EXCEPT !.pc = pc, !.main = main]
  PROVE  DriftInv'
  <1>1. job.on \in Users /\ node = "synchronizer" /\ round.pc = "idle"
    BY DEF DriftInv, DriftTypeOK, WorkSound
  <1>2. job' \in Job /\ job'.pc = pc /\ job'.on = job.on
    BY Types DEF Job
  <1>3. DriftTypeOK'
    BY <1>1, <1>2 DEF DriftInv, DriftTypeOK, XrayOK, UpsetOK
  <1>4. WorkSound'
    BY <1>1, <1>2 DEF DriftInv, DriftTypeOK, WorkSound, UpsetOK, RemovalSteps, OpSteps
  <1>5. JobSound'
    BY <1>1, <1>2 DEF DriftInv, JobSound, Fenced
  <1> QED BY <1>1, <1>3, <1>4, <1>5, TagsAssumption DEF DriftInv, RowsSound, RoundSound, XrayOK

LEMMA DropOpStep ==
  ASSUME DriftInv, DropOp
  PROVE  DriftInv'
  <1>1. job.pc \in OpSteps /\ Release /\ UNCHANGED <<up, clients, late, user, tpl, removal, round, upsets>>
    BY DEF DropOp
  <1>2. XrayOK({job.on}) /\ UpsetOK
    BY <1>1, SameXrayFacts, UpsetFacts DEF SameXray, XrayOK
  <1>3. RowsSound' /\ user' \in [Users -> User]
    BY <1>1, Types DEF DriftInv, RowsSound
  <1> QED BY <1>1, <1>2, <1>3, OpEnds

\* Any failing call.
LEMMA CallFailsFacts ==
  ASSUME DriftInv, CallFails
  PROVE  UpsetOK /\ \E s \in {"open", "failed"} : Ends(s)
  BY UpsetFacts DEF CallFails

LEMMA CreateInboundStep ==
  ASSUME DriftInv, CreateInbound
  PROVE  DriftInv'
  <1> DEFINE u == job.on
  <1>1. job.pc = "create" /\ Fenced /\ UNCHANGED <<tpl, removal, round>> /\ u \in Users
    BY DEF CreateInbound, At, DriftInv, WorkSound, OpSteps
  <1>2. XrayOK({u})
    <2>1. CASE Registered(u)
      BY <1>1, <2>1, RegisteredFacts
    <2>2. CASE Deregistered(u)
      BY <1>1, <2>2, DeregisteredFacts DEF XrayOK
    <2>3. CASE SameXray
      BY <2>3, SameXrayFacts DEF XrayOK
    <2> QED BY <2>1, <2>2, <2>3 DEF CreateInbound
  <1>3. late' \subseteq late \cup {u}
    BY DEF CreateInbound
  <1>4. UpsetOK
    BY UpsetFacts, CallFailsFacts DEF CreateInbound
  <1>5. (\E s \in {"open", "failed"} : Ends(s)) \/ Confirms(TRUE)
    BY CallFailsFacts DEF CreateInbound
  <1> QED BY <1>1, <1>2, <1>3, <1>4, <1>5, OpCloses DEF OpSteps

LEMMA DropInboundStep ==
  ASSUME DriftInv, DropInbound
  PROVE  DriftInv'
  <1>1. job.pc = "drop" /\ UNCHANGED <<tpl, removal, round, late>> /\ job.on \in Users
    BY DEF DropInbound, At, DriftInv, WorkSound, OpSteps
  <1>2. XrayOK({job.on})
    <2>1. CASE Deregistered(job.on)
      BY <1>1, <2>1, DeregisteredFacts DEF XrayOK
    <2>2. CASE SameXray
      BY <2>2, SameXrayFacts DEF XrayOK
    <2> QED BY <2>1, <2>2 DEF DropInbound
  <1>3. UpsetOK
    BY UpsetFacts, CallFailsFacts DEF DropInbound
  <1>4. (\E s \in {"open", "failed"} : Ends(s)) \/ Confirms(FALSE)
    BY CallFailsFacts DEF DropInbound
  <1> QED BY <1>1, <1>2, <1>3, <1>4, OpCloses DEF OpSteps

\* Goes, as OpGoesOn wants it.
LEMMA GoesFacts ==
  ASSUME DriftInv, NEW pc, Goes(pc)
  PROVE  UNCHANGED <<user, node>> /\ job.main \in BOOLEAN /\ job' = [job EXCEPT !.pc = pc, !.main = job.main]
  <1>1. job \in Job /\ job.main \in BOOLEAN
    BY Types DEF Job
  <1>2. job' = [job EXCEPT !.pc = pc] /\ UNCHANGED <<user, node>>
    BY DEF Goes
  <1>3. [job EXCEPT !.pc = pc] = [job EXCEPT !.pc = pc, !.main = job.main]
    BY <1>1 DEF Job
  <1> QED BY <1>1, <1>2, <1>3

\* A rotation's call that succeeds, fails or is refused.
LEMMA RotationMoves ==
  ASSUME DriftInv, job.pc \in OpSteps \ {"drop"}, Fenced, XrayOK({}), UpsetOK,
         UNCHANGED <<late, tpl, removal, round>>,
         \/ \E s \in {"open", "failed"} : Ends(s)
         \/ Confirms(TRUE)
         \/ \E pc \in OpSteps \ {"drop"} : Goes(pc)
  PROVE  DriftInv'
  <1>1. XrayOK({job.on})
    BY DEF XrayOK
  <1>2. CASE (\E s \in {"open", "failed"} : Ends(s)) \/ Confirms(TRUE)
    BY <1>1, <1>2, OpCloses
  <1>3. CASE \E pc \in OpSteps \ {"drop"} : Goes(pc)
    BY <1>3, GoesFacts, OpGoesOn
  <1> QED BY <1>2, <1>3

LEMMA RotateListStep ==
  ASSUME DriftInv, RotateList
  PROVE  DriftInv'
  <1>1. job.pc = "rot_list" /\ Fenced /\ UNCHANGED <<tpl, removal, round, late>> /\ SameXray
    BY DEF RotateList, At
  <1>2. CASE CallFails
    BY <1>1, <1>2, CallFailsFacts, SameXrayFacts, RotationMoves DEF OpSteps
  <1>3. CASE ~CallFails
    <2> DEFINE u == job.on
               own == "own" \in clients[u]
               pc == CASE u \notin up -> "create"
                       [] u \in up /\ "safety" \notin clients[u] -> "rot_safety"
                       [] u \in up /\ "safety" \in clients[u] /\ own -> "rot_remove"
                       [] OTHER -> "rot_add"
    <2>1. job' = [job EXCEPT !.main = own, !.pc = pc] /\ UNCHANGED <<user, node, upsets>>
      BY <1>3 DEF RotateList
    <2>2. own \in BOOLEAN /\ pc \in OpSteps \ {"drop"}
      BY DEF OpSteps
    <2> HIDE DEF own, pc
    <2>3. [job EXCEPT !.main = own, !.pc = pc] = [job EXCEPT !.pc = pc, !.main = own]
      BY Types DEF Job
    <2> QED BY <1>1, <2>1, <2>2, <2>3, UpsetFacts, SameXrayFacts, OpGoesOn DEF OpSteps
  <1> QED BY <1>2, <1>3

LEMMA RotateSafetyStep ==
  ASSUME DriftInv, RotateSafety
  PROVE  DriftInv'
  <1>1. job.pc = "rot_safety" /\ Fenced /\ UNCHANGED <<tpl, removal, round, late>> /\ job.on \in Users
    BY DEF RotateSafety, At, DriftInv, WorkSound, OpSteps
  <1>2. XrayOK({})
    BY <1>1, SameXrayFacts, WithFacts DEF RotateSafety, Adds, Clients
  <1>3. UpsetOK
    BY UpsetFacts, CallFailsFacts DEF RotateSafety
  <1>4. (\E s \in {"open", "failed"} : Ends(s)) \/ \E pc \in OpSteps \ {"drop"} : Goes(pc)
    BY CallFailsFacts DEF RotateSafety, OpSteps
  <1> QED BY <1>1, <1>2, <1>3, <1>4, RotationMoves DEF OpSteps

LEMMA RotateRemoveStep ==
  ASSUME DriftInv, RotateRemove
  PROVE  DriftInv'
  <1>1. job.pc = "rot_remove" /\ Fenced /\ UNCHANGED <<tpl, removal, round, late>> /\ job.on \in Users
    BY DEF RotateRemove, At, DriftInv, WorkSound, OpSteps
  <1>2. XrayOK({})
    BY <1>1, SameXrayFacts, WithoutFacts DEF RotateRemove, Takes, Clients
  <1>3. UpsetOK
    BY UpsetFacts, CallFailsFacts DEF RotateRemove
  <1>4. (\E s \in {"open", "failed"} : Ends(s)) \/ \E pc \in OpSteps \ {"drop"} : Goes(pc)
    BY CallFailsFacts DEF RotateRemove, OpSteps
  <1> QED BY <1>1, <1>2, <1>3, <1>4, RotationMoves DEF OpSteps

LEMMA RotateAddStep ==
  ASSUME DriftInv, RotateAdd
  PROVE  DriftInv'
  <1>1. job.pc = "rot_add" /\ Fenced /\ UNCHANGED <<tpl, removal, round, late>> /\ job.on \in Users
    BY DEF RotateAdd, At, DriftInv, WorkSound, OpSteps
  <1>2. XrayOK({})
    BY <1>1, SameXrayFacts, WithFacts DEF RotateAdd, Adds, Clients
  <1>3. UpsetOK
    BY UpsetFacts DEF RotateAdd
  <1>4. (\E s \in {"open", "failed"} : Ends(s)) \/ \E pc \in OpSteps \ {"drop"} : Goes(pc)
    BY DEF RotateAdd, OpSteps
  <1> QED BY <1>1, <1>2, <1>3, <1>4, RotationMoves DEF OpSteps

LEMMA RotateCleanStep ==
  ASSUME DriftInv, RotateClean
  PROVE  DriftInv'
  <1>1. job.pc = "rot_clean" /\ Fenced /\ UNCHANGED <<tpl, removal, round, late>> /\ job.on \in Users
    BY DEF RotateClean, At, DriftInv, WorkSound, OpSteps
  <1>2. XrayOK({})
    BY <1>1, SameXrayFacts, WithoutFacts DEF RotateClean, Takes, Clients
  <1>3. UpsetOK
    BY UpsetFacts DEF RotateClean
  <1>4. (\E s \in {"open", "failed"} : Ends(s)) \/ Confirms(TRUE)
    BY DEF RotateClean
  <1> QED BY <1>1, <1>2, <1>3, <1>4, RotationMoves DEF OpSteps

LEMMA SyncStepSound ==
  ASSUME DriftInv, SyncStep
  PROVE  DriftInv'
  BY ObserveStep, RemoveStep, DropOpStep, CreateInboundStep, DropInboundStep, RotateListStep,
     RotateSafetyStep, RotateRemoveStep, RotateAddStep, RotateCleanStep DEF SyncStep

----------------------------------------------------------------------------
(* Leases.                                                                 *)

LEMMA LeaseRemovalStep ==
  ASSUME DriftInv, NEW t \in Targets, LeaseRemoval(t)
  PROVE  DriftInv'
  <1> DEFINE a == (removal[t] = "leased")
             b == ~IsInbound(t) /\ ~user[t[1]].released
  <1>1. /\ removal' = [removal EXCEPT ![t] = "leased"] /\ job = Idle
        /\ job' = [Idle EXCEPT !.pc = "leased", !.on = t, !.reclaimed = a, !.expected = b]
        /\ UNCHANGED <<up, clients, late, user, tpl, node, round, upsets>>
    BY DEF LeaseRemoval
  <1>2. a \in BOOLEAN /\ b \in BOOLEAN
    OBVIOUS
  <1> HIDE DEF a, b
  <1>3. job' = [pc |-> "leased", on |-> t, reclaimed |-> a, expected |-> b, main |-> FALSE]
    BY <1>1 DEF Idle
  <1>4. job' \in Job /\ job'.pc = "leased" /\ job'.on = t
    BY <1>2, <1>3 DEF Job
  <1>5. removal' \in [Targets -> RowStates] /\ removal'[t] = "leased"
    BY <1>1, Types DEF RowStates
  <1>6. job.pc = "idle"
    BY <1>1 DEF Idle
  <1>7. DriftTypeOK'
    BY <1>1, <1>4, <1>5, <1>6 DEF DriftInv, DriftTypeOK, RemovalSteps, OpSteps
  <1>8. WorkSound' /\ JobSound'
    BY <1>1, <1>4, WorkAssumption DEF DriftInv, WorkSound, JobSound, RemovalSteps, OpSteps
  <1> QED BY <1>1, <1>7, <1>8 DEF DriftInv, RowsSound, RoundSound, NeverLeftToStrangers

LEMMA TakeStep ==
  ASSUME DriftInv, TakeRemoval \/ TakeOp
  PROVE  DriftInv'
  <1>1. /\ job.pc = "leased" /\ node = "free" /\ node' = "synchronizer"
        /\ UNCHANGED <<up, clients, late, user, tpl, removal, round, upsets>>
    BY DEF TakeRemoval, TakeOp
  <1>2. \E pc : /\ job' = [job EXCEPT !.pc = pc]
                /\ \/ job.on \in Targets /\ pc \in RemovalSteps
                   \/ job.on \in Users /\ pc \in OpSteps /\ (user[job.on].intent = "remove" <=> pc = "drop")
    <2>1. CASE TakeRemoval
      BY <2>1 DEF TakeRemoval, RemovalSteps
    <2>2. CASE TakeOp
      BY <2>2 DEF TakeOp, OpSteps
    <2> QED BY <2>1, <2>2
  <1>3. PICK pc : /\ job' = [job EXCEPT !.pc = pc]
                  /\ \/ job.on \in Targets /\ pc \in RemovalSteps
                     \/ job.on \in Users /\ pc \in OpSteps /\ (user[job.on].intent = "remove" <=> pc = "drop")
    BY <1>2
  <1>4. job' \in Job /\ job'.pc = pc /\ job'.on = job.on /\ pc \in RemovalSteps \cup OpSteps
    BY <1>3, Types DEF Job
  <1>5. round.pc = "idle"
    BY <1>1 DEF DriftInv, DriftTypeOK
  <1>6. DriftTypeOK'
    BY <1>1, <1>4, <1>5 DEF DriftInv, DriftTypeOK
  <1>7. WorkSound'
    BY <1>1, <1>3, <1>4, WorkAssumption DEF DriftInv, WorkSound, RemovalSteps, OpSteps
  <1>8. JobSound'
    BY <1>1, <1>3, <1>4, WorkAssumption DEF DriftInv, JobSound, Fenced, RemovalSteps, OpSteps
  <1> QED BY <1>1, <1>6, <1>7, <1>8 DEF DriftInv, RowsSound, RoundSound, NeverLeftToStrangers

LEMMA LeaseOpStep ==
  ASSUME DriftInv, NEW u \in Users, LeaseOp(u)
  PROVE  DriftInv'
  <1> DEFINE row == [user[u] EXCEPT !.op = "leased"]
  <1>1. /\ user' = [user EXCEPT ![u] = row] /\ job = Idle /\ user[u].op \in OpenRow
        /\ job' = [Idle EXCEPT !.pc = "leased", !.on = u]
        /\ UNCHANGED <<up, clients, late, tpl, removal, node, round, upsets>>
    BY DEF LeaseOp
  <1>2. user[u] \in User /\ SoundUser(user[u])
    BY Types DEF DriftInv, RowsSound
  <1>3. /\ row \in User /\ row.life = user[u].life /\ row.intent = user[u].intent
        /\ row.op = "leased" /\ row.life # "none" /\ SoundUser(row)
    BY <1>1, <1>2 DEF User, RowStates, SoundUser, OpenRow
  <1> HIDE DEF row
  <1>4. RowsSound' /\ user' \in [Users -> User]
    BY <1>1, <1>3, OneRow
  <1>5. job' \in Job /\ job'.pc = "leased" /\ job'.on = u /\ job.pc = "idle"
    BY <1>1 DEF Job, Idle
  <1>6. user'[u] = row /\ \A x \in Users \ {u} : user'[x] = user[x]
    BY <1>1, Types
  <1>7. DriftTypeOK'
    BY <1>1, <1>4, <1>5, WorkAssumption DEF DriftInv, DriftTypeOK, RemovalSteps, OpSteps
  <1>8. WorkSound'
    BY <1>1, <1>5 DEF DriftInv, WorkSound, RemovalSteps, OpSteps
  <1>9. JobSound'
    BY <1>3, <1>5, <1>6 DEF JobSound, OpSteps
  <1>10. RoundSound' /\ NeverLeftToStrangers'
    BY <1>1, <1>3, <1>6 DEF DriftInv, RoundSound, NeverLeftToStrangers
  <1> QED BY <1>4, <1>7, <1>8, <1>9, <1>10 DEF DriftInv

----------------------------------------------------------------------------
(* ReconcileOnce.                                                          *)

\* A row that a worker has leased is not replaced.
LEMMA EnqueuedFacts ==
  ASSUME DriftInv, NEW ts
  PROVE  /\ Enqueued(removal, ts) \in [Targets -> RowStates]
         /\ \A t \in Targets : removal[t] = "leased" => Enqueued(removal, ts)[t] = "leased"
  BY Types DEF Enqueued, Queued, OpenRow, RowStates

LEMMA NoRoundFacts == NoRound \in Round /\ NoRound.pc = "idle"
  <1>1. NoUser \in User
    BY DEF NoUser, User, RowStates
  <1> QED BY <1>1 DEF NoRound, Round

\* A round that goes on or ends leaves the synchronizer and Xray alone.
LEMMA RoundMoves ==
  ASSUME DriftInv, round.pc # "idle", UNCHANGED <<up, clients, late, tpl, job>>, UpsetOK,
         user' \in [Users -> User], RowsSound', JobSound',
         removal' \in [Targets -> RowStates], \A t \in Targets : removal[t] = "leased" => removal'[t] = "leased",
         \/ EndRound
         \/ /\ round' \in Round /\ round'.pc # "idle" /\ round'.rows = round.rows /\ UNCHANGED node
            /\ round'.pc = "clients" => round'.on \in Users
            /\ \A u \in Users : user'[u].op = "done" => user[u].op = "done" /\ user'[u].life = user[u].life
  PROVE  DriftInv'
  <1>1. node = "reconciler" /\ job.pc \notin RemovalSteps \cup OpSteps
    BY DEF DriftInv, DriftTypeOK
  <1>2. round' \in Round /\ (round'.pc = "idle" <=> node' = "free") /\ (round'.pc # "idle" <=> node' = "reconciler")
        /\ node' # "synchronizer"
    BY <1>1, NoRoundFacts DEF EndRound
  <1>3. DriftTypeOK'
    BY <1>1, <1>2 DEF DriftInv, DriftTypeOK, UpsetOK
  <1>4. WorkSound'
    BY <1>1, NoRoundFacts DEF DriftInv, DriftTypeOK, WorkSound, UpsetOK, EndRound, RemovalSteps, OpSteps
  <1>5. RoundSound'
    BY NoRoundFacts DEF DriftInv, RoundSound, EndRound
  <1> QED BY <1>3, <1>4, <1>5 DEF DriftInv, NeverLeftToStrangers

\* ... and the rows of the users.
LEMMA RoundReads ==
  ASSUME DriftInv, round.pc # "idle", UNCHANGED <<up, clients, late, user, tpl, job>>, UpsetOK,
         removal' \in [Targets -> RowStates], \A t \in Targets : removal[t] = "leased" => removal'[t] = "leased",
         \/ EndRound
         \/ /\ round' \in Round /\ round'.pc # "idle" /\ round'.rows = round.rows /\ UNCHANGED node
            /\ round'.pc = "clients" => round'.on \in Users
  PROVE  DriftInv'
  <1>1. user' \in [Users -> User] /\ RowsSound' /\ JobSound'
    BY Types DEF DriftInv, RowsSound, JobSound, Fenced
  <1> QED BY <1>1, RoundMoves

LEMMA BeginRoundStep ==
  ASSUME DriftInv, BeginRound
  PROVE  DriftInv'
  <1>1. /\ node = "free" /\ node' = "reconciler"
        /\ round' = [NoRound EXCEPT !.pc = "list", !.rows = user, !.skip = tpl.incompatible]
        /\ UNCHANGED <<up, clients, late, user, tpl, removal, job, upsets>>
    BY DEF BeginRound
  <1>2. tpl.incompatible \in BOOLEAN
    BY DEF DriftInv, DriftTypeOK
  <1>3. round' \in Round /\ round'.pc = "list" /\ round'.rows = user
    BY <1>1, <1>2, NoRoundFacts, Types DEF Round
  <1>4. DriftTypeOK'
    BY <1>1, <1>3 DEF DriftInv, DriftTypeOK
  <1>5. WorkSound' /\ JobSound' /\ RoundSound'
    BY <1>1, <1>3 DEF DriftInv, WorkSound, JobSound, Fenced, RoundSound
  <1> QED BY <1>1, <1>4, <1>5 DEF DriftInv, RowsSound, NeverLeftToStrangers

LEMMA ListInboundsStep ==
  ASSUME DriftInv, ListInbounds
  PROVE  DriftInv'
  <1>1. round.pc = "list" /\ UNCHANGED <<up, clients, late, user, tpl, job>>
    BY DEF ListInbounds
  <1>2. UpsetOK
    BY UpsetFacts DEF ListInbounds
  <1>3. removal' \in [Targets -> RowStates] /\ \A t \in Targets : removal[t] = "leased" => removal'[t] = "leased"
    BY EnqueuedFacts, Types DEF ListInbounds
  <1>4. \/ EndRound
        \/ /\ round' \in Round /\ round'.pc # "idle" /\ round'.rows = round.rows /\ UNCHANGED node
           /\ round'.pc = "clients" => round'.on \in Users
    <2>1. CASE ~EndRound
      <3> DEFINE todo == IF round.skip THEN {} ELSE {u \in Users : round.rows[u].life # "none"}
      <3>1. round' = [round EXCEPT !.pc = "users", !.tags = up, !.todo = todo] /\ UNCHANGED node
        BY <2>1 DEF ListInbounds
      <3>2. todo \subseteq Users
        OBVIOUS
      <3> HIDE DEF todo
      <3>3. round' \in Round /\ round'.pc = "users" /\ round'.rows = round.rows
        BY <3>1, <3>2, Types DEF Round
      <3> QED BY <3>1, <3>3
    <2> QED BY <2>1
  <1> QED BY <1>1, <1>2, <1>3, <1>4, RoundReads

LEMMA ListUsersStep ==
  ASSUME DriftInv, NEW u \in Users, ListUsers(u)
  PROVE  DriftInv'
  <1>1. round.pc = "users" /\ UNCHANGED <<up, clients, late, user, tpl, removal, job>>
    BY DEF ListUsers
  <1>2. UpsetOK
    BY UpsetFacts DEF ListUsers
  <1>3. \/ EndRound
        \/ /\ round' \in Round /\ round'.pc # "idle" /\ round'.rows = round.rows /\ UNCHANGED node
           /\ round'.pc = "clients" => round'.on \in Users
    <2>1. CASE ~EndRound
      <3> DEFINE listed == IF u \in round.tags THEN clients[u] ELSE {}
                 todo == round.todo \ {u}
      <3>1. round' = [round EXCEPT !.pc = "clients", !.on = u, !.todo = todo, !.listed = listed] /\ UNCHANGED node
        BY <2>1, Types DEF ListUsers, Round
      <3>2. listed \subseteq Clients /\ todo \subseteq Users
        BY Types DEF Round
      <3> HIDE DEF listed, todo
      <3>3. round' \in Round /\ round'.pc = "clients" /\ round'.rows = round.rows /\ round'.on = u
        BY <3>1, <3>2, Types DEF Round
      <3> QED BY <3>1, <3>3
    <2> QED BY <2>1
  <1> QED BY <1>1, <1>2, <1>3, RoundReads, Types

LEMMA RequeueStaleStep ==
  ASSUME DriftInv, RequeueStale
  PROVE  DriftInv'
  <1>1. round.pc = "users" /\ EndRound /\ UNCHANGED <<up, clients, late, user, tpl, job, upsets>>
    BY DEF RequeueStale
  <1>2. removal' \in [Targets -> RowStates] /\ \A t \in Targets : removal[t] = "leased" => removal'[t] = "leased"
    BY EnqueuedFacts DEF RequeueStale
  <1> QED BY <1>1, <1>2, UpsetFacts, RoundReads

LEMMA ReconcileUserStep ==
  ASSUME DriftInv, ReconcileUser
  PROVE  DriftInv'
  <1> DEFINE u == round.on
             old == user[u]
             actual == "own" \in round.listed
             desired == DesiredPresent(round.rows[u])
             drifted == ~PendingSync(round.rows[u]) /\ actual # desired /\ user[u].op = "done"
             op == IF drifted THEN "open" ELSE old.op
             intent == IF drifted THEN (IF desired THEN "create" ELSE "remove") ELSE old.intent
             row == [old EXCEPT !.seen = actual, !.op = op, !.intent = intent]
  <1>1. round.pc = "clients" /\ u \in Users /\ old \in User /\ SoundUser(old)
    BY Types DEF ReconcileUser, DriftInv, WorkSound, RowsSound
  <1>2. /\ removal' = Enqueued(removal, {<<u, c>> : c \in Unknown(u)})
        /\ round' = [round EXCEPT !.pc = "users", !.on = None, !.listed = {}]
        /\ UNCHANGED <<up, clients, late, tpl, node, job, upsets>>
    BY DEF ReconcileUser
  <1>3. user' = [user EXCEPT ![u] = row]
    BY DEF ReconcileUser
  <1>4. drifted /\ old.life = "deleted" => ~desired
    BY <1>1 DEF DriftInv, RoundSound, DesiredPresent
  <1>5. op \in RowStates /\ intent \in {"create", "rotate", "remove"} /\ actual \in BOOLEAN
    BY <1>1, UserFields DEF RowStates
  <1>6. /\ op = "done" => old.op = "done"
        /\ old.life = "none" => op = "none"
        /\ old.life = "deleted" => intent = "remove"
    BY <1>1, <1>4 DEF SoundUser
  <1> HIDE DEF drifted, op, intent, actual, desired
  <1>7. /\ row \in User /\ row.life = old.life /\ row.released = old.released
        /\ row.op = op /\ row.intent = intent
    BY <1>1, <1>5 DEF User
  <1>8. SoundUser(row)
    BY <1>1, <1>6, <1>7 DEF SoundUser
  <1> HIDE DEF row, old
  <1>9. user' \in [Users -> User] /\ user'[u] = row /\ \A x \in Users \ {u} : user'[x] = user[x]
    BY <1>1, <1>3, <1>7, Types
  <1>10. RowsSound'
    BY <1>1, <1>2, <1>7, <1>8, <1>9 DEF DriftInv, RowsSound, old
  <1>11. JobSound'
    <2>1. job.pc \notin OpSteps
      BY <1>1 DEF DriftInv, DriftTypeOK
    <2> QED BY <1>2, <1>7, <1>9, <2>1 DEF DriftInv, JobSound, old
  <1>12. round' \in Round /\ round'.pc = "users" /\ round'.rows = round.rows
    BY <1>2, Types DEF Round
  <1>13. \A x \in Users : user'[x].op = "done" => user[x].op = "done" /\ user'[x].life = user[x].life
    BY <1>6, <1>7, <1>9 DEF old
  <1> HIDE DEF u
  <1> QED BY <1>1, <1>2, <1>9, <1>10, <1>11, <1>12, <1>13, EnqueuedFacts, UpsetFacts, RoundMoves

LEMMA RoundStepSound ==
  ASSUME DriftInv, RoundStep
  PROVE  DriftInv'
  BY ListInboundsStep, ListUsersStep, ReconcileUserStep, RequeueStaleStep DEF RoundStep

----------------------------------------------------------------------------
(* Administrators.                                                         *)

\* A new intent: the worker of the older one is behind the fence from now on.
LEMMA IntentMoves ==
  ASSUME DriftInv, NEW u \in Users, NEW row \in User, Intends(u, row), SoundUser(row),
         row.life # "none", row.op = "open", UpsetOK,
         UNCHANGED <<up, clients, late, tpl, removal, node, job, round>>
  PROVE  DriftInv'
  <1>1. user' = [user EXCEPT ![u] = row]
    BY DEF Intends
  <1>2. RowsSound' /\ user' \in [Users -> User]
    BY <1>1, OneRow
  <1>3. user'[u] = row /\ \A x \in Users \ {u} : user'[x] = user[x]
    BY <1>1, Types
  <1>4. DriftTypeOK'
    BY <1>2 DEF DriftInv, DriftTypeOK, UpsetOK
  <1>5. WorkSound'
    BY DEF DriftInv, DriftTypeOK, WorkSound, UpsetOK
  <1>6. JobSound'
    BY <1>3 DEF DriftInv, WorkSound, JobSound, Fenced
  <1>7. RoundSound' /\ NeverLeftToStrangers'
    BY <1>3 DEF DriftInv, RoundSound, NeverLeftToStrangers
  <1> QED BY <1>2, <1>4, <1>5, <1>6, <1>7 DEF DriftInv

LEMMA UserStep ==
  ASSUME DriftInv, NEW u \in Users, CreateUser(u) \/ RotateCredential(u) \/ DeleteUser(u)
  PROVE  DriftInv'
  <1>1. user[u] \in User /\ SoundUser(user[u])
    BY Types DEF DriftInv, RowsSound
  <1>2. UpsetOK /\ UNCHANGED <<up, clients, late, tpl, removal, node, job, round>>
    BY UpsetFacts DEF CreateUser, RotateCredential, DeleteUser
  <1>3. CASE CreateUser(u)
    <2> DEFINE row == [NoUser EXCEPT !.life = "active", !.op = "open"]
    <2>1. Intends(u, row)
      BY <1>3 DEF CreateUser
    <2>2. row \in User /\ row.life = "active" /\ row.op = "open"
      BY DEF NoUser, User, RowStates
    <2> HIDE DEF row
    <2> QED BY <1>2, <2>1, <2>2, IntentMoves DEF SoundUser
  <1>4. CASE RotateCredential(u)
    <2> DEFINE row == [user[u] EXCEPT !.intent = "rotate", !.op = "open"]
    <2>1. Intends(u, row) /\ user[u].life = "active"
      BY <1>4 DEF RotateCredential
    <2>2. row \in User /\ row.life = "active" /\ row.op = "open"
      BY <1>1, <2>1 DEF User, RowStates
    <2> HIDE DEF row
    <2> QED BY <1>2, <2>1, <2>2, IntentMoves DEF SoundUser
  <1>5. CASE DeleteUser(u)
    <2> DEFINE row == [user[u] EXCEPT !.life = "deleted", !.intent = "remove", !.op = "open"]
    <2>1. Intends(u, row)
      BY <1>5 DEF DeleteUser
    <2>2. row \in User /\ row.life = "deleted" /\ row.op = "open" /\ row.intent = "remove"
      BY <1>1 DEF User, RowStates
    <2> HIDE DEF row
    <2> QED BY <1>2, <2>1, <2>2, IntentMoves DEF SoundUser
  <1> QED BY <1>3, <1>4, <1>5

\* The template's row alone.
LEMMA TemplateStep ==
  ASSUME DriftInv, EditContract \/ FoundIncompatible \/ FoundCompatible
  PROVE  DriftInv'
  <1>1. UNCHANGED <<up, clients, late, user, removal, node, job, round>>
    BY DEF EditContract, FoundIncompatible, FoundCompatible
  <1>2. tpl \in [incompatible: BOOLEAN, contract: 0 .. MaxUpsets] /\ tpl.contract <= upsets
        /\ upsets \in 0 .. MaxUpsets /\ MaxUpsets \in Nat
    BY DriftAssumption DEF DriftInv, DriftTypeOK, WorkSound
  <1>3. /\ tpl' \in [incompatible: BOOLEAN, contract: 0 .. MaxUpsets] /\ tpl'.contract <= upsets'
        /\ upsets' \in 0 .. MaxUpsets
    <2>1. CASE EditContract
      <3>1. tpl' = [tpl EXCEPT !.contract = tpl.contract + 1] /\ upsets' = upsets + 1 /\ upsets < MaxUpsets
        BY <2>1 DEF EditContract, Upset
      <3>2. tpl.contract + 1 \in 0 .. MaxUpsets
        BY <1>2, <3>1
      <3> QED BY <1>2, <3>1, <3>2
    <2>2. CASE FoundIncompatible
      <3>1. tpl' = [tpl EXCEPT !.incompatible = TRUE] /\ upsets' = upsets + 1 /\ upsets < MaxUpsets
        BY <2>2 DEF FoundIncompatible, Upset
      <3>2. tpl' \in [incompatible: BOOLEAN, contract: 0 .. MaxUpsets] /\ tpl'.contract = tpl.contract
        BY <1>2, <3>1
      <3> QED BY <1>2, <3>1, <3>2
    <2>3. CASE FoundCompatible
      BY <1>2, <2>3 DEF FoundCompatible
    <2> QED BY <2>1, <2>2, <2>3
  <1>4. DriftTypeOK' /\ WorkSound'
    BY <1>1, <1>3 DEF DriftInv, DriftTypeOK, WorkSound
  <1>5. JobSound' /\ RowsSound' /\ RoundSound' /\ NeverLeftToStrangers'
    BY <1>1 DEF DriftInv, JobSound, Fenced, RowsSound, RoundSound, NeverLeftToStrangers
  <1> QED BY <1>4, <1>5 DEF DriftInv

----------------------------------------------------------------------------
(* The environment.                                                        *)

LEMMA XrayMoves ==
  ASSUME DriftInv, NEW new \in SUBSET late, XrayOK(new), late' \subseteq late, UpsetOK,
         UNCHANGED <<user, tpl, removal, node, job, round>>
  PROVE  DriftInv'
  <1>1. DriftTypeOK' /\ WorkSound'
    BY DEF DriftInv, DriftTypeOK, WorkSound, XrayOK, UpsetOK
  <1>2. RowsSound'
    BY TagsAssumption DEF DriftInv, RowsSound, XrayOK
  <1>3. JobSound' /\ RoundSound'
    BY DEF DriftInv, JobSound, Fenced, RoundSound
  <1> QED BY <1>1, <1>2, <1>3 DEF DriftInv, XrayOK

LEMMA XrayStep ==
  ASSUME DriftInv,
         \/ XrayRestart \/ (\E u \in Users : AddAlien(u) \/ LateCreate(u)) \/ (\E o \in Orphans : AddOrphan(o))
  PROVE  DriftInv'
  <1>1. UNCHANGED <<user, tpl, removal, node, job, round>> /\ late' \subseteq late /\ UpsetOK
    BY UpsetFacts DEF XrayRestart, AddAlien, LateCreate, AddOrphan
  <1>2. CASE XrayRestart
    <2>1. XrayOK({})
      BY <1>2 DEF XrayRestart, XrayOK, NeverLeftToStrangers
    <2> QED BY <1>1, <2>1, XrayMoves
  <1>3. ASSUME NEW u \in Users, AddAlien(u) PROVE DriftInv'
    <2>1. XrayOK({})
      BY <1>3, WithFacts DEF AddAlien, Clients
    <2> QED BY <1>1, <2>1, XrayMoves
  <1>4. ASSUME NEW u \in Users, LateCreate(u) PROVE DriftInv'
    <2>1. {u} \in SUBSET late /\ XrayOK({u})
      BY <1>4, SameXrayFacts, RegisteredFacts DEF LateCreate, XrayOK
    <2> QED BY <1>1, <2>1, XrayMoves
  <1>5. ASSUME NEW o \in Orphans, AddOrphan(o) PROVE DriftInv'
    <2>1. XrayOK({})
      BY <1>5, Types, TagsAssumption DEF AddOrphan, XrayOK, NeverLeftToStrangers
    <2> QED BY <1>1, <2>1, XrayMoves
  <1> QED BY <1>2, <1>3, <1>4, <1>5

LEMMA PanelRestartStep ==
  ASSUME DriftInv, PanelRestart
  PROVE  DriftInv'
  <1>1. /\ job' = Idle /\ round' = NoRound /\ node' = "free" /\ UpsetOK
        /\ UNCHANGED <<up, clients, late, user, tpl, removal>>
    BY UpsetFacts DEF PanelRestart
  <1>2. job' \in Job /\ job'.pc = "idle" /\ job'.on = None /\ round' \in Round /\ round'.pc = "idle"
    BY <1>1, NoRoundFacts DEF Idle, Job
  <1>3. DriftTypeOK'
    BY <1>1, <1>2, WorkAssumption DEF DriftInv, DriftTypeOK, UpsetOK, RemovalSteps, OpSteps
  <1>4. WorkSound' /\ JobSound'
    BY <1>1, <1>2, WorkAssumption DEF DriftInv, DriftTypeOK, WorkSound, JobSound, UpsetOK, RemovalSteps, OpSteps
  <1> QED BY <1>1, <1>2, <1>3, <1>4 DEF DriftInv, RowsSound, RoundSound, NeverLeftToStrangers

----------------------------------------------------------------------------
(* The theorems.                                                           *)

LEMMA InitSound == Init => DriftInv
  <1> SUFFICES ASSUME Init PROVE DriftInv
    OBVIOUS
  <1>1. NoUser \in User /\ SoundUser(NoUser)
    BY DEF NoUser, User, SoundUser, RowStates
  <1>2. Idle \in Job /\ Idle.pc = "idle" /\ Idle.on = None
    BY DEF Idle, Job
  <1>3. DriftTypeOK
    BY <1>1, <1>2, NoRoundFacts, DriftAssumption, WorkAssumption
       DEF Init, DriftTypeOK, RowStates, RemovalSteps, OpSteps
  <1>4. WorkSound /\ JobSound
    BY <1>2, NoRoundFacts, WorkAssumption DEF Init, WorkSound, JobSound, RemovalSteps, OpSteps
  <1>5. RowsSound /\ RoundSound /\ NeverLeftToStrangers
    BY <1>1, NoRoundFacts DEF Init, RowsSound, RoundSound, NeverLeftToStrangers
  <1> QED BY <1>3, <1>4, <1>5 DEF DriftInv

LEMMA StepSound == DriftInv /\ [Next]_vars => DriftInv'
  <1> SUFFICES ASSUME DriftInv, [Next]_vars PROVE DriftInv'
    OBVIOUS
  <1>1. CASE UNCHANGED vars
    BY <1>1 DEF vars, DriftInv, DriftTypeOK, WorkSound, RowsSound, JobSound, Fenced, RoundSound, NeverLeftToStrangers
  <1>2. ASSUME NEW t \in Targets, LeaseRemoval(t) PROVE DriftInv'
    BY <1>2, LeaseRemovalStep
  <1>3. ASSUME NEW u \in Users, LeaseOp(u) PROVE DriftInv'
    BY <1>3, LeaseOpStep
  <1>4. CASE TakeRemoval \/ TakeOp \/ SyncStep
    BY <1>4, TakeStep, SyncStepSound
  <1>5. CASE BeginRound \/ RoundStep
    BY <1>5, BeginRoundStep, RoundStepSound
  <1>6. CASE AdminStep
    BY <1>6, UserStep, TemplateStep DEF AdminStep
  <1>7. CASE Environment
    BY <1>7, TemplateStep, XrayStep, PanelRestartStep DEF Environment
  <1> QED BY <1>1, <1>2, <1>3, <1>4, <1>5, <1>6, <1>7 DEF Next

\* The inductive invariant (ReconcileOnce, handleDriftRemoval, handle).
THEOREM DriftInvariant == Spec => []DriftInv
  BY InitSound, StepSound, PTL DEF Spec

\* DriftTypeOK: whoever holds the node mutex has work under way, and the
\* removal that is executed is a row the worker has leased.
THEOREM DriftTypeOKHolds == Spec => []DriftTypeOK
  BY DriftInvariant, PTL DEF DriftInv

\* NeverLeftToStrangers: no interleaving of removals, rotations, late calls
\* and restarts takes the last managed client out of an inbound (RemoveUser).
THEOREM NeverLeftToStrangersHolds == Spec => []NeverLeftToStrangers
  BY DriftInvariant, PTL DEF DriftInv

\* ContractStaysWithInbounds: the contract changes only when every user who
\* has an inbound in Xray has had its removal confirmed (UpdateTemplate).
THEOREM ContractStays == Spec => ContractStaysWithInbounds
  <1>1. DriftInv /\ [Next]_vars =>
           [tpl'.contract # tpl.contract => \A u \in up \cap Users : user[u].released]_vars
    <2> SUFFICES ASSUME DriftInv, Next, tpl'.contract # tpl.contract, NEW u \in up \cap Users
                 PROVE  user[u].released
      OBVIOUS
    <2>1. EditContract
      <3>1. tpl \in [incompatible: BOOLEAN, contract: 0 .. MaxUpsets]
        BY DEF DriftInv, DriftTypeOK
      <3>2. CASE UNCHANGED tpl
        BY <3>2
      <3>3. ASSUME NEW v \in BOOLEAN, tpl' = [tpl EXCEPT !.incompatible = v] PROVE FALSE
        BY <3>1, <3>3
      <3>4. CASE SyncStep
        BY <3>4, <3>2 DEF SyncStep, ObserveTarget, RemoveTarget, RecheckTarget, DropOp, CreateInbound, DropInbound,
                    RotateList, RotateSafety, RotateRemove, RotateAdd, RotateClean, At
      <3>5. CASE BeginRound \/ RoundStep
        BY <3>5, <3>2 DEF BeginRound, RoundStep, ListInbounds, ListUsers, ReconcileUser, RequeueStale
      <3>6. CASE Environment
        BY <3>6, <3>2, <3>3 DEF Environment, FoundIncompatible, FoundCompatible, XrayRestart, PanelRestart,
                    AddAlien, LateCreate, AddOrphan
      <3>7. CASE AdminStep
        BY <3>7, <3>2 DEF AdminStep, CreateUser, RotateCredential, DeleteUser
      <3> QED BY <3>2, <3>4, <3>5, <3>6, <3>7 DEF Next, LeaseRemoval, LeaseOp, TakeRemoval, TakeOp
    <2>2. ~Live(user[u]) /\ user[u] \in User /\ SoundUser(user[u]) /\ user[u].life # "none"
      BY <2>1, Types DEF EditContract, DriftInv, RowsSound
    <2> QED BY <2>2, UserFields DEF Live, SoundUser
  <1> QED BY <1>1, DriftInvariant, PTL DEF Spec, ContractStaysWithInbounds
=============================================================================
