-------------------------- MODULE Sessions_proofs --------------------------
(***************************************************************************)
(* Proofs about Sessions, for any number of requests and tokens and any    *)
(* timeouts and limits.  The argument: only the reset command changes the  *)
(* administrator, and it never runs beside the panel; a row keeps its      *)
(* deadline and its data, and a revoked row never changes at all.          *)
(***************************************************************************)
EXTENDS Sessions, FiniteSetTheorems, SequenceTheorems, TLAPS

----------------------------------------------------------------------------
(* The inductive invariant.                                                *)

\* Every reset raises the version and replaces the password together.
AdminSound ==
    /\ admin.pw = admin.version
    /\ reset # 0 => reset = admin.version /\ reset < MaxVersion /\ holder = "cli"

\* A row that is not revoked is of the administrator as he is now.
SoundRow(row, adm) ==
    row.state = "live" => row.version = adm.version /\ row.pw = adm.pw /\ row.absolute <= row.deadline

\* The request's copy of a session agrees with its row, revoked or not; the
\* login that is about to open one compared with the present password.
SoundRequest(q, rows, adm) ==
    /\ q.token # NoToken => /\ rows[q.token].state # "none"
                            /\ rows[q.token].data = q.data
                            /\ rows[q.token].deadline = q.deadline
    /\ q.pc = "establish" => q.token = NoToken /\ q.pw = adm.pw
    /\ q.pc = "revoke" => q.token # NoToken

RowsSound     == \A t \in Tokens : SoundRow(sessions[t], admin)
RequestsSound == \A r \in Requests : SoundRequest(http[r], sessions, admin)
NoneRevived   == \A t \in ended : sessions[t].state # "live"
PanelServes   == holder # "panel" => \A r \in Requests : http[r] = NoRequest

SessionsInv ==
    SessionsTypeOK /\ AdminSound /\ RowsSound /\ RequestsSound /\ NoneRevived /\ PanelServes

\* What a step may do to a row: a revoked one stays as it is.
Keeps(old, new) ==
    old.state # "none" =>
        /\ new.state # "none" /\ new.data = old.data /\ new.deadline = old.deadline
        /\ old.state # "live" => new = old

RowsKept == \A t \in Tokens : Keeps(sessions[t], sessions'[t])

----------------------------------------------------------------------------
(* The model's operators.                                                  *)

LEMMA InitSound == Init => SessionsInv
  <1> SUFFICES ASSUME Init PROVE SessionsInv
    OBVIOUS
  <1>1. NoRow \in Row /\ NoRequest \in Request
    BY TimesAssumption, LimitsAssumption DEF NoRow, Row, NoRequest, Request, Times, Steps
  <1>2. SessionsTypeOK
    BY <1>1, TimesAssumption, LimitsAssumption DEF Init, SessionsTypeOK
  <1>3. AdminSound /\ PanelServes
    BY DEF Init, AdminSound, PanelServes
  <1>4. RowsSound /\ NoneRevived
    BY DEF Init, RowsSound, SoundRow, NoRow, NoneRevived
  <1>5. RequestsSound
    BY DEF Init, RequestsSound, SoundRequest, NoRequest
  <1> QED BY <1>2, <1>3, <1>4, <1>5 DEF SessionsInv

\* A request that came with no usable session.
LEMMA NoRequestSound ==
  ASSUME NEW rows, NEW adm
  PROVE  NoRequest \in Request /\ SoundRequest(NoRequest, rows, adm)
  BY TimesAssumption, LimitsAssumption DEF NoRequest, Request, SoundRequest, Times, Steps

LEMMA CountUp ==
  ASSUME NEW m \in Nat
  PROVE  IsFiniteSet(1 .. m) /\ Cardinality(1 .. m) = m
  <1>1. 1 \in Int /\ m \in Int
    OBVIOUS
  <1>2. IsFiniteSet(1 .. m) /\ Cardinality(1 .. m) = IF 1 > m THEN 0 ELSE m - 1 + 1
    BY <1>1, FS_Interval
  <1> QED BY <1>2

\* A throttle list only gets shorter.
LEMMA PruneFacts ==
  ASSUME NEW S, NEW values \in Seq(S), NEW at
  PROVE  Prune(values, at) \in Seq(S) /\ Len(Prune(values, at)) <= Len(values)
  <1> DEFINE old == {i \in DOMAIN values : \A j \in 1 .. i : values[j] < at - Window}
             n == Cardinality(old)
  <1>1. n \in 0 .. Len(values)
    <2>1. old \in SUBSET (1 .. Len(values)) /\ Len(values) \in Nat
      OBVIOUS
    <2> HIDE DEF old
    <2>2. IsFiniteSet(1 .. Len(values)) /\ Cardinality(1 .. Len(values)) = Len(values)
      BY <2>1, CountUp
    <2>3. IsFiniteSet(old) /\ n <= Len(values)
      BY <2>1, <2>2, FS_Subset
    <2> QED BY <2>1, <2>3, FS_CardinalityType
  <1>2. Prune(values, at) = SubSeq(values, n + 1, Len(values))
    BY DEF Prune
  <1> HIDE DEF n
  <1>3. \A i \in n + 1 .. Len(values) : values[i] \in S
    BY <1>1, ElementOfSeq
  <1> QED BY <1>1, <1>2, <1>3, SubSeqProperties

\* SessionStore.Commit and InsertSession, on a row and on a new token.
LEMMA UpsertedFacts ==
  ASSUME SessionsInv, NEW t \in Tokens, NEW data \in 0 .. MaxVersion, NEW deadline \in Times,
         NEW pw \in 0 .. MaxVersion,
         sessions[t].state # "none" => data = sessions[t].data /\ deadline = sessions[t].deadline,
         sessions[t].state = "none" => pw = admin.pw
  PROVE  LET new == Upserted(t, data, deadline, pw) IN
         /\ new \in Row /\ Keeps(sessions[t], new) /\ SoundRow(new, admin)
         /\ new.state = IF sessions[t].state = "none" THEN "live" ELSE sessions[t].state
  <1> DEFINE expiry == Min2(deadline, now + Idle)
             abs == Min2(now + Lifetime, expiry)
             idle == Min2(now + Idle, abs)
  <1>1. abs \in Times /\ idle \in Times /\ abs <= deadline
    <2>1. Idle \in Nat /\ Lifetime \in Nat /\ MaxTime \in Nat /\ now \in 0 .. MaxTime
      BY TimesAssumption DEF SessionsInv, SessionsTypeOK
    <2>2. expiry \in Times /\ expiry <= deadline /\ now + Idle \in Times /\ now + Lifetime \in Times
      BY <2>1 DEF Times, Min2
    <2> HIDE DEF expiry
    <2>3. abs \in Times /\ abs <= deadline
      BY <2>2 DEF Times, Min2
    <2> HIDE DEF abs
    <2> QED BY <2>2, <2>3 DEF Min2
  <1>2. /\ sessions[t] \in Row /\ SoundRow(sessions[t], admin)
        /\ admin.version \in 0 .. MaxVersion /\ admin.pw \in 0 .. MaxVersion
    BY DEF SessionsInv, SessionsTypeOK, RowsSound
  <1>3. CASE sessions[t].state = "live"
    <2> DEFINE new == [[sessions[t] EXCEPT !.data = data, !.deadline = deadline]
                                    EXCEPT !.absolute = abs, !.idle = idle]
    <2>1. Upserted(t, data, deadline, pw) = new
      BY <1>3 DEF Upserted, Bounds
    <2> HIDE DEF abs, idle
    <2>2. new \in Row /\ new.state = "live"
      BY <1>1, <1>2, <1>3 DEF Row
    <2>3. new.version = sessions[t].version /\ new.pw = sessions[t].pw /\ new.data = data
          /\ new.deadline = deadline /\ new.absolute = abs
      BY <1>2 DEF Row
    <2> QED BY <1>1, <1>2, <1>3, <2>1, <2>2, <2>3 DEF Keeps, SoundRow
  <1>4. CASE sessions[t].state = "none"
    <2> DEFINE new == [[NoRow EXCEPT !.state = "live", !.version = admin.version, !.data = data,
                                     !.deadline = deadline, !.pw = pw]
                              EXCEPT !.absolute = abs, !.idle = idle]
    <2>1. Upserted(t, data, deadline, pw) = new
      BY <1>4 DEF Upserted, Bounds
    <2> HIDE DEF abs, idle
    <2>2. NoRow \in Row
      BY TimesAssumption, LimitsAssumption DEF NoRow, Row, Times
    <2>3. new \in Row
      BY <1>1, <1>2, <2>2 DEF Row
    <2>4. new.state = "live" /\ new.version = admin.version /\ new.pw = pw
          /\ new.deadline = deadline /\ new.absolute = abs
      BY <2>2 DEF Row
    <2> QED BY <1>1, <1>4, <2>1, <2>3, <2>4 DEF Keeps, SoundRow
  <1>5. CASE sessions[t].state \notin {"live", "none"}
    <2>1. Upserted(t, data, deadline, pw) = sessions[t]
      BY <1>5 DEF Upserted
    <2> QED BY <1>2, <1>5, <2>1 DEF Keeps
  <1> QED BY <1>3, <1>4, <1>5

\* RevokeSession, RevokeAllSessions and the token's renewal.
LEMMA RevokedFacts ==
  ASSUME NEW row \in Row, NEW by \in {"logout", "renewed", "reset"}, NEW adm
  PROVE  /\ Revoked(row, by) \in Row /\ Keeps(row, Revoked(row, by)) /\ SoundRow(Revoked(row, by), adm)
         /\ Revoked(row, by).state = IF row.state = "live" THEN by ELSE row.state
  BY DEF Revoked, Row, Keeps, SoundRow

----------------------------------------------------------------------------
(* One step of a request.                                                  *)

\* What every step of a request comes down to.
LEMMA RequestMoves ==
  ASSUME SessionsInv, NEW r \in Requests, holder = "panel",
         UNCHANGED <<admin, holder, reset, now>>,
         NEW q \in Request, SoundRequest(q, sessions', admin), http' = [http EXCEPT ![r] = q],
         sessions' \in [Tokens -> Row], RowsKept, \A t \in Tokens : SoundRow(sessions'[t], admin),
         ended' \subseteq Tokens, NoneRevived',
         bySource' \in Seq(0 .. MaxTime), global' \in Seq(0 .. MaxTime), audit' \in [login: Nat, logout: Nat]
  PROVE  SessionsInv' /\ RowsKept
  <1>1. http \in [Requests -> Request]
    BY DEF SessionsInv, SessionsTypeOK
  <1>2. SessionsTypeOK'
    BY <1>1 DEF SessionsInv, SessionsTypeOK
  <1>3. AdminSound' /\ RowsSound' /\ PanelServes'
    BY DEF SessionsInv, AdminSound, RowsSound, PanelServes
  <1>4. RequestsSound'
    <2> SUFFICES ASSUME NEW x \in Requests PROVE SoundRequest(http'[x], sessions', admin)
      BY DEF RequestsSound
    <2>1. CASE x = r
      BY <1>1, <2>1
    <2>2. CASE x # r
      <3>1. http'[x] = http[x] /\ http[x] \in Request /\ SoundRequest(http[x], sessions, admin)
        BY <1>1, <2>2 DEF SessionsInv, RequestsSound
      <3>2. http[x].token # NoToken => http[x].token \in Tokens
        BY <3>1 DEF Request
      <3> QED BY <3>1, <3>2 DEF SoundRequest, RowsKept, Keeps
    <2> QED BY <2>1, <2>2
  <1> QED BY <1>2, <1>3, <1>4 DEF SessionsInv

\* ... when it leaves the sessions alone.
LEMMA RequestOnly ==
  ASSUME SessionsInv, NEW r \in Requests, holder = "panel",
         UNCHANGED <<admin, sessions, holder, reset, ended, now>>,
         NEW q \in Request, SoundRequest(q, sessions, admin), http' = [http EXCEPT ![r] = q],
         bySource' \in Seq(0 .. MaxTime), global' \in Seq(0 .. MaxTime), audit' \in [login: Nat, logout: Nat]
  PROVE  SessionsInv' /\ RowsKept
  <1>1. sessions' \in [Tokens -> Row] /\ RowsKept /\ (\A t \in Tokens : SoundRow(sessions'[t], admin))
        /\ ended' \subseteq Tokens /\ NoneRevived'
    BY DEF SessionsInv, SessionsTypeOK, RowsKept, Keeps, RowsSound, NoneRevived
  <1> QED BY <1>1, RequestMoves

\* ... when it writes one row.
LEMMA RequestAndRow ==
  ASSUME SessionsInv, NEW r \in Requests, holder = "panel",
         UNCHANGED <<admin, holder, reset, now>>,
         NEW q \in Request, SoundRequest(q, sessions', admin), http' = [http EXCEPT ![r] = q],
         NEW t \in Tokens, NEW row \in Row, sessions' = [sessions EXCEPT ![t] = row],
         Keeps(sessions[t], row), SoundRow(row, admin),
         ended' \subseteq ended \cup {t}, t \in ended' => row.state # "live",
         bySource' \in Seq(0 .. MaxTime), global' \in Seq(0 .. MaxTime), audit' \in [login: Nat, logout: Nat]
  PROVE  SessionsInv' /\ RowsKept
  <1>1. sessions \in [Tokens -> Row] /\ ended \subseteq Tokens
    BY DEF SessionsInv, SessionsTypeOK
  <1>2. sessions' \in [Tokens -> Row] /\ RowsKept
    BY <1>1 DEF RowsKept, Keeps
  <1>3. \A x \in Tokens : SoundRow(sessions'[x], admin)
    BY <1>1 DEF SessionsInv, RowsSound
  <1>4. ended' \subseteq Tokens /\ NoneRevived'
    BY <1>1 DEF SessionsInv, NoneRevived
  <1> QED BY <1>2, <1>3, <1>4, RequestMoves

\* Unpacking the invariant for one request.
LEMMA RequestFacts ==
  ASSUME SessionsInv, NEW r \in Requests
  PROVE  /\ http[r] \in Request /\ SoundRequest(http[r], sessions, admin)
         /\ http[r].token \in Tokens \cup {NoToken} /\ http[r].data \in 0 .. MaxVersion
         /\ http[r].deadline \in Times /\ http[r].pw \in 0 .. MaxVersion /\ http[r].at \in 0 .. MaxTime
  BY DEF SessionsInv, SessionsTypeOK, RequestsSound, Request

LEMMA TypeFacts ==
  ASSUME SessionsInv
  PROVE  /\ sessions \in [Tokens -> Row] /\ ended \subseteq Tokens
         /\ bySource \in Seq(0 .. MaxTime) /\ global \in Seq(0 .. MaxTime)
         /\ audit \in [login: Nat, logout: Nat] /\ now \in 0 .. MaxTime
         /\ \A t \in Tokens : sessions[t] \in Row /\ SoundRow(sessions[t], admin)
  BY DEF SessionsInv, SessionsTypeOK, RowsSound

\* A request that goes on to any step but the two that demand something of it.
LEMMA GoesStep ==
  ASSUME SessionsInv, NEW r \in Requests, holder = "panel",
         UNCHANGED <<admin, sessions, bySource, global, audit, holder, reset, ended, now>>,
         NEW pc \in Steps \ {"establish"}, pc = "revoke" => http[r].token # NoToken, Goes(r, pc)
  PROVE  SessionsInv' /\ RowsKept
  <1> DEFINE q == [http[r] EXCEPT !.pc = pc]
  <1>1. http' = [http EXCEPT ![r] = q]
    BY DEF Goes
  <1>2. q \in Request /\ SoundRequest(q, sessions, admin)
    BY RequestFacts DEF Request, SoundRequest
  <1> HIDE DEF q
  <1> QED BY <1>1, <1>2, TypeFacts, RequestOnly

LEMMA LoadStep ==
  ASSUME SessionsInv, NEW r \in Requests, NEW t \in Tokens \cup {NoToken},
         NEW kind \in {"page", "logout", "login"}, Load(r, t, kind)
  PROVE  SessionsInv' /\ RowsKept
  <1>1. /\ holder = "panel"
        /\ UNCHANGED <<admin, bySource, global, audit, holder, reset, ended, now>>
    BY DEF Load, At
  <1>2. CASE t # NoToken /\ Found(t)
    <2> DEFINE idle == Min2(now + Idle, sessions[t].absolute)
               row == [sessions[t] EXCEPT !.idle = idle]
               q == [NoRequest EXCEPT !.pc = kind, !.token = t, !.data = sessions[t].data,
                                      !.deadline = sessions[t].deadline]
    <2>1. t \in Tokens /\ sessions' = [sessions EXCEPT ![t] = row] /\ http' = [http EXCEPT ![r] = q]
      BY <1>2 DEF Load
    <2>2. sessions \in [Tokens -> Row] /\ sessions[t] \in Row /\ SoundRow(sessions[t], admin)
          /\ sessions[t].state = "live"
      BY <1>2, <2>1, TypeFacts DEF Found
    <2>3. idle \in Times
      <3>1. Idle \in Nat /\ Lifetime \in Nat /\ MaxTime \in Nat /\ now \in 0 .. MaxTime
            /\ sessions[t].absolute \in Times
        BY <2>2, TimesAssumption, TypeFacts DEF Row
      <3> QED BY <3>1 DEF Times, Min2
    <2> HIDE DEF idle
    <2>4. row \in Row /\ Keeps(sessions[t], row) /\ SoundRow(row, admin) /\ row.state = "live"
          /\ row.data = sessions[t].data /\ row.deadline = sessions[t].deadline
      BY <2>2, <2>3 DEF Row, Keeps, SoundRow
    <2>5. sessions'[t] = row
      BY <2>1, <2>2
    <2>6. q \in Request
      BY <2>1, <2>2, NoRequestSound DEF Request, Row, Steps
    <2>7. q.pc = kind /\ q.token = t /\ q.data = sessions[t].data /\ q.deadline = sessions[t].deadline
      BY NoRequestSound DEF Request
    <2>8. SoundRequest(q, sessions', admin)
      BY <2>4, <2>5, <2>7, <1>2 DEF SoundRequest
    <2>9. t \notin ended
      BY <2>2 DEF SessionsInv, NoneRevived
    <2> HIDE DEF row, q
    <2> QED BY <1>1, <2>1, <2>4, <2>6, <2>8, <2>9, TypeFacts, RequestAndRow
  <1>3. CASE ~(t # NoToken /\ Found(t))
    <2> DEFINE q == [NoRequest EXCEPT !.pc = kind]
    <2>1. UNCHANGED sessions /\ http' = [http EXCEPT ![r] = q]
      BY <1>3 DEF Load
    <2>2. q \in Request /\ SoundRequest(q, sessions, admin)
      BY NoRequestSound DEF Request, SoundRequest, NoRequest, Steps
    <2> HIDE DEF q
    <2> QED BY <1>1, <2>1, <2>2, TypeFacts, RequestOnly
  <1> QED BY <1>2, <1>3

LEMMA RequireAuthStep ==
  ASSUME SessionsInv, NEW r \in Requests, RequireAuth(r)
  PROVE  SessionsInv' /\ RowsKept
  <1>1. /\ holder = "panel"
        /\ UNCHANGED <<admin, sessions, bySource, global, audit, holder, reset, ended, now>>
        /\ Goes(r, "serve") \/ Goes(r, "finish") \/ (Valid(r) /\ Goes(r, "revoke"))
    BY DEF RequireAuth, At
  <1> QED BY <1>1, GoesStep DEF Steps, Valid

LEMMA FinishStep ==
  ASSUME SessionsInv, NEW r \in Requests, Finish(r)
  PROVE  SessionsInv' /\ RowsKept
  <1> DEFINE t == http[r].token
             row == Upserted(t, http[r].data, http[r].deadline, http[r].pw)
  <1>1. /\ holder = "panel" /\ http' = [http EXCEPT ![r] = NoRequest]
        /\ UNCHANGED <<admin, bySource, global, audit, holder, reset, ended, now>>
    BY DEF Finish, At, Ends
  <1>2. CASE UNCHANGED sessions
    BY <1>1, <1>2, NoRequestSound, TypeFacts, RequestOnly
  <1>3. CASE t # NoToken /\ sessions' = [sessions EXCEPT ![t] = row]
    <2>1. t \in Tokens /\ sessions[t].state # "none" /\ sessions[t].data = http[r].data
          /\ sessions[t].deadline = http[r].deadline
      BY <1>3, RequestFacts DEF SoundRequest
    <2>2. row \in Row /\ Keeps(sessions[t], row) /\ SoundRow(row, admin) /\ row.state = sessions[t].state
      BY <2>1, RequestFacts, UpsertedFacts
    <2>3. t \in ended => row.state # "live"
      BY <2>2 DEF SessionsInv, NoneRevived
    <2> HIDE DEF t, row
    <2> QED BY <1>1, <1>3, <2>1, <2>2, <2>3, NoRequestSound, TypeFacts, RequestAndRow
  <1> QED BY <1>2, <1>3 DEF Finish

LEMMA CheckThrottleStep ==
  ASSUME SessionsInv, NEW r \in Requests, CheckThrottle(r)
  PROVE  SessionsInv' /\ RowsKept
  <1> DEFINE pc == IF Throttled(bySource', global') THEN "finish" ELSE "compare"
             q == [http[r] EXCEPT !.at = now, !.pc = pc]
  <1>1. /\ holder = "panel" /\ http' = [http EXCEPT ![r] = q]
        /\ UNCHANGED <<admin, sessions, audit, holder, reset, ended, now>>
        /\ bySource' = Prune(bySource, now) /\ global' = Prune(global, now)
    BY DEF CheckThrottle, At
  <1>2. pc \in {"finish", "compare"}
    OBVIOUS
  <1> HIDE DEF pc
  <1>3. q \in Request /\ SoundRequest(q, sessions, admin)
    BY <1>2, RequestFacts, TypeFacts DEF Request, SoundRequest, Steps
  <1> HIDE DEF q
  <1>4. bySource' \in Seq(0 .. MaxTime) /\ global' \in Seq(0 .. MaxTime)
    BY <1>1, TypeFacts, PruneFacts
  <1> QED BY <1>1, <1>3, <1>4, TypeFacts, RequestOnly

LEMMA RecordFailureStep ==
  ASSUME SessionsInv, NEW r \in Requests, RecordFailure(r)
  PROVE  SessionsInv' /\ RowsKept
  <1> DEFINE q == [http[r] EXCEPT !.pc = "finish"]
  <1>1. /\ holder = "panel" /\ http' = [http EXCEPT ![r] = q]
        /\ UNCHANGED <<admin, sessions, audit, holder, reset, ended, now>>
        /\ bySource' = Append(Prune(bySource, http[r].at), http[r].at)
        /\ global' = Append(Prune(global, http[r].at), http[r].at)
    BY DEF RecordFailure, At, Goes
  <1>2. q \in Request /\ SoundRequest(q, sessions, admin)
    BY RequestFacts DEF Request, SoundRequest, Steps
  <1> HIDE DEF q
  <1>3. Prune(bySource, http[r].at) \in Seq(0 .. MaxTime) /\ Prune(global, http[r].at) \in Seq(0 .. MaxTime)
    BY TypeFacts, PruneFacts
  <1>4. bySource' \in Seq(0 .. MaxTime) /\ global' \in Seq(0 .. MaxTime)
    BY <1>1, <1>3, RequestFacts, AppendProperties
  <1> QED BY <1>1, <1>2, <1>4, TypeFacts, RequestOnly

LEMMA CompareSucceedsStep ==
  ASSUME SessionsInv, NEW r \in Requests, CompareSucceeds(r)
  PROVE  SessionsInv' /\ RowsKept
  <1> DEFINE old == http[r].token
             q == [NoRequest EXCEPT !.pc = "establish", !.data = admin.version,
                                    !.deadline = now + Lifetime, !.pw = admin.pw]
  <1>1. /\ holder = "panel" /\ UNCHANGED <<admin, audit, holder, reset, now>>
        /\ bySource' = <<>> /\ global' = Prune(global, http[r].at)
    BY DEF CompareSucceeds, At
  <1>2. bySource' \in Seq(0 .. MaxTime) /\ global' \in Seq(0 .. MaxTime)
    BY <1>1, TypeFacts, PruneFacts
  <1>3. q \in Request /\ q.token = NoToken /\ q.pw = admin.pw /\ q.pc = "establish"
    <2>1. now + Lifetime \in Times
      BY TimesAssumption, TypeFacts DEF Times
    <2>2. admin.version \in 0 .. MaxVersion /\ admin.pw \in 0 .. MaxVersion
      BY DEF SessionsInv, SessionsTypeOK
    <2>3. NoRequest \in Request /\ NoRequest.token = NoToken
      BY NoRequestSound DEF NoRequest
    <2> QED BY <2>1, <2>2, <2>3 DEF Request, Steps
  <1>4. \A rows : SoundRequest(q, rows, admin)
    BY <1>3 DEF SoundRequest
  <1> HIDE DEF q
  <1>5. CASE /\ old = NoToken /\ UNCHANGED <<sessions, ended>> /\ http' = [http EXCEPT ![r] = q]
    BY <1>1, <1>2, <1>3, <1>4, <1>5, TypeFacts, RequestOnly
  <1>6. CASE /\ old # NoToken /\ sessions' = [sessions EXCEPT ![old] = Revoked(sessions[old], "renewed")]
             /\ ended' = ended \cup {old} /\ http' = [http EXCEPT ![r] = q]
    <2>1. old \in Tokens /\ sessions[old] \in Row
      BY <1>6, RequestFacts, TypeFacts
    <2> DEFINE row == Revoked(sessions[old], "renewed")
    <2>2. row \in Row /\ Keeps(sessions[old], row) /\ SoundRow(row, admin) /\ row.state # "live"
      BY <2>1, RevokedFacts
    <2> HIDE DEF row
    <2>3. sessions' = [sessions EXCEPT ![old] = row]
      BY <1>6 DEF row
    <2> HIDE DEF old
    <2> QED BY <1>1, <1>2, <1>3, <1>4, <1>6, <2>1, <2>2, <2>3, TypeFacts, RequestAndRow
  <1>7. CASE Ends(r) /\ UNCHANGED <<sessions, ended>>
    BY <1>1, <1>2, <1>7, NoRequestSound, TypeFacts, RequestOnly DEF Ends
  <1> QED BY <1>5, <1>6, <1>7 DEF CompareSucceeds, q

LEMMA EstablishStep ==
  ASSUME SessionsInv, NEW r \in Requests, NEW t \in Tokens, Establish(r, t)
  PROVE  SessionsInv' /\ RowsKept
  <1> DEFINE row == Upserted(t, http[r].data, http[r].deadline, http[r].pw)
  <1>1. /\ holder = "panel" /\ UNCHANGED <<admin, bySource, global, holder, reset, ended, now>>
        /\ http' = [http EXCEPT ![r] = NoRequest] /\ http[r].pc = "establish"
        /\ sessions[t].state = "none" /\ t \notin ended
    BY DEF Establish, At, Ends, Issued
  <1>2. http[r].pw = admin.pw
    BY <1>1, RequestFacts DEF SoundRequest
  <1>3. row \in Row /\ Keeps(sessions[t], row) /\ SoundRow(row, admin)
    BY <1>1, <1>2, RequestFacts, UpsertedFacts
  <1>4. CASE sessions' = [sessions EXCEPT ![t] = row] /\ audit' = [audit EXCEPT !.login = @ + 1]
    <2>1. audit' \in [login: Nat, logout: Nat]
      BY <1>4, TypeFacts
    <2> HIDE DEF row
    <2> QED BY <1>1, <1>3, <1>4, <2>1, NoRequestSound, TypeFacts, RequestAndRow
  <1>5. CASE UNCHANGED <<sessions, audit>>
    BY <1>1, <1>5, NoRequestSound, TypeFacts, RequestOnly
  <1> QED BY <1>4, <1>5 DEF Establish

LEMMA LogoutStep ==
  ASSUME SessionsInv, NEW r \in Requests, Logout(r)
  PROVE  SessionsInv' /\ RowsKept
  <1> DEFINE t == http[r].token
             row == Revoked(sessions[t], "logout")
  <1>1. /\ holder = "panel" /\ UNCHANGED <<admin, bySource, global, holder, reset, now>>
        /\ http[r].pc = "revoke"
    BY DEF Logout, At
  <1>2. CASE /\ sessions' = [sessions EXCEPT ![t] = row] /\ audit' = [audit EXCEPT !.logout = @ + 1]
             /\ ended' = ended \cup {t} /\ Ends(r)
    <2>1. t \in Tokens /\ sessions[t] \in Row
      BY <1>1, RequestFacts, TypeFacts DEF SoundRequest
    <2>2. row \in Row /\ Keeps(sessions[t], row) /\ SoundRow(row, admin) /\ row.state # "live"
      BY <2>1, RevokedFacts
    <2>3. audit' \in [login: Nat, logout: Nat]
      BY <1>2, TypeFacts
    <2> HIDE DEF row, t
    <2> QED BY <1>1, <1>2, <2>1, <2>2, <2>3, NoRequestSound, TypeFacts, RequestAndRow DEF Ends
  <1>3. CASE Goes(r, "finish") /\ UNCHANGED <<sessions, audit, ended>>
    BY <1>1, <1>3, GoesStep DEF Steps
  <1> QED BY <1>2, <1>3 DEF Logout

LEMMA RequestStepSound ==
  ASSUME SessionsInv, NEW r \in Requests, RequestStep(r)
  PROVE  SessionsInv' /\ RowsKept
  <1>1. ASSUME ServePage(r) PROVE SessionsInv' /\ RowsKept
    BY <1>1, GoesStep DEF ServePage, At, Steps
  <1>2. ASSUME CompareFails(r) PROVE SessionsInv' /\ RowsKept
    BY <1>2, GoesStep DEF CompareFails, At, Steps
  <1> QED BY <1>1, <1>2, LoadStep, RequireAuthStep, FinishStep, CheckThrottleStep, RecordFailureStep,
             CompareSucceedsStep, EstablishStep, LogoutStep DEF RequestStep

----------------------------------------------------------------------------
(* Steps of the processes.                                                 *)

\* reset-password, while no request is under way.
LEMMA CommitResetStep ==
  ASSUME SessionsInv, CommitReset
  PROVE  SessionsInv' /\ RowsKept
  <1>1. /\ holder = "cli" /\ reset = admin.version /\ reset < MaxVersion /\ admin.pw = admin.version
        /\ admin' = [version |-> reset + 1, pw |-> admin.pw + 1] /\ reset' = 0
        /\ sessions' = [t \in Tokens |-> Revoked(sessions[t], "reset")]
        /\ ended' = ended \cup {t \in Tokens : Issued(t)}
        /\ UNCHANGED <<http, bySource, global, audit, holder, now>>
    BY DEF CommitReset, SessionsInv, AdminSound
  <1>2. admin \in [version: 1 .. MaxVersion, pw: 1 .. MaxVersion] /\ MaxVersion \in Nat
    BY LimitsAssumption DEF SessionsInv, SessionsTypeOK
  <1>3. admin' \in [version: 1 .. MaxVersion, pw: 1 .. MaxVersion] /\ admin'.pw = admin'.version
    BY <1>1, <1>2
  <1>4. \A t \in Tokens : /\ sessions'[t] \in Row /\ SoundRow(sessions'[t], admin')
                          /\ sessions'[t].state # "live" /\ Keeps(sessions[t], sessions'[t])
    <2> SUFFICES ASSUME NEW t \in Tokens
                 PROVE  /\ sessions'[t] \in Row /\ SoundRow(sessions'[t], admin')
                        /\ sessions'[t].state # "live" /\ Keeps(sessions[t], sessions'[t])
      OBVIOUS
    <2>1. sessions[t] \in Row /\ sessions'[t] = Revoked(sessions[t], "reset")
      BY <1>1, TypeFacts
    <2> QED BY <2>1, RevokedFacts
  <1>5. sessions' \in [Tokens -> Row]
    BY <1>1, <1>4
  <1>6. \A r \in Requests : http[r] = NoRequest
    BY <1>1 DEF SessionsInv, PanelServes
  <1>7. RequestsSound' /\ PanelServes'
    BY <1>1, <1>6, NoRequestSound DEF RequestsSound, PanelServes
  <1>8. ended' \subseteq Tokens
    BY <1>1, TypeFacts
  <1>9. NoneRevived' /\ RowsSound'
    BY <1>4, <1>8 DEF NoneRevived, RowsSound
  <1>10. SessionsTypeOK'
    BY <1>1, <1>2, <1>3, <1>5, <1>8 DEF SessionsInv, SessionsTypeOK
  <1>11. AdminSound'
    BY <1>1, <1>3 DEF AdminSound
  <1> QED BY <1>4, <1>7, <1>9, <1>10, <1>11 DEF SessionsInv, RowsKept

LEMMA PanelStopsStep ==
  ASSUME SessionsInv, PanelStops
  PROVE  SessionsInv' /\ RowsKept
  <1>1. SessionsTypeOK'
    BY NoRequestSound DEF SessionsInv, SessionsTypeOK, PanelStops
  <1>2. RequestsSound' /\ PanelServes'
    BY NoRequestSound DEF PanelStops, RequestsSound, PanelServes
  <1>3. AdminSound' /\ RowsSound' /\ NoneRevived' /\ RowsKept
    BY DEF PanelStops, SessionsInv, AdminSound, RowsSound, NoneRevived, RowsKept, Keeps
  <1> QED BY <1>1, <1>2, <1>3 DEF SessionsInv

LEMMA OtherStep ==
  ASSUME SessionsInv,
         \/ \E p \in {"panel", "cli"} : Start(p)
         \/ ReadAdmin \/ CliEnds \/ Tick \/ UNCHANGED vars
  PROVE  SessionsInv' /\ RowsKept
  <1>1. UNCHANGED <<admin, sessions, http, bySource, global, audit, ended>>
    BY DEF Start, ReadAdmin, CliEnds, Tick, vars
  <1>2. holder' \in {"none", "panel", "cli"} /\ reset' \in 0 .. MaxVersion /\ now' \in 0 .. MaxTime
    <2>1. /\ holder \in {"none", "panel", "cli"} /\ reset \in 0 .. MaxVersion /\ now \in 0 .. MaxTime
          /\ admin.version \in 1 .. MaxVersion /\ MaxTime \in Nat /\ MaxVersion \in Nat
      BY TimesAssumption, LimitsAssumption DEF SessionsInv, SessionsTypeOK
    <2>2. CASE \E p \in {"panel", "cli"} : Start(p)
      BY <2>1, <2>2 DEF Start
    <2>3. CASE ReadAdmin \/ CliEnds
      BY <2>1, <2>3 DEF ReadAdmin, CliEnds
    <2>4. CASE Tick \/ UNCHANGED vars
      BY <2>1, <2>4 DEF Tick, vars
    <2> QED BY <2>2, <2>3, <2>4
  <1>3. SessionsTypeOK'
    BY <1>1, <1>2 DEF SessionsInv, SessionsTypeOK
  <1>4. AdminSound'
    BY <1>1 DEF Start, ReadAdmin, CliEnds, Tick, vars, SessionsInv, AdminSound
  <1>5. PanelServes'
    BY <1>1 DEF Start, ReadAdmin, CliEnds, Tick, vars, SessionsInv, PanelServes
  <1>6. RowsSound' /\ RequestsSound' /\ NoneRevived' /\ RowsKept
    BY <1>1 DEF SessionsInv, RowsSound, RequestsSound, NoneRevived, RowsKept, Keeps
  <1> QED BY <1>3, <1>4, <1>5, <1>6 DEF SessionsInv

LEMMA StepSound == SessionsInv /\ [Next]_vars => SessionsInv' /\ RowsKept
  BY RequestStepSound, CommitResetStep, PanelStopsStep, OtherStep DEF Next

----------------------------------------------------------------------------
(* The theorems.                                                           *)

\* The inductive invariant: a live row is of the present administrator, and
\* the copies that requests hold agree with their rows (SessionStore).
THEOREM SessionsInvariant == Spec => []SessionsInv
  BY InitSound, StepSound, PTL DEF Spec

\* RevokedForGood: a logout, a renewal or a reset ends a session for good,
\* whatever requests still hold a copy of it (the upsert's WHERE revoked_at
\* IS NULL).
THEOREM RevokedForGoodHolds == Spec => []RevokedForGood
  <1>1. SessionsInv => RevokedForGood
    BY DEF SessionsInv, NoneRevived, RevokedForGood, Usable, Found
  <1> QED BY <1>1, SessionsInvariant, PTL

\* CurrentPasswordOnly: no session that an earlier password opened lets
\* anyone in (CommitReset revokes what the lock file keeps from growing).
THEOREM CurrentPasswordOnlyHolds == Spec => []CurrentPasswordOnly
  <1>1. SessionsInv => CurrentPasswordOnly
    BY DEF SessionsInv, RowsSound, SoundRow, CurrentPasswordOnly, Usable, Found
  <1> QED BY <1>1, SessionsInvariant, PTL

\* NeverPastDeadline: no refresh carries a session past the deadline of its
\* login (SessionStore.record).
THEOREM NeverPastDeadlineHolds == Spec => []NeverPastDeadline
  <1>1. SessionsInv => NeverPastDeadline
    <2> SUFFICES ASSUME SessionsInv, NEW t \in Tokens, Usable(t) PROVE now < sessions[t].deadline
      BY DEF NeverPastDeadline
    <2>1. sessions[t].absolute > now /\ sessions[t].absolute <= sessions[t].deadline
      BY DEF SessionsInv, RowsSound, SoundRow, Usable, Found
    <2>2. sessions[t].absolute \in Int /\ sessions[t].deadline \in Int /\ now \in Int
      BY TypeFacts DEF Row, Times
    <2> QED BY <2>1, <2>2
  <1> QED BY <1>1, SessionsInvariant, PTL

\* A row keeps its data and the deadline its login gave it, and a revoked row
\* is never written again: what gives the two theorems above their meaning.
THEOREM RowsStand == Spec => [][RowsKept]_vars
  BY SessionsInvariant, StepSound, PTL DEF Spec

----------------------------------------------------------------------------
(* The audit trail.                                                        *)

Opened    == {t \in Tokens : sessions[t].state # "none"}
LoggedOut == {t \in Tokens : sessions[t].state = "logout"}

\* Counting needs the sets to be finite, which they are at every moment.
AuditInv == IsFiniteSet(Opened) /\ AuditTellsSessions

\* Steps that neither open a session nor log one out.
LEMMA AuditUnchanged ==
  ASSUME AuditInv, UNCHANGED audit,
         \A t \in Tokens : /\ sessions'[t].state = "none" <=> sessions[t].state = "none"
                           /\ sessions'[t].state = "logout" <=> sessions[t].state = "logout"
  PROVE  AuditInv'
  <1>1. Opened' = Opened /\ LoggedOut' = LoggedOut
    BY DEF Opened, LoggedOut
  <1> QED BY <1>1 DEF AuditInv, AuditTellsSessions, Opened, LoggedOut

LEMMA AuditEstablish ==
  ASSUME SessionsInv, AuditInv, NEW r \in Requests, NEW t \in Tokens, Establish(r, t)
  PROVE  AuditInv'
  <1> DEFINE row == Upserted(t, http[r].data, http[r].deadline, http[r].pw)
  <1>1. sessions[t].state = "none" /\ http[r].pc = "establish"
    BY DEF Establish, At, Issued
  <1>2. row.state = "live"
    BY <1>1, RequestFacts, UpsertedFacts DEF SoundRequest
  <1>3. CASE sessions' = [sessions EXCEPT ![t] = row] /\ audit' = [audit EXCEPT !.login = @ + 1]
    <2> HIDE DEF row
    <2>1. Opened' = Opened \cup {t} /\ LoggedOut' = LoggedOut /\ t \notin Opened
      BY <1>1, <1>2, <1>3, TypeFacts DEF Opened, LoggedOut
    <2>2. audit'.login = audit.login + 1 /\ audit'.logout = audit.logout
      BY <1>3, TypeFacts
    <2>3. IsFiniteSet(Opened') /\ Cardinality(Opened') = Cardinality(Opened) + 1
      BY <2>1, FS_AddElement DEF AuditInv
    <2> QED BY <2>1, <2>2, <2>3 DEF AuditInv, AuditTellsSessions, Opened, LoggedOut
  <1>4. CASE UNCHANGED <<sessions, audit>>
    BY <1>4, AuditUnchanged
  <1> QED BY <1>3, <1>4 DEF Establish

LEMMA AuditLogout ==
  ASSUME SessionsInv, AuditInv, NEW r \in Requests, Logout(r)
  PROVE  AuditInv'
  <1> DEFINE t == http[r].token
             row == Revoked(sessions[t], "logout")
  <1>1. http[r].pc = "revoke" /\ t \in Tokens /\ sessions[t] \in Row
    BY RequestFacts, TypeFacts DEF Logout, At, SoundRequest
  <1>2. CASE /\ CountsAsLogout(t) /\ sessions' = [sessions EXCEPT ![t] = row]
             /\ audit' = [audit EXCEPT !.logout = @ + 1]
    <2>1. sessions[t].state = "live" /\ row.state = "logout"
      BY <1>1, <1>2, RevokedFacts DEF CountsAsLogout
    <2> HIDE DEF row, t
    <2>2. Opened' = Opened /\ LoggedOut' = LoggedOut \cup {t} /\ t \notin LoggedOut
      BY <1>1, <1>2, <2>1, TypeFacts DEF Opened, LoggedOut
    <2>3. audit'.login = audit.login /\ audit'.logout = audit.logout + 1
      BY <1>2, TypeFacts
    <2>4. IsFiniteSet(LoggedOut)
      <3>1. LoggedOut \in SUBSET Opened
        BY DEF LoggedOut, Opened
      <3> QED BY <3>1, FS_Subset DEF AuditInv
    <2>5. Cardinality(LoggedOut') = Cardinality(LoggedOut) + 1
      BY <2>2, <2>4, FS_AddElement
    <2> QED BY <2>2, <2>3, <2>5 DEF AuditInv, AuditTellsSessions, Opened, LoggedOut
  <1>3. CASE UNCHANGED <<sessions, audit>>
    BY <1>3, AuditUnchanged
  <1> QED BY <1>2, <1>3 DEF Logout

LEMMA AuditOthers ==
  ASSUME SessionsInv, AuditInv, NEW r \in Requests,
         \/ \E t \in Tokens \cup {NoToken}, kind \in {"page", "logout", "login"} : Load(r, t, kind)
         \/ Finish(r) \/ CompareSucceeds(r)
  PROVE  AuditInv'
  <1>1. CASE \E t \in Tokens \cup {NoToken}, kind \in {"page", "logout", "login"} : Load(r, t, kind)
    <2>1. PICK t \in Tokens \cup {NoToken}, kind \in {"page", "logout", "login"} : Load(r, t, kind)
      BY <1>1
    <2>2. CASE UNCHANGED sessions
      BY <2>1, <2>2, AuditUnchanged DEF Load
    <2>3. CASE t \in Tokens /\ sessions' = [sessions EXCEPT ![t].idle = Min2(now + Idle, sessions[t].absolute)]
      <3>1. \A x \in Tokens : sessions'[x].state = sessions[x].state
        BY <2>3, TypeFacts DEF Row
      <3> QED BY <2>1, <3>1, AuditUnchanged DEF Load
    <2> QED BY <2>1, <2>2, <2>3 DEF Load
  <1>2. CASE Finish(r)
    <2> DEFINE t == http[r].token
               row == Upserted(t, http[r].data, http[r].deadline, http[r].pw)
    <2>1. CASE UNCHANGED sessions
      BY <1>2, <2>1, AuditUnchanged DEF Finish
    <2>2. CASE t # NoToken /\ sessions' = [sessions EXCEPT ![t] = row]
      <3>1. t \in Tokens /\ row.state = sessions[t].state
        BY <2>2, RequestFacts, UpsertedFacts DEF SoundRequest
      <3> HIDE DEF t, row
      <3>2. \A x \in Tokens : sessions'[x].state = sessions[x].state
        BY <2>2, <3>1, TypeFacts
      <3> QED BY <1>2, <3>2, AuditUnchanged DEF Finish
    <2> QED BY <1>2, <2>1, <2>2 DEF Finish
  <1>3. CASE CompareSucceeds(r)
    <2> DEFINE t == http[r].token
               row == Revoked(sessions[t], "renewed")
    <2>1. CASE UNCHANGED sessions
      BY <1>3, <2>1, AuditUnchanged DEF CompareSucceeds
    <2>2. CASE t # NoToken /\ sessions' = [sessions EXCEPT ![t] = row]
      <3>1. t \in Tokens /\ row.state = IF sessions[t].state = "live" THEN "renewed" ELSE sessions[t].state
        BY <2>2, RequestFacts, TypeFacts, RevokedFacts
      <3> HIDE DEF t, row
      <3>2. \A x \in Tokens : /\ sessions'[x].state = "none" <=> sessions[x].state = "none"
                              /\ sessions'[x].state = "logout" <=> sessions[x].state = "logout"
        BY <2>2, <3>1, TypeFacts
      <3> QED BY <1>3, <3>2, AuditUnchanged DEF CompareSucceeds
    <2> QED BY <1>3, <2>1, <2>2 DEF CompareSucceeds
  <1> QED BY <1>1, <1>2, <1>3

\* AuditTellsSessions: one succeeded login per session ever opened, one
\* succeeded logout per session that was logged out (the transactions of
\* EstablishSession and Logout).
THEOREM AuditTellsSessionsHolds == Spec => []AuditTellsSessions
  <1>1. Init => AuditInv
    <2> SUFFICES ASSUME Init PROVE AuditInv
      OBVIOUS
    <2>1. Opened = {} /\ LoggedOut = {} /\ audit.login = 0 /\ audit.logout = 0
      BY DEF Init, Opened, LoggedOut, NoRow
    <2> QED BY <2>1, FS_EmptySet DEF AuditInv, AuditTellsSessions, Opened, LoggedOut
  <1>2. SessionsInv /\ AuditInv /\ [Next]_vars => AuditInv'
    <2> SUFFICES ASSUME SessionsInv, AuditInv, [Next]_vars PROVE AuditInv'
      OBVIOUS
    <2>1. CASE UNCHANGED <<sessions, audit>>
      BY <2>1, AuditUnchanged
    <2>2. CASE CommitReset
      <3>1. \A t \in Tokens : sessions'[t] = Revoked(sessions[t], "reset") /\ sessions[t] \in Row
        BY <2>2, TypeFacts DEF CommitReset
      <3>2. \A t \in Tokens : /\ sessions'[t].state = "none" <=> sessions[t].state = "none"
                              /\ sessions'[t].state = "logout" <=> sessions[t].state = "logout"
        BY <3>1, RevokedFacts
      <3> QED BY <2>2, <3>2, AuditUnchanged DEF CommitReset
    <2>3. ASSUME NEW r \in Requests, RequestStep(r) PROVE AuditInv'
      <3>1. CASE RequireAuth(r) \/ ServePage(r) \/ CheckThrottle(r) \/ CompareFails(r) \/ RecordFailure(r)
        BY <3>1, <2>1 DEF RequireAuth, ServePage, CheckThrottle, CompareFails, RecordFailure
      <3> QED BY <2>3, <3>1, AuditEstablish, AuditLogout, AuditOthers DEF RequestStep
    <2>4. CASE (\E p \in {"panel", "cli"} : Start(p)) \/ PanelStops \/ ReadAdmin \/ CliEnds \/ Tick \/ UNCHANGED vars
      BY <2>1, <2>4 DEF Start, PanelStops, ReadAdmin, CliEnds, Tick, vars
    <2> QED BY <2>2, <2>3, <2>4 DEF Next
  <1>3. AuditInv => AuditTellsSessions
    BY DEF AuditInv
  <1> QED BY <1>1, <1>2, <1>3, SessionsInvariant, PTL DEF Spec

----------------------------------------------------------------------------
(* The throttle.                                                           *)

\* The requests that have passed it and may still record a failure.
Trying == {r \in Requests : http[r].pc \in {"compare", "fail"}}

\* Whoever is past the throttle has his failure reserved.
ThrottleInv ==
    /\ Len(bySource) + Cardinality(Trying) <= SourceLimit + Cardinality(Requests) - 1
    /\ Len(global) + Cardinality(Trying) <= GlobalLimit + Cardinality(Requests) - 1

LEMMA TryingFacts ==
  /\ IsFiniteSet(Trying) /\ Cardinality(Trying) \in Nat /\ Cardinality(Requests) \in Nat
  /\ Cardinality(Trying) <= Cardinality(Requests)
  <1>1. Trying \in SUBSET Requests
    BY DEF Trying
  <1> QED BY <1>1, RequestsAssumption, FS_Subset, FS_CardinalityType

LEMMA TryingFactsNext ==
  /\ IsFiniteSet(Trying') /\ Cardinality(Trying') \in Nat
  /\ Cardinality(Trying') <= Cardinality(Requests)
  <1>1. Trying' \in SUBSET Requests
    BY DEF Trying
  <1> QED BY <1>1, RequestsAssumption, FS_Subset, FS_CardinalityType

LEMMA ListFacts ==
  ASSUME SessionsInv
  PROVE  /\ Len(bySource) \in Nat /\ Len(global) \in Nat
         /\ \A at : /\ Prune(bySource, at) \in Seq(0 .. MaxTime) /\ Prune(global, at) \in Seq(0 .. MaxTime)
                    /\ Len(Prune(bySource, at)) \in Nat /\ Len(Prune(global, at)) \in Nat
                    /\ Len(Prune(bySource, at)) <= Len(bySource) /\ Len(Prune(global, at)) <= Len(global)
  BY TypeFacts, PruneFacts, LenProperties

\* Steps that let nobody pass and record nothing.
LEMMA ThrottleEases ==
  ASSUME SessionsInv, ThrottleInv, Trying' \subseteq Trying,
         Len(bySource') \in Nat, Len(global') \in Nat,
         Len(bySource') <= Len(bySource), Len(global') <= Len(global)
  PROVE  ThrottleInv'
  <1>1. Cardinality(Trying') <= Cardinality(Trying)
    BY TryingFacts, FS_Subset
  <1> QED BY <1>1, TryingFacts, TryingFactsNext, ListFacts, LimitsAssumption, SMTT(30) DEF ThrottleInv

LEMMA ThrottlePasses ==
  ASSUME SessionsInv, ThrottleInv, NEW r \in Requests, CheckThrottle(r)
  PROVE  ThrottleInv'
  <1>1. /\ bySource' = Prune(bySource, now) /\ global' = Prune(global, now)
        /\ http' = [http EXCEPT ![r].at = now,
                                ![r].pc = IF Throttled(bySource', global') THEN "finish" ELSE "compare"]
    BY DEF CheckThrottle
  <1>2. http \in [Requests -> Request]
    BY DEF SessionsInv, SessionsTypeOK
  <1>3. CASE Throttled(bySource', global')
    <2>1. Trying' \subseteq Trying
      BY <1>1, <1>2, <1>3 DEF Trying, Request
    <2> QED BY <1>1, <2>1, ListFacts, ThrottleEases
  <1>4. CASE ~Throttled(bySource', global')
    <2>1. Len(bySource') < SourceLimit /\ Len(global') < GlobalLimit
          /\ Len(bySource') \in Nat /\ Len(global') \in Nat
      BY <1>1, <1>4, ListFacts, LimitsAssumption DEF Throttled
    <2> QED BY <2>1, TryingFacts, TryingFactsNext, LimitsAssumption, SMTT(30) DEF ThrottleInv
  <1> QED BY <1>3, <1>4

LEMMA ThrottleRecords ==
  ASSUME SessionsInv, ThrottleInv, NEW r \in Requests, RecordFailure(r)
  PROVE  ThrottleInv'
  <1>1. /\ http[r].pc = "fail" /\ http' = [http EXCEPT ![r].pc = "finish"]
        /\ bySource' = Append(Prune(bySource, http[r].at), http[r].at)
        /\ global' = Append(Prune(global, http[r].at), http[r].at)
    BY DEF RecordFailure, At, Goes
  <1>2. http \in [Requests -> Request] /\ http[r].at \in 0 .. MaxTime
    BY RequestFacts DEF SessionsInv, SessionsTypeOK
  <1>3. Trying' = Trying \ {r} /\ r \in Trying
    BY <1>1, <1>2 DEF Trying, Request
  <1>4. Cardinality(Trying') = Cardinality(Trying) - 1
    BY <1>3, TryingFacts, FS_RemoveElement
  <1>5. /\ Len(bySource') = Len(Prune(bySource, http[r].at)) + 1
        /\ Len(global') = Len(Prune(global, http[r].at)) + 1
    BY <1>1, <1>2, ListFacts, AppendProperties
  <1>6. /\ Len(Prune(bySource, http[r].at)) \in Nat /\ Len(Prune(bySource, http[r].at)) <= Len(bySource)
        /\ Len(Prune(global, http[r].at)) \in Nat /\ Len(Prune(global, http[r].at)) <= Len(global)
        /\ Len(bySource) \in Nat /\ Len(global) \in Nat
    BY ListFacts
  <1>7. SourceLimit \in Nat /\ GlobalLimit \in Nat
    BY LimitsAssumption
  <1> DEFINE a == Cardinality(Trying)
             b == Cardinality(Requests)
  <1>8. /\ Len(bySource) + a <= SourceLimit + b - 1 /\ Len(global) + a <= GlobalLimit + b - 1
        /\ a \in Nat /\ b \in Nat
    BY TryingFacts DEF ThrottleInv
  <1>9. Cardinality(Trying') = a - 1
    BY <1>4
  <1> HIDE DEF a, b
  <1>10. Len(bySource') + (a - 1) <= SourceLimit + b - 1 /\ Len(global') + (a - 1) <= GlobalLimit + b - 1
    BY <1>5, <1>6, <1>7, <1>8
  <1> QED BY <1>9, <1>10 DEF ThrottleInv, b

\* ThrottleHolds: requests that pass the throttle together exceed its limits
\* by one failure for each of them but the first (limited, recordFailure).
THEOREM ThrottleHoldsAlways == Spec => []ThrottleHolds
  <1>1. Init => ThrottleInv
    <2> SUFFICES ASSUME Init PROVE ThrottleInv
      OBVIOUS
    <2>1. Trying = {}
      BY DEF Init, Trying, NoRequest
    <2>2. Cardinality(Trying) = 0
      BY <2>1, FS_EmptySet
    <2>3. Len(bySource) = 0 /\ Len(global) = 0
      BY DEF Init
    <2> QED BY <2>2, <2>3, TryingFacts, LimitsAssumption DEF ThrottleInv
  <1>2. SessionsInv /\ ThrottleInv /\ [Next]_vars => ThrottleInv'
    <2> SUFFICES ASSUME SessionsInv, ThrottleInv, [Next]_vars PROVE ThrottleInv'
      OBVIOUS
    <2>1. http \in [Requests -> Request]
      BY DEF SessionsInv, SessionsTypeOK
    <2>2. ASSUME NEW r \in Requests, NEW q, http' = [http EXCEPT ![r] = q],
                 q.pc \in {"compare", "fail"} => http[r].pc \in {"compare", "fail"}
          PROVE  Trying' \subseteq Trying
      BY <2>1, <2>2 DEF Trying
    <2>3. ASSUME UNCHANGED <<bySource, global>>, Trying' \subseteq Trying PROVE ThrottleInv'
      BY <2>3, ListFacts, ThrottleEases
    <2>4. ASSUME NEW r \in Requests, RequestStep(r) PROVE ThrottleInv'
      <3>1. CASE CompareSucceeds(r)
        <4>1. bySource' = <<>> /\ global' = Prune(global, http[r].at)
          BY <3>1 DEF CompareSucceeds
        <4>2. Trying' \subseteq Trying
          <5>1. CASE Ends(r)
            BY <2>2, <5>1 DEF Ends, NoRequest
          <5>2. CASE http' = [http EXCEPT ![r] = [NoRequest EXCEPT !.pc = "establish", !.data = admin.version,
                                             !.deadline = now + Lifetime, !.pw = admin.pw]]
            BY <2>2, <5>2 DEF NoRequest
          <5> QED BY <3>1, <5>1, <5>2 DEF CompareSucceeds
        <4> QED BY <4>1, <4>2, ListFacts, ThrottleEases
      <3>2. CASE \E t \in Tokens \cup {NoToken}, kind \in {"page", "logout", "login"} : Load(r, t, kind)
        <4>1. PICK t \in Tokens \cup {NoToken}, kind \in {"page", "logout", "login"} : Load(r, t, kind)
          BY <3>2
        <4>2. http'[r].pc = kind /\ \A x \in Requests \ {r} : http'[x] = http[x]
          <5>1. CASE t # NoToken /\ Found(t)
            BY <2>1, <4>1, <5>1 DEF Load, NoRequest
          <5>2. CASE ~(t # NoToken /\ Found(t))
            BY <2>1, <4>1, <5>2 DEF Load, NoRequest
          <5> QED BY <5>1, <5>2
        <4>3. Trying' \subseteq Trying
          BY <4>2 DEF Trying
        <4> QED BY <2>3, <4>1, <4>3 DEF Load
      <3>3. CASE RequireAuth(r) \/ ServePage(r) \/ CompareFails(r)
        <4>1. \E pc \in {"serve", "revoke", "finish", "fail"} :
                 http' = [http EXCEPT ![r].pc = pc] /\ (pc = "fail" => http[r].pc = "compare")
          BY <3>3 DEF RequireAuth, ServePage, CompareFails, Goes, At
        <4>2. Trying' \subseteq Trying
          BY <2>1, <4>1 DEF Trying, Request
        <4> QED BY <2>3, <3>3, <4>2 DEF RequireAuth, ServePage, CompareFails
      <3>4. CASE Finish(r) \/ (\E t \in Tokens : Establish(r, t)) \/ Logout(r)
        <4>1. Ends(r) \/ Goes(r, "finish")
          BY <3>4 DEF Finish, Establish, Logout
        <4>2. Trying' \subseteq Trying
          BY <2>1, <4>1 DEF Trying, Request, Ends, Goes, NoRequest
        <4> QED BY <2>3, <3>4, <4>2 DEF Finish, Establish, Logout
      <3> QED BY <2>4, <3>1, <3>2, <3>3, <3>4, ThrottlePasses, ThrottleRecords DEF RequestStep
    <2>5. CASE PanelStops
      <3>1. Trying' \subseteq Trying /\ bySource' = <<>> /\ global' = <<>>
        BY <2>5 DEF PanelStops, Trying, NoRequest
      <3> QED BY <3>1, ListFacts, ThrottleEases
    <2>6. CASE \/ \E p \in {"panel", "cli"} : Start(p)
               \/ ReadAdmin \/ CommitReset \/ CliEnds \/ Tick \/ UNCHANGED vars
      <3>1. UNCHANGED <<http, bySource, global>>
        BY <2>6 DEF Start, ReadAdmin, CommitReset, CliEnds, Tick, vars
      <3>2. Trying' = Trying
        BY <3>1 DEF Trying
      <3> QED BY <2>3, <3>1, <3>2
    <2> QED BY <2>4, <2>5, <2>6 DEF Next
  <1>3. SessionsInv /\ ThrottleInv => ThrottleHolds
    BY TryingFacts, ListFacts, LimitsAssumption DEF ThrottleInv, ThrottleHolds
  <1> QED BY <1>1, <1>2, <1>3, SessionsInvariant, PTL DEF Spec
=============================================================================
