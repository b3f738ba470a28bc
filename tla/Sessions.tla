------------------------------ MODULE Sessions ------------------------------
(***************************************************************************)
(* Who may use the panel: administrators, admin_sessions, the login        *)
(* throttle and the HTTP requests that load, refresh and revoke sessions   *)
(* while others are under way.                                             *)
(*                                                                         *)
(* Sessions live in SQLite and survive a restart of the panel; the         *)
(* throttle lives in memory and does not.  The reset-password command is   *)
(* another process: the lock file keeps it and the panel apart.  The scs   *)
(* session manager is external: it keeps a deadline in the session's data, *)
(* marks every loaded session as modified (an idle timeout is configured)  *)
(* and asks the store for min(deadline, now + idle) when it commits.       *)
(***************************************************************************)
EXTENDS Integers, Sequences, FiniteSets

CONSTANTS
    Requests,      \* concurrent HTTP requests
    Tokens,        \* session tokens, never reused
    NoToken,       \* a request without a usable session
    Idle,          \* session_idle_timeout
    Lifetime,      \* session_absolute_timeout
    Window,        \* the throttle's 15 minutes
    SourceLimit,   \* the throttle's 5 failures of one username and source
    GlobalLimit,   \* the throttle's 20 failures of all
    MaxTime,       \* bound: the clock
    MaxVersion     \* bound: administrators.password_version

ASSUME TokensAssumption == NoToken \notin Tokens
ASSUME TimesAssumption  == {Idle, Lifetime, Window} \subseteq Nat \ {0} /\ MaxTime \in Nat
ASSUME RequestsAssumption == IsFiniteSet(Requests)
ASSUME LimitsAssumption == {SourceLimit, GlobalLimit, MaxVersion} \subseteq Nat \ {0}

VARIABLES
    admin,      \* the administrators row: its version, and which password its hash is of
    sessions,   \* token -> its admin_sessions row
    http,       \* request -> where it is and the session it loaded
    bySource,   \* AuthService.bySource of the one username and source modelled
    global,     \* AuthService.global
    audit,      \* succeeded login and logout events
    holder,     \* the process that has the lock file
    reset,      \* the password_version reset-password read, 0 before it did
    ended,      \* history: the tokens that were revoked
    now

vars == <<admin, sessions, http, bySource, global, audit, holder, reset, ended, now>>

Times == 0 .. (MaxTime + Lifetime + Idle)

\* A row; pw is the password its login was compared with.  "logout",
\* "renewed" and "reset" are the three writers of revoked_at.
Row == [state: {"none", "live", "logout", "renewed", "reset"}, version: 0 .. MaxVersion,
        data: 0 .. MaxVersion, deadline: Times, idle: Times, absolute: Times, pw: 0 .. MaxVersion]

NoRow == [state |-> "none", version |-> 0, data |-> 0, deadline |-> 0, idle |-> 0, absolute |-> 0, pw |-> 0]

Steps == {"idle", "page", "logout", "login", "compare", "fail", "establish",
          "serve", "revoke", "finish"}

\* token, data, deadline: the request's copy of the session; at: the time
\* Authenticate read; pw: the password that was compared.
Request == [pc: Steps, token: Tokens \cup {NoToken}, data: 0 .. MaxVersion, deadline: Times,
            at: 0 .. MaxTime, pw: 0 .. MaxVersion]

NoRequest == [pc |-> "idle", token |-> NoToken, data |-> 0, deadline |-> 0, at |-> 0, pw |-> 0]

Min2(a, b) == IF a <= b THEN a ELSE b

----------------------------------------------------------------------------
(* SessionStore.                                                           *)

\* Find's WHERE and JOIN.
Found(t) == /\ sessions[t].state = "live"
            /\ sessions[t].version = admin.version
            /\ sessions[t].idle > now
            /\ sessions[t].absolute > now

\* Seeded fault: the configured lifetime starts again with every commit.
Bounds_Restarted(row, deadline) ==
    [row EXCEPT !.absolute = now + Lifetime, !.idle = now + Idle]

\* record: min(now + absolute, scs's expiry), and the idle limit within it.
Bounds(row, deadline) ==
    LET expiry   == Min2(deadline, now + Idle)
        absolute == Min2(now + Lifetime, expiry)
    IN  [row EXCEPT !.absolute = absolute, !.idle = Min2(now + Idle, absolute)]

\* Seeded fault: the upsert also clears revoked_at.
Upserted_Revives(t, data, deadline, pw) ==
    Bounds([sessions[t] EXCEPT !.state = "live", !.data = data, !.deadline = deadline,
                               !.version = admin.version, !.pw = admin.pw], deadline)

\* Commit and InsertSession: the upsert of a token's row.  A revoked row is
\* not touched; a new one takes the version the administrator has now.
Upserted(t, data, deadline, pw) ==
    CASE sessions[t].state = "live" -> Bounds([sessions[t] EXCEPT !.data = data, !.deadline = deadline], deadline)
      [] sessions[t].state = "none" ->
            Bounds([NoRow EXCEPT !.state = "live", !.version = admin.version, !.data = data,
                                 !.deadline = deadline, !.pw = pw], deadline)
      [] OTHER -> sessions[t]

\* Delete, RevokeSession, RevokeAllSessions: revoked_at IS NULL only.
Revoked(row, by) == IF row.state = "live" THEN [row EXCEPT !.state = by] ELSE row

----------------------------------------------------------------------------
(* LoadAndSave and RequireAuth.                                            *)

At(r, pc) == holder = "panel" /\ http[r].pc = pc

Goes(r, pc) == http' = [http EXCEPT ![r].pc = pc]

Ends(r) == http' = [http EXCEPT ![r] = NoRequest]

\* A response has set this token.
Issued(t) == sessions[t].state # "none" \/ t \in ended

\* A request arrives with any cookie: Find slides the idle limit of the row
\* it returns; without one the session is new and empty.
Load(r, t, kind) ==
    /\ At(r, "idle")
    /\ t # NoToken => Issued(t)
    /\ IF t # NoToken /\ Found(t)
         THEN /\ sessions' = [sessions EXCEPT ![t].idle = Min2(now + Idle, sessions[t].absolute)]
              /\ http' = [http EXCEPT ![r] = [NoRequest EXCEPT !.pc = kind, !.token = t,
                             !.data = sessions[t].data, !.deadline = sessions[t].deadline]]
         ELSE /\ http' = [http EXCEPT ![r] = [NoRequest EXCEPT !.pc = kind]]
              /\ UNCHANGED sessions
    /\ UNCHANGED <<admin, bySource, global, audit, holder, reset, ended, now>>

\* SessionValid: the version in the session's data is still the administrator's.
Valid(r) == http[r].token # NoToken /\ http[r].data = admin.version

\* To the handler; an invalid session or a database error ends here.
RequireAuth(r) ==
    /\ \E step \in {<<"page", "serve">>, <<"logout", "revoke">>} :
          /\ At(r, step[1])
          /\ \/ Valid(r) /\ Goes(r, step[2])
             \/ Goes(r, "finish")
    /\ UNCHANGED <<admin, sessions, bySource, global, audit, holder, reset, ended, now>>

\* A protected handler that leaves the session alone.
ServePage(r) ==
    /\ At(r, "serve")
    /\ Goes(r, "finish")
    /\ UNCHANGED <<admin, sessions, bySource, global, audit, holder, reset, ended, now>>

\* finish: the loaded session is committed again; the commit may fail, which
\* leaves the row and the response as they are.
Finish(r) ==
    LET t == http[r].token IN
    /\ At(r, "finish")
    /\ \/ /\ t # NoToken
          /\ sessions' = [sessions EXCEPT ![t] = Upserted(t, http[r].data, http[r].deadline, http[r].pw)]
       \/ UNCHANGED sessions
    /\ Ends(r)
    /\ UNCHANGED <<admin, bySource, global, audit, holder, reset, ended, now>>

----------------------------------------------------------------------------
(* Login: Authenticate, RenewToken, EstablishSession.                      *)

\* prune drops the leading times that are older than the window; a comparison
\* that took long appends its time after later ones, so older ones may stay.
Prune(values, at) ==
    LET old == {i \in DOMAIN values : \A j \in 1 .. i : values[j] < at - Window}
    IN  SubSeq(values, Cardinality(old) + 1, Len(values))

\* Seeded fault: one failure too many.
Throttled_Late(source, all) == Len(source) > SourceLimit \/ Len(all) > GlobalLimit

Throttled(source, all) == Len(source) >= SourceLimit \/ Len(all) >= GlobalLimit

\* limited: refused with 429 (and a failed event), or on to the comparison.
CheckThrottle(r) ==
    /\ At(r, "login")
    /\ bySource' = Prune(bySource, now)
    /\ global' = Prune(global, now)
    /\ http' = [http EXCEPT ![r].at = now,
                            ![r].pc = IF Throttled(bySource', global') THEN "finish" ELSE "compare"]
    /\ UNCHANGED <<admin, sessions, audit, holder, reset, ended, now>>

\* The wrong password (or username), or a database error.
CompareFails(r) ==
    /\ At(r, "compare")
    /\ \E pc \in {"fail", "finish"} : Goes(r, pc)
    /\ UNCHANGED <<admin, sessions, bySource, global, audit, holder, reset, ended, now>>

RecordFailure(r) ==
    /\ At(r, "fail")
    /\ bySource' = Append(Prune(bySource, http[r].at), http[r].at)
    /\ global' = Append(Prune(global, http[r].at), http[r].at)
    /\ Goes(r, "finish")
    /\ UNCHANGED <<admin, sessions, audit, holder, reset, ended, now>>

\* The right one: clearFailures, and the handler goes on to RenewToken, which
\* revokes the session the request came with; when that fails, the request's
\* session is abandoned.
CompareSucceeds(r) ==
    LET old == http[r].token IN
    /\ At(r, "compare")
    /\ bySource' = <<>>
    /\ global' = Prune(global, http[r].at)
    /\ \/ /\ sessions' = IF old = NoToken THEN sessions
                          ELSE [sessions EXCEPT ![old] = Revoked(sessions[old], "renewed")]
          /\ http' = [http EXCEPT ![r] = [NoRequest EXCEPT !.pc = "establish", !.data = admin.version,
                                             !.deadline = now + Lifetime, !.pw = admin.pw]]
          /\ ended' = ended \cup ({old} \ {NoToken})
       \/ Ends(r) /\ UNCHANGED <<sessions, ended>>
    /\ UNCHANGED <<admin, audit, holder, reset, now>>

\* One transaction for the row and the succeeded event; either fails both and
\* the session is abandoned.
Establish(r, t) ==
    /\ At(r, "establish")
    /\ ~Issued(t)
    /\ \/ /\ sessions' = [sessions EXCEPT ![t] = Upserted(t, http[r].data, http[r].deadline, http[r].pw)]
          /\ audit' = [audit EXCEPT !.login = @ + 1]
       \/ UNCHANGED <<sessions, audit>>
    /\ Ends(r)
    /\ UNCHANGED <<admin, bySource, global, holder, reset, ended, now>>

----------------------------------------------------------------------------
(* Logout.                                                                 *)

\* Seeded fault: a revocation that found no row is a success.
CountsAsLogout_Always(t) == TRUE

\* DeleteCtx: ErrSessionNotLive unless a row was revoked.
CountsAsLogout(t) == sessions[t].state = "live"

\* The event and the revocation in one transaction; a failure rolls both back
\* and leaves the session to finish.
Logout(r) ==
    LET t == http[r].token IN
    /\ At(r, "revoke")
    /\ \/ /\ CountsAsLogout(t)
          /\ sessions' = [sessions EXCEPT ![t] = Revoked(sessions[t], "logout")]
          /\ audit' = [audit EXCEPT !.logout = @ + 1]
          /\ ended' = ended \cup {t}
          /\ Ends(r)
       \/ Goes(r, "finish") /\ UNCHANGED <<sessions, audit, ended>>
    /\ UNCHANGED <<admin, bySource, global, holder, reset, now>>

----------------------------------------------------------------------------
(* Processes.                                                              *)

\* acquireLock: one process at a time.
Start(p) ==
    /\ holder = "none"
    /\ holder' = p
    /\ UNCHANGED <<admin, sessions, http, bySource, global, audit, reset, ended, now>>

\* The panel ends or crashes: its requests and the throttle are gone.
PanelStops ==
    /\ holder = "panel"
    /\ holder' = "none"
    /\ http' = [r \in Requests |-> NoRequest]
    /\ bySource' = <<>>
    /\ global' = <<>>
    /\ UNCHANGED <<admin, sessions, audit, reset, ended, now>>

\* ResetPassword reads the administrator in one transaction ...
ReadAdmin ==
    /\ holder = "cli"
    /\ reset = 0
    /\ admin.version < MaxVersion
    /\ reset' = admin.version
    /\ UNCHANGED <<admin, sessions, http, bySource, global, audit, holder, ended, now>>

\* Seeded fault: only the hash is replaced.
CommitReset_HashOnly ==
    /\ holder = "cli"
    /\ reset # 0
    /\ admin' = [admin EXCEPT !.pw = reset + 1]
    /\ reset' = 0
    /\ UNCHANGED <<sessions, http, bySource, global, audit, holder, ended, now>>

\* ... and commits the hash, the next version and every revocation in another.
CommitReset ==
    /\ holder = "cli"
    /\ reset # 0
    /\ admin' = [version |-> reset + 1, pw |-> admin.pw + 1]
    /\ sessions' = [t \in Tokens |-> Revoked(sessions[t], "reset")]
    /\ ended' = ended \cup {t \in Tokens : Issued(t)}
    /\ reset' = 0
    /\ UNCHANGED <<http, bySource, global, audit, holder, now>>

CliEnds ==
    /\ holder = "cli"
    /\ holder' = "none"
    /\ reset' = 0
    /\ UNCHANGED <<admin, sessions, http, bySource, global, audit, ended, now>>

Tick ==
    /\ now < MaxTime
    /\ now' = now + 1
    /\ UNCHANGED <<admin, sessions, http, bySource, global, audit, holder, reset, ended>>

----------------------------------------------------------------------------

Init ==
    /\ admin = [version |-> 1, pw |-> 1]    \* InitializeAdministrator
    /\ sessions = [t \in Tokens |-> NoRow]
    /\ http = [r \in Requests |-> NoRequest]
    /\ bySource = <<>>
    /\ global = <<>>
    /\ audit = [login |-> 0, logout |-> 0]
    /\ holder = "none"
    /\ reset = 0
    /\ ended = {}
    /\ now = 0

RequestStep(r) ==
    \/ \E t \in Tokens \cup {NoToken}, kind \in {"page", "logout", "login"} : Load(r, t, kind)
    \/ RequireAuth(r) \/ ServePage(r) \/ Finish(r)
    \/ CheckThrottle(r) \/ CompareFails(r) \/ RecordFailure(r) \/ CompareSucceeds(r)
    \/ \E t \in Tokens : Establish(r, t)
    \/ Logout(r)

Next ==
    \/ \E r \in Requests : RequestStep(r)
    \/ \E p \in {"panel", "cli"} : Start(p)
    \/ PanelStops \/ ReadAdmin \/ CommitReset \/ CliEnds
    \/ Tick

Spec == Init /\ [][Next]_vars

----------------------------------------------------------------------------
(* Properties.                                                             *)

\* What the next request with this token would be let in by.
Usable(t) == Found(t) /\ sessions[t].data = admin.version

\* The types of the variables.
SessionsTypeOK ==
    /\ admin \in [version: 1 .. MaxVersion, pw: 1 .. MaxVersion]
    /\ sessions \in [Tokens -> Row]
    /\ http \in [Requests -> Request]
    /\ bySource \in Seq(0 .. MaxTime)
    /\ global \in Seq(0 .. MaxTime)
    /\ audit \in [login: Nat, logout: Nat]
    /\ holder \in {"none", "panel", "cli"}
    /\ reset \in 0 .. MaxVersion
    /\ ended \subseteq Tokens
    /\ now \in 0 .. MaxTime

\* A session that was revoked, by a logout, by the login that replaced it or
\* by a password reset, is never usable again: not even when a request that
\* had loaded it before commits it afterwards (SessionStore.Commit).
RevokedForGood == \A t \in ended : ~Usable(t)

\* Every usable session was opened with the password the administrator has
\* now: after reset-password nothing that an earlier password opened, or was
\* opening when the panel stopped for it, lets anyone in.
CurrentPasswordOnly == \A t \in Tokens : Usable(t) => sessions[t].pw = admin.pw

\* However often requests refresh it, no session outlives the deadline its
\* login gave it (SessionStore.record against the sliding idle limit).
NeverPastDeadline == \A t \in Tokens : Usable(t) => now < sessions[t].deadline

\* The audit trail has one succeeded login per session ever opened and one
\* succeeded logout per session that was logged out, also when several
\* requests log out the same session (ErrSessionNotLive).
AuditTellsSessions ==
    /\ audit.login = Cardinality({t \in Tokens : sessions[t].state # "none"})
    /\ audit.logout = Cardinality({t \in Tokens : sessions[t].state = "logout"})

\* Requests that passed the throttle together can exceed its limit, by one
\* failure for each of them but the first, and never by more.
ThrottleHolds ==
    /\ Len(bySource) <= SourceLimit + Cardinality(Requests) - 1
    /\ Len(global) <= GlobalLimit + Cardinality(Requests) - 1
=============================================================================
