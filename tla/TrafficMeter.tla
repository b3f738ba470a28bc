---------------------------- MODULE TrafficMeter ----------------------------
(***************************************************************************)
(* How the traffic collector turns Xray's counters into lifetime totals.   *)
(*                                                                         *)
(* Xray counts bytes per user and direction since its own start; the panel *)
(* reads the absolute values one call at a time, compares each with the    *)
(* cursor it stored, and adds the difference, or the whole value when it   *)
(* believes that Xray was restarted.  It can tell a restart only from the  *)
(* start time it computes from a probe made before the reads.  Traffic,    *)
(* restarts and small corrections of the clock go on meanwhile.            *)
(*                                                                         *)
(* One second is the unit of time.  The continuity events, missing_since   *)
(* and last_success_at are diagnostics and are left out, as are the daily  *)
(* and the cycle sums, which take the same increments as the total, and    *)
(* the instance's health and capability generation.                        *)
(***************************************************************************)
EXTENDS Integers, Sequences, FiniteSets, Functions

CONSTANTS
    NUsers,        \* users 1 .. NUsers, in the order of their names
    BatchSize,     \* readBatchSize: users per ReadTraffic call
    Interval,      \* traffic_interval
    MaxInt64,      \* the largest value of an aggregate
    None,          \* SQL NULL, and a counter that Xray does not have
    ProbeMayFail,  \* GetSysStats may fail while the counters can be read
    RestartStages, \* in which stages of a round Xray may restart
    MinUptime,     \* Xray runs at least that long
    MaxProc, MaxTime, MaxTransfers, MaxSkew   \* bounds

Stages == {"idle", "probe", "read", "commit"}

ASSUME SizesAssumption == /\ NUsers \in Nat \ {0} /\ BatchSize \in Nat \ {0}
                          /\ Interval \in Nat \ {0} /\ MaxInt64 \in Nat
ASSUME BoundsAssumption == /\ MinUptime \in Nat /\ MaxProc \in Nat \ {0} /\ MaxTime \in Nat
                           /\ MaxTransfers \in Nat /\ MaxSkew \in Nat
ASSUME FaultsAssumption == ProbeMayFail \in BOOLEAN /\ RestartStages \subseteq Stages

Users      == 1 .. NUsers
Directions == {"uplink", "downlink"}

VARIABLES
    now,      \* the panel's clock
    proc,     \* Xray: which process this is, and
    boot,     \*   when it started, by the panel's clock
    uptime,   \*   the whole seconds it reports
    counter,  \*   user -> direction -> bytes
    skew,     \* how often the clock was set back
    sent,     \* transfers so far
    present,  \* users whose projection state is 'present'
    cursor,   \* traffic_cursors
    total,    \* allocation_traffic_totals
    round,    \* the collector's round
    ideal,    \* history: a meter that knows from which process a sample comes
    half      \* history: users of whom one direction alone was found

xray == <<proc, boot, uptime, counter, sent>>
rows == <<cursor, total>>
history == <<ideal, half>>
vars == <<now, xray, skew, present, rows, round, history>>

Bytes  == 0 .. MaxTransfers

Observation == [at: Int, uptime: Nat, epoch: Int, known: BOOLEAN]
ASSUME NoneAssumption == None \notin Int \cup Observation
Sample      == [bytes: Bytes \cup {None}, proc: 1 .. MaxProc]
Cursor      == [epoch: Int \cup {None}, at: Int \cup {None},
                bytes: [Directions -> Bytes \cup {None}]]

\* reads: the targets' counters in the order in which they are asked for.
Idle == [stage |-> "idle", targets |-> <<>>, reads |-> <<>>,
         first |-> None, previous |-> None, current |-> None]

----------------------------------------------------------------------------
(* The rules for one direction and one user.                               *)

\* Seeded fault: any shift of the start time is a restart.
RestartConfirmed_AnyShift(stored, obs) == obs.known /\ obs.epoch # stored

\* domain.RestartConfirmed
RestartConfirmed(stored, obs) ==
    obs.known /\ (obs.epoch - stored > Interval \/ stored - obs.epoch > Interval)

\* domain.ApplySample: what a reading adds, given the stored counter.  The
\* adapter has turned a value beyond int64 into an error.
Delta(stored, bytes, restart) ==
    CASE bytes = None                  -> 0
      [] bytes # None /\ stored = None -> bytes
      [] bytes # None /\ stored # None /\ restart -> bytes
      [] OTHER -> IF bytes < stored THEN 0 ELSE bytes - stored

\* Seeded fault: the sum is not checked.
Fitting_Unchecked(sum, delta) == delta

\* domain.AddDelta: an increment that does not fit is dropped.  The sums of
\* the cycle are checked too, but are never larger than the total.
Fitting(sum, delta) == IF sum + delta > MaxInt64 THEN 0 ELSE delta

\* TrafficService.buildUpdate
Late(c, at) == c.at # None /\ at < c.at

Restarted(c, obs) == c.epoch # None /\ RestartConfirmed(c.epoch, obs)

\* Seeded fault: the start time is stored although no counter was found.
NewCursor_EpochAlways(c, sample, obs, at) ==
    [epoch |-> IF obs.known THEN obs.epoch ELSE c.epoch,
     at    |-> at,
     bytes |-> [d \in Directions |->
                  IF sample[d].bytes = None THEN c.bytes[d] ELSE sample[d].bytes]]

NewCursor(c, sample, obs, at) ==
    [epoch |-> IF obs.known /\ \E d \in Directions : sample[d].bytes # None
               THEN obs.epoch ELSE c.epoch,
     at    |-> at,
     bytes |-> [d \in Directions |->
                  IF sample[d].bytes = None THEN c.bytes[d] ELSE sample[d].bytes]]

----------------------------------------------------------------------------
(* Xray and the clock.                                                     *)

NoCounters == [u \in Users |-> [d \in Directions |-> None]]

\* Xray creates both counters of a user with the first connection.
Transfer(u, d) ==
    /\ sent < MaxTransfers /\ counter[u][d] # MaxInt64
    /\ sent' = sent + 1
    /\ LET old(e) == IF counter[u][e] = None THEN 0 ELSE counter[u][e]
       IN  counter' = [counter EXCEPT ![u] =
                         [e \in Directions |-> IF e = d THEN old(e) + 1 ELSE old(e)]]
    /\ UNCHANGED <<now, proc, boot, uptime, skew, present, rows, round, history>>

Restart ==
    /\ round.stage \in RestartStages
    /\ proc < MaxProc /\ uptime >= MinUptime
    /\ proc' = proc + 1 /\ boot' = now /\ uptime' = 0 /\ counter' = NoCounters
    /\ UNCHANGED <<now, sent, skew, present, rows, round, history>>

\* A second of the clock and a second of uptime begin in turn: of an unbroken
\* process, clock minus uptime is boot or boot + 1.
Tick ==
    /\ \/ now - uptime = boot /\ now < MaxTime /\ now' = now + 1 /\ uptime' = uptime
       \/ now - uptime > boot /\ uptime' = uptime + 1 /\ now' = now
    /\ UNCHANGED <<proc, boot, counter, sent, skew, present, rows, round, history>>

ClockBack ==
    /\ skew < MaxSkew
    /\ skew' = skew + 1 /\ now' = now - 1 /\ boot' = boot - 1
    /\ UNCHANGED <<proc, uptime, counter, sent, present, rows, round, history>>

\* Synchronization moves users into and out of 'present' at any time.
Project(u) ==
    /\ present' = IF u \in present THEN present \ {u} ELSE present \cup {u}
    /\ UNCHANGED <<now, xray, skew, rows, round, history>>

----------------------------------------------------------------------------
(* The collector.                                                          *)

\* CollectOnce reads its targets.  Without any it only probes.  The cursors
\* and totals it loads with them have no other writer, so that they are the
\* rows until the commit.
BeginRound ==
    /\ round.stage = "idle" /\ present # {}
    /\ \E ts \in [1 .. Cardinality(present) -> present] :
         /\ \A i, j \in DOMAIN ts : i < j => ts[i] < ts[j]
         /\ round' = [Idle EXCEPT !.stage = "probe", !.targets = ts]
    /\ UNCHANGED <<now, xray, skew, present, rows, history>>

\* Client.Probe, and what ReadTraffic makes of its failure.
Probe ==
    /\ round.stage = "probe"
    /\ \E known \in {TRUE} \cup {~ProbeMayFail} :
         round' = [round EXCEPT !.stage = "read",
                     !.current = [at |-> now, known |-> known,
                                  uptime |-> IF known THEN uptime ELSE 0,
                                  epoch |-> IF known THEN now - uptime ELSE 0]]
    /\ UNCHANGED <<now, xray, skew, present, rows, history>>

\* Seeded fault: batches are merged whatever their observations say.
Mismatch_Never(first, previous, current) == FALSE

\* observationMismatch, bootEpochQuantization
Mismatch(first, previous, current) ==
    \/ first.known # current.known
    \/ first.known /\ \/ current.epoch - first.epoch > 1
                      \/ first.epoch - current.epoch > 1
                      \/ current.uptime < previous.uptime
    \/ current.at < previous.at

\* The last call of a batch ends it: the round goes on, ends, or is dropped.
BatchDone(n) == n % (2 * BatchSize) = 0
RoundDone(n) == n = 2 * Len(round.targets)

EndBatch(r) ==
    IF r.first # None /\ Mismatch(r.first, r.previous, r.current)
    THEN Idle
    ELSE [r EXCEPT !.first = IF @ = None THEN r.current ELSE @,
                   !.previous = r.current, !.current = None,
                   !.stage = IF RoundDone(Len(r.reads)) THEN "commit" ELSE "probe"]

\* One GetStats call: uplink and downlink of each target in turn.
ReadCounter ==
    /\ round.stage = "read"
    /\ LET n == Len(round.reads)
           u == round.targets[n \div 2 + 1]
           d == IF n % 2 = 0 THEN "uplink" ELSE "downlink"
           r == [round EXCEPT !.reads = Append(@, [bytes |-> counter[u][d], proc |-> proc])]
       IN  round' = IF BatchDone(n + 1) \/ RoundDone(n + 1) THEN EndBatch(r) ELSE r
    /\ UNCHANGED <<now, xray, skew, present, rows, history>>

\* A call or the transaction fails, or the panel stops: nothing is written.
DropRound ==
    /\ round.stage # "idle"
    /\ round' = Idle
    /\ UNCHANGED <<now, xray, skew, present, rows, history>>

\* The meter that knows the process adds what that process counted since its
\* last sample.
Ideal(m, s) ==
    IF s.bytes = None THEN m
    ELSE [proc |-> s.proc, bytes |-> s.bytes,
          sum  |-> m.sum + IF s.proc = m.proc THEN s.bytes - m.bytes ELSE s.bytes]

SampleOf(i) == [uplink |-> round.reads[2*i - 1], downlink |-> round.reads[2*i]]

\* Store.CommitTrafficBatch for the users whose sample is not late.
Commit ==
    /\ round.stage = "commit"
    /\ LET at   == round.previous.at     \* of the last batch
           obs  == round.first
           pos  == [u \in Range(round.targets) |->
                      CHOOSE i \in DOMAIN round.targets : round.targets[i] = u]
           upd  == {u \in Range(round.targets) : ~Late(cursor[u], at)}
           s    == [u \in upd |-> SampleOf(pos[u])]
       IN  /\ total' = [u \in Users |-> IF u \notin upd THEN total[u] ELSE
                 [d \in Directions |-> total[u][d] +
                    Fitting(total[u][d], Delta(cursor[u].bytes[d], s[u][d].bytes,
                                               Restarted(cursor[u], obs)))]]
           /\ cursor' = [u \in Users |-> IF u \notin upd THEN cursor[u]
                                         ELSE NewCursor(cursor[u], s[u], obs, at)]
           /\ ideal' = [u \in Users |-> IF u \notin upd THEN ideal[u] ELSE
                 [d \in Directions |-> Ideal(ideal[u][d], s[u][d])]]
           /\ half' = half \cup {u \in upd : (s[u]["uplink"].bytes = None)
                                             # (s[u]["downlink"].bytes = None)}
    /\ round' = Idle
    /\ UNCHANGED <<now, xray, skew, present>>

----------------------------------------------------------------------------

Init ==
    /\ now = 0 /\ proc = 1 /\ boot = 0 /\ uptime = 0 /\ counter = NoCounters
    /\ skew = 0 /\ sent = 0 /\ present = {}
    /\ cursor = [u \in Users |-> [epoch |-> None, at |-> None,
                                  bytes |-> [d \in Directions |-> None]]]
    /\ total = [u \in Users |-> [d \in Directions |-> 0]]
    /\ round = Idle
    /\ ideal = [u \in Users |-> [d \in Directions |-> [proc |-> 1, bytes |-> 0, sum |-> 0]]]
    /\ half = {}

Next ==
    \/ \E u \in Users, d \in Directions : Transfer(u, d)
    \/ \E u \in Users : Project(u)
    \/ Restart \/ Tick \/ ClockBack
    \/ BeginRound \/ Probe \/ ReadCounter \/ DropRound \/ Commit

Spec == Init /\ [][Next]_vars

----------------------------------------------------------------------------
(* Properties.                                                             *)

\* Types; totals never leave the range of their column (domain.AddDelta), and
\* a round never asks for a counter beyond its targets (readAll).
MeterTypeOK ==
    /\ total \in [Users -> [Directions -> 0 .. MaxInt64]]
    /\ cursor \in [Users -> Cursor]
    /\ counter \in [Users -> [Directions -> Bytes \cup {None}]]
    /\ uptime \in Nat /\ now \in Int /\ now - uptime \in {boot, boot + 1}
    /\ present \subseteq Users /\ half \subseteq Users
    /\ round.stage \in Stages
    /\ round.reads \in Seq(Sample) /\ Len(round.reads) <= 2 * Len(round.targets)

\* No byte is counted twice: a total never exceeds what a meter that knows the
\* process behind every committed sample would have counted
\* (ApplySample, RestartConfirmed, observationMismatch).
NeverTwice ==
    \A u \in Users, d \in Directions : total[u][d] <= ideal[u][d].sum

\* No sampled byte is lost, restarts included, while both directions of a
\* user come and go together (buildUpdate keeps the old start time as long as
\* no counter is found).
NothingLost ==
    \A u \in Users \ half, d \in Directions : total[u][d] >= ideal[u][d].sum

\* The same without the exception: a counter that reappears after a restart is
\* counted from zero (the comment on newCursor.BootEpoch in buildUpdate).
ReappearedCounted ==
    \A u \in Users, d \in Directions : total[u][d] >= ideal[u][d].sum
=============================================================================
