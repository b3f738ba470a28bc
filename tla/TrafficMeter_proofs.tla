------------------------ MODULE TrafficMeter_proofs ------------------------
(***************************************************************************)
(* TrafficMeter: sums stay in range, no byte is counted twice and, while   *)
(* restarts are far enough apart to be told, none is lost.  The state of a *)
(* round is accounted for read by read: which process the read is of, and  *)
(* what the round's first observation then says about the stored cursor.   *)
(***************************************************************************)
EXTENDS TrafficMeter, FiniteSetTheorems, TLAPS

----------------------------------------------------------------------------
(* Types.                                                                  *)

Round == [stage: Stages, targets: Seq(Users), reads: Seq(Sample),
          first: Observation \cup {None}, previous: Observation \cup {None},
          current: Observation \cup {None}]

Meters == [proc: 1 .. MaxProc, bytes: Bytes, sum: Int]

RoundSound ==
    /\ round \in Round
    /\ Len(round.targets) <= NUsers /\ Len(round.reads) <= 2 * Len(round.targets)
    /\ round.stage \in {"probe", "read"} => Len(round.reads) < 2 * Len(round.targets)
    /\ round.stage = "read" => round.current # None
    /\ round.stage = "commit" => Len(round.reads) = 2 * Len(round.targets) /\ round.first # None
    /\ round.first # None => round.previous # None

\* Xray cannot have counted more than was sent.
XraySound ==
    /\ proc \in 1 .. MaxProc /\ boot \in Int /\ skew \in 0 .. MaxSkew /\ sent \in 0 .. MaxTransfers
    /\ \A u \in Users, d \in Directions : counter[u][d] # None => counter[u][d] <= sent

MeterSound == /\ MeterTypeOK /\ RoundSound /\ XraySound
              /\ ideal \in [Users -> [Directions -> Meters]]

\* Which counter the i-th read is of.
UserAt(i) == round.targets[(i + 1) \div 2]
DirAt(i)  == IF i % 2 = 1 THEN "uplink" ELSE "downlink"

NextRead == LET n == Len(round.reads) + 1
            IN  [bytes |-> counter[UserAt(n)][DirAt(n)], proc |-> proc]

WithRead == [round EXCEPT !.reads = Append(@, NextRead)]

LEMMA Constants ==
  /\ NUsers \in Nat \ {0} /\ BatchSize \in Nat \ {0} /\ Interval \in Nat \ {0} /\ MaxInt64 \in Nat
  /\ MinUptime \in Nat /\ MaxProc \in Nat \ {0} /\ MaxTime \in Nat /\ MaxTransfers \in Nat
  /\ MaxSkew \in Nat /\ None \notin Int /\ None \notin Observation /\ None \notin Bytes
  BY SizesAssumption, BoundsAssumption, NoneAssumption DEF Bytes

LEMMA IdleSound == Idle \in Round /\ Len(Idle.targets) = 0 /\ Len(Idle.reads) = 0
  BY DEF Idle, Round, Stages

LEMMA Halves ==
  ASSUME NEW n \in Nat
  PROVE  (n + 1 + 1) \div 2 = n \div 2 + 1 /\ ((n + 1) % 2 = 1 <=> n % 2 = 0)
  OBVIOUS

LEMMA HalfBound == ASSUME NEW n \in Nat, NEW m \in Nat, n < 2 * m PROVE n \div 2 + 1 \in 1 .. m
  OBVIOUS

LEMMA SeqElement == ASSUME NEW S, NEW s \in Seq(S), NEW j \in 1 .. Len(s) PROVE s[j] \in S
  OBVIOUS

\* What ReadCounter makes of the round: it goes on in the batch, is dropped,
\* or ends the batch.
LEMMA ReadOutcome ==
  ASSUME MeterSound, ReadCounter
  PROVE  /\ round.stage = "read" /\ NextRead \in Sample
         /\ WithRead.reads \in Seq(Sample) /\ Len(WithRead.reads) = Len(round.reads) + 1
         /\ \/ round' = WithRead /\ ~BatchDone(Len(round.reads) + 1) /\ ~RoundDone(Len(round.reads) + 1)
            \/ round' = EndBatch(WithRead) /\ (BatchDone(Len(round.reads) + 1) \/ RoundDone(Len(round.reads) + 1))
  <1> DEFINE n == Len(round.reads)
  <1>1. round \in Round /\ round.stage = "read" /\ n \in Nat /\ n < 2 * Len(round.targets)
        /\ Len(round.targets) \in Nat
    BY DEF MeterSound, RoundSound, ReadCounter, Round
  <1>2. (n + 1 + 1) \div 2 = n \div 2 + 1 /\ n \div 2 + 1 \in 1 .. Len(round.targets)
        /\ ((n + 1) % 2 = 1 <=> n % 2 = 0)
    <2> HIDE DEF n
    <2> QED BY <1>1, Halves, HalfBound
  <1>3. UserAt(n + 1) = round.targets[n \div 2 + 1] /\ UserAt(n + 1) \in Users
    <2>1. UserAt(n + 1) = round.targets[n \div 2 + 1]
      BY <1>2 DEF UserAt
    <2>2. round.targets \in Seq(Users)
      BY <1>1 DEF Round
    <2> QED BY <1>2, <2>1, <2>2, SeqElement
  <1>4. DirAt(n + 1) = (IF n % 2 = 0 THEN "uplink" ELSE "downlink") /\ DirAt(n + 1) \in Directions
    BY <1>2 DEF DirAt, Directions
  <1>5. NextRead \in Sample
    <2> DEFINE u == UserAt(n + 1)
               d == DirAt(n + 1)
    <2>1. NextRead = [bytes |-> counter[u][d], proc |-> proc]
      BY DEF NextRead
    <2> HIDE DEF u, d
    <2>2. u \in Users /\ d \in Directions
      BY <1>3, <1>4 DEF u, d
    <2>3. counter[u][d] \in Bytes \cup {None} /\ proc \in 1 .. MaxProc
      BY <2>2 DEF MeterSound, MeterTypeOK, XraySound
    <2> QED BY <2>1, <2>3 DEF Sample
  <1>6. WithRead.reads = Append(round.reads, NextRead)
    BY <1>1 DEF WithRead, Round
  <1>7. round' = IF BatchDone(n + 1) \/ RoundDone(n + 1) THEN EndBatch(WithRead) ELSE WithRead
    BY <1>3, <1>4 DEF ReadCounter, WithRead, NextRead
  <1> QED BY <1>1, <1>5, <1>6, <1>7 DEF Round

LEMMA EndBatchRound ==
  ASSUME MeterSound, round.stage = "read",
         NEW x \in Sample, NEW r, r = [round EXCEPT !.reads = Append(@, x)]
  PROVE  \/ EndBatch(r) = Idle
         \/ /\ ~(round.first # None /\ Mismatch(round.first, round.previous, round.current))
            /\ EndBatch(r) =
                 [stage |-> IF RoundDone(Len(round.reads) + 1) THEN "commit" ELSE "probe",
                  targets |-> round.targets, reads |-> Append(round.reads, x),
                  first |-> IF round.first = None THEN round.current ELSE round.first,
                  previous |-> round.current, current |-> None]
  <1>1. round \in Round
    BY DEF MeterSound, RoundSound
  <1>2. /\ r.first = round.first /\ r.previous = round.previous /\ r.current = round.current
        /\ r.reads = Append(round.reads, x) /\ r.targets = round.targets
        /\ r = [stage |-> round.stage, targets |-> round.targets, reads |-> Append(round.reads, x),
                first |-> round.first, previous |-> round.previous, current |-> round.current]
    BY <1>1 DEF Round
  <1>3. Len(Append(round.reads, x)) = Len(round.reads) + 1
    BY <1>1 DEF Round
  <1> QED BY <1>2, <1>3 DEF EndBatch

----------------------------------------------------------------------------
(* What a commit writes.                                                   *)

Pos(u)    == CHOOSE i \in DOMAIN round.targets : round.targets[i] = u
Updated   == {u \in Range(round.targets) : ~Late(cursor[u], round.previous.at)}
ReadOf(u, d) == IF d = "uplink" THEN 2 * Pos(u) - 1 ELSE 2 * Pos(u)
Got(u, d) == round.reads[ReadOf(u, d)]
Gain(u, d) == Delta(cursor[u].bytes[d], Got(u, d).bytes, Restarted(cursor[u], round.first))

LEMMA Doubles ==
  ASSUME NEW i \in Nat, i > 0
  PROVE  /\ (2 * i - 1 + 1) \div 2 = i /\ (2 * i + 1) \div 2 = i
         /\ (2 * i) % 2 = 0 /\ (2 * i - 1) % 2 = 1
  OBVIOUS

LEMMA ReadOfFacts ==
  ASSUME MeterSound, round.stage = "commit", NEW u \in Updated, NEW d \in Directions
  PROVE  /\ u \in Users /\ ReadOf(u, d) \in 1 .. Len(round.reads)
         /\ UserAt(ReadOf(u, d)) = u /\ DirAt(ReadOf(u, d)) = d /\ Got(u, d) \in Sample
  <1>1. /\ round.targets \in Seq(Users) /\ round.reads \in Seq(Sample)
        /\ Len(round.reads) = 2 * Len(round.targets) /\ Len(round.targets) \in Nat
        /\ DOMAIN round.targets = 1 .. Len(round.targets)
    BY DEF MeterSound, RoundSound, Round
  <1>2. \E i \in DOMAIN round.targets : round.targets[i] = u
    BY DEF Updated, Range
  <1>3. Pos(u) \in DOMAIN round.targets /\ round.targets[Pos(u)] = u
    BY <1>2 DEF Pos
  <1>4. u \in Users
    BY <1>1, <1>3, SeqElement
  <1> DEFINE p == Pos(u)
  <1>5. p \in Nat /\ p > 0 /\ p <= Len(round.targets)
    BY <1>1, <1>3
  <1> HIDE DEF p
  <1>6. CASE d = "uplink"
    <2>1. ReadOf(u, d) = 2 * p - 1
      BY <1>6 DEF ReadOf, p
    <2>2. (2 * p - 1 + 1) \div 2 = p /\ (2 * p - 1) % 2 = 1
      BY <1>5, Doubles
    <2>3. ReadOf(u, d) \in 1 .. Len(round.reads)
      BY <1>1, <1>5, <2>1
    <2>4. UserAt(ReadOf(u, d)) = u /\ DirAt(ReadOf(u, d)) = d
      BY <1>3, <1>6, <2>1, <2>2 DEF UserAt, DirAt, p
    <2> QED BY <1>1, <1>4, <2>3, <2>4, SeqElement DEF Got
  <1>7. CASE d = "downlink"
    <2>1. ReadOf(u, d) = 2 * p
      BY <1>7 DEF ReadOf, p
    <2>2. (2 * p + 1) \div 2 = p /\ (2 * p) % 2 = 0
      BY <1>5, Doubles
    <2>3. ReadOf(u, d) \in 1 .. Len(round.reads)
      BY <1>1, <1>5, <2>1
    <2>4. UserAt(ReadOf(u, d)) = u /\ DirAt(ReadOf(u, d)) = d
      BY <1>3, <1>7, <2>1, <2>2 DEF UserAt, DirAt, p
    <2> QED BY <1>1, <1>4, <2>3, <2>4, SeqElement DEF Got
  <1> QED BY <1>6, <1>7 DEF Directions

LEMMA CommitShape ==
  ASSUME MeterSound, Commit
  PROVE  /\ round.stage = "commit" /\ round' = Idle /\ UNCHANGED <<now, xray, skew, present>>
         /\ total' = [u \in Users |-> IF u \notin Updated THEN total[u] ELSE
                [d \in Directions |-> total[u][d] + Fitting(total[u][d], Gain(u, d))]]
         /\ cursor' = [u \in Users |-> IF u \notin Updated THEN cursor[u] ELSE
                NewCursor(cursor[u], [d \in Directions |-> Got(u, d)], round.first, round.previous.at)]
         /\ ideal' = [u \in Users |-> IF u \notin Updated THEN ideal[u] ELSE
                [d \in Directions |-> Ideal(ideal[u][d], Got(u, d))]]
         /\ half' = half \cup {u \in Updated : (Got(u, "uplink").bytes = None)
                                                # (Got(u, "downlink").bytes = None)}
  <1> DEFINE pos == [u \in Range(round.targets) |->
                      CHOOSE i \in DOMAIN round.targets : round.targets[i] = u]
             s == [u \in Updated |-> SampleOf(pos[u])]
  <1>1. ASSUME NEW u \in Updated
        PROVE  s[u] = [d \in Directions |-> Got(u, d)]
    <2>1. s[u] = SampleOf(Pos(u))
      BY DEF Pos, Updated
    <2>2. SampleOf(Pos(u)) = [d \in Directions |-> IF d = "uplink" THEN round.reads[2 * Pos(u) - 1]
                                                   ELSE round.reads[2 * Pos(u)]]
      BY DEF SampleOf, Directions
    <2> QED BY <2>1, <2>2 DEF Got, ReadOf
  <1>2. \A u \in Updated, d \in Directions : s[u][d] = Got(u, d)
    <2> HIDE DEF s
    <2> QED BY <1>1
  <1>3. "uplink" \in Directions /\ "downlink" \in Directions
    BY DEF Directions
  <1>4. /\ total' = [u \in Users |-> IF u \notin Updated THEN total[u] ELSE
              [d \in Directions |-> total[u][d] +
                 Fitting(total[u][d], Delta(cursor[u].bytes[d], s[u][d].bytes,
                                            Restarted(cursor[u], round.first)))]]
        /\ cursor' = [u \in Users |-> IF u \notin Updated THEN cursor[u]
                                      ELSE NewCursor(cursor[u], s[u], round.first, round.previous.at)]
        /\ ideal' = [u \in Users |-> IF u \notin Updated THEN ideal[u] ELSE
              [d \in Directions |-> Ideal(ideal[u][d], s[u][d])]]
        /\ half' = half \cup {u \in Updated : (s[u]["uplink"].bytes = None)
                                               # (s[u]["downlink"].bytes = None)}
    BY DEF Commit, Updated
  <1> HIDE DEF s
  <1>5. total' = [u \in Users |-> IF u \notin Updated THEN total[u] ELSE
                    [d \in Directions |-> total[u][d] + Fitting(total[u][d], Gain(u, d))]]
    BY <1>2, <1>4 DEF Gain
  <1>6. cursor' = [u \in Users |-> IF u \notin Updated THEN cursor[u] ELSE
                NewCursor(cursor[u], [d \in Directions |-> Got(u, d)], round.first, round.previous.at)]
    BY <1>1, <1>4
  <1>7. ideal' = [u \in Users |-> IF u \notin Updated THEN ideal[u] ELSE
                [d \in Directions |-> Ideal(ideal[u][d], Got(u, d))]]
    BY <1>2, <1>4
  <1>8. half' = half \cup {u \in Updated : (Got(u, "uplink").bytes = None)
                                          # (Got(u, "downlink").bytes = None)}
    BY <1>2, <1>3, <1>4
  <1> QED BY <1>5, <1>6, <1>7, <1>8 DEF Commit

----------------------------------------------------------------------------
(* Type correctness.                                                       *)

LEMMA InitSound == Init => MeterSound
  <1> SUFFICES ASSUME Init PROVE MeterSound
    OBVIOUS
  <1>1. round \in Round /\ round.stage = "idle" /\ round.first = None
        /\ Len(round.targets) = 0 /\ Len(round.reads) = 0 /\ round.reads \in Seq(Sample)
    BY IdleSound DEF Init, Idle, Round
  <1>2. RoundSound
    BY <1>1, Constants DEF RoundSound
  <1>3. XraySound
    BY Constants DEF Init, XraySound, NoCounters
  <1>4. ideal \in [Users -> [Directions -> Meters]]
    BY Constants DEF Init, Meters, Bytes
  <1>5. cursor \in [Users -> Cursor]
    BY DEF Init, Cursor
  <1>6. total \in [Users -> [Directions -> 0 .. MaxInt64]]
    BY Constants DEF Init
  <1>7. counter \in [Users -> [Directions -> Bytes \cup {None}]]
    BY DEF Init, NoCounters
  <1>8. MeterTypeOK
    BY <1>1, <1>5, <1>6, <1>7 DEF Init, MeterTypeOK, Stages
  <1> QED BY <1>2, <1>3, <1>4, <1>8 DEF MeterSound

\* Steps of Xray and of the clock.
LEMMA TypesKept ==
  ASSUME MeterSound, UNCHANGED <<cursor, total, round, ideal, half>>,
         counter' \in [Users -> [Directions -> Bytes \cup {None}]],
         uptime' \in Nat, now' \in Int, boot' \in Int, now' - uptime' \in {boot', boot' + 1},
         present' \subseteq Users,
         proc' \in 1 .. MaxProc, skew' \in 0 .. MaxSkew, sent' \in 0 .. MaxTransfers,
         \A u \in Users, d \in Directions : counter'[u][d] # None => counter'[u][d] <= sent'
  PROVE  MeterSound'
  <1>1. RoundSound'
    BY DEF MeterSound, RoundSound
  <1>2. XraySound'
    BY DEF XraySound
  <1>3. MeterTypeOK'
    BY DEF MeterSound, MeterTypeOK
  <1> QED BY <1>1, <1>2, <1>3 DEF MeterSound

\* Steps of a round before it commits.
LEMMA TypesOfRound ==
  ASSUME MeterSound, UNCHANGED <<now, xray, skew, present, rows, history>>, RoundSound'
  PROVE  MeterSound'
  <1>1. XraySound'
    BY DEF MeterSound, XraySound, xray
  <1>2. /\ round'.reads \in Seq(Sample) /\ round'.stage \in Stages
        /\ Len(round'.reads) \in Nat /\ Len(round'.targets) \in Nat
        /\ Len(round'.reads) <= 2 * Len(round'.targets)
    <2>1. round'.stage \in Stages /\ round'.reads \in Seq(Sample) /\ round'.targets \in Seq(Users)
      BY DEF RoundSound, Round
    <2>2. Len(round'.reads) \in Nat /\ Len(round'.targets) \in Nat
      BY <2>1
    <2> QED BY <2>1, <2>2 DEF RoundSound, Stages
  <1>3. MeterTypeOK'
    BY <1>2 DEF MeterSound, MeterTypeOK, rows, xray, history
  <1> QED BY <1>1, <1>3 DEF MeterSound, history

LEMMA TransferTypes ==
  ASSUME MeterSound, NEW u \in Users, NEW d \in Directions, Transfer(u, d)
  PROVE  MeterSound'
  <1> DEFINE old(e) == IF counter[u][e] = None THEN 0 ELSE counter[u][e]
             row == [e \in Directions |-> IF e = d THEN old(e) + 1 ELSE old(e)]
  <1>1. /\ counter' = [counter EXCEPT ![u] = row] /\ sent' = sent + 1 /\ sent < MaxTransfers
        /\ UNCHANGED <<now, proc, boot, uptime, skew, present, rows, round, history>>
    BY DEF Transfer
  <1>2. /\ counter \in [Users -> [Directions -> Bytes \cup {None}]] /\ sent \in 0 .. MaxTransfers
        /\ \A v \in Users, e \in Directions : counter[v][e] # None => counter[v][e] <= sent
    BY DEF MeterSound, MeterTypeOK, XraySound
  <1>3. row \in [Directions -> Bytes \cup {None}]
        /\ \A e \in Directions : row[e] # None => row[e] \in Int /\ row[e] <= sent + 1
    <2>1. ASSUME NEW e \in Directions PROVE old(e) \in Nat /\ old(e) <= sent
      BY <1>2 DEF Bytes
    <2> HIDE DEF old
    <2>2. \A e \in Directions : row[e] \in Nat /\ row[e] <= sent + 1
      BY <1>2, <2>1, Constants
    <2>3. \A e \in Directions : row[e] \in Bytes
      BY <1>1, <1>2, <2>2, Constants DEF Bytes
    <2> QED BY <2>2, <2>3
  <1> HIDE DEF row
  <1>4. counter' \in [Users -> [Directions -> Bytes \cup {None}]]
    BY <1>1, <1>2, <1>3
  <1>5. \A v \in Users, e \in Directions : counter'[v][e] # None => counter'[v][e] <= sent'
    <2>1. ASSUME NEW v \in Users, NEW e \in Directions, counter'[v][e] # None
          PROVE  counter'[v][e] <= sent'
      <3>1. CASE v = u
        BY <1>1, <1>2, <1>3, <2>1, <3>1
      <3>2. CASE v # u
        <4>1. counter'[v][e] = counter[v][e]
          BY <1>1, <1>2, <3>2
        <4>2. counter[v][e] \in Int /\ counter[v][e] <= sent
          BY <1>2, <2>1, <4>1 DEF Bytes
        <4> QED BY <1>1, <1>2, <4>1, <4>2, Constants
      <3> QED BY <3>1, <3>2
    <2> QED BY <2>1
  <1>6. sent' \in 0 .. MaxTransfers
    BY <1>1, <1>2, Constants
  <1>7. UNCHANGED <<cursor, total, round, ideal, half>>
    BY <1>1 DEF rows, history
  <1>8. /\ uptime' \in Nat /\ now' \in Int /\ boot' \in Int /\ now' - uptime' \in {boot', boot' + 1}
        /\ present' \subseteq Users /\ proc' \in 1 .. MaxProc /\ skew' \in 0 .. MaxSkew
    BY <1>1 DEF MeterSound, MeterTypeOK, XraySound
  <1> QED BY <1>4, <1>5, <1>6, <1>7, <1>8, TypesKept

LEMMA RestartTypes ==
  ASSUME MeterSound, Restart
  PROVE  MeterSound'
  <1>1. counter' \in [Users -> [Directions -> Bytes \cup {None}]]
        /\ \A u \in Users, d \in Directions : counter'[u][d] = None
    BY DEF Restart, NoCounters
  <1>2. proc' \in 1 .. MaxProc
    BY Constants DEF MeterSound, XraySound, Restart
  <1>3. /\ uptime' \in Nat /\ now' \in Int /\ boot' \in Int /\ now' - uptime' \in {boot', boot' + 1}
        /\ present' \subseteq Users /\ skew' \in 0 .. MaxSkew /\ sent' \in 0 .. MaxTransfers
    BY DEF MeterSound, MeterTypeOK, XraySound, Restart
  <1>4. UNCHANGED <<cursor, total, round, ideal, half>>
    BY DEF Restart, rows, history
  <1> QED BY <1>1, <1>2, <1>3, <1>4, TypesKept

LEMMA ClockTypes ==
  ASSUME MeterSound, Tick \/ ClockBack \/ \E u \in Users : Project(u)
  PROVE  MeterSound'
  <1>1. UNCHANGED <<cursor, total, round, ideal, half, counter, proc, sent>>
    BY DEF Tick, ClockBack, Project, rows, history, xray
  <1>2. /\ counter' \in [Users -> [Directions -> Bytes \cup {None}]]
        /\ proc' \in 1 .. MaxProc /\ sent' \in 0 .. MaxTransfers
        /\ \A u \in Users, d \in Directions : counter'[u][d] # None => counter'[u][d] <= sent'
    BY <1>1 DEF MeterSound, MeterTypeOK, XraySound
  <1>3. /\ uptime \in Nat /\ now \in Int /\ boot \in Int /\ now - uptime \in {boot, boot + 1}
        /\ skew \in 0 .. MaxSkew /\ present \subseteq Users
    BY DEF MeterSound, MeterTypeOK, XraySound
  <1>4. /\ uptime' \in Nat /\ now' \in Int /\ boot' \in Int /\ now' - uptime' \in {boot', boot' + 1}
        /\ skew' \in 0 .. MaxSkew /\ present' \subseteq Users
    <2>1. CASE Tick
      BY <1>3, <2>1 DEF Tick
    <2>2. CASE ClockBack
      BY <1>3, <2>2, Constants DEF ClockBack
    <2>3. CASE \E u \in Users : Project(u)
      BY <1>3, <2>3 DEF Project, xray
    <2> QED BY <2>1, <2>2, <2>3
  <1> QED BY <1>1, <1>2, <1>4, TypesKept

LEMMA RoundTypes ==
  ASSUME MeterSound, BeginRound \/ Probe \/ ReadCounter \/ DropRound
  PROVE  MeterSound'
  <1>1. UNCHANGED <<now, xray, skew, present, rows, history>>
    BY DEF BeginRound, Probe, ReadCounter, DropRound
  <1> SUFFICES RoundSound'
    BY <1>1, TypesOfRound
  <1>2. RoundSound
    BY DEF MeterSound
  <1>3. ASSUME round' = Idle PROVE RoundSound'
    BY <1>3, IdleSound, Constants DEF RoundSound, Idle
  <1>4. CASE BeginRound
    <2>1. PICK ts \in [1 .. Cardinality(present) -> present] :
             round' = [Idle EXCEPT !.stage = "probe", !.targets = ts]
      BY <1>4 DEF BeginRound
    <2>2. IsFiniteSet(Users) /\ Cardinality(Users) = NUsers /\ present \in SUBSET Users /\ present # {}
      <3>1. IsFiniteSet(1 .. NUsers) /\ Cardinality(1 .. NUsers) = NUsers
        BY Constants, FS_Interval
      <3>2. present \subseteq Users
        BY DEF MeterSound, MeterTypeOK
      <3> QED BY <1>4, <3>1, <3>2 DEF Users, BeginRound
    <2>3. IsFiniteSet(present) /\ Cardinality(present) <= NUsers
      BY <2>2, FS_Subset
    <2>4. Cardinality(present) \in Nat /\ Cardinality(present) # 0
      BY <2>2, <2>3, FS_CardinalityType, FS_EmptySet
    <2>5. ts \in Seq(Users) /\ Len(ts) = Cardinality(present)
      BY <2>2, <2>4
    <2>6. round' = [stage |-> "probe", targets |-> ts, reads |-> <<>>,
                    first |-> None, previous |-> None, current |-> None]
      BY <2>1 DEF Idle
    <2> QED BY <2>3, <2>4, <2>5, <2>6, Constants DEF RoundSound, Round, Stages
  <1>5. CASE Probe
    <2>1. round \in Round /\ Len(round.reads) < 2 * Len(round.targets)
      BY <1>2, <1>5 DEF RoundSound, Probe
    <2>2. PICK known \in BOOLEAN :
             round' = [round EXCEPT !.stage = "read",
                         !.current = [at |-> now, known |-> known,
                                      uptime |-> IF known THEN uptime ELSE 0,
                                      epoch |-> IF known THEN now - uptime ELSE 0]]
      BY <1>5, FaultsAssumption DEF Probe
    <2> DEFINE obs == [at |-> now, known |-> known, uptime |-> IF known THEN uptime ELSE 0,
                       epoch |-> IF known THEN now - uptime ELSE 0]
    <2>3. obs \in Observation
      BY DEF Observation, MeterSound, MeterTypeOK
    <2>4. round' = [round EXCEPT !.stage = "read", !.current = obs]
      BY <2>2
    <2> HIDE DEF obs
    <2> QED BY <1>2, <2>1, <2>3, <2>4, Constants DEF RoundSound, Round, Stages
  <1>6. CASE ReadCounter
    <2> DEFINE n == Len(round.reads)
    <2>1. /\ round \in Round /\ n \in Nat /\ n < 2 * Len(round.targets) /\ Len(round.targets) \in Nat
          /\ round.current \in Observation /\ Len(round.targets) <= NUsers /\ round.stage = "read"
      BY <1>2, <1>6 DEF RoundSound, Round, ReadCounter
    <2>2. /\ NextRead \in Sample /\ WithRead = [round EXCEPT !.reads = Append(@, NextRead)]
          /\ Append(round.reads, NextRead) \in Seq(Sample) /\ Len(Append(round.reads, NextRead)) = n + 1
      BY <1>6, <2>1, ReadOutcome DEF WithRead, Round
    <2>3. CASE round' = WithRead /\ ~RoundDone(n + 1)
      <3>1. round' = [round EXCEPT !.reads = Append(round.reads, NextRead)]
        BY <2>2, <2>3
      <3>2. n + 1 < 2 * Len(round.targets)
        BY <2>1, <2>3 DEF RoundDone
      <3>3. round' \in Round
        BY <2>1, <2>2, <3>1 DEF Round
      <3> QED BY <1>2, <2>1, <2>2, <3>1, <3>2, <3>3 DEF RoundSound, Round
    <2>4. CASE round' = EndBatch(WithRead)
      <3>1. CASE round' = Idle
        BY <1>3, <3>1
      <3>2. CASE round' = [stage |-> IF RoundDone(n + 1) THEN "commit" ELSE "probe",
                  targets |-> round.targets, reads |-> Append(round.reads, NextRead),
                  first |-> IF round.first = None THEN round.current ELSE round.first,
                  previous |-> round.current, current |-> None]
        <4>1. round' \in Round
          BY <2>1, <2>2, <3>2 DEF Round, Stages
        <4>2. RoundDone(n + 1) <=> n + 1 = 2 * Len(round.targets)
          BY DEF RoundDone
        <4>3. round'.first # None /\ round'.previous # None /\ round'.targets = round.targets
              /\ Len(round'.reads) = n + 1
          BY <2>1, <2>2, <3>2, Constants
        <4>4. round'.stage = IF n + 1 = 2 * Len(round.targets) THEN "commit" ELSE "probe"
          BY <3>2, <4>2
        <4> QED BY <2>1, <4>1, <4>3, <4>4 DEF RoundSound
      <3> QED BY <2>1, <2>2, <2>4, <3>1, <3>2, EndBatchRound
    <2> QED BY <1>6, <2>3, <2>4, ReadOutcome
  <1>7. CASE DropRound
    BY <1>3, <1>7 DEF DropRound
  <1> QED BY <1>4, <1>5, <1>6, <1>7

\* What a sample adds is a number of bytes.
LEMMA GainType ==
  ASSUME MeterSound, round.stage = "commit", NEW u \in Updated, NEW d \in Directions
  PROVE  Gain(u, d) \in Nat
  <1>1. Got(u, d) \in Sample /\ u \in Users
    BY ReadOfFacts
  <1>2. cursor[u].bytes[d] \in Bytes \cup {None}
    BY <1>1 DEF MeterSound, MeterTypeOK, Cursor
  <1>3. Got(u, d).bytes \in Bytes \cup {None}
    BY <1>1 DEF Sample
  <1> QED BY <1>2, <1>3, Constants DEF Gain, Delta, Bytes

LEMMA CommitTypes ==
  ASSUME MeterSound, Commit
  PROVE  MeterSound'
  <1>0. round.stage = "commit" /\ \A u \in Updated : u \in Users
    BY ReadOfFacts DEF Commit, Directions
  <1>1. total' \in [Users -> [Directions -> 0 .. MaxInt64]]
    <2>1. ASSUME NEW u \in Updated, NEW d \in Directions
          PROVE  total[u][d] + Fitting(total[u][d], Gain(u, d)) \in 0 .. MaxInt64
      <3>1. total[u][d] \in 0 .. MaxInt64 /\ Gain(u, d) \in Nat
        BY <1>0, GainType DEF MeterSound, MeterTypeOK
      <3> QED BY <3>1, Constants DEF Fitting
    <2>2. total \in [Users -> [Directions -> 0 .. MaxInt64]]
      BY DEF MeterSound, MeterTypeOK
    <2> QED BY <2>1, <2>2, CommitShape
  <1>2. cursor' \in [Users -> Cursor]
    <2>1. ASSUME NEW u \in Updated
          PROVE  NewCursor(cursor[u], [d \in Directions |-> Got(u, d)], round.first, round.previous.at)
                    \in Cursor
      <3>1. round.first \in Observation /\ round.previous \in Observation
        BY <1>0 DEF MeterSound, RoundSound, Round
      <3>2. round.first.epoch \in Int /\ round.previous.at \in Int
        BY <3>1 DEF Observation
      <3>3. \A d \in Directions : Got(u, d).bytes \in Bytes \cup {None}
        BY <1>0, ReadOfFacts DEF Sample
      <3>4. cursor[u] \in Cursor
        BY <1>0 DEF MeterSound, MeterTypeOK
      <3> QED BY <3>2, <3>3, <3>4 DEF NewCursor, Cursor
    <2>2. cursor \in [Users -> Cursor]
      BY DEF MeterSound, MeterTypeOK
    <2> DEFINE new(u) == NewCursor(cursor[u], [d \in Directions |-> Got(u, d)],
                                   round.first, round.previous.at)
    <2>3. cursor' = [u \in Users |-> IF u \notin Updated THEN cursor[u] ELSE new(u)]
      BY CommitShape
    <2>4. \A u \in Updated : new(u) \in Cursor
      BY <2>1
    <2> HIDE DEF new
    <2> QED BY <2>2, <2>3, <2>4
  <1>3. ideal' \in [Users -> [Directions -> Meters]]
    <2>1. ASSUME NEW u \in Updated, NEW d \in Directions
          PROVE  Ideal(ideal[u][d], Got(u, d)) \in Meters
      <3>1. ideal[u][d] \in Meters /\ Got(u, d) \in Sample
        BY <1>0, ReadOfFacts DEF MeterSound
      <3> QED BY <3>1, Constants DEF Ideal, Meters, Sample, Bytes
    <2>2. ideal \in [Users -> [Directions -> Meters]]
      BY DEF MeterSound
    <2> QED BY <2>1, <2>2, CommitShape
  <1>4. half' \subseteq Users
    BY <1>0, CommitShape DEF MeterSound, MeterTypeOK
  <1>5. round' = Idle /\ UNCHANGED <<now, proc, boot, uptime, counter, sent, skew, present>>
    BY CommitShape DEF xray
  <1>6. RoundSound'
    BY <1>5, IdleSound, Constants DEF RoundSound, Idle
  <1>7. XraySound'
    BY <1>5 DEF MeterSound, XraySound
  <1>8. MeterTypeOK'
    BY <1>1, <1>2, <1>4, <1>5, IdleSound DEF MeterSound, MeterTypeOK, Idle, Stages
  <1> QED BY <1>3, <1>6, <1>7, <1>8 DEF MeterSound

THEOREM MeterSoundAlways == Spec => []MeterSound
  <1>1. MeterSound /\ [Next]_vars => MeterSound'
    <2> SUFFICES ASSUME MeterSound, [Next]_vars PROVE MeterSound'
      OBVIOUS
    <2>1. CASE UNCHANGED vars
      <3>1. UNCHANGED <<now, xray, skew, present, rows, history>> /\ round' = round
        BY <2>1 DEF vars
      <3> QED BY <3>1, TypesOfRound DEF MeterSound, RoundSound
    <2>2. CASE Next
      BY <2>2, TransferTypes, RestartTypes, ClockTypes, RoundTypes, CommitTypes DEF Next
    <2> QED BY <2>1, <2>2
  <1> QED BY <1>1, InitSound, PTL DEF Spec

\* Sums never leave the range of their column and no round reads past its
\* targets, whatever Xray and the clock do.
THEOREM MeterTypeCorrect == Spec => []MeterTypeOK
  <1>1. MeterSound => MeterTypeOK
    BY DEF MeterSound
  <1> QED BY <1>1, MeterSoundAlways, PTL

----------------------------------------------------------------------------
(* No byte is counted twice.                                               *)

\* A round that passed observationMismatch may still mix two processes that
\* started within the rounding of each other, unless it has one batch or
\* processes live longer than that.
Slack == IF NUsers <= BatchSize \/ MinUptime >= MaxSkew + 3 THEN 0 ELSE 1

\* Probes answer, Xray does not restart between a probe and its reads, and
\* the interval exceeds what rounding and corrections move a start time by.
Steady == /\ ~ProbeMayFail /\ "read" \notin RestartStages
          /\ Interval >= MaxSkew + 1 + 2 * Slack

\* The start times that may be computed for a process that started at b and
\* saw the clock set back up to s times, and for the processes before it.
Own(e, b, s)     == b <= e /\ e <= b + 1 + s
Near(e, b, s)    == b - Slack <= e /\ e <= b + 1 + Slack + s
Earlier(e, b, s) == e <= b - MinUptime + 1 + s

CounterSound == \A u \in Users, d \in Directions :
    /\ ideal[u][d].proc <= proc
    /\ ideal[u][d].proc = proc /\ counter[u][d] = None => ideal[u][d].bytes = 0
    /\ ideal[u][d].proc = proc /\ counter[u][d] # None => ideal[u][d].bytes <= counter[u][d]

CursorSound == \A u \in Users, d \in Directions :
    /\ cursor[u].bytes[d] = None => ideal[u][d].bytes = 0
    /\ cursor[u].bytes[d] # None =>
          /\ cursor[u].bytes[d] = ideal[u][d].bytes /\ cursor[u].epoch # None
          /\ ideal[u][d].proc = proc => Near(cursor[u].epoch, boot, skew)

\* A read of the round, of user u and direction d.
ReadSound(r, u, d) ==
    /\ ideal[u][d].proc <= r.proc /\ r.proc <= proc
    /\ r.bytes # None /\ r.proc = ideal[u][d].proc => ideal[u][d].bytes <= r.bytes
    /\ r.bytes # None /\ r.proc = proc => counter[u][d] # None /\ r.bytes <= counter[u][d]

Agrees(e, f) == e - f <= Interval /\ f - e <= Interval

\* The round's first observation stands for the read's process.
Placed(r, u, d) ==
    /\ r.proc = proc => Near(round.first.epoch, boot, skew)
    /\ r.proc = ideal[u][d].proc /\ cursor[u].bytes[d] # None =>
          Agrees(round.first.epoch, cursor[u].epoch)

\* A read of the batch under way is of the running process.
ReadsSound == \A i \in 1 .. Len(round.reads) :
    /\ ReadSound(round.reads[i], UserAt(i), DirAt(i))
    /\ \/ round.stage = "read" /\ round.reads[i].proc = proc
       \/ round.first # None /\ Placed(round.reads[i], UserAt(i), DirAt(i))

ObservationsSound ==
    /\ round.first # None =>
          /\ round.first.known /\ Len(round.reads) > 0
          /\ round.reads[1].proc = proc => Own(round.first.epoch, boot, skew)
          /\ round.reads[1].proc < proc => Earlier(round.first.epoch, boot, skew)
          /\ NUsers <= BatchSize => round.stage = "commit"
    /\ round.stage = "read" => round.current.known /\ Own(round.current.epoch, boot, skew)

OnceInv == CounterSound /\ CursorSound /\ ReadsSound /\ ObservationsSound /\ NeverTwice

LEMMA HalfUp == ASSUME NEW i \in Nat, NEW m \in Nat, i > 0, i <= 2 * m PROVE (i + 1) \div 2 \in 1 .. m
  OBVIOUS

LEMMA ReadFacts ==
  ASSUME MeterSound, NEW i \in 1 .. Len(round.reads)
  PROVE  /\ UserAt(i) \in Users /\ DirAt(i) \in Directions /\ round.reads[i] \in Sample
         /\ round.reads[i].proc \in Nat
         /\ round.reads[i].bytes # None => round.reads[i].bytes \in Nat
  <1>1. /\ round.targets \in Seq(Users) /\ round.reads \in Seq(Sample)
        /\ Len(round.reads) <= 2 * Len(round.targets)
        /\ Len(round.targets) \in Nat /\ Len(round.reads) \in Nat
    BY DEF MeterSound, RoundSound, Round
  <1>2. (i + 1) \div 2 \in 1 .. Len(round.targets)
    <2>1. i \in Nat /\ i > 0 /\ i <= 2 * Len(round.targets)
      BY <1>1
    <2> QED BY <1>1, <2>1, HalfUp
  <1>3. UserAt(i) \in Users
    BY <1>1, <1>2, SeqElement DEF UserAt
  <1>4. round.reads[i] \in Sample
    BY <1>1, SeqElement
  <1>5. DirAt(i) \in Directions
    BY DEF DirAt, Directions
  <1> QED BY <1>3, <1>4, <1>5, Constants DEF Sample, Bytes

LEMMA MeterFacts ==
  ASSUME MeterSound
  PROVE  /\ boot \in Int /\ skew \in Nat /\ skew <= MaxSkew /\ proc \in Nat /\ uptime \in Nat /\ now \in Int
         /\ now - uptime \in {boot, boot + 1} /\ sent \in Nat /\ sent <= MaxTransfers
         /\ \A u \in Users, d \in Directions :
               /\ ideal[u][d].proc \in Nat /\ ideal[u][d].bytes \in Nat /\ ideal[u][d].sum \in Int
               /\ counter[u][d] # None => counter[u][d] \in Nat
               /\ total[u][d] \in Nat /\ total[u][d] <= MaxInt64
               /\ cursor[u].bytes[d] # None => cursor[u].bytes[d] \in Nat
               /\ cursor[u].epoch # None => cursor[u].epoch \in Int
         /\ round.first # None => round.first.epoch \in Int
         /\ round.stage = "read" => round.current.epoch \in Int
  <1>1. /\ boot \in Int /\ skew \in Nat /\ skew <= MaxSkew /\ proc \in Nat /\ uptime \in Nat /\ now \in Int
        /\ now - uptime \in {boot, boot + 1} /\ sent \in Nat /\ sent <= MaxTransfers
    BY Constants DEF MeterSound, MeterTypeOK, XraySound
  <1>2. ASSUME NEW u \in Users, NEW d \in Directions
        PROVE  /\ ideal[u][d].proc \in Nat /\ ideal[u][d].bytes \in Nat /\ ideal[u][d].sum \in Int
               /\ counter[u][d] # None => counter[u][d] \in Nat
               /\ total[u][d] \in Nat /\ total[u][d] <= MaxInt64
               /\ cursor[u].bytes[d] # None => cursor[u].bytes[d] \in Nat
               /\ cursor[u].epoch # None => cursor[u].epoch \in Int
    <2>1. /\ ideal[u][d] \in Meters /\ counter[u][d] \in Bytes \cup {None} /\ cursor[u] \in Cursor
          /\ total[u][d] \in 0 .. MaxInt64
      BY DEF MeterSound, MeterTypeOK
    <2>2. cursor[u].bytes[d] \in Bytes \cup {None} /\ cursor[u].epoch \in Int \cup {None}
      BY <2>1 DEF Cursor
    <2> QED BY <2>1, <2>2, Constants DEF Meters, Bytes
  <1>3. /\ round.first # None => round.first.epoch \in Int
        /\ round.stage = "read" => round.current.epoch \in Int
    BY DEF MeterSound, RoundSound, Round, Observation
  <1> QED BY <1>1, <1>2, <1>3

LEMMA SlackFacts ==
  /\ Slack \in Nat /\ Slack <= 1 /\ MinUptime \in Nat /\ MaxSkew \in Nat
  /\ Slack = 0 \/ (Slack = 1 /\ ~(NUsers <= BatchSize) /\ MinUptime < MaxSkew + 3)
  BY Constants DEF Slack

LEMMA ShiftedBack ==
  ASSUME NEW b \in Int, NEW c \in Int, NEW s \in Nat, NEW t \in Nat, NEW e \in Int,
         c <= b, c + t = b + s
  PROVE  /\ Own(e, b, s) => Own(e, c, t)
         /\ Near(e, b, s) => Near(e, c, t)
         /\ Earlier(e, b, s) => Earlier(e, c, t)
  BY SlackFacts DEF Own, Near, Earlier

\* Steps that keep the process: counters grow, and the clock is set back at
\* the expense of the skew.
LEMMA GentleOnce ==
  ASSUME MeterSound, MeterSound', OnceInv, UNCHANGED <<proc, cursor, total, round, ideal>>,
         boot' <= boot, boot' + skew' = boot + skew,
         \A u \in Users, d \in Directions :
            counter[u][d] # None => counter'[u][d] # None /\ counter[u][d] <= counter'[u][d]
  PROVE  OnceInv'
  <1>1. /\ boot \in Int /\ skew \in Nat /\ boot' \in Int /\ skew' \in Nat /\ proc \in Nat
        /\ counter' \in [Users -> [Directions -> Bytes \cup {None}]]
    BY MeterFacts DEF MeterSound, MeterTypeOK, XraySound
  <1>2. \A e \in Int : /\ Own(e, boot, skew) => Own(e, boot', skew')
                       /\ Near(e, boot, skew) => Near(e, boot', skew')
                       /\ Earlier(e, boot, skew) => Earlier(e, boot', skew')
    BY <1>1, ShiftedBack
  <1>3. CounterSound'
    <2>1. ASSUME NEW u \in Users, NEW d \in Directions, ideal[u][d].proc = proc, counter'[u][d] # None
          PROVE  ideal[u][d].bytes <= counter'[u][d]
      <3>1. counter'[u][d] \in Nat
        BY <1>1, <2>1 DEF Bytes
      <3>2. CASE counter[u][d] = None
        BY <2>1, <3>1, <3>2 DEF OnceInv, CounterSound
      <3>3. CASE counter[u][d] # None
        BY <2>1, <3>1, <3>3, MeterFacts DEF OnceInv, CounterSound
      <3> QED BY <3>2, <3>3
    <2>2. ASSUME NEW u \in Users, NEW d \in Directions, counter'[u][d] = None
          PROVE  counter[u][d] = None
      BY <2>2
    <2> QED BY <2>1, <2>2 DEF OnceInv, CounterSound
  <1>4. CursorSound'
    <2>1. ASSUME NEW u \in Users, NEW d \in Directions
          PROVE  cursor[u].epoch # None /\ Near(cursor[u].epoch, boot, skew) =>
                    Near(cursor[u].epoch, boot', skew')
      BY <1>2, MeterFacts
    <2> QED BY <2>1 DEF OnceInv, CursorSound
  <1>5. \A i \in 1 .. Len(round.reads) : UserAt(i)' = UserAt(i) /\ DirAt(i)' = DirAt(i)
    BY DEF UserAt, DirAt
  <1>6. ASSUME NEW i \in 1 .. Len(round.reads)
        PROVE  /\ ReadSound(round.reads[i], UserAt(i), DirAt(i))'
               /\ (round.first # None /\ Placed(round.reads[i], UserAt(i), DirAt(i))
                    => Placed(round.reads[i], UserAt(i), DirAt(i))')
    <2> DEFINE r == round.reads[i]
               u == UserAt(i)
               d == DirAt(i)
    <2>1. u \in Users /\ d \in Directions /\ (r.bytes # None => r.bytes \in Nat)
      BY ReadFacts
    <2>2. ReadSound(r, u, d)
      BY DEF OnceInv, ReadsSound
    <2>3. UNCHANGED <<r, u, d>>
      BY <1>5
    <2>4. counter'[u][d] # None => counter'[u][d] \in Nat
      BY <1>1, <2>1 DEF Bytes
    <2> HIDE DEF r, u, d
    <2>5. ReadSound(r, u, d)'
      <3>1. ASSUME r.bytes # None, r.proc = proc PROVE counter'[u][d] # None /\ r.bytes <= counter'[u][d]
        <4>1. /\ counter[u][d] # None /\ r.bytes <= counter[u][d] /\ counter[u][d] \in Nat /\ r.bytes \in Nat
              /\ counter'[u][d] # None /\ counter[u][d] <= counter'[u][d] /\ counter'[u][d] \in Nat
          BY <2>1, <2>2, <2>4, <3>1, MeterFacts DEF ReadSound
        <4> QED BY <4>1
      <3> QED BY <2>2, <2>3, <3>1 DEF ReadSound
    <2>6. round.first # None /\ Placed(r, u, d) => Placed(r, u, d)'
      BY <1>2, <2>3, MeterFacts DEF Placed
    <2> QED BY <2>5, <2>6 DEF r, u, d
  <1>7. ReadsSound'
    BY <1>6 DEF OnceInv, ReadsSound
  <1>8. ObservationsSound'
    BY <1>2, MeterFacts DEF OnceInv, ObservationsSound
  <1> QED BY <1>3, <1>4, <1>7, <1>8 DEF OnceInv, NeverTwice

LEMMA StartedLater ==
  ASSUME NEW b \in Int, NEW c \in Int, NEW s \in Nat, NEW e \in Int, c >= b + MinUptime
  PROVE  (Own(e, b, s) => Earlier(e, c, s)) /\ (Earlier(e, b, s) => Earlier(e, c, s))
  BY SlackFacts DEF Own, Earlier

LEMMA ClockPastStart ==
  ASSUME NEW n \in Int, NEW up \in Nat, NEW b \in Int, n - up \in {b, b + 1}
  PROVE  n >= b + up /\ n - up \in Int /\ \A s \in Nat : Own(n - up, b, s)
  BY DEF Own

LEMMA RestartOnce ==
  ASSUME Steady, MeterSound, OnceInv, Restart
  PROVE  OnceInv'
  <1>1. /\ round.stage # "read" /\ proc' = proc + 1 /\ boot' = now /\ uptime >= MinUptime
        /\ UNCHANGED <<now, sent, skew, present, cursor, total, round, ideal, half>>
    BY DEF Steady, Restart, rows, history
  <1>2. \A e \in Int : (Own(e, boot, skew) => Earlier(e, boot', skew'))
                       /\ (Earlier(e, boot, skew) => Earlier(e, boot', skew'))
    <2>1. now >= boot + uptime
      BY MeterFacts, ClockPastStart
    <2>2. now \in Int /\ boot \in Int /\ skew \in Nat /\ now >= boot + MinUptime
      BY <1>1, <2>1, MeterFacts, Constants
    <2> QED BY <1>1, <2>2, StartedLater
  <1>3. \A k \in Nat : k <= proc => k <= proc' /\ k # proc' /\ k < proc'
    BY <1>1, MeterFacts
  <1>4. \A u \in Users, d \in Directions : ideal[u][d].proc \in Nat /\ ideal[u][d].proc <= proc
    BY MeterFacts DEF OnceInv, CounterSound
  <1>5. CounterSound'
    BY <1>1, <1>3, <1>4 DEF CounterSound
  <1>6. CursorSound'
    BY <1>1, <1>3, <1>4 DEF CursorSound, OnceInv
  <1>7. ASSUME NEW i \in 1 .. Len(round.reads)
        PROVE  /\ ReadSound(round.reads[i], UserAt(i), DirAt(i))'
               /\ round.first # None /\ Placed(round.reads[i], UserAt(i), DirAt(i))'
    <2> DEFINE r == round.reads[i]
               u == UserAt(i)
               d == DirAt(i)
    <2>1. u \in Users /\ d \in Directions /\ r.proc \in Nat
      BY ReadFacts
    <2>2. ReadSound(r, u, d) /\ round.first # None /\ Placed(r, u, d)
      BY <1>1 DEF OnceInv, ReadsSound
    <2>3. UNCHANGED <<r, u, d>>
      BY <1>1 DEF UserAt, DirAt
    <2>4. r.proc # proc' /\ r.proc <= proc'
      BY <1>3, <2>1, <2>2 DEF ReadSound
    <2> HIDE DEF r, u, d
    <2>5. ReadSound(r, u, d)'
      BY <1>1, <2>2, <2>3, <2>4 DEF ReadSound
    <2>6. Placed(r, u, d)'
      BY <1>1, <2>2, <2>3, <2>4 DEF Placed, Agrees
    <2> QED BY <2>2, <2>5, <2>6 DEF r, u, d
  <1>8. ReadsSound'
    BY <1>1, <1>7 DEF ReadsSound
  <1>9. ObservationsSound'
    <2>1. ASSUME round.first # None
          PROVE  round.reads[1].proc < proc' /\ round.reads[1].proc # proc' /\ Earlier(round.first.epoch, boot', skew')
      <3>1. Len(round.reads) \in Nat /\ Len(round.reads) > 0 /\ 1 \in 1 .. Len(round.reads)
        BY <2>1 DEF OnceInv, ObservationsSound, MeterSound, RoundSound, Round
      <3>2. round.reads[1].proc \in Nat /\ round.reads[1].proc <= proc
        BY <3>1, ReadFacts DEF OnceInv, ReadsSound, ReadSound
      <3>3. round.reads[1].proc = proc \/ round.reads[1].proc < proc
        BY <3>2, MeterFacts
      <3>4. round.first.epoch \in Int
        BY <2>1, MeterFacts
      <3> QED BY <1>2, <1>3, <2>1, <3>2, <3>3, <3>4 DEF OnceInv, ObservationsSound
    <2> QED BY <1>1, <2>1 DEF OnceInv, ObservationsSound
  <1> QED BY <1>1, <1>5, <1>6, <1>8, <1>9 DEF OnceInv, NeverTwice

\* A round without reads.
LEMMA EmptyRound ==
  ASSUME Len(round'.reads) = 0, round'.first = None, round'.stage # "read"
  PROVE  ReadsSound' /\ ObservationsSound'
  BY DEF ReadsSound, ObservationsSound

LEMMA FreshOnce ==
  ASSUME MeterSound, OnceInv, BeginRound \/ DropRound \/ (ReadCounter /\ round' = Idle)
  PROVE  OnceInv'
  <1>1. UNCHANGED <<proc, boot, counter, skew, cursor, total, ideal>>
    BY DEF BeginRound, DropRound, ReadCounter, xray, rows, history
  <1>2. Len(round'.reads) = 0 /\ round'.first = None /\ round'.stage # "read"
    <2>1. CASE BeginRound
      <3>1. PICK ts : round' = [Idle EXCEPT !.stage = "probe", !.targets = ts]
        BY <2>1 DEF BeginRound
      <3> QED BY <3>1 DEF Idle
    <2>2. CASE round' = Idle
      BY <2>2 DEF Idle
    <2> QED BY <2>1, <2>2 DEF DropRound
  <1>3. CounterSound' /\ CursorSound' /\ NeverTwice'
    BY <1>1 DEF OnceInv, CounterSound, CursorSound, NeverTwice
  <1> QED BY <1>2, <1>3, EmptyRound DEF OnceInv

LEMMA ProbeOnce ==
  ASSUME Steady, MeterSound, OnceInv, Probe
  PROVE  OnceInv'
  <1>1. UNCHANGED <<now, uptime, proc, boot, counter, skew, cursor, total, ideal>> /\ round.stage = "probe"
    BY DEF Probe, xray, rows, history
  <1>2. round \in Round
    BY DEF MeterSound, RoundSound
  <1>3. round' = [round EXCEPT !.stage = "read",
                     !.current = [at |-> now, known |-> TRUE, uptime |-> uptime, epoch |-> now - uptime]]
    BY DEF Probe, Steady
  <1>4. /\ round'.stage = "read" /\ round'.current.known /\ round'.current.epoch = now - uptime
        /\ round'.reads = round.reads /\ round'.targets = round.targets /\ round'.first = round.first
    BY <1>2, <1>3 DEF Round
  <1>5. CounterSound' /\ CursorSound' /\ NeverTwice'
    BY <1>1 DEF OnceInv, CounterSound, CursorSound, NeverTwice
  <1>6. ReadsSound'
    <2>1. \A i \in 1 .. Len(round.reads) :
             /\ ReadSound(round.reads[i], UserAt(i), DirAt(i))
             /\ round.first # None /\ Placed(round.reads[i], UserAt(i), DirAt(i))
      BY <1>1 DEF OnceInv, ReadsSound
    <2> QED BY <1>1, <1>4, <2>1 DEF ReadsSound, ReadSound, Placed, Agrees, UserAt, DirAt
  <1>7. Own(now - uptime, boot, skew)
    BY MeterFacts, ClockPastStart
  <1>8. ObservationsSound'
    BY <1>1, <1>4, <1>7 DEF OnceInv, ObservationsSound
  <1> QED BY <1>5, <1>6, <1>8 DEF OnceInv

LEMMA OwnNear == ASSUME NEW e \in Int, NEW b \in Int, NEW s \in Nat, Own(e, b, s) PROVE Near(e, b, s)
  BY SlackFacts DEF Own, Near

LEMMA NearAgrees ==
  ASSUME Steady, NEW b \in Int, NEW s \in Nat, s <= MaxSkew, NEW e \in Int, NEW f \in Int,
         Near(e, b, s), Near(f, b, s)
  PROVE  Agrees(e, f)
  BY SlackFacts, Constants DEF Steady, Near, Agrees

\* observationMismatch: what passes is of the running process, or of one that
\* cannot be told from it.
LEMMA Matching ==
  ASSUME NEW b \in Int, NEW s \in Nat, s <= MaxSkew, NEW e \in Int, NEW f \in Int,
         Own(e, b, s), e - f <= 1, f - e <= 1,
         Own(f, b, s) \/ Earlier(f, b, s), ~(NUsers <= BatchSize)
  PROVE  Near(f, b, s)
  <1>1. CASE Slack = 1
    BY <1>1 DEF Own, Near
  <1>2. CASE Slack = 0
    <2>1. MinUptime >= MaxSkew + 3
      BY <1>2 DEF Slack
    <2> QED BY <1>2, <2>1, SlackFacts DEF Own, Earlier, Near
  <1> QED BY <1>1, <1>2, SlackFacts

LEMMA WholeBatch == ASSUME NEW n \in Nat, NEW b \in Nat, b > 0, n % b = 0, n > 0, n <= b PROVE n = b
  OBVIOUS

LEMMA OneBatch ==
  ASSUME MeterSound, round.stage = "read", NUsers <= BatchSize,
         BatchDone(Len(round.reads) + 1) \/ RoundDone(Len(round.reads) + 1)
  PROVE  RoundDone(Len(round.reads) + 1)
  <1> DEFINE n == Len(round.reads)
             m == Len(round.targets)
  <1>1. n \in Nat /\ m \in Nat /\ n < 2 * m /\ m <= NUsers
    BY DEF MeterSound, RoundSound, Round
  <1> HIDE DEF n, m
  <1>2. ASSUME (n + 1) % (2 * BatchSize) = 0 PROVE n + 1 = 2 * m
    <2>1. n + 1 \in Nat /\ 2 * BatchSize \in Nat /\ 2 * BatchSize > 0 /\ n + 1 > 0 /\ n + 1 <= 2 * BatchSize
      BY <1>1, Constants
    <2>2. n + 1 = 2 * BatchSize
      BY <1>2, <2>1, WholeBatch
    <2> QED BY <1>1, <2>2, Constants
  <1> QED BY <1>2 DEF BatchDone, RoundDone, n, m

LEMMA NextReadFacts ==
  ASSUME MeterSound, OnceInv, ReadCounter
  PROVE  LET n == Len(round.reads) + 1
         IN  /\ UserAt(n) \in Users /\ DirAt(n) \in Directions
             /\ NextRead.proc = proc /\ NextRead.bytes = counter[UserAt(n)][DirAt(n)]
             /\ ReadSound(NextRead, UserAt(n), DirAt(n))
  <1> DEFINE n == Len(round.reads)
             u == UserAt(n + 1)
             d == DirAt(n + 1)
  <1>1. /\ n \in Nat /\ Len(round.targets) \in Nat /\ n < 2 * Len(round.targets)
        /\ round.targets \in Seq(Users)
    BY DEF MeterSound, RoundSound, Round, ReadCounter
  <1>2. (n + 1 + 1) \div 2 \in 1 .. Len(round.targets)
    <2> HIDE DEF n
    <2> QED BY <1>1, HalfUp
  <1>3. u \in Users
    BY <1>1, <1>2, SeqElement DEF UserAt
  <1>4. d \in Directions
    BY DEF DirAt, Directions
  <1>5. NextRead.proc = proc /\ NextRead.bytes = counter[u][d]
    BY DEF NextRead
  <1> HIDE DEF u, d
  <1>6. ReadSound(NextRead, u, d)
    BY <1>3, <1>4, <1>5, MeterFacts DEF ReadSound, OnceInv, CounterSound
  <1> QED BY <1>3, <1>4, <1>5, <1>6 DEF u, d

\* The reads after one more call, seen from before it.
LEMMA ReadsSoFar ==
  ASSUME MeterSound, OnceInv, ReadCounter, NEW i \in 1 .. Len(round.reads) + 1,
         NEW r, r = Append(round.reads, NextRead)[i]
  PROVE  /\ UserAt(i) \in Users /\ DirAt(i) \in Directions /\ ReadSound(r, UserAt(i), DirAt(i))
         /\ r.proc = proc \/ (round.first # None /\ Placed(r, UserAt(i), DirAt(i)))
         /\ i <= Len(round.reads) => r = round.reads[i]
         /\ i = Len(round.reads) + 1 => r.proc = proc
  <1>1. round.reads \in Seq(Sample) /\ Len(round.reads) \in Nat
    BY DEF MeterSound, RoundSound, Round
  <1>2. CASE i <= Len(round.reads)
    <2>1. i \in 1 .. Len(round.reads) /\ r = round.reads[i]
      BY <1>1, <1>2
    <2> QED BY <1>1, <1>2, <2>1, ReadFacts DEF OnceInv, ReadsSound
  <1>3. CASE i = Len(round.reads) + 1
    <2>1. r = NextRead
      BY <1>1, <1>3
    <2> QED BY <1>1, <1>3, <2>1, NextReadFacts
  <1> QED BY <1>1, <1>2, <1>3

LEMMA ReadOnOnce ==
  ASSUME MeterSound, OnceInv, ReadCounter, round' = WithRead
  PROVE  OnceInv'
  <1>1. UNCHANGED <<proc, boot, counter, skew, cursor, total, ideal>> /\ round.stage = "read"
    BY DEF ReadCounter, xray, rows, history
  <1>2. round \in Round /\ Len(round.reads) \in Nat
    BY DEF MeterSound, RoundSound, Round
  <1>3. /\ round'.reads = Append(round.reads, NextRead) /\ round'.targets = round.targets
        /\ round'.first = round.first /\ round'.current = round.current /\ round'.stage = "read"
        /\ Len(round'.reads) = Len(round.reads) + 1
    BY <1>1, <1>2 DEF WithRead, Round
  <1>4. CounterSound' /\ CursorSound' /\ NeverTwice'
    BY <1>1 DEF OnceInv, CounterSound, CursorSound, NeverTwice
  <1>5. ReadsSound'
    <2>1. ASSUME NEW i \in 1 .. Len(round'.reads)
          PROVE  LET r == round'.reads[i] IN
                 /\ ReadSound(r, UserAt(i), DirAt(i))
                 /\ r.proc = proc \/ (round.first # None /\ Placed(r, UserAt(i), DirAt(i)))
      BY <1>3, ReadsSoFar
    <2> QED BY <1>1, <1>3, <2>1 DEF ReadsSound, ReadSound, Placed, Agrees, UserAt, DirAt
  <1>6. ObservationsSound'
    <2>1. ASSUME round.first # None PROVE round'.reads[1] = round.reads[1] /\ Len(round'.reads) > 0
      <3>1. Len(round.reads) > 0
        BY <2>1 DEF OnceInv, ObservationsSound
      <3> QED BY <1>2, <1>3, <3>1, ReadsSoFar
    <2> QED BY <1>1, <1>3, <2>1 DEF OnceInv, ObservationsSound
  <1> QED BY <1>4, <1>5, <1>6 DEF OnceInv

LEMMA BatchEndOnce ==
  ASSUME Steady, MeterSound, OnceInv, ReadCounter, round' = EndBatch(WithRead),
         BatchDone(Len(round.reads) + 1) \/ RoundDone(Len(round.reads) + 1), round' # Idle
  PROVE  OnceInv'
  <1> DEFINE n == Len(round.reads)
  <1>1. UNCHANGED <<proc, boot, counter, skew, cursor, total, ideal>> /\ round.stage = "read"
    BY DEF ReadCounter, xray, rows, history
  <1>2. round \in Round /\ n \in Nat /\ NextRead \in Sample
    BY ReadOutcome DEF MeterSound, RoundSound, Round
  <1>3. /\ ~(round.first # None /\ Mismatch(round.first, round.previous, round.current))
        /\ round' = [stage |-> IF RoundDone(n + 1) THEN "commit" ELSE "probe",
                     targets |-> round.targets, reads |-> Append(round.reads, NextRead),
                     first |-> IF round.first = None THEN round.current ELSE round.first,
                     previous |-> round.current, current |-> None]
    BY <1>1, <1>2, EndBatchRound DEF WithRead
  <1>4. /\ round'.reads = Append(round.reads, NextRead) /\ round'.targets = round.targets
        /\ round'.first = (IF round.first = None THEN round.current ELSE round.first)
        /\ round'.stage = (IF RoundDone(n + 1) THEN "commit" ELSE "probe")
        /\ Len(round'.reads) = n + 1
    BY <1>2, <1>3 DEF Round
  <1>5. /\ round.current.known /\ Own(round.current.epoch, boot, skew) /\ round.current.epoch \in Int
        /\ round.current # None
    BY <1>1, MeterFacts DEF OnceInv, ObservationsSound, MeterSound, RoundSound
  <1>6. CounterSound' /\ CursorSound' /\ NeverTwice'
    BY <1>1 DEF OnceInv, CounterSound, CursorSound, NeverTwice
  <1>7. ASSUME round.first # None
        PROVE  /\ n > 0 /\ round'.reads[1] = round.reads[1] /\ ~(NUsers <= BatchSize) /\ round.first.known
               /\ round.first.epoch \in Int /\ (round.reads[1].proc = proc \/ round.reads[1].proc < proc)
    <2>1. n > 0 /\ ~(NUsers <= BatchSize) /\ round.first.known
      BY <1>1, <1>7 DEF OnceInv, ObservationsSound
    <2>2. 1 \in 1 .. n
      BY <1>2, <2>1
    <2>3. round.reads[1].proc \in Nat /\ round.reads[1].proc <= proc
      BY <2>2, ReadFacts DEF OnceInv, ReadsSound, ReadSound
    <2>4. round.reads[1].proc = proc \/ round.reads[1].proc < proc
      BY <2>3, MeterFacts
    <2>5. round'.reads[1] = round.reads[1]
      BY <1>2, <1>4, <2>1, ReadsSoFar
    <2> QED BY <1>7, <2>1, <2>4, <2>5, MeterFacts
  <1>8. Near(round'.first.epoch, boot, skew) /\ round'.first # None /\ round'.first.epoch \in Int
    <2>1. CASE round.first = None
      BY <1>4, <1>5, <2>1, OwnNear, MeterFacts
    <2>2. CASE round.first # None
      <3>1. Own(round.first.epoch, boot, skew) \/ Earlier(round.first.epoch, boot, skew)
        BY <1>7, <2>2 DEF OnceInv, ObservationsSound
      <3>2. round.current.epoch - round.first.epoch <= 1 /\ round.first.epoch - round.current.epoch <= 1
        <4>1. ~(round.current.epoch - round.first.epoch > 1) /\ ~(round.first.epoch - round.current.epoch > 1)
          BY <1>3, <1>7, <2>2 DEF Mismatch
        <4> QED BY <1>5, <1>7, <2>2, <4>1
      <3> QED BY <1>4, <1>5, <1>7, <2>2, <3>1, <3>2, Matching, MeterFacts
    <2> QED BY <2>1, <2>2
  <1>9. ReadsSound'
    <2>1. ASSUME NEW i \in 1 .. n + 1, NEW r, r = round'.reads[i]
          PROVE  /\ ReadSound(r, UserAt(i), DirAt(i))
                 /\ r.proc = proc => Near(round'.first.epoch, boot, skew)
                 /\ r.proc = ideal[UserAt(i)][DirAt(i)].proc /\ cursor[UserAt(i)].bytes[DirAt(i)] # None
                      => Agrees(round'.first.epoch, cursor[UserAt(i)].epoch)
      <3>1. /\ UserAt(i) \in Users /\ DirAt(i) \in Directions /\ ReadSound(r, UserAt(i), DirAt(i))
            /\ r.proc = proc \/ (round.first # None /\ Placed(r, UserAt(i), DirAt(i)))
        BY <1>4, <2>1, ReadsSoFar
      <3> DEFINE u == UserAt(i)
                 d == DirAt(i)
      <3>2. ASSUME r.proc = ideal[u][d].proc, cursor[u].bytes[d] # None
            PROVE  Agrees(round'.first.epoch, cursor[u].epoch)
        <4> HIDE DEF u, d
        <4>1. CASE r.proc = proc
          <5>1. cursor[u].epoch \in Int /\ Near(cursor[u].epoch, boot, skew)
            BY <3>1, <3>2, <4>1, MeterFacts DEF OnceInv, CursorSound, u, d
          <5> QED BY <1>8, <5>1, NearAgrees, MeterFacts
        <4>2. CASE round.first # None /\ Placed(r, u, d)
          BY <1>4, <3>2, <4>2 DEF Placed
        <4> QED BY <3>1, <4>1, <4>2 DEF u, d
      <3> QED BY <1>8, <3>1, <3>2
    <2>2. ASSUME NEW i \in 1 .. Len(round'.reads)
          PROVE  ReadSound(round.reads[i], UserAt(i), DirAt(i))' /\ Placed(round.reads[i], UserAt(i), DirAt(i))'
      <3>1. i \in 1 .. n + 1 /\ UserAt(i)' = UserAt(i) /\ DirAt(i)' = DirAt(i)
        BY <1>4 DEF UserAt, DirAt
      <3> DEFINE u == UserAt(i)
                 d == DirAt(i)
      <3> HIDE DEF u, d, n
      <3>2. /\ ReadSound(round'.reads[i], u, d) /\ UNCHANGED <<u, d>>
            /\ round'.reads[i].proc = proc => Near(round'.first.epoch, boot, skew)
            /\ round'.reads[i].proc = ideal[u][d].proc /\ cursor[u].bytes[d] # None
                  => Agrees(round'.first.epoch, cursor[u].epoch)
        BY <2>1, <3>1 DEF u, d
      <3>3. ReadSound(round.reads[i], u, d)' /\ Placed(round.reads[i], u, d)'
        BY <1>1, <3>2 DEF ReadSound, Placed
      <3> QED BY <3>3 DEF u, d
    <2> QED BY <1>8, <2>2 DEF ReadsSound
  <1>10. ObservationsSound'
    <2>1. NUsers <= BatchSize => round'.stage = "commit"
      BY <1>1, <1>4, OneBatch
    <2>2. round'.first.known /\ Len(round'.reads) > 0 /\ round'.stage # "read"
      BY <1>2, <1>4, <1>5, <1>7
    <2>3. CASE round.first = None
      <3>1. round'.reads[1].proc = proc
        BY <1>2, <1>4, <2>3, ReadsSoFar
      <3>2. ~(round'.reads[1].proc < proc)
        BY <3>1, MeterFacts
      <3> QED BY <1>1, <1>4, <1>5, <2>1, <2>2, <2>3, <3>2 DEF ObservationsSound
    <2>4. CASE round.first # None
      BY <1>1, <1>4, <1>7, <2>1, <2>2, <2>4 DEF OnceInv, ObservationsSound
    <2> QED BY <2>3, <2>4
  <1> QED BY <1>6, <1>9, <1>10 DEF OnceInv

\* domain.ApplySample never adds more than the meter that knows the process.
LEMMA GainAtMost ==
  ASSUME NEW m \in Meters, NEW g \in Sample, NEW stored \in Bytes \cup {None}, NEW restart \in BOOLEAN,
         stored = None => m.bytes = 0, stored # None => stored = m.bytes,
         g.bytes # None /\ g.proc = m.proc => m.bytes <= g.bytes,
         g.proc = m.proc /\ stored # None => ~restart
  PROVE  m.sum + Delta(stored, g.bytes, restart) <= Ideal(m, g).sum
  <1>1. /\ m.sum \in Int /\ m.bytes \in Nat /\ g.bytes \in Nat \cup {None} /\ stored \in Nat \cup {None}
        /\ None \notin Int
    BY Constants DEF Meters, Sample, Bytes
  <1>2. CASE g.bytes = None
    BY <1>1, <1>2 DEF Delta, Ideal
  <1>3. CASE g.bytes # None
    <2>1. Ideal(m, g).sum = m.sum + (IF g.proc = m.proc THEN g.bytes - m.bytes ELSE g.bytes)
      BY <1>3 DEF Ideal
    <2>2. g.bytes \in Nat
      BY <1>1, <1>3
    <2>3. CASE stored = None
      BY <1>1, <1>3, <2>1, <2>2, <2>3 DEF Delta
    <2>4. CASE stored # None /\ restart
      BY <1>1, <1>3, <2>1, <2>2, <2>4 DEF Delta
    <2>5. CASE stored # None /\ ~restart
      BY <1>1, <1>3, <2>1, <2>2, <2>5 DEF Delta
    <2> QED BY <2>3, <2>4, <2>5
  <1> QED BY <1>2, <1>3

LEMMA FittingAtMost ==
  ASSUME NEW t \in Nat, NEW x \in Nat, NEW y \in Int, NEW z \in Int, t <= y, y + x <= z
  PROVE  t + Fitting(t, x) <= z
  BY Constants DEF Fitting

\* What a commit knows of a user's sample.
LEMMA GotFacts ==
  ASSUME MeterSound, OnceInv, round.stage = "commit", NEW u \in Updated, NEW d \in Directions
  PROVE  /\ u \in Users /\ Got(u, d) \in Sample
         /\ ReadSound(Got(u, d), u, d) /\ Placed(Got(u, d), u, d)
         /\ round.first # None /\ round.first.known /\ round.first.epoch \in Int
  <1>1. /\ u \in Users /\ Got(u, d) \in Sample /\ ReadOf(u, d) \in 1 .. Len(round.reads)
        /\ UserAt(ReadOf(u, d)) = u /\ DirAt(ReadOf(u, d)) = d
    BY ReadOfFacts
  <1>2. round.first # None
    BY DEF MeterSound, RoundSound
  <1> QED BY <1>1, <1>2, MeterFacts DEF OnceInv, ReadsSound, ObservationsSound, Got

LEMMA NewCursorFields ==
  ASSUME NEW c, NEW g, NEW obs, NEW at, obs.known, NEW d \in Directions
  PROVE  LET x == NewCursor(c, g, obs, at)
         IN  /\ x.bytes[d] = IF g[d].bytes = None THEN c.bytes[d] ELSE g[d].bytes
             /\ g[d].bytes # None => x.epoch = obs.epoch
             /\ (\A e \in Directions : g[e].bytes = None) => x.epoch = c.epoch
             /\ x.epoch \in {c.epoch, obs.epoch}
  BY DEF NewCursor

LEMMA CommitFields ==
  ASSUME MeterSound, OnceInv, Commit, NEW u \in Updated, NEW d \in Directions
  PROVE  /\ u \in Users /\ ideal'[u][d] = Ideal(ideal[u][d], Got(u, d))
         /\ total'[u][d] = total[u][d] + Fitting(total[u][d], Gain(u, d))
         /\ cursor'[u].bytes[d] = IF Got(u, d).bytes = None THEN cursor[u].bytes[d] ELSE Got(u, d).bytes
         /\ Got(u, d).bytes # None => cursor'[u].epoch = round.first.epoch
         /\ (\A e \in Directions : Got(u, e).bytes = None) => cursor'[u].epoch = cursor[u].epoch
         /\ cursor'[u].epoch \in {cursor[u].epoch, round.first.epoch}
         /\ Got(u, d).bytes = None => ideal'[u][d] = ideal[u][d]
         /\ Got(u, d).bytes # None =>
               ideal'[u][d].proc = Got(u, d).proc /\ ideal'[u][d].bytes = Got(u, d).bytes
  <1> DEFINE g == [e \in Directions |-> Got(u, e)]
  <1>1. u \in Users /\ round.first.known
    BY CommitShape, GotFacts
  <1>2. cursor'[u] = NewCursor(cursor[u], g, round.first, round.previous.at)
        /\ \A e \in Directions : g[e] = Got(u, e)
    BY <1>1, CommitShape
  <1> HIDE DEF g
  <1>3. /\ ideal'[u][d] = Ideal(ideal[u][d], Got(u, d))
        /\ total'[u][d] = total[u][d] + Fitting(total[u][d], Gain(u, d))
    BY <1>1, CommitShape
  <1>4. /\ Got(u, d).bytes = None => ideal'[u][d] = ideal[u][d]
        /\ Got(u, d).bytes # None =>
              ideal'[u][d].proc = Got(u, d).proc /\ ideal'[u][d].bytes = Got(u, d).bytes
    BY <1>3 DEF Ideal
  <1>5. /\ cursor'[u].bytes[d] = IF g[d].bytes = None THEN cursor[u].bytes[d] ELSE g[d].bytes
        /\ g[d].bytes # None => cursor'[u].epoch = round.first.epoch
        /\ (\A e \in Directions : g[e].bytes = None) => cursor'[u].epoch = cursor[u].epoch
        /\ cursor'[u].epoch \in {cursor[u].epoch, round.first.epoch}
    BY <1>1, <1>2, NewCursorFields
  <1> QED BY <1>1, <1>2, <1>3, <1>4, <1>5

\* No increment exceeds what the meter that knows the process adds.
LEMMA GainSound ==
  ASSUME MeterSound, OnceInv, round.stage = "commit", NEW u \in Updated, NEW d \in Directions
  PROVE  /\ Gain(u, d) \in Nat /\ Ideal(ideal[u][d], Got(u, d)).sum \in Int
         /\ ideal[u][d].sum + Gain(u, d) <= Ideal(ideal[u][d], Got(u, d)).sum
  <1> DEFINE m == ideal[u][d]
             g == Got(u, d)
             stored == cursor[u].bytes[d]
             restart == Restarted(cursor[u], round.first)
  <1>0. u \in Users
    BY GotFacts
  <1>1. m \in Meters /\ g \in Sample /\ stored \in Bytes \cup {None} /\ restart \in BOOLEAN
    BY <1>0, GotFacts DEF MeterSound, MeterTypeOK, Cursor, Restarted
  <1>2. ReadSound(g, u, d) /\ Placed(g, u, d) /\ round.first.known /\ round.first.epoch \in Int
    BY GotFacts
  <1>3. (stored = None => m.bytes = 0) /\ (stored # None => stored = m.bytes)
    BY <1>0 DEF OnceInv, CursorSound
  <1>4. g.bytes # None /\ g.proc = m.proc => m.bytes <= g.bytes
    BY <1>2 DEF ReadSound
  <1>5. ASSUME g.proc = m.proc, stored # None PROVE ~restart
    <2>1. Agrees(round.first.epoch, cursor[u].epoch) /\ cursor[u].epoch \in Int
      BY <1>0, <1>2, <1>5, MeterFacts DEF Placed, OnceInv, CursorSound
    <2>2. ~(round.first.epoch - cursor[u].epoch > Interval)
          /\ ~(cursor[u].epoch - round.first.epoch > Interval)
      BY <1>2, <2>1, Constants DEF Agrees
    <2> QED BY <2>2 DEF Restarted, RestartConfirmed
  <1>6. Gain(u, d) = Delta(stored, g.bytes, restart) /\ Gain(u, d) \in Nat
    BY GainType DEF Gain
  <1>7. Ideal(m, g) \in Meters
    BY <1>1, Constants DEF Ideal, Meters, Sample, Bytes
  <1> HIDE DEF m, g, stored, restart
  <1>8. m.sum + Gain(u, d) <= Ideal(m, g).sum
    BY <1>1, <1>3, <1>4, <1>5, <1>6, GainAtMost
  <1> QED BY <1>6, <1>7, <1>8 DEF Meters, m, g

LEMMA CommitOnce ==
  ASSUME MeterSound, OnceInv, Commit
  PROVE  OnceInv'
  <1>1. round.stage = "commit" /\ UNCHANGED <<proc, boot, counter, skew>> /\ round' = Idle
    BY CommitShape DEF xray
  <1>2. ReadsSound' /\ ObservationsSound'
    <2>1. Len(round'.reads) = 0 /\ round'.first = None /\ round'.stage # "read"
      BY <1>1 DEF Idle
    <2> QED BY <2>1, EmptyRound
  <1>3. ASSUME NEW u \in Users, u \notin Updated, NEW d \in Directions
        PROVE  cursor'[u] = cursor[u] /\ ideal'[u][d] = ideal[u][d] /\ total'[u][d] = total[u][d]
    BY <1>3, CommitShape
  <1>4. ASSUME NEW u \in Updated, NEW d \in Directions
        PROVE  /\ total'[u][d] = total[u][d] + Fitting(total[u][d], Gain(u, d))
               /\ ideal'[u][d] = Ideal(ideal[u][d], Got(u, d))
               /\ cursor'[u].bytes[d] = IF Got(u, d).bytes = None THEN cursor[u].bytes[d] ELSE Got(u, d).bytes
               /\ Got(u, d).bytes # None => cursor'[u].epoch = round.first.epoch
               /\ cursor'[u].epoch \in {cursor[u].epoch, round.first.epoch}
    BY CommitFields
  <1>5. ASSUME NEW u \in Updated, NEW d \in Directions
        PROVE  /\ Got(u, d).bytes = None => ideal'[u][d] = ideal[u][d]
               /\ Got(u, d).bytes # None =>
                     ideal'[u][d].proc = Got(u, d).proc /\ ideal'[u][d].bytes = Got(u, d).bytes
    BY CommitFields
  <1>6. CounterSound'
    <2>1. ASSUME NEW u \in Users, NEW d \in Directions
          PROVE  /\ ideal'[u][d].proc <= proc
                 /\ ideal'[u][d].proc = proc /\ counter[u][d] = None => ideal'[u][d].bytes = 0
                 /\ ideal'[u][d].proc = proc /\ counter[u][d] # None => ideal'[u][d].bytes <= counter[u][d]
      <3>1. CASE u \notin Updated
        BY <1>3, <2>1, <3>1 DEF OnceInv, CounterSound
      <3>2. CASE u \in Updated /\ Got(u, d).bytes = None
        BY <1>5, <2>1, <3>2 DEF OnceInv, CounterSound
      <3>3. CASE u \in Updated /\ Got(u, d).bytes # None
        BY <1>1, <1>5, <2>1, <3>3, GotFacts DEF ReadSound
      <3> QED BY <3>1, <3>2, <3>3
    <2> QED BY <1>1, <2>1 DEF CounterSound
  <1>7. CursorSound'
    <2>1. ASSUME NEW u \in Users, NEW d \in Directions
          PROVE  /\ cursor'[u].bytes[d] = None => ideal'[u][d].bytes = 0
                 /\ cursor'[u].bytes[d] # None =>
                       /\ cursor'[u].bytes[d] = ideal'[u][d].bytes /\ cursor'[u].epoch # None
                       /\ ideal'[u][d].proc = proc => Near(cursor'[u].epoch, boot, skew)
      <3>1. CASE u \notin Updated
        BY <1>3, <2>1, <3>1 DEF OnceInv, CursorSound
      <3>2. CASE u \in Updated /\ Got(u, d).bytes = None
        <4>1. cursor'[u].bytes[d] = cursor[u].bytes[d] /\ ideal'[u][d] = ideal[u][d]
              /\ cursor'[u].epoch \in {cursor[u].epoch, round.first.epoch}
          BY <1>4, <1>5, <2>1, <3>2
        <4>2. round.first.epoch # None /\ ReadSound(Got(u, d), u, d) /\ Placed(Got(u, d), u, d)
              /\ Got(u, d).proc \in Nat
          BY <1>1, <2>1, <3>2, GotFacts, Constants DEF Sample
        <4>3. ideal[u][d].proc = proc => Got(u, d).proc = proc
          BY <2>1, <4>2, MeterFacts DEF ReadSound
        <4>4. ideal[u][d].proc = proc => Near(round.first.epoch, boot, skew)
          BY <4>2, <4>3 DEF Placed
        <4> QED BY <2>1, <4>1, <4>2, <4>4 DEF OnceInv, CursorSound
      <3>3. CASE u \in Updated /\ Got(u, d).bytes # None
        <4>1. /\ cursor'[u].bytes[d] = Got(u, d).bytes /\ cursor'[u].epoch = round.first.epoch
              /\ ideal'[u][d].proc = Got(u, d).proc /\ ideal'[u][d].bytes = Got(u, d).bytes
          BY <1>4, <1>5, <2>1, <3>3
        <4>2. round.first.epoch # None /\ Placed(Got(u, d), u, d)
          BY <1>1, <2>1, <3>3, GotFacts, Constants
        <4> QED BY <3>3, <4>1, <4>2 DEF Placed
      <3> QED BY <3>1, <3>2, <3>3
    <2> QED BY <1>1, <2>1 DEF CursorSound
  <1>8. NeverTwice'
    <2>1. ASSUME NEW u \in Users, NEW d \in Directions PROVE total'[u][d] <= ideal'[u][d].sum
      <3>1. CASE u \notin Updated
        BY <1>3, <2>1, <3>1 DEF OnceInv, NeverTwice
      <3>2. CASE u \in Updated
        <4>1. total[u][d] \in Nat /\ ideal[u][d].sum \in Int /\ total[u][d] <= ideal[u][d].sum
          BY <2>1, MeterFacts DEF OnceInv, NeverTwice
        <4> QED BY <1>1, <1>4, <2>1, <3>2, <4>1, GainSound, FittingAtMost
      <3> QED BY <3>1, <3>2
    <2> QED BY <2>1 DEF NeverTwice
  <1> QED BY <1>2, <1>6, <1>7, <1>8 DEF OnceInv

LEMMA InitOnce == Init => OnceInv
  <1> SUFFICES ASSUME Init PROVE OnceInv
    OBVIOUS
  <1>1. /\ \A u \in Users, d \in Directions :
              /\ ideal[u][d] = [proc |-> 1, bytes |-> 0, sum |-> 0] /\ total[u][d] = 0
              /\ counter[u][d] = None /\ cursor[u].bytes[d] = None
        /\ proc = 1 /\ Len(round.reads) = 0 /\ round.first = None /\ round.stage = "idle"
    BY DEF Init, NoCounters, Idle
  <1> QED BY <1>1 DEF OnceInv, CounterSound, CursorSound, ReadsSound, ObservationsSound, NeverTwice

LEMMA TransferGrows ==
  ASSUME MeterSound, NEW u \in Users, NEW d \in Directions, Transfer(u, d)
  PROVE  \A v \in Users, e \in Directions :
            counter[v][e] # None => counter'[v][e] # None /\ counter[v][e] <= counter'[v][e]
  <1> DEFINE old(e) == IF counter[u][e] = None THEN 0 ELSE counter[u][e]
             row == [e \in Directions |-> IF e = d THEN old(e) + 1 ELSE old(e)]
  <1>1. counter' = [counter EXCEPT ![u] = row] /\ counter \in [Users -> [Directions -> Bytes \cup {None}]]
    BY DEF Transfer, MeterSound, MeterTypeOK
  <1>2. \A e \in Directions : counter[u][e] # None => old(e) = counter[u][e] /\ old(e) \in Nat
    BY MeterFacts
  <1> HIDE DEF old
  <1>3. \A e \in Directions : counter[u][e] # None => row[e] \in Nat /\ counter[u][e] <= row[e]
    BY <1>2
  <1> HIDE DEF row
  <1> QED BY <1>1, <1>3, MeterFacts, Constants

LEMMA ClockOnce ==
  ASSUME MeterSound, MeterSound', OnceInv,
         \/ \E u \in Users, d \in Directions : Transfer(u, d)
         \/ Tick \/ ClockBack \/ \E u \in Users : Project(u)
  PROVE  OnceInv'
  <1>1. UNCHANGED <<proc, cursor, total, round, ideal>>
    BY DEF Transfer, Tick, ClockBack, Project, rows, history, xray
  <1>2. boot' <= boot /\ boot' + skew' = boot + skew
    <2>1. CASE ClockBack
      <3>1. boot' = boot - 1 /\ skew' = skew + 1
        BY <2>1 DEF ClockBack
      <3> QED BY <3>1, MeterFacts
    <2>2. CASE UNCHANGED <<boot, skew>>
      BY <2>2, MeterFacts
    <2> QED BY <2>1, <2>2 DEF Transfer, Tick, Project, xray
  <1>3. \A u \in Users, d \in Directions :
            counter[u][d] # None => counter'[u][d] # None /\ counter[u][d] <= counter'[u][d]
    <2>1. CASE UNCHANGED counter
      BY <2>1, MeterFacts
    <2>2. CASE \E u \in Users, d \in Directions : Transfer(u, d)
      BY <2>2, TransferGrows
    <2> QED BY <2>1, <2>2 DEF Tick, ClockBack, Project, xray
  <1> QED BY <1>1, <1>2, <1>3, GentleOnce

THEOREM OnceInvariant == ASSUME Steady PROVE Spec => []OnceInv
  <1>1. MeterSound /\ MeterSound' /\ OnceInv /\ [Next]_vars => OnceInv'
    <2> SUFFICES ASSUME MeterSound, MeterSound', OnceInv, [Next]_vars PROVE OnceInv'
      OBVIOUS
    <2>1. CASE UNCHANGED vars
      <3>1. UNCHANGED <<proc, boot, skew, counter, cursor, total, round, ideal>>
        BY <2>1 DEF vars, xray, rows, history
      <3> QED BY <3>1, GentleOnce, MeterFacts
    <2>2. CASE ReadCounter
      BY <2>2, ReadOutcome, ReadOnOnce, BatchEndOnce, FreshOnce
    <2>3. CASE Next /\ ~ReadCounter
      BY <2>3, ClockOnce, RestartOnce, FreshOnce, ProbeOnce, CommitOnce DEF Next
    <2> QED BY <2>1, <2>2, <2>3
  <1> QED BY <1>1, InitOnce, MeterSoundAlways, PTL DEF Spec

\* No byte is counted twice, in rounds of any number of batches and with
\* restarts at any time but between a probe and its reads.
THEOREM NeverTwiceHolds == ASSUME Steady PROVE Spec => []NeverTwice
  <1>1. OnceInv => NeverTwice
    BY DEF OnceInv
  <1> QED BY <1>1, OnceInvariant, PTL

----------------------------------------------------------------------------
(* No sampled byte is lost.                                                *)

\* Besides, processes live longer than the interval and what may blur their
\* start times, and the columns hold all that is ever sent.
Sparse == /\ Steady /\ MinUptime > Interval + MaxSkew + 1
          /\ MaxTransfers <= MaxInt64

Amount(k)   == IF k = None THEN 0 ELSE k
Seen(m, p)  == IF m.proc = p THEN m.bytes ELSE 0

\* The ideal meter has not counted more than was sent.
LedgerSound == \A u \in Users, d \in Directions :
    ideal[u][d].sum + Amount(counter[u][d]) - Seen(ideal[u][d], proc) <= sent

\* The stored start time of a process that is gone is an earlier one.
EpochsApart == \A u \in Users \ half, d \in Directions :
    cursor[u].bytes[d] # None /\ ideal[u][d].proc < proc => Earlier(cursor[u].epoch, boot, skew)

\* What a read of a process that is gone would add was sent before.
ReadLedger(r, u, d) ==
    r.bytes # None /\ r.proc < proc => Ideal(ideal[u][d], r).sum + Amount(counter[u][d]) <= sent

\* A read of another process than the last sample shows as a restart.
Apart(r, u, d) ==
    u \notin half /\ cursor[u].bytes[d] # None /\ ideal[u][d].proc < r.proc =>
        round.first.epoch - cursor[u].epoch > Interval

ReadsApart == \A i \in 1 .. Len(round.reads) :
    /\ ReadLedger(round.reads[i], UserAt(i), DirAt(i))
    /\ round.reads[i].proc < proc => Earlier(round.first.epoch, boot, skew)
    /\ \/ round.stage = "read" /\ round.reads[i].proc = proc
       \/ Apart(round.reads[i], UserAt(i), DirAt(i))

LossInv == LedgerSound /\ EpochsApart /\ ReadsApart /\ NothingLost

LEMMA SparseFacts ==
  ASSUME Sparse
  PROVE  Slack = 0 /\ MinUptime > Interval + MaxSkew + 1 /\ Steady
  BY Constants DEF Sparse, Slack

LEMMA StartsApart ==
  ASSUME Sparse, NEW b \in Int, NEW s \in Nat, s <= MaxSkew, NEW e \in Int, NEW f \in Int,
         Near(e, b, s), Earlier(f, b, s)
  PROVE  e - f > Interval
  BY SparseFacts, Constants DEF Near, Earlier

LEMMA LeftBehind ==
  ASSUME Sparse, NEW b \in Int, NEW c \in Int, NEW s \in Nat, NEW e \in Int, c >= b + MinUptime
  PROVE  (Near(e, b, s) => Earlier(e, c, s)) /\ (Earlier(e, b, s) => Earlier(e, c, s))
  BY SparseFacts, Constants DEF Near, Earlier

LEMMA LedgerFacts ==
  ASSUME MeterSound, NEW u \in Users, NEW d \in Directions
  PROVE  /\ Amount(counter[u][d]) \in Nat /\ Seen(ideal[u][d], proc) \in Nat /\ ideal[u][d].sum \in Int
         /\ \A r \in Sample : Ideal(ideal[u][d], r).sum \in Int
  <1>1. Amount(counter[u][d]) \in Nat /\ Seen(ideal[u][d], proc) \in Nat /\ ideal[u][d].sum \in Int
    BY MeterFacts DEF Amount, Seen
  <1>2. ASSUME NEW r \in Sample PROVE Ideal(ideal[u][d], r).sum \in Int
    <2>1. ideal[u][d] \in Meters
      BY DEF MeterSound
    <2> QED BY <2>1, Constants DEF Ideal, Meters, Sample, Bytes
  <1> QED BY <1>1, <1>2

LEMMA StillCovered ==
  ASSUME NEW x \in Int, NEW a \in Int, NEW b \in Int, NEW k \in Int, NEW s \in Int, NEW t \in Int,
         b - t <= a - s
  PROVE  /\ x + a - k <= s => x + b - k <= t
         /\ x + a <= s => x + b <= t
  OBVIOUS

\* Steps that keep the process.
LEMMA GentleLoss ==
  ASSUME MeterSound, MeterSound', OnceInv, LossInv, UNCHANGED <<proc, cursor, total, round, ideal, half>>,
         boot' <= boot, boot' + skew' = boot + skew,
         \A u \in Users, d \in Directions :
            Amount(counter'[u][d]) - sent' <= Amount(counter[u][d]) - sent
  PROVE  LossInv'
  <1>1. /\ boot \in Int /\ skew \in Nat /\ boot' \in Int /\ skew' \in Nat /\ sent \in Int /\ sent' \in Int
        /\ counter' \in [Users -> [Directions -> Bytes \cup {None}]]
    BY MeterFacts DEF MeterSound, MeterTypeOK, XraySound
  <1>2. \A e \in Int : Earlier(e, boot, skew) => Earlier(e, boot', skew')
    BY <1>1, ShiftedBack
  <1>3. \A u \in Users, d \in Directions : Amount(counter'[u][d]) \in Int
    BY <1>1 DEF Amount, Bytes
  <1>4. LedgerSound'
    <2>1. ASSUME NEW u \in Users, NEW d \in Directions
          PROVE  ideal[u][d].sum + Amount(counter'[u][d]) - Seen(ideal[u][d], proc) <= sent'
      BY <1>1, <1>3, LedgerFacts, StillCovered DEF LossInv, LedgerSound
    <2> QED BY <2>1 DEF LedgerSound, Seen, Amount
  <1>5. EpochsApart'
    <2>1. \A u \in Users, d \in Directions : cursor[u].bytes[d] # None => cursor[u].epoch \in Int
      BY MeterFacts DEF OnceInv, CursorSound
    <2> QED BY <1>2, <2>1 DEF LossInv, EpochsApart
  <1>6. ASSUME NEW i \in 1 .. Len(round.reads)
        PROVE  /\ ReadLedger(round.reads[i], UserAt(i), DirAt(i))'
               /\ round.reads[i].proc < proc => Earlier(round.first.epoch, boot', skew')
               /\ Apart(round.reads[i], UserAt(i), DirAt(i)) => Apart(round.reads[i], UserAt(i), DirAt(i))'
    <2> DEFINE r == round.reads[i]
               u == UserAt(i)
               d == DirAt(i)
    <2>1. u \in Users /\ d \in Directions /\ r \in Sample /\ r.proc \in Nat
      BY ReadFacts
    <2>2. UNCHANGED <<r, u, d>>
      BY DEF UserAt, DirAt
    <2>3. /\ ReadLedger(r, u, d) /\ (r.proc < proc => Earlier(round.first.epoch, boot, skew))
          /\ (r.proc < proc => round.first # None)
      <3>1. r.proc < proc => r.proc # proc
        BY <2>1, MeterFacts
      <3> QED BY <3>1 DEF LossInv, ReadsApart, OnceInv, ReadsSound
    <2> HIDE DEF r, u, d
    <2>4. ReadLedger(r, u, d)'
      <3>1. Ideal(ideal[u][d], r)' = Ideal(ideal[u][d], r)
        BY <2>2 DEF Ideal
      <3>2. ASSUME Ideal(ideal[u][d], r).sum + Amount(counter[u][d]) <= sent
            PROVE  Ideal(ideal[u][d], r).sum + Amount(counter'[u][d]) <= sent'
        <4> DEFINE x == Ideal(ideal[u][d], r).sum
                   a == Amount(counter[u][d])
                   b == Amount(counter'[u][d])
        <4>1. x \in Int /\ a \in Int /\ b \in Int /\ b - sent' <= a - sent /\ x + a <= sent
          BY <1>3, <2>1, <3>2, LedgerFacts
        <4> HIDE DEF x, a, b
        <4>2. x + b <= sent'
          BY <1>1, <4>1, StillCovered
        <4> QED BY <4>2 DEF x, b
      <3> QED BY <2>2, <2>3, <3>1, <3>2 DEF ReadLedger, Amount
    <2>5. r.proc < proc => Earlier(round.first.epoch, boot', skew')
      BY <1>2, <2>3, MeterFacts
    <2>6. Apart(r, u, d) => Apart(r, u, d)'
      BY <2>2 DEF Apart
    <2> QED BY <2>4, <2>5, <2>6 DEF r, u, d
  <1>7. ReadsApart'
    BY <1>6 DEF LossInv, ReadsApart
  <1> QED BY <1>4, <1>5, <1>7 DEF LossInv, NothingLost

LEMMA RestartLoss ==
  ASSUME Sparse, MeterSound, OnceInv, LossInv, Restart
  PROVE  LossInv'
  <1>1. /\ round.stage # "read" /\ proc' = proc + 1 /\ boot' = now /\ uptime >= MinUptime
        /\ UNCHANGED <<now, sent, skew, present, cursor, total, round, ideal, half>>
        /\ \A u \in Users, d \in Directions : counter'[u][d] = None
    BY SparseFacts DEF Steady, Restart, rows, history, NoCounters
  <1>2. \A e \in Int : (Near(e, boot, skew) => Earlier(e, boot', skew'))
                       /\ (Earlier(e, boot, skew) => Earlier(e, boot', skew'))
    <2>1. now >= boot + uptime
      BY MeterFacts, ClockPastStart
    <2>2. now \in Int /\ boot \in Int /\ skew \in Nat /\ now >= boot + MinUptime
      BY <1>1, <2>1, MeterFacts, Constants
    <2> QED BY <1>1, <2>2, LeftBehind
  <1>3. \A k \in Nat : k <= proc => k # proc' /\ k < proc' /\ (k < proc \/ k = proc)
    BY <1>1, MeterFacts
  <1>4. \A u \in Users, d \in Directions :
            ideal[u][d].proc # proc' /\ (ideal[u][d].proc < proc \/ ideal[u][d].proc = proc)
    BY <1>3, MeterFacts DEF OnceInv, CounterSound
  <1>5. LedgerSound'
    <2>1. ASSUME NEW u \in Users, NEW d \in Directions
          PROVE  ideal[u][d].sum + 0 - 0 <= sent
      <3>1. ideal[u][d].sum + Amount(counter[u][d]) - Seen(ideal[u][d], proc) <= sent
        BY DEF LossInv, LedgerSound
      <3>2. Seen(ideal[u][d], proc) <= Amount(counter[u][d])
        <4>1. CASE ideal[u][d].proc = proc
          BY <4>1, MeterFacts DEF OnceInv, CounterSound, Seen, Amount
        <4>2. CASE ideal[u][d].proc # proc
          BY <4>2, MeterFacts DEF Seen, Amount
        <4> QED BY <4>1, <4>2
      <3>3. sent \in Int
        BY MeterFacts
      <3> DEFINE x == ideal[u][d].sum
                 a == Amount(counter[u][d])
                 k == Seen(ideal[u][d], proc)
      <3>4. x \in Int /\ a \in Nat /\ k \in Nat /\ x + a - k <= sent /\ k <= a
        BY <3>1, <3>2, LedgerFacts
      <3> HIDE DEF x, a, k
      <3>5. x + 0 - 0 <= sent
        BY <3>3, <3>4
      <3> QED BY <3>5 DEF x
    <2>2. ASSUME NEW u \in Users, NEW d \in Directions
          PROVE  Seen(ideal[u][d], proc') = 0 /\ Amount(counter'[u][d]) = 0
      BY <1>1, <1>4 DEF Seen, Amount
    <2> QED BY <1>1, <2>1, <2>2 DEF LedgerSound, Seen, Amount
  <1>6. EpochsApart'
    <2>1. ASSUME NEW u \in Users \ half, NEW d \in Directions, cursor[u].bytes[d] # None
          PROVE  Earlier(cursor[u].epoch, boot', skew')
      <3>1. cursor[u].epoch \in Int /\ (ideal[u][d].proc = proc => Near(cursor[u].epoch, boot, skew))
        BY <2>1, MeterFacts DEF OnceInv, CursorSound
      <3>2. ideal[u][d].proc < proc => Earlier(cursor[u].epoch, boot, skew)
        BY <2>1 DEF LossInv, EpochsApart
      <3> QED BY <1>2, <1>4, <3>1, <3>2
    <2> QED BY <1>1, <2>1 DEF EpochsApart
  <1>7. ASSUME NEW i \in 1 .. Len(round.reads)
        PROVE  /\ ReadLedger(round.reads[i], UserAt(i), DirAt(i))'
               /\ Earlier(round.first.epoch, boot', skew')
               /\ Apart(round.reads[i], UserAt(i), DirAt(i))'
    <2> DEFINE r == round.reads[i]
               u == UserAt(i)
               d == DirAt(i)
    <2>1. u \in Users /\ d \in Directions /\ r \in Sample /\ r.proc \in Nat
          /\ (r.bytes # None => r.bytes \in Nat)
      BY ReadFacts
    <2>2. UNCHANGED <<r, u, d>>
      BY <1>1 DEF UserAt, DirAt
    <2>3. /\ ReadSound(r, u, d) /\ round.first # None /\ Placed(r, u, d) /\ ReadLedger(r, u, d)
          /\ (r.proc < proc => Earlier(round.first.epoch, boot, skew)) /\ Apart(r, u, d)
      BY <1>1 DEF LossInv, ReadsApart, OnceInv, ReadsSound
    <2> HIDE DEF r, u, d
    <2>4. r.proc < proc \/ r.proc = proc
      BY <1>3, <2>1, <2>3 DEF ReadSound
    <2>5. Earlier(round.first.epoch, boot', skew')
      BY <1>2, <2>3, <2>4, MeterFacts DEF Placed
    <2>6. Apart(r, u, d)'
      BY <1>1, <2>2, <2>3 DEF Apart
    <2>7. ASSUME r.bytes # None PROVE Ideal(ideal[u][d], r).sum + 0 <= sent
      <3> DEFINE x == Ideal(ideal[u][d], r).sum
                 y == ideal[u][d].sum
                 a == Amount(counter[u][d])
                 k == Seen(ideal[u][d], proc)
                 b == r.bytes
      <3>1. x \in Int /\ y \in Int /\ a \in Nat /\ k \in Nat /\ b \in Nat /\ sent \in Int
        BY <2>1, <2>7, LedgerFacts, MeterFacts
      <3>2. CASE r.proc = proc
        <4>1. y + a - k <= sent
          BY <2>1 DEF LossInv, LedgerSound
        <4>2. b <= a
          BY <2>3, <2>7, <3>2 DEF ReadSound, Amount
        <4>3. x = y + (b - k)
          <5>1. x = y + (IF r.proc = ideal[u][d].proc THEN b - ideal[u][d].bytes ELSE b)
            BY <2>7 DEF Ideal
          <5>2. k = IF ideal[u][d].proc = r.proc THEN ideal[u][d].bytes ELSE 0
            BY <3>2 DEF Seen
          <5>3. CASE ideal[u][d].proc = r.proc
            BY <5>1, <5>2, <5>3
          <5>4. CASE ideal[u][d].proc # r.proc
            <6>1. x = y + b /\ k = 0
              BY <5>1, <5>2, <5>4
            <6> HIDE DEF x, y, k, b
            <6> QED BY <3>1, <6>1
          <5> QED BY <5>3, <5>4
        <4> HIDE DEF x, y, a, k, b
        <4>4. x + 0 <= sent
          BY <3>1, <4>1, <4>2, <4>3
        <4> QED BY <4>4 DEF x
      <3>3. CASE r.proc < proc
        <4>1. x + a <= sent
          BY <2>3, <2>7, <3>3 DEF ReadLedger
        <4> HIDE DEF x, y, a, k, b
        <4>2. x + 0 <= sent
          BY <3>1, <4>1
        <4> QED BY <4>2 DEF x
      <3> QED BY <2>4, <3>2, <3>3
    <2>8. ReadLedger(r, u, d)'
      <3>1. Ideal(ideal[u][d], r)' = Ideal(ideal[u][d], r) /\ Amount(counter'[u][d]) = 0
        BY <1>1, <2>1, <2>2 DEF Ideal, Amount
      <3> QED BY <1>1, <2>2, <2>7, <3>1 DEF ReadLedger, Amount
    <2> QED BY <2>5, <2>6, <2>8 DEF r, u, d
  <1>8. ReadsApart'
    BY <1>1, <1>7 DEF ReadsApart
  <1> QED BY <1>1, <1>5, <1>6, <1>8 DEF LossInv, NothingLost

LEMMA InitLoss == Init => LossInv
  <1> SUFFICES ASSUME Init PROVE LossInv
    OBVIOUS
  <1>1. /\ \A u \in Users, d \in Directions :
              /\ ideal[u][d] = [proc |-> 1, bytes |-> 0, sum |-> 0] /\ total[u][d] = 0
              /\ counter[u][d] = None /\ cursor[u].bytes[d] = None
        /\ proc = 1 /\ Len(round.reads) = 0 /\ sent = 0
    BY DEF Init, NoCounters, Idle
  <1> QED BY <1>1 DEF LossInv, LedgerSound, EpochsApart, ReadsApart, NothingLost, Amount, Seen

LEMMA TransferCounts ==
  ASSUME MeterSound, NEW u \in Users, NEW d \in Directions, Transfer(u, d),
         NEW v \in Users, NEW e \in Directions
  PROVE  Amount(counter'[v][e]) - sent' <= Amount(counter[v][e]) - sent
  <1> DEFINE old(x) == IF counter[u][x] = None THEN 0 ELSE counter[u][x]
             row == [x \in Directions |-> IF x = d THEN old(x) + 1 ELSE old(x)]
  <1>1. /\ counter' = [counter EXCEPT ![u] = row] /\ sent' = sent + 1
        /\ counter \in [Users -> [Directions -> Bytes \cup {None}]]
    BY DEF Transfer, MeterSound, MeterTypeOK
  <1>2. old(e) \in Nat /\ (v = u => old(e) = Amount(counter[v][e]))
    BY MeterFacts DEF Amount
  <1>3. row[e] \in Nat /\ row[e] <= old(e) + 1
    <2> HIDE DEF old
    <2> QED BY <1>2
  <1>4. counter'[v][e] = IF v = u THEN row[e] ELSE counter[v][e]
    <2> HIDE DEF row
    <2> QED BY <1>1
  <1>5. Amount(row[e]) = row[e]
    <2> HIDE DEF row
    <2> QED BY <1>3, Constants DEF Amount
  <1> DEFINE new == Amount(counter'[v][e])
             was == Amount(counter[v][e])
  <1>6. new \in Int /\ was \in Int /\ sent \in Int /\ new <= was + 1
    <2>1. was \in Int /\ sent \in Int
      BY LedgerFacts, MeterFacts
    <2>2. CASE v = u
      <3>1. new = row[e] /\ was = old(e)
        BY <1>2, <1>4, <1>5, <2>2
      <3> HIDE DEF new, was, row, old
      <3> QED BY <1>2, <1>3, <3>1, <2>1
    <2>3. CASE v # u
      <3>1. new = was
        BY <1>4, <2>3
      <3> HIDE DEF new, was
      <3> QED BY <2>1, <3>1
    <2> QED BY <2>2, <2>3
  <1> HIDE DEF new, was
  <1>7. new - (sent + 1) <= was - sent
    BY <1>6
  <1> QED BY <1>1, <1>7 DEF new, was

LEMMA ClockLoss ==
  ASSUME MeterSound, MeterSound', OnceInv, LossInv,
         \/ \E u \in Users, d \in Directions : Transfer(u, d)
         \/ Tick \/ ClockBack \/ \E u \in Users : Project(u)
  PROVE  LossInv'
  <1>1. UNCHANGED <<proc, cursor, total, round, ideal, half>>
    BY DEF Transfer, Tick, ClockBack, Project, rows, history, xray
  <1>2. boot' <= boot /\ boot' + skew' = boot + skew
    <2>1. CASE ClockBack
      <3>1. boot' = boot - 1 /\ skew' = skew + 1
        BY <2>1 DEF ClockBack
      <3> QED BY <3>1, MeterFacts
    <2>2. CASE UNCHANGED <<boot, skew>>
      BY <2>2, MeterFacts
    <2> QED BY <2>1, <2>2 DEF Transfer, Tick, Project, xray
  <1>3. \A u \in Users, d \in Directions :
            Amount(counter'[u][d]) - sent' <= Amount(counter[u][d]) - sent
    <2>1. CASE UNCHANGED <<counter, sent>>
      <3>1. \A u \in Users, d \in Directions : Amount(counter[u][d]) \in Int /\ sent \in Int
        BY LedgerFacts, MeterFacts
      <3>2. \A x, y \in Int : x - y <= x - y
        OBVIOUS
      <3> QED BY <2>1, <3>1, <3>2
    <2>2. CASE \E u \in Users, d \in Directions : Transfer(u, d)
      BY <2>2, TransferCounts
    <2> QED BY <2>1, <2>2 DEF Tick, ClockBack, Project, xray
  <1> QED BY <1>1, <1>2, <1>3, GentleLoss

LEMMA FreshLoss ==
  ASSUME MeterSound, OnceInv, LossInv, BeginRound \/ DropRound \/ (ReadCounter /\ round' = Idle)
  PROVE  LossInv'
  <1>1. UNCHANGED <<proc, boot, counter, sent, skew, cursor, total, ideal, half>>
    BY DEF BeginRound, DropRound, ReadCounter, xray, rows, history
  <1>2. Len(round'.reads) = 0
    <2>1. CASE BeginRound
      <3>1. PICK ts : round' = [Idle EXCEPT !.stage = "probe", !.targets = ts]
        BY <2>1 DEF BeginRound
      <3> QED BY <3>1 DEF Idle
    <2>2. CASE round' = Idle
      BY <2>2 DEF Idle
    <2> QED BY <2>1, <2>2 DEF DropRound
  <1>3. ReadsApart'
    BY <1>2 DEF ReadsApart
  <1>4. LedgerSound' /\ EpochsApart' /\ NothingLost'
    BY <1>1 DEF LossInv, LedgerSound, EpochsApart, NothingLost
  <1> QED BY <1>3, <1>4 DEF LossInv

LEMMA ProbeLoss ==
  ASSUME MeterSound, LossInv, Probe
  PROVE  LossInv'
  <1>1. /\ UNCHANGED <<proc, boot, counter, sent, skew, cursor, total, ideal, half>>
        /\ round.stage = "probe" /\ round \in Round
    BY DEF Probe, xray, rows, history, MeterSound, RoundSound
  <1>2. round'.reads = round.reads /\ round'.targets = round.targets /\ round'.first = round.first
    BY <1>1 DEF Probe, Round
  <1>3. LedgerSound' /\ EpochsApart' /\ NothingLost'
    BY <1>1 DEF LossInv, LedgerSound, EpochsApart, NothingLost
  <1>4. ReadsApart'
    BY <1>1, <1>2 DEF LossInv, ReadsApart, ReadLedger, Apart, UserAt, DirAt
  <1> QED BY <1>3, <1>4 DEF LossInv

\* The reads after one more call, seen from before it.
LEMMA ApartSoFar ==
  ASSUME MeterSound, OnceInv, LossInv, ReadCounter, NEW i \in 1 .. Len(round.reads) + 1,
         NEW r, r = Append(round.reads, NextRead)[i]
  PROVE  /\ ReadLedger(r, UserAt(i), DirAt(i))
         /\ r.proc < proc => round.first # None /\ Earlier(round.first.epoch, boot, skew)
         /\ r.proc = proc \/ (round.first # None /\ Apart(r, UserAt(i), DirAt(i)))
  <1>1. Len(round.reads) \in Nat
    BY DEF MeterSound, RoundSound, Round
  <1>2. ~(proc < proc)
    BY MeterFacts
  <1>3. CASE r.proc = proc
    BY <1>2, <1>3 DEF ReadLedger
  <1>4. CASE r.proc # proc
    <2>1. i \in 1 .. Len(round.reads) /\ r = round.reads[i] /\ round.first # None
      BY <1>1, <1>4, ReadsSoFar
    <2> QED BY <1>4, <2>1 DEF LossInv, ReadsApart
  <1> QED BY <1>3, <1>4

LEMMA ReadOnLoss ==
  ASSUME MeterSound, OnceInv, LossInv, ReadCounter, round' = WithRead
  PROVE  LossInv'
  <1>1. UNCHANGED <<proc, boot, counter, sent, skew, cursor, total, ideal, half>> /\ round.stage = "read"
    BY DEF ReadCounter, xray, rows, history
  <1>2. round \in Round /\ Len(round.reads) \in Nat
    BY DEF MeterSound, RoundSound, Round
  <1>3. /\ round'.reads = Append(round.reads, NextRead) /\ round'.targets = round.targets
        /\ round'.first = round.first /\ round'.stage = "read"
        /\ Len(round'.reads) = Len(round.reads) + 1
    BY <1>1, <1>2 DEF WithRead, Round
  <1>4. LedgerSound' /\ EpochsApart' /\ NothingLost'
    BY <1>1 DEF LossInv, LedgerSound, EpochsApart, NothingLost
  <1>5. ReadsApart'
    <2>1. ASSUME NEW i \in 1 .. Len(round'.reads)
          PROVE  LET r == round'.reads[i] IN
                 /\ ReadLedger(r, UserAt(i), DirAt(i))
                 /\ r.proc < proc => Earlier(round.first.epoch, boot, skew)
                 /\ r.proc = proc \/ Apart(r, UserAt(i), DirAt(i))
      BY <1>3, ApartSoFar
    <2> QED BY <1>1, <1>3, <2>1 DEF ReadsApart, ReadLedger, Apart, UserAt, DirAt
  <1> QED BY <1>4, <1>5 DEF LossInv

\* A batch that ends fixes what its reads are compared by.
LEMMA BatchEndLoss ==
  ASSUME Sparse, MeterSound, MeterSound', OnceInv, OnceInv', LossInv, ReadCounter,
         round' = EndBatch(WithRead), round' # Idle
  PROVE  LossInv'
  <1> DEFINE n == Len(round.reads)
  <1>1. UNCHANGED <<proc, boot, counter, sent, skew, cursor, total, ideal, half>> /\ round.stage = "read"
    BY DEF ReadCounter, xray, rows, history
  <1>2. round \in Round /\ n \in Nat /\ NextRead \in Sample
    BY ReadOutcome DEF MeterSound, RoundSound, Round
  <1>3. /\ round'.reads = Append(round.reads, NextRead) /\ round'.targets = round.targets
        /\ round'.first = (IF round.first = None THEN round.current ELSE round.first)
        /\ round'.stage # "read" /\ Len(round'.reads) = n + 1
    <2>1. round' = [stage |-> IF RoundDone(n + 1) THEN "commit" ELSE "probe",
                    targets |-> round.targets, reads |-> Append(round.reads, NextRead),
                    first |-> IF round.first = None THEN round.current ELSE round.first,
                    previous |-> round.current, current |-> None]
      BY <1>1, <1>2, EndBatchRound DEF WithRead
    <2> QED BY <1>2, <2>1 DEF Round
  <1>4. LedgerSound' /\ EpochsApart' /\ NothingLost'
    BY <1>1 DEF LossInv, LedgerSound, EpochsApart, NothingLost
  <1>5. Near(round'.first.epoch, boot, skew) /\ round'.first.epoch \in Int
    <2>1. n + 1 \in 1 .. Len(round'.reads) /\ round'.reads[n + 1].proc = proc
      BY <1>2, <1>3, ReadsSoFar
    <2>2. round'.first # None /\ Near(round'.first.epoch, boot', skew')
      <3> HIDE DEF n
      <3>1. \A i \in 1 .. Len(round'.reads) : round'.reads[i].proc = proc' =>
               round'.first # None /\ Near(round'.first.epoch, boot', skew')
        BY <1>3 DEF OnceInv, ReadsSound, Placed
      <3> QED BY <1>1, <2>1, <3>1
    <2>3. round'.first.epoch \in Int
      BY <2>2 DEF MeterSound, RoundSound, Round, Observation
    <2> QED BY <1>1, <2>2, <2>3
  <1>6. ASSUME NEW i \in 1 .. n + 1, NEW r, r = round'.reads[i]
        PROVE  LET u == UserAt(i)
                   d == DirAt(i)
               IN  /\ ReadLedger(r, u, d)
                   /\ r.proc < proc => Earlier(round'.first.epoch, boot, skew)
                   /\ u \notin half /\ cursor[u].bytes[d] # None /\ ideal[u][d].proc < r.proc =>
                        round'.first.epoch - cursor[u].epoch > Interval
    <2> DEFINE u == UserAt(i)
               d == DirAt(i)
    <2>1. /\ ReadLedger(r, u, d) /\ (r.proc < proc => round.first # None /\ Earlier(round.first.epoch, boot, skew))
          /\ r.proc = proc \/ (round.first # None /\ Apart(r, u, d))
      BY <1>3, <1>6, ApartSoFar
    <2>2. u \in Users /\ d \in Directions
      BY <1>3, <1>6, ReadsSoFar
    <2> HIDE DEF u, d
    <2>3. ASSUME u \notin half, cursor[u].bytes[d] # None, ideal[u][d].proc < r.proc
          PROVE  round'.first.epoch - cursor[u].epoch > Interval
      <3>1. CASE r.proc = proc
        <4>1. Earlier(cursor[u].epoch, boot, skew) /\ cursor[u].epoch \in Int
          BY <2>2, <2>3, <3>1, MeterFacts DEF LossInv, EpochsApart, OnceInv, CursorSound
        <4> QED BY <1>5, <4>1, StartsApart, MeterFacts
      <3>2. CASE round.first # None /\ Apart(r, u, d)
        BY <1>3, <2>3, <3>2 DEF Apart
      <3> QED BY <2>1, <3>1, <3>2
    <2> QED BY <1>3, <2>1, <2>3 DEF u, d
  <1>7. ReadsApart'
    BY <1>1, <1>3, <1>6 DEF ReadsApart, ReadLedger, Apart, UserAt, DirAt
  <1> QED BY <1>4, <1>7 DEF LossInv

\* A change of process that is told as a restart, and only that, is counted
\* from zero: then domain.ApplySample adds all that the meter adds.
LEMMA GainAtLeast ==
  ASSUME NEW m \in Meters, NEW g \in Sample, NEW stored \in Bytes \cup {None}, NEW restart \in BOOLEAN,
         stored = None => m.bytes = 0, stored # None => stored = m.bytes,
         g.bytes # None /\ g.proc = m.proc => m.bytes <= g.bytes,
         g.bytes # None /\ stored # None /\ g.proc # m.proc => restart
  PROVE  Ideal(m, g).sum <= m.sum + Delta(stored, g.bytes, restart)
  <1>1. /\ m.sum \in Int /\ m.bytes \in Nat /\ g.bytes \in Nat \cup {None} /\ stored \in Nat \cup {None}
        /\ None \notin Int
    BY Constants DEF Meters, Sample, Bytes
  <1>2. CASE g.bytes = None
    BY <1>1, <1>2 DEF Delta, Ideal
  <1>3. CASE g.bytes # None
    <2>1. Ideal(m, g).sum = m.sum + (IF g.proc = m.proc THEN g.bytes - m.bytes ELSE g.bytes)
      BY <1>3 DEF Ideal
    <2>2. g.bytes \in Nat
      BY <1>1, <1>3
    <2>3. CASE stored = None
      BY <1>1, <1>3, <2>1, <2>2, <2>3 DEF Delta
    <2>4. CASE stored # None /\ restart
      BY <1>1, <1>3, <2>1, <2>2, <2>4 DEF Delta
    <2>5. CASE stored # None /\ ~restart
      BY <1>1, <1>3, <2>1, <2>2, <2>5 DEF Delta
    <2> QED BY <2>3, <2>4, <2>5
  <1> QED BY <1>2, <1>3

\* What a commit knows besides.
LEMMA GotApart ==
  ASSUME MeterSound, LossInv, round.stage = "commit", NEW u \in Updated, NEW d \in Directions
  PROVE  /\ ReadLedger(Got(u, d), u, d) /\ Apart(Got(u, d), u, d)
         /\ Got(u, d).proc < proc => Earlier(round.first.epoch, boot, skew)
  <1>1. /\ ReadOf(u, d) \in 1 .. Len(round.reads)
        /\ UserAt(ReadOf(u, d)) = u /\ DirAt(ReadOf(u, d)) = d
    BY ReadOfFacts
  <1> QED BY <1>1 DEF LossInv, ReadsApart, Got

LEMMA GainWhole ==
  ASSUME MeterSound, OnceInv, LossInv, round.stage = "commit",
         NEW u \in Updated, u \notin half, NEW d \in Directions
  PROVE  Ideal(ideal[u][d], Got(u, d)).sum <= ideal[u][d].sum + Gain(u, d)
  <1> DEFINE m == ideal[u][d]
             g == Got(u, d)
             stored == cursor[u].bytes[d]
             restart == Restarted(cursor[u], round.first)
  <1>0. u \in Users
    BY GotFacts
  <1>1. m \in Meters /\ g \in Sample /\ stored \in Bytes \cup {None} /\ restart \in BOOLEAN
    BY <1>0, GotFacts DEF MeterSound, MeterTypeOK, Cursor, Restarted
  <1>2. ReadSound(g, u, d) /\ Apart(g, u, d) /\ round.first.known
    BY GotFacts, GotApart
  <1>3. (stored = None => m.bytes = 0) /\ (stored # None => stored = m.bytes)
    BY <1>0 DEF OnceInv, CursorSound
  <1>4. g.bytes # None /\ g.proc = m.proc => m.bytes <= g.bytes
    BY <1>2 DEF ReadSound
  <1>5. ASSUME stored # None, g.proc # m.proc PROVE restart
    <2>1. cursor[u].epoch # None
      BY <1>0, <1>5 DEF OnceInv, CursorSound
    <2>2. m.proc <= g.proc /\ m.proc \in Nat /\ g.proc \in Nat
      BY <1>1, <1>2 DEF ReadSound, Meters, Sample
    <2>3. m.proc < g.proc
      <3> HIDE DEF m, g
      <3> QED BY <1>5, <2>2
    <2>4. round.first.epoch - cursor[u].epoch > Interval
      BY <1>2, <1>5, <2>3 DEF Apart
    <2> QED BY <1>2, <2>1, <2>4 DEF Restarted, RestartConfirmed
  <1>6. Gain(u, d) = Delta(stored, g.bytes, restart)
    BY DEF Gain
  <1> HIDE DEF m, g, stored, restart
  <1>7. Ideal(m, g).sum <= m.sum + Gain(u, d)
    BY <1>1, <1>3, <1>4, <1>5, <1>6, GainAtLeast
  <1> QED BY <1>7 DEF m, g

LEMMA FittingWhole ==
  ASSUME NEW t \in Nat, NEW x \in Nat, NEW y \in Int, NEW z \in Int, NEW s \in Nat,
         t = y, y + x = z, z <= s, s <= MaxInt64
  PROVE  t + Fitting(t, x) >= z
  BY Constants DEF Fitting

LEMMA SentCovers ==
  ASSUME NEW x \in Int, NEW a \in Nat, NEW k \in Nat, NEW s \in Int, x + a - k <= s, k <= a
  PROVE  x <= s
  OBVIOUS

LEMMA Rebooked ==
  ASSUME NEW y \in Int, NEW a \in Nat, NEW k \in Nat, NEW b \in Nat, NEW s \in Int, y + a - k <= s
  PROVE  (y + (b - k)) + a - b <= s
  OBVIOUS

LEMMA CommitLoss ==
  ASSUME Sparse, MeterSound, MeterSound', OnceInv, OnceInv', LossInv, Commit
  PROVE  LossInv'
  <1>1. round.stage = "commit" /\ UNCHANGED <<proc, boot, counter, sent, skew>> /\ round' = Idle
    BY CommitShape DEF xray
  <1>2. ReadsApart'
    <2>1. Len(round'.reads) = 0
      BY <1>1 DEF Idle
    <2> QED BY <2>1 DEF ReadsApart
  <1>3. ASSUME NEW u \in Users, u \notin Updated, NEW d \in Directions
        PROVE  cursor'[u] = cursor[u] /\ ideal'[u][d] = ideal[u][d] /\ total'[u][d] = total[u][d]
    BY <1>3, CommitShape
  <1>4. ASSUME NEW u \in Updated, u \notin half'
        PROVE  /\ u \notin half
               /\ \/ \A d \in Directions : Got(u, d).bytes = None
                  \/ \A d \in Directions : Got(u, d).bytes # None
    BY <1>4, CommitShape DEF Directions
  <1>5. ASSUME NEW u \in Users, NEW d \in Directions
        PROVE  ideal'[u][d].sum + Amount(counter[u][d]) - Seen(ideal'[u][d], proc) <= sent
    <2>1. CASE u \notin Updated \/ (u \in Updated /\ Got(u, d).bytes = None)
      <3>1. ideal'[u][d] = ideal[u][d]
        BY <1>3, <1>5, <2>1, CommitFields
      <3> QED BY <1>5, <3>1 DEF LossInv, LedgerSound
    <2>2. CASE u \in Updated /\ Got(u, d).bytes # None
      <3> DEFINE m == ideal[u][d]
                 g == Got(u, d)
                 x == Ideal(m, g).sum
                 y == m.sum
                 a == Amount(counter[u][d])
                 k == Seen(m, proc)
                 b == g.bytes
      <3>1. g \in Sample /\ ReadSound(g, u, d) /\ ReadLedger(g, u, d)
        BY <1>1, <2>2, GotFacts, GotApart
      <3>2. g.proc \in Nat /\ b \in Nat /\ x \in Int /\ y \in Int /\ a \in Nat /\ k \in Nat /\ sent \in Int
        BY <1>5, <2>2, <3>1, LedgerFacts, MeterFacts, Constants DEF Sample, Bytes
      <3>3. ideal'[u][d] = Ideal(m, g) /\ ideal'[u][d].proc = g.proc /\ ideal'[u][d].bytes = b
        BY <2>2, CommitFields
      <3>4. CASE g.proc = proc
        <4>1. y + a - k <= sent
          BY <1>5 DEF LossInv, LedgerSound
        <4>2. Seen(ideal'[u][d], proc) = b
          BY <3>3, <3>4 DEF Seen
        <4>3. x = y + (b - k)
          <5>1. x = y + (IF g.proc = m.proc THEN b - m.bytes ELSE b)
            BY <2>2 DEF Ideal
          <5>2. k = IF m.proc = g.proc THEN m.bytes ELSE 0
            BY <3>4 DEF Seen
          <5>3. CASE m.proc = g.proc
            BY <5>1, <5>2, <5>3
          <5>4. CASE m.proc # g.proc
            <6>1. x = y + b /\ k = 0
              BY <5>1, <5>2, <5>4
            <6> HIDE DEF x, y, k, b
            <6> QED BY <3>2, <6>1
          <5> QED BY <5>3, <5>4
        <4> HIDE DEF m, g, x, y, a, k, b
        <4>4. x + a - b <= sent
          BY <3>2, <4>1, <4>3, Rebooked
        <4> QED BY <3>3, <4>2, <4>4 DEF x, a
      <3>5. CASE g.proc # proc
        <4>1. g.proc < proc
          <5>1. g.proc <= proc /\ proc \in Nat
            BY <3>1, MeterFacts DEF ReadSound
          <5> HIDE DEF g
          <5> QED BY <3>2, <3>5, <5>1
        <4>2. x + a <= sent
          BY <2>2, <3>1, <4>1 DEF ReadLedger
        <4>3. Seen(ideal'[u][d], proc) = 0
          BY <3>3, <3>5 DEF Seen
        <4> HIDE DEF m, g, x, y, a, k, b
        <4>4. x + a - 0 <= sent
          BY <3>2, <4>2
        <4> QED BY <3>3, <4>3, <4>4 DEF x, a
      <3> QED BY <3>4, <3>5
    <2> QED BY <2>1, <2>2
  <1>6. LedgerSound'
    BY <1>1, <1>5 DEF LedgerSound, Amount, Seen
  <1>7. EpochsApart'
    <2>1. ASSUME NEW u \in Users, u \notin half', NEW d \in Directions,
                 cursor'[u].bytes[d] # None, ideal'[u][d].proc < proc
          PROVE  Earlier(cursor'[u].epoch, boot, skew)
      <3>1. CASE u \notin Updated
        <4>1. u \notin half
          BY <2>1, CommitShape
        <4> QED BY <1>3, <2>1, <3>1, <4>1 DEF LossInv, EpochsApart
      <3>2. CASE u \in Updated /\ \A e \in Directions : Got(u, e).bytes = None
        <4>1. cursor'[u].epoch = cursor[u].epoch /\ cursor'[u].bytes[d] = cursor[u].bytes[d]
              /\ ideal'[u][d] = ideal[u][d]
          BY <2>1, <3>2, CommitFields
        <4> QED BY <1>4, <2>1, <3>2, <4>1 DEF LossInv, EpochsApart
      <3>3. CASE u \in Updated /\ \A e \in Directions : Got(u, e).bytes # None
        <4>1. cursor'[u].epoch = round.first.epoch /\ ideal'[u][d].proc = Got(u, d).proc
          BY <2>1, <3>3, CommitFields
        <4> QED BY <1>1, <2>1, <3>3, <4>1, GotApart
      <3> QED BY <1>4, <2>1, <3>1, <3>2, <3>3
    <2> QED BY <1>1, <2>1 DEF EpochsApart
  <1>8. NothingLost'
    <2>1. ASSUME NEW u \in Users, u \notin half', NEW d \in Directions
          PROVE  total'[u][d] >= ideal'[u][d].sum
      <3>1. u \notin half
        BY <2>1, CommitShape
      <3>2. total[u][d] \in Nat /\ ideal[u][d].sum \in Int
            /\ total[u][d] <= ideal[u][d].sum /\ total[u][d] >= ideal[u][d].sum
        BY <2>1, <3>1, MeterFacts DEF OnceInv, NeverTwice, LossInv, NothingLost
      <3>3. CASE u \notin Updated
        BY <1>3, <2>1, <3>2, <3>3
      <3>4. CASE u \in Updated
        <4> DEFINE t == total[u][d]
                   x == Gain(u, d)
                   y == ideal[u][d].sum
                   z == Ideal(ideal[u][d], Got(u, d)).sum
        <4>1. x \in Nat /\ z \in Int /\ y + x <= z /\ z <= y + x
          BY <1>1, <2>1, <3>1, <3>4, GainSound, GainWhole
        <4>2. ideal'[u][d].sum = z /\ total'[u][d] = t + Fitting(t, x)
          BY <2>1, <3>4, CommitFields
        <4>3. z <= sent
          <5> DEFINE a == Amount(counter[u][d])
                     k == Seen(ideal'[u][d], proc)
          <5>1. z + a - k <= sent
            BY <1>5, <2>1, <4>2
          <5>2. a \in Nat /\ sent \in Int
            BY <2>1, LedgerFacts, MeterFacts
          <5>3. ideal'[u][d].bytes \in Nat
            BY <2>1 DEF MeterSound, Meters, Bytes
          <5>4. k \in Nat /\ k <= a
            <6>1. ASSUME ideal'[u][d].proc = proc PROVE ideal'[u][d].bytes <= a
              <7>1. counter[u][d] = None => ideal'[u][d].bytes = 0
                BY <1>1, <2>1, <6>1 DEF OnceInv, CounterSound
              <7>2. counter[u][d] # None => ideal'[u][d].bytes <= counter[u][d]
                BY <1>1, <2>1, <6>1 DEF OnceInv, CounterSound
              <7> QED BY <7>1, <7>2 DEF Amount
            <6>2. CASE ideal'[u][d].proc = proc
              BY <5>3, <6>1, <6>2 DEF Seen
            <6>3. CASE ideal'[u][d].proc # proc
              <7>1. k = 0
                BY <6>3 DEF Seen
              <7> HIDE DEF a, k
              <7> QED BY <5>2, <7>1
            <6> QED BY <6>2, <6>3
          <5> HIDE DEF a, k, z
          <5> QED BY <4>1, <5>1, <5>2, <5>4, SentCovers
        <4> HIDE DEF t, x, y, z
        <4>4. t \in Nat /\ y \in Int /\ t = y /\ y + x = z
          <5>1. t \in Nat /\ y \in Int /\ t <= y /\ t >= y
            BY <3>2 DEF t, y
          <5> QED BY <4>1, <5>1
        <4>5. sent \in Nat /\ sent <= MaxInt64
          BY MeterFacts, Constants DEF Sparse
        <4>6. t + Fitting(t, x) >= z
          BY <4>1, <4>3, <4>4, <4>5, FittingWhole
        <4> QED BY <4>2, <4>6
      <3> QED BY <3>3, <3>4
    <2> QED BY <2>1 DEF NothingLost
  <1> QED BY <1>2, <1>6, <1>7, <1>8 DEF LossInv

THEOREM LossInvariant == ASSUME Sparse PROVE Spec => []LossInv
  <1>1. MeterSound /\ MeterSound' /\ OnceInv /\ OnceInv' /\ LossInv /\ [Next]_vars => LossInv'
    <2> SUFFICES ASSUME MeterSound, MeterSound', OnceInv, OnceInv', LossInv, [Next]_vars PROVE LossInv'
      OBVIOUS
    <2>1. CASE UNCHANGED vars
      <3>1. UNCHANGED <<proc, boot, skew, counter, sent, cursor, total, round, ideal, half>>
        BY <2>1 DEF vars, xray, rows, history
      <3>2. LedgerSound' /\ EpochsApart' /\ NothingLost'
        BY <3>1 DEF LossInv, LedgerSound, EpochsApart, NothingLost
      <3>3. ReadsApart'
        BY <3>1 DEF LossInv, ReadsApart, ReadLedger, Apart, UserAt, DirAt
      <3> QED BY <3>2, <3>3 DEF LossInv
    <2>2. CASE ReadCounter
      BY <2>2, ReadOutcome, ReadOnLoss, BatchEndLoss, FreshLoss
    <2>3. CASE Next /\ ~ReadCounter
      BY <2>3, ClockLoss, RestartLoss, FreshLoss, ProbeLoss, CommitLoss DEF Next
    <2> QED BY <2>1, <2>2, <2>3
  <1>2. Steady
    BY SparseFacts
  <1> QED BY <1>1, <1>2, InitLoss, OnceInvariant, MeterSoundAlways, PTL DEF Spec

\* No sampled byte is lost, restarts included, as long as both directions of
\* a user come and go together: every total is at least what a meter that
\* knows the process behind each sample has counted, and by NeverTwiceHolds
\* exactly that.
THEOREM NothingLostHolds == ASSUME Sparse PROVE Spec => []NothingLost
  <1>1. LossInv => NothingLost
    BY DEF LossInv
  <1> QED BY <1>1, LossInvariant, PTL

----------------------------------------------------------------------------
=============================================================================
