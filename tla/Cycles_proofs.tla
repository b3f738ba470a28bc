---------------------------- MODULE Cycles_proofs ----------------------------
(***************************************************************************)
(* Quota cycles, for every calendar, every set of time zones and every     *)
(* number of missed boundaries.                                            *)
(*                                                                         *)
(* The loop of settleCycles is a recursive function on Nat.  Induction     *)
(* here is over sets of natural numbers, from the least element of the     *)
(* complement, and the first lemmas say that such a function exists.       *)
(***************************************************************************)
EXTENDS Cycles, WellFoundedInduction, TLAPS

----------------------------------------------------------------------------
(* Iterating a function.                                                   *)

LEMMA LeastNumber ==
  ASSUME NEW T \in SUBSET Nat, T # {}
  PROVE  \E n \in T : \A m \in T : n <= m
  <1> DEFINE R == OpToRel(<, Nat)
  <1>1. IsWellFoundedOn(R, Nat)
    BY NatLessThanWellFounded
  <1>2. PICK n \in T : \A m \in T : ~ (<<m, n>> \in R)
    <2> HIDE DEF R
    <2> QED BY <1>1, WFMin
  <1>3. \A m \in Nat : m < n => <<m, n>> \in R
    BY Zenon DEF OpToRel
  <1> HIDE DEF R
  <1>4. \A m \in T : ~ (m < n)
    BY <1>2, <1>3
  <1> QED BY <1>4

LEMMA SetInduction ==
  ASSUME NEW S \in SUBSET Nat, 0 \in S, \A n \in S : n + 1 \in S
  PROVE  S = Nat
  <1> SUFFICES ASSUME Nat \ S # {} PROVE FALSE
    OBVIOUS
  <1>1. PICK n \in Nat \ S : \A m \in Nat \ S : n <= m
    <2> DEFINE T == Nat \ S
    <2>1. T \in SUBSET Nat /\ T # {}
      OBVIOUS
    <2> HIDE DEF T
    <2>2. \E n \in T : \A m \in T : n <= m
      BY <2>1, LeastNumber
    <2> QED BY <2>2 DEF T
  <1>2. n # 0 /\ n - 1 \in Nat /\ n - 1 \in S
    BY <1>1
  <1>3. (n - 1) + 1 \in S
    BY <1>2
  <1> QED BY <1>1, <1>3

\* The first n iterates of G from a.
Iterates(A, a, G, n) ==
    {f \in [0 .. n -> A] : f[0] = a /\ \A k \in 0 .. n - 1 : f[k + 1] = G[f[k]]}

LEMMA IteratesExist ==
  ASSUME NEW A, NEW a \in A, NEW G \in [A -> A], NEW n \in Nat
  PROVE  Iterates(A, a, G, n) # {}
  <1> DEFINE S == {m \in Nat : Iterates(A, a, G, m) # {}}
  <1>1. 0 \in S
    <2> DEFINE f == [k \in 0 .. 0 |-> a]
    <2>1. f \in Iterates(A, a, G, 0)
      BY DEF Iterates
    <2> QED BY <2>1
  <1>2. ASSUME NEW m \in S PROVE m + 1 \in S
    <2>1. m \in Nat /\ Iterates(A, a, G, m) # {}
      OBVIOUS
    <2>2. PICK f : f \in Iterates(A, a, G, m)
      BY <2>1
    <2>3. f \in [0 .. m -> A] /\ f[0] = a /\ \A k \in 0 .. m - 1 : f[k + 1] = G[f[k]]
      BY <2>2 DEF Iterates
    <2> DEFINE g == [k \in 0 .. m + 1 |-> IF k = m + 1 THEN G[f[m]] ELSE f[k]]
    <2>4. g \in [0 .. m + 1 -> A]
      BY <2>1, <2>3
    <2>5. g[0] = a
      BY <2>1, <2>3
    <2>6. ASSUME NEW k \in 0 .. (m + 1) - 1 PROVE g[k + 1] = G[g[k]]
      <3>1. CASE k = m
        BY <2>1, <3>1
      <3>2. CASE k # m
        BY <2>1, <2>3, <3>2
      <3> QED BY <3>1, <3>2
    <2> HIDE DEF g
    <2>7. g \in Iterates(A, a, G, m + 1)
      BY <2>4, <2>5, <2>6 DEF Iterates
    <2> QED BY <2>1, <2>7
  <1> HIDE DEF S
  <1>3. S \in SUBSET Nat
    BY DEF S
  <1>4. S = Nat
    BY <1>1, <1>2, <1>3, SetInduction
  <1> QED BY <1>4 DEF S

LEMMA IteratesAgree ==
  ASSUME NEW A, NEW a \in A, NEW G \in [A -> A], NEW m \in Nat, NEW n \in Nat, m <= n,
         NEW f \in Iterates(A, a, G, m), NEW g \in Iterates(A, a, G, n)
  PROVE  f[m] = g[m]
  <1> DEFINE S == {k \in Nat : k <= m => f[k] = g[k]}
  <1>1. 0 \in S
    BY DEF Iterates
  <1>2. ASSUME NEW k \in S PROVE k + 1 \in S
    <2>1. k \in Nat
      OBVIOUS
    <2>2. CASE k + 1 <= m
      <3>1. f[k] = g[k] /\ k \in 0 .. m - 1 /\ k \in 0 .. n - 1
        BY <2>1, <2>2
      <3>2. f[k + 1] = G[f[k]] /\ g[k + 1] = G[g[k]]
        BY <3>1 DEF Iterates
      <3> QED BY <2>1, <3>1, <3>2
    <2>3. CASE ~ (k + 1 <= m)
      BY <2>1, <2>3
    <2> QED BY <2>2, <2>3
  <1> HIDE DEF S
  <1>3. S \in SUBSET Nat
    BY DEF S
  <1>4. S = Nat
    BY <1>1, <1>2, <1>3, SetInduction
  <1>5. m \in S
    BY <1>4
  <1> QED BY <1>5 DEF S

\* Every function has a sequence of iterates.
LEMMA Iteration ==
  ASSUME NEW A, NEW a \in A, NEW G \in [A -> A]
  PROVE  \E c \in [Nat -> A] : c[0] = a /\ \A n \in Nat : c[n + 1] = G[c[n]]
  <1> DEFINE F(n) == CHOOSE f : f \in Iterates(A, a, G, n)
             c == [n \in Nat |-> F(n)[n]]
  <1>1. ASSUME NEW n \in Nat PROVE F(n) \in Iterates(A, a, G, n)
    BY IteratesExist
  <1> HIDE DEF F
  <1>2. ASSUME NEW n \in Nat PROVE F(n)[n] \in A
    BY <1>1 DEF Iterates
  <1>3. c \in [Nat -> A]
    BY <1>2
  <1>4. c[0] = a
    BY <1>1 DEF Iterates
  <1>5. ASSUME NEW n \in Nat PROVE c[n + 1] = G[c[n]]
    <2>1. F(n)[n] = F(n + 1)[n]
      BY <1>1, IteratesAgree
    <2>2. F(n + 1)[n + 1] = G[F(n + 1)[n]]
      BY <1>1 DEF Iterates
    <2> QED BY <2>1, <2>2
  <1> HIDE DEF c
  <1> QED BY <1>3, <1>4, <1>5

----------------------------------------------------------------------------
(* Months and their boundaries.                                            *)

LEMMA MonthsType == Months \subseteq Int /\ MonthOf(MaxTime \div DayLen) \in Int
  <1>1. DayLen \in Int /\ DayLen > 0 /\ TwoMonths \in Int /\ TwoMonths > 0 /\ MaxTime \in Int
    BY CalendarAssumption, BoundsAssumption DEF TwoMonths
  <1>2. MaxTime \div DayLen \in Int
    BY <1>1
  <1>3. ASSUME NEW d \in Int PROVE MonthOf(d) \in Int
    <2>1. d \div TwoMonths \in Int
      BY <1>1
    <2> QED BY <2>1 DEF MonthOf
  <1> QED BY <1>2, <1>3 DEF Months

\* The months around a time and the boundaries that begin them.
LEMMA MonthsAround ==
  ASSUME NEW z \in Zones, NEW s \in 0 .. MaxTime
  PROVE  /\ Month(z, s) \in Int
         /\ {Month(z, s) - 1, Month(z, s), Month(z, s) + 1} \subseteq Months
  BY ZonesAssumption, MonthsType

LEMMA BoundaryMonth ==
  ASSUME NEW z \in Zones, NEW day \in ResetDays, NEW m \in Months
  PROVE  /\ Date(z, m, day, 0) \in Int
         /\ Date(z, m, day, 0) \in Boundaries(z, day)
         /\ Month(z, Date(z, m, day, 0)) = m
  BY ZonesAssumption DEF Boundaries

LEMMA MonthsAscend ==
  ASSUME NEW z \in Zones, NEW day \in ResetDays,
         NEW t \in (0 .. MaxTime) \cup Boundaries(z, day),
         NEW u \in (0 .. MaxTime) \cup Boundaries(z, day), t <= u
  PROVE  Month(z, t) <= Month(z, u)
  BY ZonesAssumption

\* The midnight of the reset day of the month before lies before a time, that
\* of the month after it lies after the time.
LEMMA BoundariesAround ==
  ASSUME NEW z \in Zones, NEW day \in ResetDays, NEW s \in 0 .. MaxTime
  PROVE  /\ Date(z, Month(z, s) - 1, day, 0) < s
         /\ s < Date(z, Month(z, s) + 1, day, 0)
  <1> DEFINE M == Month(z, s)
             D(m) == Date(z, m, day, 0)
  <1>1. M \in Int /\ M - 1 \in Months /\ M + 1 \in Months
    BY MonthsAround
  <1>2. \A m \in Months : D(m) \in Int /\ D(m) \in Boundaries(z, day) /\ Month(z, D(m)) = m
    BY BoundaryMonth
  <1>3. s \in Int /\ MaxTime \in Int
    BY BoundsAssumption
  <1>4. ~ (s <= D(M - 1))
    <2> SUFFICES ASSUME s <= D(M - 1) PROVE FALSE
      OBVIOUS
    <2>1. M <= Month(z, D(M - 1))
      BY <1>1, <1>2, MonthsAscend
    <2> HIDE DEF M, D
    <2> QED BY <2>1, <1>1, <1>2
  <1>5. ~ (D(M + 1) <= s)
    <2> SUFFICES ASSUME D(M + 1) <= s PROVE FALSE
      OBVIOUS
    <2>1. Month(z, D(M + 1)) <= M
      BY <1>1, <1>2, MonthsAscend
    <2> HIDE DEF M, D
    <2> QED BY <2>1, <1>1, <1>2
  <1>6. D(M - 1) \in Int /\ D(M + 1) \in Int
    BY <1>1, <1>2
  <1>7. D(M - 1) < s /\ s < D(M + 1)
    <2> HIDE DEF M, D
    <2> QED BY <1>3, <1>4, <1>5, <1>6
  <1> QED BY <1>7

\* The cycle around a time ends at the first boundary after it.
LEMMA CycleEnd ==
  ASSUME NEW z \in Zones, NEW day \in ResetDays, NEW s \in 0 .. MaxTime
  PROVE  LET e == CycleBounds(z, s, day).end IN
         /\ e \in Int /\ s < e
         /\ e \in Boundaries(z, day)
         /\ ~ \E b \in Boundaries(z, day) : s < b /\ b < e
  <1> DEFINE M == Month(z, s)
             D(m) == Date(z, m, day, 0)
             e == CycleBounds(z, s, day).end
  <1>1. M \in Int /\ M - 1 \in Months /\ M \in Months /\ M + 1 \in Months
    BY MonthsAround
  <1>2. \A m \in Months : D(m) \in Int /\ D(m) \in Boundaries(z, day) /\ Month(z, D(m)) = m
    BY BoundaryMonth
  <1>3. s \in Int /\ Months \subseteq Int
    BY BoundsAssumption, MonthsType
  <1>4. ASSUME NEW m \in Months, s <= D(m) PROVE M <= m
    <2>1. M <= Month(z, D(m))
      BY <1>2, <1>4, MonthsAscend
    <2> QED BY <2>1, <1>2
  <1>5. ASSUME NEW m \in Months, NEW k \in Months, D(m) <= D(k) PROVE m <= k
    <2>1. Month(z, D(m)) <= Month(z, D(k))
      BY <1>2, <1>5, MonthsAscend
    <2> QED BY <2>1, <1>2
  <1>6. CASE s < D(M)
    <2>1. e = D((M - 1) + 1)
      <3>1. e = NextCycleStart(z, D(M - 1), day)
        BY <1>6 DEF CycleBounds
      <3>2. Month(z, D(M - 1)) = M - 1
        BY <1>1, <1>2
      <3> QED BY <3>1, <3>2 DEF NextCycleStart
    <2>2. e = D(M)
      <3>1. (M - 1) + 1 = M
        BY <1>1
      <3> QED BY <2>1, <3>1
    <2>3. ASSUME NEW m \in Months, s < D(m), D(m) < D(M) PROVE FALSE
      <3> HIDE DEF M, D
      <3>1. m <= M /\ M <= m
        BY <1>1, <1>2, <1>3, <1>4, <1>5, <2>3
      <3>2. m = M
        BY <3>1, <1>1, <1>3
      <3> QED BY <3>2, <2>3, <1>1, <1>2
    <2> QED BY <1>1, <1>2, <1>6, <2>2, <2>3 DEF Boundaries
  <1>7. CASE ~ (s < D(M))
    <2>1. e = NextCycleStart(z, D(M), day)
      BY <1>7 DEF CycleBounds
    <2>2. Month(z, D(M)) = M
      BY <1>1, <1>2
    <2>3. e = D(M + 1)
      BY <2>1, <2>2 DEF NextCycleStart
    <2>4. s < D(M + 1)
      BY BoundariesAround
    <2>5. ASSUME NEW m \in Months, s < D(m), D(m) < D(M + 1) PROVE FALSE
      <3> HIDE DEF M, D
      <3>1. M <= m /\ m <= M + 1
        BY <1>1, <1>2, <1>3, <1>4, <1>5, <2>5
      <3>2. m = M \/ m = M + 1
        BY <3>1, <1>1, <1>3
      <3>3. CASE m = M
        BY <3>3, <2>5, <1>1, <1>2, <1>3, <1>7
      <3>4. CASE m = M + 1
        BY <3>4, <2>5, <1>1, <1>2
      <3> QED BY <3>2, <3>3, <3>4
    <2> QED BY <1>1, <1>2, <2>3, <2>4, <2>5 DEF Boundaries
  <1> QED BY <1>6, <1>7

----------------------------------------------------------------------------
(* The loop of settleCycles.                                               *)

CycleRec == [start: Int, end: Int, zone: Zones, day: ResetDays]

\* A cycle that was opened by a settlement ends at the first boundary after
\* its start.
EndsWell(c) ==
    /\ c.end \in Boundaries(c.zone, c.day)
    /\ ~ \E b \in Boundaries(c.zone, c.day) : c.start < b /\ b < c.end

\* The cycles that a user can have.
Histories == {cs \in Seq(CycleRec) :
    /\ cs # <<>>
    /\ cs[Len(cs)].end >= 0
    /\ \A i \in DOMAIN cs : cs[i].start < cs[i].end
    /\ \A i \in 2 .. Len(cs) : cs[i].start = cs[i - 1].end /\ EndsWell(cs[i])}

LEMMA HistoryType ==
  ASSUME NEW cs \in Histories
  PROVE  /\ cs \in Seq(CycleRec) /\ Len(cs) \in Nat \ {0}
         /\ \A i \in 1 .. Len(cs) : cs[i] \in CycleRec
         /\ cs[Len(cs)].end \in Nat
         /\ \A i \in 1 .. Len(cs) : cs[i].start < cs[i].end
         /\ \A i \in 2 .. Len(cs) : cs[i].start = cs[i - 1].end /\ EndsWell(cs[i])
  <1>1. cs \in Seq(CycleRec) /\ cs # <<>>
    BY DEF Histories
  <1>2. Len(cs) \in Nat \ {0} /\ DOMAIN cs = 1 .. Len(cs)
    BY <1>1
  <1>3. \A i \in 1 .. Len(cs) : cs[i] \in CycleRec
    BY <1>1
  <1>4. cs[Len(cs)] \in CycleRec
    BY <1>2, <1>3
  <1>5. cs[Len(cs)].end \in Int
    BY <1>4 DEF CycleRec
  <1> QED BY <1>1, <1>2, <1>3, <1>5 DEF Histories

\* Opening a cycle that ends well after the last one.
LEMMA AppendHistory ==
  ASSUME NEW cs \in Histories, NEW c \in CycleRec,
         c.start = cs[Len(cs)].end, c.start < c.end, c.end >= 0, EndsWell(c)
  PROVE  /\ Append(cs, c) \in Histories
         /\ Append(cs, c)[Len(Append(cs, c))] = c
         /\ Append(cs, c)[1] = cs[1]
  <1> DEFINE ds == Append(cs, c)
             n == Len(cs)
  <1>1. cs \in Seq(CycleRec) /\ n \in Nat \ {0}
    BY HistoryType
  <1>2. /\ ds \in Seq(CycleRec) /\ Len(ds) = n + 1
        /\ ds[n + 1] = c
        /\ \A i \in 1 .. n : ds[i] = cs[i]
    BY <1>1
  <1>3. ds # <<>> /\ DOMAIN ds = 1 .. n + 1
    BY <1>1, <1>2
  <1>4. /\ \A i \in 1 .. n : cs[i].start < cs[i].end
        /\ \A i \in 2 .. n : cs[i].start = cs[i - 1].end /\ EndsWell(cs[i])
        /\ c.start = cs[n].end
    BY HistoryType
  <1> HIDE DEF ds, n
  <1>5. ASSUME NEW i \in 1 .. n + 1 PROVE ds[i].start < ds[i].end
    <2>1. CASE i = n + 1
      BY <2>1, <1>2
    <2>2. CASE i # n + 1
      BY <2>2, <1>1, <1>2, <1>4
    <2> QED BY <2>1, <2>2
  <1>6. ASSUME NEW i \in 2 .. n + 1
        PROVE  ds[i].start = ds[i - 1].end /\ EndsWell(ds[i])
    <2>1. i - 1 \in 1 .. n /\ ds[i - 1] = cs[i - 1]
      BY <1>1, <1>2
    <2>2. CASE i = n + 1
      <3>1. i - 1 = n /\ ds[i] = c
        BY <2>2, <1>1, <1>2
      <3> QED BY <3>1, <2>1, <1>4
    <2>3. CASE i # n + 1
      <3>1. i \in 1 .. n /\ i \in 2 .. n
        BY <2>3, <1>1
      <3>2. ds[i] = cs[i]
        BY <3>1, <1>2
      <3> QED BY <3>1, <3>2, <2>1, <1>4
    <2> QED BY <2>2, <2>3
  <1>7. ds \in Histories
    BY <1>2, <1>3, <1>5, <1>6 DEF Histories
  <1>8. ds[1] = cs[1]
    BY <1>1, <1>2
  <1> QED BY <1>2, <1>7, <1>8 DEF ds

\* One turn of the loop: it stops, or it opens a cycle that ends later.
LEMMA CrossOnce ==
  ASSUME policy \in [zone: Zones, day: ResetDays],
         NEW at \in Int, at <= MaxTime, NEW cs \in Histories
  PROVE  /\ Cross(cs, at) \in Histories
         /\ Cross(cs, at)[1] = cs[1]
         /\ at < cs[Len(cs)].end => Cross(cs, at) = cs
         /\ cs[Len(cs)].end <= at =>
               cs[Len(cs)].end < Cross(cs, at)[Len(Cross(cs, at))].end
  <1> DEFINE s == cs[Len(cs)].end
             e == EndAfter(s)
             c == Cycle(s, e)
  <1>1. s \in Nat /\ MaxTime \in Nat
    BY HistoryType, BoundsAssumption
  <1>2. CASE at < s
    <2>1. Cross(cs, at) = cs /\ ~ (s <= at)
      BY <1>1, <1>2 DEF Cross
    <2> QED BY <2>1
  <1>3. CASE ~ (at < s)
    <2>1. s \in 0 .. MaxTime
      BY <1>1, <1>3
    <2>2. policy.zone \in Zones /\ policy.day \in ResetDays
      OBVIOUS
    <2>3. /\ e \in Int /\ s < e
          /\ e \in Boundaries(policy.zone, policy.day)
          /\ ~ \E b \in Boundaries(policy.zone, policy.day) : s < b /\ b < e
      BY <2>1, <2>2, CycleEnd DEF EndAfter
    <2>4. Cross(cs, at) = Append(cs, c)
      <3>1. ~ (s > at) /\ ~ (e <= s)
        <4> HIDE DEF s, e
        <4> QED BY <1>1, <1>3, <2>3
      <3> QED BY <3>1 DEF Cross
    <2>5. /\ c \in CycleRec /\ c.start = s /\ c.end = e
          /\ c.zone = policy.zone /\ c.day = policy.day
      BY <2>2, <2>3, <1>1 DEF Cycle, CycleRec
    <2>6. c.start = s /\ c.start < c.end /\ c.end >= 0 /\ EndsWell(c)
      <3> HIDE DEF s, e, c
      <3> QED BY <1>1, <2>3, <2>5 DEF EndsWell
    <2>7. /\ Append(cs, c) \in Histories
          /\ Append(cs, c)[Len(Append(cs, c))] = c
          /\ Append(cs, c)[1] = cs[1]
      <3> HIDE DEF c
      <3> QED BY <2>5, <2>6, AppendHistory
    <2> QED BY <2>3, <2>4, <2>5, <2>7, <1>3
  <1> QED BY <1>2, <1>3

\* The loop crosses every boundary up to at: each turn that opens a cycle
\* moves the open end by a tick or more, and there are MaxTime + 1 turns.
LEMMA SettleCrosses ==
  ASSUME policy \in [zone: Zones, day: ResetDays],
         NEW at \in Int, at <= MaxTime, NEW cs \in Histories
  PROVE  /\ Settle(cs, at) \in Histories
         /\ Settle(cs, at)[1] = cs[1]
         /\ cs[Len(cs)].end <= Settle(cs, at)[Len(Settle(cs, at))].end
         /\ at < Settle(cs, at)[Len(Settle(cs, at))].end
  <1> DEFINE Crossing(f) == f = [n \in Nat |-> IF n = 0 THEN cs ELSE Cross(f[n - 1], at)]
             crossed == CHOOSE f : Crossing(f)
             done == crossed[MaxTime + 1]
             S == {n \in Nat : /\ crossed[n] \in Histories
                               /\ crossed[n][1] = cs[1]
                               /\ cs[Len(cs)].end <= crossed[n][Len(crossed[n])].end
                               /\ \/ at < crossed[n][Len(crossed[n])].end
                                  \/ n <= crossed[n][Len(crossed[n])].end}
  <1>1. \A h \in Histories :
          /\ Cross(h, at) \in Histories
          /\ Cross(h, at)[1] = h[1]
          /\ at < h[Len(h)].end => Cross(h, at) = h
          /\ h[Len(h)].end <= at => h[Len(h)].end < Cross(h, at)[Len(Cross(h, at))].end
    BY CrossOnce
  <1>2. PICK G \in [Histories -> Histories] : \A h \in Histories : G[h] = Cross(h, at)
    <2> DEFINE F == [h \in Histories |-> Cross(h, at)]
    <2>1. F \in [Histories -> Histories] /\ \A h \in Histories : F[h] = Cross(h, at)
      BY <1>1
    <2> HIDE DEF F
    <2> QED BY <2>1
  <1>3. PICK g \in [Nat -> Histories] : g[0] = cs /\ \A n \in Nat : g[n + 1] = G[g[n]]
    BY Iteration, SMTT(30)
  <1>4. Crossing(g)
    <2> DEFINE h == [n \in Nat |-> IF n = 0 THEN cs ELSE Cross(g[n - 1], at)]
    <2>1. ASSUME NEW n \in Nat PROVE g[n] = h[n]
      <3>1. CASE n = 0
        BY <3>1, <1>3
      <3>2. CASE n # 0
        <4>1. n - 1 \in Nat /\ (n - 1) + 1 = n
          BY <3>2
        <4>2. g[(n - 1) + 1] = G[g[n - 1]]
          BY <4>1, <1>3
        <4>3. g[n] = G[g[n - 1]]
          BY <4>1, <4>2
        <4>4. g[n - 1] \in Histories
          BY <4>1
        <4>5. g[n] = Cross(g[n - 1], at)
          BY <4>3, <4>4, <1>2
        <4> QED BY <3>2, <4>5
      <3> QED BY <3>1, <3>2
    <2>2. g = h
      BY <2>1, Zenon
    <2> QED BY <2>2
  <1>5. Crossing(crossed)
    <2> HIDE DEF Crossing
    <2> QED BY <1>4
  <1>6. crossed[0] = cs /\ \A n \in Nat : crossed[n + 1] = Cross(crossed[n], at)
    <2> HIDE DEF crossed
    <2>1. \A n \in Nat : crossed[n] = IF n = 0 THEN cs ELSE Cross(crossed[n - 1], at)
      BY <1>5, Zenon
    <2>2. crossed[0] = cs
      BY <2>1
    <2>3. ASSUME NEW n \in Nat PROVE crossed[n + 1] = Cross(crossed[n], at)
      <3>1. n + 1 \in Nat /\ n + 1 # 0 /\ (n + 1) - 1 = n
        OBVIOUS
      <3> QED BY <3>1, <2>1
    <2> QED BY <2>2, <2>3
  <1> HIDE DEF crossed
  <1>7. \A h \in Histories : h[Len(h)].end \in Nat
    BY HistoryType
  <1>8. 0 \in S
    <2>1. crossed[0] = cs /\ cs \in Histories
      BY <1>6
    <2>2. 0 <= cs[Len(cs)].end /\ cs[Len(cs)].end <= cs[Len(cs)].end
      BY <1>7
    <2>3. /\ crossed[0] \in Histories
          /\ 0 <= crossed[0][Len(crossed[0])].end
          /\ cs[Len(cs)].end <= crossed[0][Len(crossed[0])].end
      BY <2>1, <2>2
    <2> QED BY <2>1, <2>3
  <1>9. ASSUME NEW n \in S PROVE n + 1 \in S
    <2> DEFINE h == crossed[n]
               k == crossed[n + 1]
    <2>1. /\ n \in Nat /\ h \in Histories /\ h[1] = cs[1]
          /\ cs[Len(cs)].end <= h[Len(h)].end
          /\ at < h[Len(h)].end \/ n <= h[Len(h)].end
      OBVIOUS
    <2>2. k = Cross(h, at)
      BY <2>1, <1>6
    <2> HIDE DEF h, k
    <2>3. k \in Histories /\ k[1] = cs[1]
      BY <2>1, <2>2, <1>1
    <2>4. /\ cs[Len(cs)].end <= k[Len(k)].end
          /\ at < k[Len(k)].end \/ n + 1 <= k[Len(k)].end
      <3>1. h[Len(h)].end \in Nat /\ k[Len(k)].end \in Nat /\ cs[Len(cs)].end \in Nat
        BY <2>1, <2>3, <1>7
      <3>2. CASE at < h[Len(h)].end
        BY <3>2, <2>1, <2>2, <1>1
      <3>3. CASE ~ (at < h[Len(h)].end)
        <4>1. h[Len(h)].end < k[Len(k)].end
          BY <3>1, <3>3, <2>1, <2>2, <1>1
        <4> QED BY <4>1, <3>1, <3>3, <2>1
      <3> QED BY <3>2, <3>3
    <2> QED BY <2>1, <2>3, <2>4 DEF h, k
  <1>10. MaxTime + 1 \in S
    <2> HIDE DEF S
    <2>1. S \in SUBSET Nat
      BY DEF S
    <2>2. S = Nat
      BY <1>8, <1>9, <2>1, SetInduction
    <2> QED BY <2>2, BoundsAssumption
  <1>11. /\ done \in Histories /\ done[1] = cs[1] /\ at < done[Len(done)].end
         /\ cs[Len(cs)].end <= done[Len(done)].end
    <2>1. /\ done \in Histories /\ done[1] = cs[1]
          /\ cs[Len(cs)].end <= done[Len(done)].end
          /\ at < done[Len(done)].end \/ MaxTime + 1 <= done[Len(done)].end
      BY <1>10
    <2>2. done[Len(done)].end \in Nat /\ MaxTime \in Nat
      BY <2>1, <1>7, BoundsAssumption
    <2> HIDE DEF done
    <2> QED BY <2>1, <2>2
  <1>12. Settle(cs, at) = done
    <2>1. Settle(cs, at) = IF done[Len(done)].end > at THEN done ELSE cs
      BY Zenon DEF Settle, crossed
    <2>2. done[Len(done)].end \in Nat
      BY <1>11, <1>7
    <2> HIDE DEF done
    <2> QED BY <2>1, <2>2, <1>11
  <1> QED BY <1>11, <1>12

----------------------------------------------------------------------------
(* The invariant of the specification.                                     *)

Inv ==
    /\ now \in 0 .. MaxTime
    /\ policy \in [zone: Zones, day: ResetDays]
    /\ cycles \in Histories
    /\ settled \in 0 .. MaxTime
    /\ changes \in 0 .. MaxChanges

LEMMA InvInit == Init => Inv
  <1> SUFFICES ASSUME Init PROVE Inv
    OBVIOUS
  <1> DEFINE b == InitialCycleBounds(policy.zone, now, policy.day)
             c == Cycle(b.start, b.end)
  <1>1. /\ now \in 0 .. MaxCreation /\ policy \in [zone: Zones, day: ResetDays]
        /\ b.start < b.end /\ cycles = <<c>>
        /\ settled = now /\ changes = 0
    BY DEF Init
  <1>2. MaxTime \in Nat /\ MaxCreation \in 0 .. MaxTime /\ MaxChanges \in Nat
    BY BoundsAssumption
  <1>3. policy.zone \in Zones /\ policy.day \in ResetDays
    BY <1>1
  <1>4. b \in [start: Int, end: Nat]
    BY <1>1, <1>3, CreationAssumption
  <1>5. c \in CycleRec /\ c.start < c.end /\ c.end \in Nat
    <2> HIDE DEF b
    <2> QED BY <1>1, <1>3, <1>4 DEF Cycle, CycleRec
  <1> HIDE DEF c
  <1>6. <<c>> \in Histories
    BY <1>5 DEF Histories
  <1> QED BY <1>1, <1>2, <1>6 DEF Inv

LEMMA InvNext == Inv /\ [Next]_vars => Inv'
  <1> SUFFICES ASSUME Inv, [Next]_vars PROVE Inv'
    OBVIOUS
  <1> USE DEF Inv
  <1>1. ASSUME NEW t \in 0 .. MaxTime, Wait(t) PROVE Inv'
    BY <1>1 DEF Wait
  <1>2. ASSUME NEW at \in {now - 1, now}, RolloverCycle(at) PROVE Inv'
    <2>1. MaxTime \in Nat /\ now \in Int /\ settled \in Int
      BY BoundsAssumption
    <2>2. at \in Int /\ at <= MaxTime
      BY <2>1
    <2>3. cycles' \in Histories
      BY <1>2, <2>2, SettleCrosses DEF RolloverCycle
    <2>4. settled' \in 0 .. MaxTime
      BY <1>2, <2>1, <2>2 DEF RolloverCycle
    <2> QED BY <1>2, <2>3, <2>4 DEF RolloverCycle
  <1>3. ASSUME NEW z \in Zones, NEW day \in ResetDays, ChangePolicy(z, day) PROVE Inv'
    <2>1. changes' \in 0 .. MaxChanges
      BY <1>3, BoundsAssumption DEF ChangePolicy
    <2> QED BY <1>3, <2>1 DEF ChangePolicy
  <1>4. CASE UNCHANGED vars
    BY <1>4 DEF vars
  <1> QED BY <1>1, <1>2, <1>3, <1>4 DEF Next

LEMMA InvHolds == Spec => []Inv
  BY InvInit, InvNext, PTL DEF Spec

\* The variables keep their types: settleCycles opens cycles whose bounds are
\* times, whatever zones and reset days follow one another.
THEOREM TypeCorrect == Spec => []CyclesTypeOK
  <1>1. Inv => CyclesTypeOK
    <2> SUFFICES ASSUME Inv PROVE CyclesTypeOK
      OBVIOUS
    <2>1. cycles \in Histories
      BY DEF Inv
    <2>2. DOMAIN cycles = 1 .. Len(cycles) /\ \A i \in 1 .. Len(cycles) : cycles[i] \in CycleRec
      BY <2>1, HistoryType
    <2> QED BY <2>2 DEF Inv, CyclesTypeOK, CycleRec
  <1> QED BY <1>1, InvHolds, PTL

\* No cycle is empty, and those that settleCycles opens follow one another from
\* boundary to next boundary, in every calendar and every zone that
\* ZonesAssumption admits, through changes of the reset day and the zone.
THEOREM EndsAtNextBoundaryHolds == Spec => []EndsAtNextBoundary
  <1>1. Inv => EndsAtNextBoundary
    <2> SUFFICES ASSUME Inv PROVE EndsAtNextBoundary
      OBVIOUS
    <2>1. cycles \in Histories
      BY DEF Inv
    <2>2. DOMAIN cycles = 1 .. Len(cycles)
      BY <2>1, HistoryType
    <2> QED BY <2>1, <2>2, HistoryType DEF EndsAtNextBoundary, EndsWell
  <1> QED BY <1>1, InvHolds, PTL

----------------------------------------------------------------------------
(* The open cycle holds the time of the last settlement.                   *)

LEMMA HoldsInit == ASSUME WholeFirstCycles, Init PROVE OpenCycleHoldsNow
  <1> DEFINE b == InitialCycleBounds(policy.zone, now, policy.day)
             c == Cycle(b.start, b.end)
  <1>1. /\ now \in 0 .. MaxCreation /\ policy.zone \in Zones /\ policy.day \in ResetDays
        /\ b.start < b.end /\ cycles = <<c>> /\ settled = now
    BY DEF Init
  <1>2. b.start <= now /\ now < b.end
    BY <1>1 DEF WholeFirstCycles
  <1>3. c.start = b.start /\ c.end = b.end
    BY DEF Cycle
  <1>4. Len(cycles) = 1 /\ cycles[1] = c
    BY <1>1
  <1> QED BY <1>1, <1>2, <1>3, <1>4 DEF OpenCycleHoldsNow, Open

\* A settlement, even one with an older time, leaves an open cycle that ends
\* after its time and after every earlier settlement.
LEMMA RolloverHolds ==
  ASSUME Inv, NEW at \in {now - 1, now}, RolloverCycle(at)
  PROVE  /\ cycles'[1] = cycles[1]
         /\ Open.end <= Open'.end
         /\ at < Open'.end
         /\ at \in Int /\ settled \in Int /\ Open.end \in Int /\ Open'.end \in Int
         /\ cycles[1].start \in Int
  <1>1. /\ at \in Int /\ at <= MaxTime /\ settled \in Int
        /\ policy \in [zone: Zones, day: ResetDays] /\ cycles \in Histories
    BY BoundsAssumption DEF Inv
  <1>2. cycles' = Settle(cycles, at)
    BY DEF RolloverCycle
  <1>3. /\ cycles' \in Histories /\ cycles'[1] = cycles[1]
        /\ Open.end <= Open'.end /\ at < Open'.end
    BY <1>1, <1>2, SettleCrosses DEF Open
  <1>4. Open.end \in Int /\ Open'.end \in Int
    BY <1>1, <1>3, HistoryType DEF Open
  <1>5. cycles[1] \in CycleRec
    BY <1>1, HistoryType
  <1>6. cycles[1].start \in Int
    BY <1>5 DEF CycleRec
  <1> QED BY <1>1, <1>3, <1>4, <1>6

LEMMA HoldsNext == Inv /\ OpenCycleHoldsNow /\ [Next]_vars => OpenCycleHoldsNow'
  <1> SUFFICES ASSUME Inv, OpenCycleHoldsNow, [Next]_vars PROVE OpenCycleHoldsNow'
    OBVIOUS
  <1>1. ASSUME NEW at \in {now - 1, now}, RolloverCycle(at) PROVE OpenCycleHoldsNow'
    <2>1. settled' = IF at > settled THEN at ELSE settled
      BY <1>1 DEF RolloverCycle
    <2>2. /\ cycles'[1] = cycles[1] /\ Open.end <= Open'.end /\ at < Open'.end
          /\ at \in Int /\ settled \in Int /\ Open.end \in Int /\ Open'.end \in Int
          /\ cycles[1].start \in Int
      BY <1>1, RolloverHolds
    <2>3. cycles[1].start <= settled /\ settled < Open.end
      BY DEF OpenCycleHoldsNow
    <2>4. cycles'[1].start <= settled' /\ settled' < Open'.end
      <3>1. CASE at > settled
        BY <3>1, <2>1, <2>2, <2>3
      <3>2. CASE ~ (at > settled)
        BY <3>2, <2>1, <2>2, <2>3
      <3> QED BY <3>1, <3>2
    <2> QED BY <2>4 DEF OpenCycleHoldsNow
  <1>2. CASE UNCHANGED <<cycles, settled>>
    BY <1>2 DEF OpenCycleHoldsNow, Open
  <1> QED BY <1>1, <1>2 DEF Next, Wait, ChangePolicy, vars

\* Where a first cycle holds the time of its creation, the open cycle holds the
\* time at which the cycles were last settled: one settlement crosses every
\* boundary that was missed, and an older settlement undoes nothing.
THEOREM OpenCycleHoldsNowHolds == ASSUME WholeFirstCycles PROVE Spec => []OpenCycleHoldsNow
  BY HoldsInit, HoldsNext, InvHolds, PTL DEF Spec

\* Whatever the first cycle was, a settlement catches up with every boundary
\* until its time, and never moves the end of the open cycle back.
THEOREM SettlementCatchesUp ==
  Spec => [][\A at \in {now - 1, now} :
                RolloverCycle(at) => at < Open'.end /\ Open.end <= Open'.end]_vars
  <1>1. ASSUME Inv, NEW at \in {now - 1, now}, RolloverCycle(at)
        PROVE  at < Open'.end /\ Open.end <= Open'.end
    BY <1>1, RolloverHolds
  <1>2. Inv => \A at \in {now - 1, now} :
                  RolloverCycle(at) => at < Open'.end /\ Open.end <= Open'.end
    BY <1>1
  <1> QED BY <1>2, InvHolds, PTL

----------------------------------------------------------------------------
(* First cycles.                                                           *)

LEMMA Division ==
  ASSUME NEW k \in Int, NEW n \in Nat \ {0}
  PROVE  (k * n) \div n = k /\ (k * n) % n = 0
  <1>1. k * n \in Int
    OBVIOUS
  <1> DEFINE q == (k * n) \div n
             r == (k * n) % n
  <1>2. q \in Int /\ r \in 0 .. n - 1 /\ k * n = n * q + r
    BY <1>1, SMT
  <1> HIDE DEF q, r
  <1>3. n * (k - q) = r
    BY <1>2
  <1>4. ~ (k - q >= 1) /\ ~ (k - q <= -1)
    <2>1. ASSUME k - q >= 1 PROVE n * (k - q) >= n
      BY <1>2, <2>1
    <2>2. ASSUME k - q <= -1 PROVE n * (k - q) <= -n
      BY <1>2, <2>2
    <2> QED BY <1>2, <1>3, <2>1, <2>2
  <1>5. k = q
    BY <1>2, <1>4
  <1> QED BY <1>2, <1>3, <1>5 DEF q, r

LEMMA MonthStartType ==
  ASSUME NEW m \in Int
  PROVE  MonthStart(m) \in Int
  <1>1. LongMonth \in Nat /\ TwoMonths \in Int
    BY CalendarAssumption DEF TwoMonths
  <1>2. m \div 2 \in Int /\ m % 2 \in Int
    OBVIOUS
  <1> QED BY <1>1, <1>2 DEF MonthStart

\* From a midnight that exists, AddDate leads to midnights.
LEMMA AddMonthsToMidnight ==
  ASSUME MidnightsExist, NEW z \in Zones, NEW day \in ResetDays, NEW m \in Months, NEW n \in Int
  PROVE  AddMonths(z, Date(z, m, day, 0), n) = Date(z, m + n, day, 0)
  <1> DEFINE t == Date(z, m, day, 0)
             d == MonthStart(m) + day - 1
  <1>1. DayLen \in Nat \ {0} /\ day \in Int /\ m \in Int
    BY CalendarAssumption, ResetDaysAssumption, MonthsType
  <1>2. d \in Int
    BY <1>1, MonthStartType
  <1>3. Local(z, t) = d * DayLen
    BY DEF MidnightsExist
  <1>4. Month(z, t) = m
    BY BoundaryMonth
  <1> HIDE DEF t
  <1>5. Day(z, t) = d /\ Local(z, t) % DayLen = 0
    <2> HIDE DEF d
    <2> QED BY <1>1, <1>2, <1>3, Division DEF Day
  <1>6. d - MonthStart(m) + 1 = day
    BY <1>1, MonthStartType
  <1> QED BY <1>4, <1>5, <1>6 DEF AddMonths, t

\* Where no clock is put forward over the midnight of a reset day, a first
\* cycle is the cycle that CycleBounds computes, and holds its creation.
THEOREM FirstCyclesWhole == MidnightsExist => WholeFirstCycles
  <1> SUFFICES ASSUME MidnightsExist,
                      NEW z \in Zones, NEW day \in ResetDays, NEW t \in 0 .. MaxCreation
               PROVE  LET b == InitialCycleBounds(z, t, day) IN b.start <= t /\ t < b.end
    BY DEF WholeFirstCycles
  <1> DEFINE M == Month(z, t)
             D(m) == Date(z, m, day, 0)
             b == InitialCycleBounds(z, t, day)
  <1>1. t \in 0 .. MaxTime /\ t \in Int
    BY BoundsAssumption
  <1>2. M \in Int /\ M - 1 \in Months /\ M \in Months /\ M + 1 \in Months
    BY <1>1, MonthsAround
  <1>3. D(M - 1) \in Int /\ D(M) \in Int /\ D(M + 1) \in Int
    BY <1>2, BoundaryMonth
  <1>4. D(M - 1) < t /\ t < D(M + 1)
    BY <1>1, BoundariesAround
  <1>5. /\ AddMonths(z, D(M), -1) = D(M - 1)
        /\ AddMonths(z, D(M), 1) = D(M + 1)
        /\ AddMonths(z, D(M - 1), 1) = D(M)
    <2>1. M + (-1) = M - 1 /\ (M - 1) + 1 = M
      BY <1>2
    <2>2. /\ AddMonths(z, D(M), -1) = D(M + (-1))
          /\ AddMonths(z, D(M), 1) = D(M + 1)
          /\ AddMonths(z, D(M - 1), 1) = D((M - 1) + 1)
      BY <1>2, AddMonthsToMidnight
    <2> QED BY <2>1, <2>2
  <1>6. CASE t < D(M)
    <2>1. b = [start |-> D(M - 1), end |-> D(M)]
      BY <1>5, <1>6 DEF InitialCycleBounds
    <2> HIDE DEF M, D, b
    <2>2. b.start <= t /\ t < b.end
      BY <2>1, <1>1, <1>3, <1>4, <1>6
    <2> QED BY <2>2 DEF b
  <1>7. CASE ~ (t < D(M))
    <2>1. b = [start |-> D(M), end |-> D(M + 1)]
      BY <1>5, <1>7 DEF InitialCycleBounds
    <2> HIDE DEF M, D, b
    <2>2. b.start <= t /\ t < b.end
      BY <2>1, <1>1, <1>3, <1>4, <1>7
    <2> QED BY <2>2 DEF b
  <1> QED BY <1>6, <1>7
=============================================================================
