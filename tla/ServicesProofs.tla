--------------------------- MODULE ServicesProofs ---------------------------
(***************************************************************************)
(* Proofs about the components that share no variable, except those of     *)
(* LoginProofs, and about all of them together.                            *)
(*                                                                         *)
(* The request window: whatever was let in lately is still among the       *)
(* events, in its place from the end.  The bucket: what was given and what *)
(* is left come from what has come in.  The reminders: what is owed was    *)
(* sent or is on the list.  The free tier: the sites on their way count    *)
(* with those that are subscribed.  Membership: the intervals are          *)
(* disjoint, and all of them end with the expiry at the latest.            *)
(***************************************************************************)
EXTENDS MCServices, LoginProofs, FiniteSetTheorems, SequenceTheorems, TLAPS

-----------------------------------------------------------------------------
(* Finite sets, orders and sequences.                                      *)

\* The place of i in the order that v gives the members of K.
Rank(K, v, i) == Cardinality({j \in K : v[j] <= v[i]})

\* A finite set with an order has a member at every place, and only one.
LEMMA Ranks ==
    ASSUME NEW K, IsFiniteSet(K), NEW v \in [K -> Int], \A i, j \in K : v[i] = v[j] => i = j
    PROVE  /\ \A i \in K : Rank(K, v, i) \in 1..Cardinality(K)
           /\ \A i, j \in K : v[i] < v[j] => Rank(K, v, i) < Rank(K, v, j)
           /\ \A i, j \in K : Rank(K, v, i) = Rank(K, v, j) => i = j
           /\ \A n \in 1..Cardinality(K) : \E i \in K : Rank(K, v, i) = n
  <1> DEFINE Upto(i) == {j \in K : v[j] <= v[i]}
             c == Cardinality(K)
             f == [i \in K |-> Rank(K, v, i)]
  <1>1. c \in Nat
    BY FS_CardinalityType
  <1>2. ASSUME NEW i \in K
        PROVE  IsFiniteSet(Upto(i)) /\ Rank(K, v, i) \in 1..c
    <2>1. IsFiniteSet(Upto(i)) /\ Cardinality(Upto(i)) \in Nat /\ Cardinality(Upto(i)) <= c
      BY FS_Subset, FS_CardinalityType
    <2>2. i \in Upto(i)
      OBVIOUS
    <2>3. Cardinality(Upto(i)) # 0
      BY <2>1, <2>2, FS_EmptySet
    <2> QED BY <1>1, <2>1, <2>3 DEF Rank
  <1>3. ASSUME NEW i \in K, NEW j \in K, v[i] < v[j]
        PROVE  Rank(K, v, i) < Rank(K, v, j)
    <2>1. Upto(i) \in SUBSET Upto(j)
      BY <1>3
    <2>2. j \in Upto(j) /\ j \notin Upto(i)
      BY <1>3
    <2>3. IsFiniteSet(Upto(i)) /\ IsFiniteSet(Upto(j))
      BY <1>2
    <2>4. Cardinality(Upto(i)) <= Cardinality(Upto(j)) /\ Cardinality(Upto(i)) # Cardinality(Upto(j))
      BY <2>1, <2>2, <2>3, FS_Subset
    <2>5. Rank(K, v, i) \in 1..c /\ Rank(K, v, j) \in 1..c
      BY <1>2
    <2> HIDE DEF Upto
    <2>6. Cardinality(Upto(i)) = Rank(K, v, i) /\ Cardinality(Upto(j)) = Rank(K, v, j)
      BY DEF Rank, Upto
    <2> QED BY <1>1, <2>4, <2>5, <2>6
  <1>4. ASSUME NEW i \in K, NEW j \in K, Rank(K, v, i) = Rank(K, v, j)
        PROVE  i = j
    <2>1. v[i] < v[j] \/ v[j] < v[i] \/ v[i] = v[j]
      OBVIOUS
    <2>2. ~(v[i] < v[j]) /\ ~(v[j] < v[i])
      <3>1. Rank(K, v, i) \in 1..c /\ Rank(K, v, j) \in 1..c
        BY <1>2
      <3>2. Rank(K, v, i) \in Int /\ Rank(K, v, j) \in Int
        BY <1>1, <3>1
      <3>3. ~(Rank(K, v, i) < Rank(K, v, j)) /\ ~(Rank(K, v, j) < Rank(K, v, i))
        BY <1>4, <3>2
      <3> QED BY <1>3, <3>3
    <2> QED BY <2>1, <2>2
  <1>5. f \in Injection(K, 1..c)
    BY <1>2, <1>4 DEF Injection, IsInjective
  <1>6. IsFiniteSet(1..c) /\ Cardinality(1..c) = c
    BY <1>1, FS_Interval
  <1>7. f \in Surjection(K, 1..c)
    BY <1>5, <1>6, FS_Injection
  <1>8. \A n \in 1..c : \E i \in K : f[i] = n
    BY <1>7 DEF Surjection
  <1> QED BY <1>2, <1>3, <1>4, <1>8

\* A sequence given by its elements.
LEMMA ListLength ==
    ASSUME NEW n \in Nat, NEW S, NEW f \in [1..n -> S]
    PROVE  f \in Seq(S) /\ Len(f) = n
  BY SeqDef

\* The image of a finite set.
LEMMA ImageSize ==
    ASSUME NEW S, IsFiniteSet(S), NEW f, DOMAIN f = S
    PROVE  /\ IsFiniteSet({f[x] : x \in S})
           /\ Cardinality({f[x] : x \in S}) \in Nat
           /\ Cardinality({f[x] : x \in S}) <= Cardinality(S)
  <1> DEFINE T == {f[x] : x \in S}
             g == [x \in S |-> f[x]]
  <1>1. g \in Surjection(S, T)
    BY DEF Surjection
  <1> QED BY <1>1, FS_Surjection, FS_CardinalityType

-----------------------------------------------------------------------------
(* The request window.                                                     *)

\* The k-th element from the end.
Back(s, k) == s[Len(s) - k + 1]

\* A handler that waits for the mutex read the clock at most Lag ago.
WaitsBriefly == \A r \in Requests : reading[r] # 0 => reading[r] <= time /\ time <= reading[r] + Lag

\* The history is in the order of time.
AllowedInOrder ==
    /\ Len(allowed) <= Limit + 1
    /\ \A i \in 1..Len(allowed) : allowed[i] <= time
    /\ \A i, j \in 1..Len(allowed) : i <= j => allowed[i] <= allowed[j]

\* Whatever was let in less than the window less the wait ago is still among
\* the events, in its place from the end and at most the wait older.
LatestAreKept ==
    \A m \in 1..Len(allowed) :
        time - Back(allowed, m) < Window - Lag =>
            m <= Len(events) /\ Back(allowed, m) <= Back(events, m) + Lag

LimiterInv == LimiterTypeOK /\ WaitsBriefly /\ AllowedInOrder /\ LatestAreKept /\ WindowHolds

\* The parameters of the window are positive numbers, the wait may be none.
LEMMA LimiterNumbers ==
    Limit \in Nat \ {0} /\ Window \in Nat \ {0} /\ LimiterEnd \in Nat \ {0} /\ Lag \in Nat
  BY LimiterAssumption DEF LimiterAssumption

\* The events that are kept are events, no more than there were, and the latest ones stay in
\* their places from the end when all of them are recent.
LEMMA RecentFacts ==
    ASSUME LimiterTypeOK, NEW now \in Nat
    PROVE  /\ Recent(now) \in Seq(1..LimiterEnd) /\ Len(Recent(now)) \in Nat
           /\ Len(Recent(now)) <= Len(events)
           /\ \A m \in 1..Len(events) :
                 (\A k \in 1..m : now < Back(events, k) + Window) =>
                    m <= Len(Recent(now)) /\ Back(Recent(now), m) = Back(events, m)
  <1> DEFINE K == RecentAt(now)
             c == Cardinality(K)
             v == [i \in K |-> i]
             at(n) == CHOOSE i \in K : Cardinality({j \in K : j <= i}) = n
             L == Len(events)
  <1>1. L \in Nat /\ \A i \in 1..L : events[i] \in 1..LimiterEnd
    BY LimiterNumbers DEF LimiterTypeOK
  <1>2. K \subseteq 1..L /\ IsFiniteSet(1..L) /\ Cardinality(1..L) = L
    BY <1>1, FS_Interval DEF RecentAt
  <1>3. IsFiniteSet(K) /\ c \in Nat /\ c <= L
    BY <1>2, FS_Subset, FS_CardinalityType
  <1>4. v \in [K -> Int] /\ \A i, j \in K : v[i] = v[j] => i = j
    BY <1>1, <1>2
  <1> HIDE DEF K, v
  <1>5. \A i \in K : Rank(K, v, i) = Cardinality({j \in K : j <= i})
    <2> SUFFICES ASSUME NEW i \in K PROVE Rank(K, v, i) = Cardinality({j \in K : j <= i})
      OBVIOUS
    <2>1. {j \in K : v[j] <= v[i]} = {j \in K : j <= i}
      BY DEF v
    <2> QED BY <2>1 DEF Rank
  <1>6. \A n \in 1..c : at(n) \in K /\ Rank(K, v, at(n)) = n
    <2> SUFFICES ASSUME NEW n \in 1..c PROVE at(n) \in K /\ Rank(K, v, at(n)) = n
      OBVIOUS
    <2>1. \E i \in K : Cardinality({j \in K : j <= i}) = n
      BY <1>3, <1>4, <1>5, Ranks
    <2>2. at(n) \in K /\ Cardinality({j \in K : j <= at(n)}) = n
      BY <2>1
    <2> QED BY <1>5, <2>2
  <1> HIDE DEF at
  <1>7. Recent(now) = [n \in 1..c |-> events[at(n)]]
    BY DEF Recent, K, at
  <1>8. Recent(now) \in [1..c -> 1..LimiterEnd]
    BY <1>1, <1>2, <1>6, <1>7
  <1>9. Recent(now) \in Seq(1..LimiterEnd) /\ Len(Recent(now)) = c
    BY <1>3, <1>8, ListLength
  <1>10. ASSUME NEW m \in 1..L, \A k \in 1..m : now < Back(events, k) + Window
         PROVE  m <= c /\ Back(Recent(now), m) = Back(events, m)
    <2> DEFINE i == L - m + 1
               later == (i + 1)..L
               upto == {j \in K : j <= i}
    <2>1. i \in 1..L /\ \A j \in i..L : j \in K
      <3> SUFFICES ASSUME NEW j \in i..L PROVE j \in K
        BY <1>1
      <3>1. L - j + 1 \in 1..m /\ L - (L - j + 1) + 1 = j
        BY <1>1
      <3>2. now < events[j] + Window
        BY <1>10, <3>1 DEF Back
      <3> QED BY <1>1, <3>2 DEF K, RecentAt
    <2>2. i \in K
      BY <1>1, <2>1
    <2>13. i \in Int /\ L \in Int /\ i <= L /\ L - i = m - 1
      BY <1>1
    <2> HIDE DEF i, L
    <2>3. K = upto \cup later /\ upto \cap later = {}
      <3>1. \A j \in K : j \in Int /\ (j <= i \/ j \in (i + 1)..L)
        BY <1>2, <2>13
      <3>2. \A j \in (i + 1)..L : j \in i..L /\ ~(j <= i)
        BY <2>13
      <3> QED BY <2>1, <3>1, <3>2
    <2>4. IsFiniteSet(later) /\ Cardinality(later) = L - i
      <3>1. i + 1 \in Int /\ L \in Int
        BY <2>13
      <3>2. /\ IsFiniteSet((i + 1)..L)
            /\ Cardinality((i + 1)..L) = IF i + 1 > L THEN 0 ELSE L - (i + 1) + 1
        BY <3>1, FS_Interval
      <3> QED BY <2>13, <3>2
    <2>5. IsFiniteSet(upto) /\ Cardinality(upto) \in Nat
      BY <1>3, FS_Subset, FS_CardinalityType
    <2>6. Cardinality(upto \cap later) = 0
      BY <2>3, FS_EmptySet
    <2>7. Cardinality(upto \cup later) = Cardinality(upto) + Cardinality(later) - Cardinality(upto \cap later)
      BY <2>4, <2>5, FS_Union
    <2> HIDE DEF upto, later
    <2>8. c = Cardinality(upto) + (L - i)
      BY <1>3, <2>13, <2>3, <2>4, <2>5, <2>6, <2>7
    <2>9. Rank(K, v, i) = Cardinality(upto)
      BY <1>5, <2>2 DEF upto
    <2>14. Rank(K, v, i) \in 1..c
      BY <1>3, <1>4, <2>2, Ranks
    <2>10. Rank(K, v, i) = c - m + 1
      BY <1>3, <2>5, <2>8, <2>9, <2>13
    <2>15. c - m + 1 \in 1..c
      BY <2>10, <2>14
    <2>16. at(c - m + 1) \in K /\ Rank(K, v, at(c - m + 1)) = Rank(K, v, i)
      BY <1>6, <2>10, <2>15
    <2>11. at(c - m + 1) = i
      BY <1>3, <1>4, <2>2, <2>16, Ranks
    <2>12. Back(Recent(now), m) = events[i]
      BY <1>7, <1>9, <2>11, <2>15 DEF Back
    <2>17. Back(events, m) = events[i]
      BY DEF Back, L, i
    <2>18. m <= c
      BY <1>3, <2>13, <2>15
    <2> QED BY <2>12, <2>17, <2>18
  <1> QED BY <1>3, <1>9, <1>10

\* The invariant of the request window holds initially.
LEMMA LimiterBegins == LimiterInit => LimiterInv
  <1> SUFFICES ASSUME LimiterInit PROVE LimiterInv
    OBVIOUS
  <1>1. events = <<>> /\ allowed = <<>> /\ time = 1 /\ reading = [r \in Requests |-> 0]
    BY DEF LimiterInit
  <1>2. Len(<<>>) = 0 /\ <<>> \in Seq(1..LimiterEnd)
    BY LimiterNumbers
  <1>3. LimiterTypeOK
    BY <1>1, <1>2, LimiterNumbers DEF LimiterTypeOK
  <1>4. WaitsBriefly /\ AllowedInOrder /\ LatestAreKept /\ WindowHolds
    BY <1>1, <1>2, LimiterNumbers DEF WaitsBriefly, AllowedInOrder, LatestAreKept, WindowHolds
  <1> QED BY <1>3, <1>4 DEF LimiterInv

\* A handler that reads the clock only puts a reading down.
LEMMA ReadClockKeeps ==
    ASSUME LimiterInv, NEW r \in Requests, ReadClock(r)
    PROVE  LimiterInv'
  <1>1. LimiterTypeOK /\ WaitsBriefly /\ AllowedInOrder /\ LatestAreKept /\ WindowHolds
    BY DEF LimiterInv
  <1>2. UNCHANGED <<time, events, allowed>> /\ reading' = [reading EXCEPT ![r] = time]
    BY DEF ReadClock
  <1>3. time \in 1..LimiterEnd /\ time \in Nat
    BY <1>1, LimiterNumbers DEF LimiterTypeOK
  <1>4. LimiterTypeOK' /\ WaitsBriefly'
    BY <1>1, <1>2, <1>3, LimiterNumbers DEF LimiterTypeOK, WaitsBriefly
  <1>5. AllowedInOrder' /\ LatestAreKept' /\ WindowHolds'
    BY <1>1, <1>2 DEF AllowedInOrder, LatestAreKept, WindowHolds, Back
  <1> QED BY <1>4, <1>5 DEF LimiterInv

\* As time passes the wait stays short and fewer of the latest count.
LEMMA LimiterTickKeeps ==
    ASSUME LimiterInv, LimiterTick
    PROVE  LimiterInv'
  <1>1. LimiterTypeOK /\ WaitsBriefly /\ AllowedInOrder /\ LatestAreKept /\ WindowHolds
    BY DEF LimiterInv
  <1>2. UNCHANGED <<reading, events, allowed>> /\ time' = time + 1 /\ time < LimiterEnd
    BY DEF LimiterTick
  <1>3. time \in Nat /\ time' \in 1..LimiterEnd
    BY <1>1, <1>2, LimiterNumbers DEF LimiterTypeOK
  <1>4. \A r \in Requests : reading[r] \in Nat
    BY <1>1, LimiterNumbers DEF LimiterTypeOK
  <1>5. LimiterTypeOK' /\ WaitsBriefly'
    BY <1>1, <1>2, <1>3, <1>4, LimiterNumbers DEF LimiterTypeOK, WaitsBriefly, LimiterTick
  <1>6. Len(allowed) \in Nat /\ \A i \in 1..Len(allowed) : allowed[i] \in Nat
    BY <1>1, LimiterNumbers DEF LimiterTypeOK
  <1>7. AllowedInOrder' /\ WindowHolds'
    BY <1>1, <1>2, <1>3, <1>6 DEF AllowedInOrder, WindowHolds
  <1>8. LatestAreKept'
    <2>1. \A m \in 1..Len(allowed) : Back(allowed, m) \in Nat
      BY <1>6 DEF Back
    <2>2. \A m \in 1..Len(allowed) : time' - Back(allowed, m) < Window - Lag
                                     => time - Back(allowed, m) < Window - Lag
      BY <1>2, <1>3, <2>1, LimiterNumbers
    <2> QED BY <1>1, <1>2, <2>2 DEF LatestAreKept, Back
  <1> QED BY <1>5, <1>7, <1>8 DEF LimiterInv

\* What was let in less than the window less the wait ago is recent for a
\* handler that has waited for the mutex.
LEMMA LatestAreRecent ==
    ASSUME LimiterInv, NEW r \in Requests, reading[r] # 0
    PROVE  \A m \in 1..Len(allowed) :
              time - Back(allowed, m) < Window - Lag =>
                 /\ m <= Len(Recent(reading[r]))
                 /\ Back(allowed, m) <= Back(Recent(reading[r]), m) + Lag
  <1>1. LimiterTypeOK /\ WaitsBriefly /\ AllowedInOrder /\ LatestAreKept
    BY DEF LimiterInv
  <1>2. PICK now \in Nat : now = reading[r]
    BY <1>1, LimiterNumbers DEF LimiterTypeOK
  <1>3. time \in Nat /\ now <= time
    BY <1>1, <1>2, LimiterNumbers DEF LimiterTypeOK, WaitsBriefly
  <1>4. Len(allowed) \in Nat /\ Len(events) \in Nat
        /\ (\A i \in 1..Len(allowed) : allowed[i] \in Nat)
        /\ (\A i \in 1..Len(events) : events[i] \in Nat)
    BY <1>1, LimiterNumbers DEF LimiterTypeOK
  <1> SUFFICES ASSUME NEW m \in 1..Len(allowed), time - Back(allowed, m) < Window - Lag
               PROVE  m <= Len(Recent(now)) /\ Back(allowed, m) <= Back(Recent(now), m) + Lag
    BY <1>2
  <1>5. m <= Len(events) /\ Back(allowed, m) <= Back(events, m) + Lag
    BY <1>1 DEF LatestAreKept
  <1>6. ASSUME NEW k \in 1..m
        PROVE  now < Back(events, k) + Window
    <2>1. /\ k \in 1..Len(allowed) /\ k \in 1..Len(events)
          /\ Len(allowed) - k + 1 \in 1..Len(allowed) /\ Len(allowed) - m + 1 \in 1..Len(allowed)
          /\ Len(events) - k + 1 \in 1..Len(events)
          /\ Len(allowed) - m + 1 <= Len(allowed) - k + 1
      BY <1>4, <1>5
    <2>2. Back(allowed, m) <= Back(allowed, k) /\ Back(allowed, m) \in Nat /\ Back(allowed, k) \in Nat
      BY <1>1, <1>4, <2>1 DEF Back, AllowedInOrder
    <2>3. time - Back(allowed, k) < Window - Lag
      BY <1>3, <2>2, LimiterNumbers
    <2>4. Back(allowed, k) <= Back(events, k) + Lag /\ Back(events, k) \in Nat
      BY <1>1, <1>4, <2>1, <2>3 DEF LatestAreKept, Back
    <2> QED BY <1>3, <2>2, <2>3, <2>4, LimiterNumbers
  <1>7. m \in 1..Len(events)
    BY <1>4, <1>5
  <1>8. m <= Len(Recent(now)) /\ Back(Recent(now), m) = Back(events, m)
    BY <1>1, <1>6, <1>7, RecentFacts
  <1> QED BY <1>5, <1>8

\* The history t is s and then x, perhaps without the first element of s.
FollowedBy(s, x, t) ==
    /\ t \in Seq(Nat)
    /\ Len(t) >= 1 => Back(t, 1) = x
    /\ \A m \in 2..Len(t) : m - 1 \in 1..Len(s) /\ Back(t, m) = Back(s, m - 1)

\* The history of a request that is let in.
LEMMA AppendBack ==
    \A s \in Seq(Nat), x \in Nat :
        FollowedBy(s, x, Append(s, x)) /\ FollowedBy(s, x, Tail(Append(s, x)))
  <1> SUFFICES ASSUME NEW s \in Seq(Nat), NEW x \in Nat,
                      NEW t, t = Append(s, x) \/ t = Tail(Append(s, x))
               PROVE  FollowedBy(s, x, t)
    OBVIOUS
  <1> DEFINE a == Append(s, x)
  <1>1. Len(s) \in Nat /\ a \in Seq(Nat) /\ Len(a) = Len(s) + 1
        /\ a[Len(s) + 1] = x /\ \A i \in 1..Len(s) : a[i] = s[i]
    OBVIOUS
  <1> HIDE DEF a
  <1>2. CASE t = a
    <2>1. t \in Seq(Nat) /\ Len(t) = Len(s) + 1
      BY <1>1, <1>2
    <2>2. Back(t, 1) = x
      <3>1. (Len(s) + 1) - 1 + 1 = Len(s) + 1
        BY <1>1
      <3> QED BY <1>1, <1>2, <3>1 DEF Back
    <2>3. ASSUME NEW m \in 2..Len(t)
          PROVE  m - 1 \in 1..Len(s) /\ Back(t, m) = Back(s, m - 1)
      <3>1. /\ m - 1 \in 1..Len(s) /\ Len(s) - (m - 1) + 1 \in 1..Len(s)
            /\ Len(t) - m + 1 = Len(s) - (m - 1) + 1
        BY <1>1, <2>1
      <3> QED BY <1>1, <1>2, <3>1 DEF Back
    <2> QED BY <2>1, <2>2, <2>3 DEF FollowedBy
  <1>3. CASE t = Tail(a)
    <2>1. a # <<>>
      BY <1>1
    <2>2. t \in Seq(Nat) /\ Len(t) = Len(s) /\ \A i \in 1..Len(s) : t[i] = a[i + 1]
      BY <1>1, <1>3, <2>1
    <2>3. Len(t) >= 1 => Back(t, 1) = x
      <3> SUFFICES ASSUME Len(t) >= 1 PROVE Back(t, 1) = x
        OBVIOUS
      <3>1. Len(s) \in 1..Len(s) /\ Len(t) - 1 + 1 = Len(s)
        BY <1>1, <2>2
      <3> QED BY <1>1, <2>2, <3>1 DEF Back
    <2>4. ASSUME NEW m \in 2..Len(t)
          PROVE  m - 1 \in 1..Len(s) /\ Back(t, m) = Back(s, m - 1)
      <3>4. Len(t) \in Int /\ m \in Int /\ Len(t) - m + 1 \in Int
        BY <1>1, <2>2
      <3>1. PICK k \in Int : k = Len(t) - m + 1
        BY <3>4
      <3>2. /\ m - 1 \in 1..Len(s) /\ k + 1 = Len(s) - (m - 1) + 1
            /\ k \in 1..Len(s) /\ k + 1 \in 1..Len(s)
        BY <1>1, <2>2, <3>1
      <3>3. t[k] = a[k + 1] /\ a[k + 1] = s[k + 1]
        BY <1>1, <2>2, <3>2
      <3> QED BY <3>1, <3>2, <3>3 DEF Back
    <2> QED BY <2>2, <2>3, <2>4 DEF FollowedBy
  <1> QED BY <1>2, <1>3 DEF a

\* A request that is turned away.
LEMMA TurnedAwayKeeps ==
    ASSUME LimiterInv, NEW r \in Requests, Allow(r), Len(Recent(reading[r])) >= Limit
    PROVE  LimiterInv'
  <1>1. LimiterTypeOK /\ WaitsBriefly /\ AllowedInOrder /\ LatestAreKept /\ WindowHolds
    BY DEF LimiterInv
  <1>2. reading[r] # 0 /\ reading[r] \in Nat /\ reading' = [reading EXCEPT ![r] = 0]
    BY <1>1, LimiterNumbers DEF Allow, LimiterTypeOK
  <1>3. UNCHANGED <<time, allowed>> /\ events' = Recent(reading[r])
    BY DEF Allow
  <1>4. events' \in Seq(1..LimiterEnd) /\ Len(events') <= Limit
    BY <1>1, <1>2, <1>3, RecentFacts, LimiterNumbers DEF LimiterTypeOK
  <1>5. LimiterTypeOK' /\ WaitsBriefly'
    BY <1>1, <1>2, <1>3, <1>4, LimiterNumbers DEF LimiterTypeOK, WaitsBriefly
  <1>6. LatestAreKept'
    BY <1>2, <1>3, LatestAreRecent DEF LatestAreKept, Back
  <1>7. AllowedInOrder' /\ WindowHolds'
    BY <1>1, <1>3 DEF AllowedInOrder, WindowHolds
  <1> QED BY <1>5, <1>6, <1>7 DEF LimiterInv

\* A request that is let in: Limit before it in less than the window less the
\* wait would all be recent.
LEMMA LetInKeeps ==
    ASSUME LimiterInv, NEW r \in Requests, Allow(r), ~(Len(Recent(reading[r])) >= Limit)
    PROVE  LimiterInv'
  <1>1. LimiterTypeOK /\ WaitsBriefly /\ AllowedInOrder /\ LatestAreKept /\ WindowHolds
    BY DEF LimiterInv
  <1>2. PICK now : now = reading[r]
    OBVIOUS
  <1>3. now # 0 /\ now \in Nat /\ now \in 1..LimiterEnd /\ reading' = [reading EXCEPT ![r] = 0]
        /\ UNCHANGED time /\ time \in Nat /\ time \in 1..LimiterEnd /\ time <= now + Lag
    BY <1>1, <1>2, LimiterNumbers DEF Allow, LimiterTypeOK, WaitsBriefly
  <1>4. PICK rec : rec = Recent(now)
    OBVIOUS
  <1>5. rec \in Seq(1..LimiterEnd) /\ Len(rec) \in Nat /\ Len(rec) < Limit /\ rec \in Seq(Nat)
    <2>1. rec \in Seq(1..LimiterEnd) /\ Len(rec) \in Nat
      BY <1>1, <1>3, <1>4, RecentFacts
    <2> QED BY <1>2, <1>4, <2>1, LimiterNumbers
  <1>6. events' = Append(rec, now)
    BY <1>2, <1>4 DEF Allow
  <1>7. /\ events' \in Seq(1..LimiterEnd) /\ Len(events') = Len(rec) + 1
        /\ Back(events', 1) = now
        /\ \A m \in 1..Len(rec) : Back(events', m + 1) = Back(rec, m)
    BY <1>3, <1>5, <1>6 DEF Back
  <1>8. allowed \in Seq(Nat) /\ Len(allowed) \in Nat
        /\ \A i \in 1..Len(allowed) : allowed[i] \in 1..LimiterEnd /\ allowed[i] \in Nat
    BY <1>1, LimiterNumbers DEF LimiterTypeOK
  <1> DEFINE seq == Append(allowed, time)
  <1>9. allowed' = IF Len(seq) > Limit + 1 THEN Tail(seq) ELSE seq
    BY DEF Allow
  <1>10. PICK t : t = allowed'
    OBVIOUS
  <1>11. t = seq \/ t = Tail(seq)
    BY <1>9, <1>10
  <1>12. /\ t \in Seq(1..LimiterEnd) /\ Len(t) <= Limit + 1
         /\ \A i \in 1..Len(t) : t[i] <= time
         /\ \A i, j \in 1..Len(t) : i <= j => t[i] <= t[j]
    <2>1. /\ seq \in Seq(1..LimiterEnd) /\ Len(seq) = Len(allowed) + 1
          /\ seq[Len(allowed) + 1] = time /\ \A i \in 1..Len(allowed) : seq[i] = allowed[i]
      BY <1>1, <1>3 DEF LimiterTypeOK
    <2>2. /\ \A i \in 1..Len(seq) : seq[i] <= time
          /\ \A i, j \in 1..Len(seq) : i <= j => seq[i] <= seq[j]
      BY <1>1, <1>3, <1>8, <2>1 DEF AllowedInOrder
    <2> HIDE DEF seq
    <2>3. CASE t = seq /\ ~(Len(seq) > Limit + 1)
      BY <1>8, <2>1, <2>2, <2>3, LimiterNumbers
    <2>4. CASE t = Tail(seq)
      <3>1. /\ t \in Seq(1..LimiterEnd) /\ Len(t) = Len(allowed)
            /\ \A i \in 1..Len(t) : i + 1 \in 1..Len(seq) /\ t[i] = seq[i + 1]
        BY <1>8, <2>1, <2>4
      <3>2. \A i \in 1..Len(t) : t[i] <= time
        BY <2>2, <3>1
      <3>3. ASSUME NEW i \in 1..Len(t), NEW j \in 1..Len(t), i <= j
            PROVE  t[i] <= t[j]
        <4>1. i + 1 <= j + 1 /\ i + 1 \in 1..Len(seq) /\ j + 1 \in 1..Len(seq)
          BY <1>8, <3>1, <3>3
        <4> QED BY <2>2, <3>1, <4>1
      <3>4. Len(t) <= Limit + 1
        BY <1>1, <3>1 DEF AllowedInOrder
      <3> QED BY <3>1, <3>2, <3>3, <3>4
    <2>5. t = IF Len(seq) > Limit + 1 THEN Tail(seq) ELSE seq
      BY <1>9, <1>10
    <2> QED BY <2>3, <2>4, <2>5
  <1>13. /\ Len(t) \in Nat /\ (Len(t) >= 1 => Back(t, 1) = time)
         /\ \A m \in 2..Len(t) : m - 1 \in 1..Len(allowed) /\ Back(t, m) = Back(allowed, m - 1)
    <2>1. allowed \in Seq(Nat) /\ time \in Nat
      BY <1>3, <1>8
    <2>2. FollowedBy(allowed, time, t)
      BY <1>11, <2>1, AppendBack
    <2> QED BY <2>2 DEF FollowedBy
  <1> HIDE DEF seq
  <1>14. \A m \in 1..Len(allowed) :
              time - Back(allowed, m) < Window - Lag =>
                 m <= Len(rec) /\ Back(allowed, m) <= Back(rec, m) + Lag
    BY <1>2, <1>3, <1>4, LatestAreRecent
  <1>15. LimiterTypeOK' /\ WaitsBriefly'
    BY <1>1, <1>3, <1>5, <1>7, <1>10, <1>12, LimiterNumbers DEF LimiterTypeOK, WaitsBriefly
  <1>16. AllowedInOrder'
    BY <1>3, <1>10, <1>12 DEF AllowedInOrder
  <1>17. ASSUME NEW m \in 1..Len(t), time - Back(t, m) < Window - Lag
         PROVE  m <= Len(events') /\ Back(t, m) <= Back(events', m) + Lag
    <2>1. CASE m = 1
      BY <1>3, <1>5, <1>7, <1>13, <2>1
    <2>2. CASE m # 1
      <3>1. m \in 2..Len(t) /\ m - 1 \in 1..Len(allowed) /\ Back(t, m) = Back(allowed, m - 1)
        BY <1>13, <2>2
      <3>2. m - 1 <= Len(rec) /\ Back(allowed, m - 1) <= Back(rec, m - 1) + Lag
        BY <1>14, <1>17, <3>1
      <3>3. m - 1 \in 1..Len(rec) /\ (m - 1) + 1 = m
        BY <1>5, <3>1, <3>2
      <3> QED BY <1>5, <1>7, <3>1, <3>2, <3>3
    <2> QED BY <2>1, <2>2
  <1>18. LatestAreKept'
    BY <1>3, <1>10, <1>17 DEF LatestAreKept, Back
  <1>19. WindowHolds'
    <2> SUFFICES ASSUME NEW i \in 1..Len(t), i + Limit <= Len(t)
                 PROVE  t[i + Limit] - t[i] >= Window - Lag
      BY <1>10 DEF WindowHolds
    <2>1. i = 1 /\ Len(t) = Limit + 1 /\ Limit + 1 \in 2..Len(t) /\ 1 \in 1..Len(t)
      BY <1>12, <1>13, LimiterNumbers
    <2>2. Back(t, Limit + 1) = t[1] /\ Back(t, 1) = t[Limit + 1] /\ Back(t, 1) = time
      <3>1. Len(t) - (Limit + 1) + 1 = 1 /\ Len(t) - 1 + 1 = Limit + 1 /\ Len(t) >= 1
        BY <2>1, LimiterNumbers
      <3> QED BY <1>13, <2>1, <3>1 DEF Back
    <2>3. (Limit + 1) - 1 = Limit
      BY LimiterNumbers
    <2>4. Limit \in 1..Len(allowed) /\ t[1] = Back(allowed, Limit)
      BY <1>13, <2>1, <2>2, <2>3
    <2>5. ~(Limit <= Len(rec))
      BY <1>5, LimiterNumbers
    <2>6. ~(time - Back(allowed, Limit) < Window - Lag)
      BY <1>14, <2>4, <2>5
    <2>7. Back(allowed, Limit) \in Nat
      BY <1>8, <2>4 DEF Back
    <2> QED BY <1>3, <2>1, <2>2, <2>4, <2>6, <2>7, LimiterNumbers
  <1> QED BY <1>15, <1>16, <1>18, <1>19 DEF LimiterInv

\* Every step keeps the invariant of the request window.
LEMMA LimiterStep == LimiterInv /\ [LimiterNext]_limiterVars => LimiterInv'
  <1> SUFFICES ASSUME LimiterInv, [LimiterNext]_limiterVars PROVE LimiterInv'
    OBVIOUS
  <1>1. CASE LimiterTick
    BY <1>1, LimiterTickKeeps
  <1>2. CASE \E r \in Requests : ReadClock(r)
    BY <1>2, ReadClockKeeps
  <1>3. CASE \E r \in Requests : Allow(r)
    BY <1>3, TurnedAwayKeeps, LetInKeeps
  <1>4. CASE UNCHANGED limiterVars
    BY <1>4 DEF limiterVars, LimiterInv, LimiterTypeOK, WaitsBriefly, AllowedInOrder,
       LatestAreKept, WindowHolds, Back
  <1> QED BY <1>1, <1>2, <1>3, <1>4 DEF LimiterNext

\* The invariant of the request window.
THEOREM LimiterInvariant == LimiterSpec => []LimiterInv
  BY LimiterBegins, LimiterStep, PTL DEF LimiterSpec

\* In any time shorter than the window by the wait for the mutex at most Limit
\* requests of a user are let in.
THEOREM WindowLimits == LimiterSpec => []WindowHolds
  <1>1. LimiterInv => WindowHolds
    BY DEF LimiterInv
  <1> QED BY LimiterInvariant, <1>1, PTL

-----------------------------------------------------------------------------
(* The Telegram sender's bucket.                                           *)

\* What was given since a token, and what is left, is paid for by a full bucket
\* and what came in since.
Paid ==
    \A i \in 1..Len(given) :
        /\ given[i] <= lastTime
        /\ (Len(given) - i + 1) * Part + tokens <= Burst * Part + (lastTime - given[i]) * Rate

BucketInv == BucketTypeOK /\ Paid /\ RateHolds

\* The parameters are positive numbers.
LEMMA BucketNumbers ==
    Part \in Nat \ {0} /\ Rate \in Nat \ {0} /\ Burst \in Nat \ {0} /\ BucketEnd \in Nat \ {0}
BY BucketAssumption DEF BucketAssumption

\* Parts come in for every unit of time.
LEMMA Parts ==
    ASSUME NEW a \in Int, NEW b \in Int, NEW c \in Int
    PROVE  a * c \in Int /\ (a + b) * c = a * c + b * c /\ (a + 1) * c = a * c + c
OBVIOUS

\* Multiples keep the order.
LEMMA AtMost ==
    ASSUME NEW x \in Int, NEW y \in Int, NEW t \in Nat, x + t <= y
    PROVE  x <= y
OBVIOUS

\* One unit of time brings Rate parts.
LEMMA One ==
    \A c \in Int : 1 * c = c /\ 0 * c = 0
OBVIOUS

\* Parts are numbers, and more of them in a longer time.
LEMMA PartsGrow ==
    ASSUME NEW a \in Nat, NEW c \in Nat
    PROVE  a * c \in Nat
OBVIOUS

\* The bucket takes no more than it holds.
LEMMA RefillBound ==
    ASSUME BucketTypeOK
    PROVE  /\ Refilled \in 0..(Burst * Part)
           /\ Refilled <= tokens + (ticks - lastTime) * Rate
<1>1. /\ tokens \in Nat /\ tokens <= Burst * Part /\ Burst * Part \in Nat
      /\ ticks - lastTime \in Nat /\ Rate \in Nat
  BY BucketNumbers DEF BucketTypeOK
<1> DEFINE more == tokens + (ticks - lastTime) * Rate
           full == Burst * Part
<1>2. more \in Nat /\ full \in Nat
  BY <1>1, PartsGrow
<1> HIDE DEF more, full
<1>3. \E x \in {more, full} : \A y \in {more, full} : x <= y
  BY <1>2
<1>4. Min({more, full}) \in {more, full} /\ Min({more, full}) <= more /\ Min({more, full}) <= full
  BY <1>3 DEF Min
<1>5. Refilled = Min({more, full})
  BY DEF Refilled, more, full
<1>6. Refilled \in 0..full /\ Refilled <= more
  BY <1>2, <1>4, <1>5
<1> QED BY <1>6 DEF more, full

\* A poll: the time since the last one comes in, and a token goes out if there
\* is one.
LEMMA AcquireKeeps ==
    ASSUME BucketInv, NEW p \in Polls, TryAcquire(p)
    PROVE  BucketInv'
<1> DEFINE n == Len(given)
           full == Burst * Part
<1>0. /\ Part \in Nat /\ Part > 0 /\ Rate \in Nat /\ full \in Nat /\ BucketEnd \in Nat
      /\ tokens \in Nat /\ ticks \in Nat /\ lastTime \in Nat /\ lastTime <= ticks
      /\ 1 <= ticks /\ ticks <= BucketEnd /\ n \in Nat
      /\ given \in Seq(1..BucketEnd)
  BY BucketNumbers DEF BucketInv, BucketTypeOK
<1>1. \A i \in 1..n : given[i] \in Nat /\ given[i] <= lastTime /\ given[i] >= 1
  BY <1>0 DEF BucketInv, Paid
<1>2. Refilled \in Nat /\ Refilled <= full /\ Refilled <= tokens + (ticks - lastTime) * Rate
  BY <1>0, RefillBound DEF BucketInv
<1>3. \A i \in 1..n : (n - i + 1) * Part + Refilled <= full + (ticks - given[i]) * Rate
  <2> SUFFICES ASSUME NEW i \in 1..n
               PROVE  (n - i + 1) * Part + Refilled <= full + (ticks - given[i]) * Rate
    OBVIOUS
  <2> DEFINE spent == (n - i + 1) * Part
             a == ticks - lastTime
             b == lastTime - given[i]
  <2>1. spent + tokens <= full + b * Rate
    BY DEF BucketInv, Paid
  <2>2. a \in Int /\ b \in Int /\ a + b = ticks - given[i] /\ spent \in Int
    <3>1. n - i + 1 \in Int
      BY <1>0
    <3> QED BY <1>0, <1>1, <3>1, Parts
  <2> HIDE DEF a, b, spent, full
  <2>3. (a + b) * Rate = a * Rate + b * Rate /\ a * Rate \in Int /\ b * Rate \in Int
    BY <1>0, <2>2, Parts
  <2>4. Refilled <= tokens + a * Rate
    BY <1>2 DEF a
  <2>5. spent + Refilled <= full + (a + b) * Rate
    BY <1>0, <1>2, <2>1, <2>2, <2>3, <2>4
  <2> QED BY <2>2, <2>5 DEF spent
<1>4. lastTime' = ticks /\ ticks' = ticks
  BY DEF TryAcquire
<1>5. CASE Refilled < Part
  <2>1. tokens' = Refilled /\ UNCHANGED <<waiting, given>>
    BY <1>0, <1>2, <1>5 DEF TryAcquire
  <2>2. BucketTypeOK'
    BY <1>0, <1>2, <1>4, <2>1 DEF BucketInv, BucketTypeOK
  <2>3. Paid'
    <3> SUFFICES ASSUME NEW i \in 1..n
                 PROVE  /\ given[i] <= ticks
                        /\ (n - i + 1) * Part + Refilled <= full + (ticks - given[i]) * Rate
      BY <1>4, <2>1 DEF Paid
    <3>1. given[i] <= ticks
      BY <1>0, <1>1
    <3> QED BY <1>3, <3>1
  <2> QED BY <2>1, <2>2, <2>3 DEF BucketInv, RateHolds
<1>6. CASE Refilled >= Part
  <2>1. tokens' = Refilled - Part /\ waiting' = waiting \ {p} /\ given' = Append(given, ticks)
    BY <1>6 DEF TryAcquire
  <2>2. /\ given' \in Seq(1..BucketEnd) /\ Len(given') = n + 1 /\ given'[n + 1] = ticks
        /\ \A i \in 1..n : given'[i] = given[i]
    BY <1>0, <2>1
  <2>3. tokens' \in Nat /\ tokens' <= full
    BY <1>0, <1>2, <1>6, <2>1
  <2>4. BucketTypeOK'
    BY <1>0, <1>4, <2>1, <2>2, <2>3 DEF BucketInv, BucketTypeOK
  <2>5. \A i \in 1..(n + 1) : /\ given'[i] <= ticks
                              /\ (n - i + 2) * Part + tokens' <= full + (ticks - given'[i]) * Rate
    <3> SUFFICES ASSUME NEW i \in 1..(n + 1)
                 PROVE  /\ given'[i] <= ticks
                        /\ (n - i + 2) * Part + tokens' <= full + (ticks - given'[i]) * Rate
      OBVIOUS
    <3>1. CASE i = n + 1
      <4>1. given'[i] = ticks /\ (n - i + 2) = 1 /\ ticks - given'[i] = 0
        BY <1>0, <2>2, <3>1
      <4>2. (n - i + 2) * Part = Part /\ (ticks - given'[i]) * Rate = 0
        <5>1. 1 * Part = Part /\ 0 * Rate = 0
          BY <1>0, One
        <5> QED BY <4>1, <5>1, Zenon
      <4> QED BY <1>0, <1>2, <2>1, <4>1, <4>2
    <3>2. CASE i # n + 1
      <4>1. i \in 1..n /\ given'[i] = given[i]
        BY <1>0, <2>2, <3>2
      <4> DEFINE k == n - i + 1
                 in == (ticks - given[i]) * Rate
      <4>2. k \in Int /\ n - i + 2 = k + 1 /\ k * Part \in Int /\ in \in Int
        <5>1. k \in Int /\ ticks - given[i] \in Int
          BY <1>0, <1>1, <4>1
        <5> QED BY <1>0, <5>1, Parts
      <4>3. (k + 1) * Part = k * Part + Part
        BY <1>0, <4>2, Parts
      <4>4. k * Part + Refilled <= full + in
        BY <1>3, <4>1
      <4>5. n - i + 2 = k + 1
        BY <4>2
      <4> HIDE DEF k, in, full
      <4>6. (k + 1) * Part + tokens' <= full + in
        BY <1>0, <1>2, <2>1, <4>2, <4>3, <4>4
      <4>7. (n - i + 2) * Part + tokens' <= full + in
        BY <4>5, <4>6
      <4> QED BY <1>0, <1>1, <4>1, <4>7 DEF in
    <3> QED BY <3>1, <3>2
  <2>6. Paid'
    <3> SUFFICES ASSUME NEW i \in 1..Len(given')
                 PROVE  /\ given'[i] <= lastTime'
                        /\ (Len(given') - i + 1) * Part + tokens'
                              <= Burst * Part + (lastTime' - given'[i]) * Rate
      BY DEF Paid
    <3>1. i \in 1..(n + 1) /\ Len(given') - i + 1 = n - i + 2
      BY <1>0, <2>2
    <3> QED BY <1>4, <2>5, <3>1
  <2>7. RateHolds'
    <3> SUFFICES ASSUME NEW i \in 1..(n + 1), NEW j \in 1..(n + 1), i <= j
                 PROVE  (j - i + 1) * Part <= full + (given'[j] - given'[i]) * Rate
      BY <2>2 DEF RateHolds
    <3>1. CASE j = n + 1
      <4>1. (n - i + 2) * Part + tokens' <= full + (ticks - given'[i]) * Rate
        BY <2>5
      <4>2. j - i + 1 = n - i + 2 /\ given'[j] = ticks
        BY <1>0, <2>2, <3>1
      <4>3. given'[i] \in Int /\ ticks - given'[i] \in Int /\ n - i + 2 \in Int
        BY <1>0, <1>1, <2>2
      <4>4. (n - i + 2) * Part \in Int /\ (ticks - given'[i]) * Rate \in Int
        BY <1>0, <4>3, Parts
      <4>5. (n - i + 2) * Part <= full + (ticks - given'[i]) * Rate
        <5>1. full + (ticks - given'[i]) * Rate \in Int /\ tokens' \in Nat
          BY <1>0, <2>3, <4>4
        <5> QED BY <4>1, <4>4, <5>1, AtMost
      <4> QED BY <4>2, <4>5
    <3>2. CASE j # n + 1
      <4>0. i \in 1..n /\ j \in 1..n
        BY <1>0, <3>2
      <4>1. i \in 1..n /\ j \in 1..n /\ given'[i] = given[i] /\ given'[j] = given[j]
        BY <2>2, <4>0
      <4> QED BY <4>1 DEF BucketInv, RateHolds
    <3> QED BY <3>1, <3>2
  <2> QED BY <2>4, <2>6, <2>7 DEF BucketInv
<1> QED BY <1>0, <1>2, <1>5, <1>6

\* The bucket keeps its types, and nobody gets more than comes in.
THEOREM BucketInvariant == BucketSpec => []BucketInv
<1>1. BucketInit => BucketInv
  <2> SUFFICES ASSUME BucketInit PROVE BucketInv
    OBVIOUS
  <2>1. Burst * Part \in Nat /\ BucketEnd \in Nat \ {0}
    BY BucketNumbers, PartsGrow
  <2>2. BucketTypeOK
    BY <2>1 DEF BucketInit, BucketTypeOK
  <2>3. Len(given) = 0
    BY DEF BucketInit
  <2> QED BY <2>2, <2>3 DEF BucketInv, Paid, RateHolds
<1>2. BucketInv /\ [BucketNext]_bucketVars => BucketInv'
  <2> SUFFICES ASSUME BucketInv, [BucketNext]_bucketVars PROVE BucketInv'
    OBVIOUS
  <2>1. ASSUME NEW p \in Polls, TryAcquire(p) PROVE BucketInv'
    BY <2>1, AcquireKeeps
  <2>2. ASSUME UNCHANGED <<tokens, lastTime, given>>, waiting' \subseteq Polls,
               ticks' \in 1..BucketEnd, ticks' >= ticks
        PROVE  BucketInv'
    <3>1. BucketTypeOK'
      BY <2>2, BucketNumbers DEF BucketInv, BucketTypeOK
    <3> QED BY <2>2, <3>1 DEF BucketInv, Paid, RateHolds
  <2>3. waiting \subseteq Polls /\ ticks \in 1..BucketEnd /\ BucketEnd \in Nat
    BY BucketNumbers DEF BucketInv, BucketTypeOK
  <2>4. CASE BucketTick
    BY <2>2, <2>3, <2>4 DEF BucketTick
  <2>5. ASSUME NEW p \in Polls, Wait(p) \/ Cancelled(p) PROVE BucketInv'
    BY <2>2, <2>3, <2>5 DEF Wait, Cancelled
  <2>6. CASE UNCHANGED bucketVars
    BY <2>2, <2>3, <2>6 DEF bucketVars
  <2> QED BY <2>1, <2>4, <2>5, <2>6 DEF BucketNext
<1> QED BY <1>1, <1>2, PTL DEF BucketSpec

\* The rate holds between any two tokens.
THEOREM BucketRateHolds == BucketSpec => []RateHolds
<1>1. BucketInv => RateHolds
  BY DEF BucketInv
<1> QED BY <1>1, BucketInvariant, PTL

-----------------------------------------------------------------------------
(* Renewal reminders.                                                      *)

\* x is being worked on: its claim is fresh.
InHand(x) == loop.pc \in {"send", "release"} /\ loop.current = x

\* x is promised to a user who has not changed since the list was read.
Owed(x) == x[1] \in steady /\ expires[x[1]] = x[2] /\ Promised(x[1], x[3])

\* What some channel said it sent is claimed; the claim in hand has not been
\* sent so yet, and neither a crash nor a failed release left it.
ClaimFirst ==
    /\ \A x \in Reminder : sent[x] # unheard[x] => x \in claimed
    /\ \A x \in Reminder : InHand(x) => sent[x] = unheard[x] /\ x \notin abandoned
    /\ loop.pc \in {"send", "release"} => loop.current \in loop.todo
    /\ loop.pc = "idle" => loop.todo = {}

\* Without faults nothing was abandoned, no answer was lost, nothing could be
\* sent only to a user without a channel, and what is owed was sent or is on the
\* list.
NothingMissed ==
    faults = 0 =>
      /\ abandoned = {} /\ \A x \in Reminder : unheard[x] = 0
      /\ \A x \in Reminder : loop.pc = "release" /\ InHand(x) =>
            x[1] \notin steady \/ enabled[x[1]] = {}
      /\ ran => \A x \in Reminder : Owed(x) => x \in loop.todo \/ sent[x] = 1

ReminderInv == ReminderTypeOK /\ ClaimFirst /\ RemindersKeepPromises /\ NothingMissed

ReminderNumbers ==
    /\ DayLength \in Nat \ {0} /\ RenewalWindow \in Nat /\ ExpiryDayGrace \in Nat
    /\ ReminderEnd \in Nat \ {0} /\ MaxReminderFaults \in Nat /\ MaxMoves \in Nat
    /\ Expiries \subseteq Nat \ {0}

\* The parameters of the reminders are numbers.
LEMMA RNumbers == ReminderNumbers
  BY ReminderAssumption DEF ReminderAssumption, ReminderNumbers

\* A time lies in its day, which begins at a multiple of the day's length.
LEMMA DayBounds ==
    ASSUME NEW t \in Nat
    PROVE  /\ DayStart(t) \in Nat /\ DayStart(t) <= t /\ t < DayStart(t) + DayLength
           /\ DayStart(t) = DayLength * (t \div DayLength)
           /\ t \div DayLength \in Nat
  <1>1. DayLength \in Nat \ {0}
    BY RNumbers DEF ReminderNumbers
  <1>2. /\ t = DayLength * (t \div DayLength) + (t % DayLength)
        /\ 0 <= t % DayLength /\ t % DayLength < DayLength /\ t % DayLength \in Nat
        /\ t \div DayLength \in Nat
    BY <1>1
  <1> DEFINE q == t \div DayLength
  <1>3. DayLength * q \in Nat
    BY <1>1, <1>2
  <1> QED BY <1>1, <1>2, <1>3 DEF DayStart

\* What is promised is on the list of the store and of the dispatcher: the
\* window before the expiry, and the grace of two days that begins with the
\* day of the expiry.
LEMMA PromisedIsListed ==
    ASSUME ReminderTypeOK, NEW u \in Members, NEW k \in Kinds, Promised(u, k)
    PROVE  Candidate(u) /\ k \in KindsAt(expires[u]) /\ expires[u] \in Expiries
  <1> DEFINE e == expires[u]
             q == e \div DayLength
             p == rNow \div DayLength
  <1>1. /\ DayLength \in Nat \ {0} /\ RenewalWindow \in Nat /\ ExpiryDayGrace \in Nat
        /\ 2 * DayLength <= ExpiryDayGrace /\ DayLength <= RenewalWindow
    BY RNumbers, GraceAssumption DEF ReminderNumbers
  <1>2. rNow \in Nat /\ e \in Expiries /\ e \in Nat \ {0} /\ enabled[u] # {}
    <2>1. rNow \in Nat /\ e \in Expiries \cup {0} /\ e # 0 /\ enabled[u] # {}
      BY RNumbers DEF ReminderNumbers, ReminderTypeOK, Promised
    <2> QED BY <2>1, RNumbers DEF ReminderNumbers
  <1>3. CASE k = "expiring"
    <2>1. rNow < e /\ e <= rNow + RenewalWindow
      BY <1>3 DEF Promised
    <2>2. e + ExpiryDayGrace > rNow /\ e > rNow
      BY <1>1, <1>2, <2>1
    <2> QED BY <1>2, <1>3, <2>1, <2>2 DEF Candidate, KindsAt
  <1>4. CASE k = "expiry_day"
    <2>1. p - q \in {0, 1} /\ rNow >= DayStart(e)
      BY <1>4 DEF Promised
    <2>2. /\ DayStart(e) \in Nat /\ DayStart(e) <= e /\ e < DayStart(e) + DayLength
          /\ DayStart(e) = DayLength * q /\ q \in Nat
      BY <1>2, DayBounds
    <2>3. /\ DayStart(rNow) \in Nat /\ rNow < DayStart(rNow) + DayLength
          /\ DayStart(rNow) = DayLength * p /\ p \in Nat
      BY <1>2, DayBounds
    <2> HIDE DEF q, p, e
    <2>4. p = q \/ p = q + 1
      BY <2>1, <2>2, <2>3
    <2>5. DayLength * (q + 1) = DayLength * q + DayLength
      BY <1>1, <2>2
    <2>6. DayStart(rNow) <= DayStart(e) + DayLength
      BY <1>1, <2>2, <2>3, <2>4, <2>5
    <2>7. rNow < DayStart(e) + ExpiryDayGrace
      BY <1>1, <1>2, <2>2, <2>3, <2>6
    <2>8. e + ExpiryDayGrace > rNow /\ e <= rNow + RenewalWindow
      BY <1>1, <1>2, <2>1, <2>2, <2>7
    <2> QED BY <1>2, <1>4, <2>1, <2>7, <2>8 DEF Candidate, KindsAt, e
  <1> QED BY <1>3, <1>4 DEF Kinds

\* The invariant of the reminders holds initially.
LEMMA ReminderBegins == ReminderInit => ReminderInv
  <1> SUFFICES ASSUME ReminderInit PROVE ReminderInv
    OBVIOUS
  <1>1. ReminderTypeOK
    <2>1. rNow \in 1..ReminderEnd /\ faults \in 0..MaxReminderFaults /\ moves \in 0..MaxMoves
      BY RNumbers DEF ReminderNumbers, ReminderInit
    <2>2. {sent, unheard} \subseteq [Reminder -> Nat] /\ expires \in [Members -> Expiries \cup {0}]
      BY DEF ReminderInit
    <2>3. enabled \in [Members -> SUBSET Channels]
      BY DEF ReminderInit
    <2> QED BY <2>1, <2>2, <2>3 DEF ReminderInit, ReminderTypeOK, IdleLoop
  <1>2. ClaimFirst /\ RemindersKeepPromises /\ NothingMissed
    BY DEF ReminderInit, ClaimFirst, RemindersKeepPromises, RemindedOnce, ClaimsAreSpent,
           PromisesKept, NothingMissed, IdleLoop, InHand
  <1> QED BY <1>1, <1>2 DEF ReminderInv

\* A fault leaves the promises to a run without faults alone.
LEMMA FaultExcuses ==
    ASSUME ReminderTypeOK, Fail
    PROVE  faults' # 0 /\ faults' \in 0..MaxReminderFaults /\ NothingMissed' /\ PromisesKept'
  <1>1. faults' # 0 /\ faults' \in 0..MaxReminderFaults
    BY RNumbers DEF ReminderNumbers, ReminderTypeOK, Fail
  <1> QED BY <1>1 DEF NothingMissed, PromisesKept

\* The list: whatever is owed is on it, or the list failed.
LEMMA ListKeeps ==
    ASSUME ReminderInv, RunReminders
    PROVE  ReminderInv'
  <1>1. ReminderTypeOK /\ ClaimFirst /\ RemindersKeepPromises /\ NothingMissed
    BY DEF ReminderInv
  <1>2. UNCHANGED <<rNow, expires, enabled, claimed, sent, unheard, abandoned, due, moves>>
    BY DEF RunReminders
  <1>3. loop.pc = "idle" /\ ran' = TRUE /\ steady' = Members
    BY DEF RunReminders
  <1>4. CASE Fail /\ UNCHANGED loop
    <2>1. ReminderTypeOK' /\ NothingMissed' /\ PromisesKept'
      BY <1>1, <1>2, <1>3, <1>4, FaultExcuses DEF ReminderTypeOK
    <2>2. ClaimFirst' /\ RemindedOnce' /\ ClaimsAreSpent'
      BY <1>1, <1>2, <1>3, <1>4 DEF ClaimFirst, RemindersKeepPromises, RemindedOnce,
         ClaimsAreSpent, InHand
    <2> QED BY <2>1, <2>2 DEF ReminderInv, RemindersKeepPromises
  <1>5. CASE UNCHANGED faults /\
             loop' = [pc |-> "list", current |-> <<>>,
             todo |-> {<<u, expires[u], k>> : u \in {v \in Members : Candidate(v)}, k \in Kinds}
                      \cap {x \in Reminder : x[3] \in KindsAt(x[2])}]
    <2> DEFINE listed == {<<u, expires[u], k>> : u \in {v \in Members : Candidate(v)}, k \in Kinds}
                      \cap {x \in Reminder : x[3] \in KindsAt(x[2])}
    <2>1. listed \subseteq Reminder
      OBVIOUS
    <2>2. \A x \in Reminder : Owed(x)' => x \in listed
      <3> SUFFICES ASSUME NEW x \in Reminder, Owed(x)'
                   PROVE  x \in listed
        OBVIOUS
      <3>1. x[1] \in Members /\ x[3] \in Kinds /\ x = <<x[1], x[2], x[3]>>
        BY DEF Reminder
      <3>2. expires[x[1]] = x[2] /\ Promised(x[1], x[3])
        BY <1>2 DEF Owed, Promised
      <3>3. Candidate(x[1]) /\ x[3] \in KindsAt(x[2])
        BY <1>1, <3>1, <3>2, PromisedIsListed
      <3> QED BY <3>1, <3>2, <3>3
    <2>3. loop' = [pc |-> "list", current |-> <<>>, todo |-> listed]
      BY <1>5
    <2> HIDE DEF listed
    <2>4. ReminderTypeOK'
      BY <1>1, <1>2, <1>3, <1>5, <2>1, <2>3 DEF ReminderTypeOK
    <2>5. ClaimFirst' /\ RemindedOnce' /\ ClaimsAreSpent' /\ PromisesKept'
      BY <1>1, <1>2, <1>3, <1>5, <2>3 DEF ClaimFirst, RemindersKeepPromises, RemindedOnce,
         ClaimsAreSpent, InHand, PromisesKept
    <2>6. NothingMissed'
      BY <1>1, <1>2, <1>3, <1>5, <2>2, <2>3 DEF NothingMissed, InHand
    <2> QED BY <2>4, <2>5, <2>6 DEF ReminderInv, RemindersKeepPromises
  <1> QED BY <1>4, <1>5 DEF RunReminders

\* A claim: who is claimed already was sent it, unless something failed.
LEMMA ClaimKeeps ==
    ASSUME ReminderInv, NEW x \in Reminder, ClaimReminder(x)
    PROVE  ReminderInv'
  <1>1. ReminderTypeOK /\ ClaimFirst /\ RemindersKeepPromises /\ NothingMissed
    BY DEF ReminderInv
  <1>2. /\ UNCHANGED <<world, sent, unheard, abandoned>>
        /\ loop.pc = "list" /\ x \in loop.todo
    BY DEF ClaimReminder
  <1>3. CASE x \in claimed /\ loop' = Next1(x) /\ UNCHANGED <<claimed, faults>>
    <2>1. ReminderTypeOK'
      BY <1>1, <1>2, <1>3 DEF ReminderTypeOK, Next1, world
    <2>2. ClaimFirst' /\ RemindedOnce' /\ ClaimsAreSpent' /\ PromisesKept'
      BY <1>1, <1>2, <1>3 DEF ClaimFirst, RemindersKeepPromises, RemindedOnce,
         ClaimsAreSpent, InHand, PromisesKept, Next1, world
    <2>3. faults = 0 => sent[x] = 1
      BY <1>1, <1>2, <1>3 DEF RemindersKeepPromises, ClaimsAreSpent, NothingMissed
    <2>4. NothingMissed'
      BY <1>1, <1>2, <1>3, <2>3 DEF NothingMissed, InHand, Next1, world, Owed, Promised
    <2> QED BY <2>1, <2>2, <2>4 DEF ReminderInv, RemindersKeepPromises
  <1>4. CASE /\ x \notin claimed /\ loop' = [pc |-> "send", todo |-> loop.todo, current |-> x]
             /\ claimed' = claimed \cup {x} /\ UNCHANGED faults
    <2>1. ReminderTypeOK'
      BY <1>1, <1>2, <1>4 DEF ReminderTypeOK, world
    <2>2. ClaimFirst' /\ RemindedOnce' /\ ClaimsAreSpent' /\ PromisesKept'
      BY <1>1, <1>2, <1>4 DEF ClaimFirst, RemindersKeepPromises, RemindedOnce,
         ClaimsAreSpent, InHand, PromisesKept, ReminderTypeOK, world
    <2>3. NothingMissed'
      BY <1>1, <1>2, <1>4 DEF NothingMissed, InHand, world, Owed, Promised
    <2> QED BY <2>1, <2>2, <2>3 DEF ReminderInv, RemindersKeepPromises
  <1>5. CASE Fail /\ loop' = Next1(x) /\ UNCHANGED claimed
    <2>1. ReminderTypeOK' /\ NothingMissed' /\ PromisesKept'
      BY <1>1, <1>2, <1>5, FaultExcuses DEF ReminderTypeOK, Next1, world
    <2>2. ClaimFirst' /\ RemindedOnce' /\ ClaimsAreSpent'
      BY <1>1, <1>2, <1>5 DEF ClaimFirst, RemindersKeepPromises, RemindedOnce,
         ClaimsAreSpent, InHand, Next1, world
    <2> QED BY <2>1, <2>2 DEF ReminderInv, RemindersKeepPromises
  <1>6. x \in claimed => claimed \cup {x} = claimed
    OBVIOUS
  <1> QED BY <1>3, <1>4, <1>5, <1>6 DEF ClaimReminder

\* A send: the claim in hand goes out and some channel says so, or none does.
LEMMA SendKeeps ==
    ASSUME ReminderInv, SendReminder
    PROVE  ReminderInv'
  <1>1. ReminderTypeOK /\ ClaimFirst /\ RemindersKeepPromises /\ NothingMissed
    BY DEF ReminderInv
  <1>2. UNCHANGED <<world, claimed, abandoned>> /\ loop.pc = "send"
    BY DEF SendReminder
  <1>3. PICK done \in SUBSET enabled[loop.current[1]] :
            \E silent \in SUBSET (enabled[loop.current[1]] \ done) :
                /\ Deliver(loop.current, done, silent)
                /\ loop' = IF done = {} THEN [loop EXCEPT !.pc = "release"]
                                         ELSE Next1(loop.current)
    BY DEF SendReminder
  <1>3a. PICK silent \in SUBSET (enabled[loop.current[1]] \ done) :
                /\ Deliver(loop.current, done, silent)
                /\ loop' = IF done = {} THEN [loop EXCEPT !.pc = "release"]
                                         ELSE Next1(loop.current)
    BY <1>3
  <1>4. PICK x : x = loop.current
    OBVIOUS
  <1>5. /\ x \in claimed /\ x \in Reminder /\ x \in loop.todo
        /\ sent[x] = unheard[x] /\ x \notin abandoned /\ InHand(x)
    BY <1>1, <1>2, <1>4 DEF ReminderTypeOK, ClaimFirst, InHand
  <1>5a. /\ IF done = enabled[x[1]] THEN UNCHANGED faults ELSE Fail
         /\ sent' = IF done \cup silent = {} THEN sent ELSE [sent EXCEPT ![x] = @ + 1]
         /\ unheard' = IF done = {} /\ silent # {} THEN [unheard EXCEPT ![x] = @ + 1] ELSE unheard
    BY <1>3a, <1>4 DEF Deliver
  <1>5b. \A y \in Reminder : sent[y] \in Nat /\ unheard[y] \in Nat
    BY <1>1 DEF ReminderTypeOK
  <1>6. CASE done = {}
    <2>1. loop' = [pc |-> "release", todo |-> loop.todo, current |-> x]
      BY <1>1, <1>3a, <1>4, <1>6 DEF ReminderTypeOK
    <2>2. \/ UNCHANGED <<faults, sent, unheard>> /\ enabled[x[1]] = {}
          \/ Fail
      BY <1>3a, <1>4, <1>5a, <1>6
    <2>3. faults' \in 0..MaxReminderFaults
      BY <1>1, <2>2, FaultExcuses DEF ReminderTypeOK
    <2>3a. /\ {sent', unheard'} \subseteq [Reminder -> Nat]
           /\ sent'[x] = unheard'[x]
           /\ \A y \in Reminder : y # x => sent'[y] = sent[y] /\ unheard'[y] = unheard[y]
      <3>1. CASE silent = {}
        BY <1>1, <1>5, <1>5a, <1>6, <3>1 DEF ReminderTypeOK
      <3>2. CASE silent # {}
        <4>1. /\ sent' = [sent EXCEPT ![x] = sent[x] + 1]
              /\ unheard' = [unheard EXCEPT ![x] = unheard[x] + 1]
          BY <1>5a, <1>6, <3>2
        <4> QED BY <1>1, <1>5, <1>5b, <4>1 DEF ReminderTypeOK
      <3> QED BY <3>1, <3>2
    <2>4. ReminderTypeOK'
      BY <1>1, <1>2, <1>5, <2>1, <2>3, <2>3a DEF ReminderTypeOK, world
    <2>5. ClaimFirst' /\ ClaimsAreSpent'
      BY <1>1, <1>2, <1>4, <1>5, <2>1, <2>3a DEF ClaimFirst, RemindersKeepPromises,
         ClaimsAreSpent, InHand, ReminderTypeOK, world
    <2>5a. RemindedOnce'
      <3> SUFFICES ASSUME NEW y \in Reminder PROVE sent'[y] <= 1 + unheard'[y]
        BY DEF RemindedOnce
      <3>1. sent'[y] \in Nat /\ unheard'[y] \in Nat
        BY <2>3a
      <3>2. CASE y = x
        BY <2>3a, <3>1, <3>2
      <3>3. CASE y # x
        BY <1>1, <2>3a, <3>3 DEF RemindersKeepPromises, RemindedOnce
      <3> QED BY <3>2, <3>3
    <2>6. CASE UNCHANGED <<faults, sent, unheard>> /\ enabled[x[1]] = {}
      <3>1. PromisesKept'
        BY <1>1, <1>2, <2>1, <2>6 DEF RemindersKeepPromises, PromisesKept, world
      <3>2. NothingMissed'
        BY <1>1, <1>2, <2>1, <2>6 DEF NothingMissed, InHand, world, Owed, Promised
      <3> QED BY <2>4, <2>5, <2>5a, <3>1, <3>2 DEF ReminderInv, RemindersKeepPromises
    <2>7. CASE Fail
      BY <1>1, <2>4, <2>5, <2>5a, <2>7, FaultExcuses DEF ReminderInv, RemindersKeepPromises
    <2> QED BY <2>2, <2>6, <2>7
  <1>7. CASE done # {}
    <2>1. /\ sent' = [sent EXCEPT ![x] = sent[x] + 1] /\ unheard' = unheard
          /\ loop' = Next1(x)
      BY <1>3a, <1>4, <1>5a, <1>7
    <2>2. /\ sent' \in [Reminder -> Nat] /\ sent'[x] = 1 + unheard[x]
          /\ \A y \in Reminder : y # x => sent'[y] = sent[y]
      BY <1>1, <1>5, <1>5b, <2>1 DEF ReminderTypeOK
    <2>3. UNCHANGED faults \/ Fail
      BY <1>5a
    <2>4. faults' \in 0..MaxReminderFaults
      BY <1>1, <2>3, FaultExcuses DEF ReminderTypeOK
    <2>5. ReminderTypeOK'
      BY <1>1, <1>2, <1>5, <2>1, <2>2, <2>4 DEF ReminderTypeOK, Next1, world
    <2>6. ClaimFirst'
      BY <1>1, <1>2, <1>5, <2>1, <2>2 DEF ClaimFirst, InHand, Next1, world
    <2>6a. RemindedOnce'
      <3> SUFFICES ASSUME NEW y \in Reminder PROVE sent'[y] <= 1 + unheard[y]
        BY <2>1 DEF RemindedOnce
      <3>1. CASE y = x
        BY <1>5b, <2>2, <3>1
      <3>2. CASE y # x
        BY <1>1, <2>2, <3>2 DEF RemindersKeepPromises, RemindedOnce
      <3> QED BY <3>1, <3>2
    <2>7. ClaimsAreSpent'
      BY <1>1, <1>2, <1>4, <1>5, <2>1, <2>2 DEF RemindersKeepPromises, ClaimsAreSpent,
         InHand, Next1, ReminderTypeOK, world
    <2>8. CASE UNCHANGED faults
      <3>1. PromisesKept'
        BY <1>1, <1>2, <1>5, <2>2, <2>8 DEF RemindersKeepPromises, PromisesKept, NothingMissed,
           ReminderTypeOK, world
      <3>2. faults = 0 => sent'[x] = 1
        BY <1>1, <1>5, <2>2 DEF NothingMissed
      <3>3. NothingMissed'
        BY <1>1, <1>2, <2>1, <2>2, <2>8, <3>2 DEF NothingMissed, InHand, Next1, world, Owed,
           Promised
      <3> QED BY <2>5, <2>6, <2>6a, <2>7, <3>1, <3>3 DEF ReminderInv, RemindersKeepPromises
    <2>9. CASE Fail
      BY <1>1, <2>5, <2>6, <2>6a, <2>7, <2>9, FaultExcuses DEF ReminderInv, RemindersKeepPromises
    <2> QED BY <2>3, <2>8, <2>9
  <1> QED BY <1>6, <1>7

\* A release: only the claim in hand goes, which no channel said it sent.
LEMMA ReleaseKeeps ==
    ASSUME ReminderInv, ReleaseReminder
    PROVE  ReminderInv'
  <1>1. ReminderTypeOK /\ ClaimFirst /\ RemindersKeepPromises /\ NothingMissed
    BY DEF ReminderInv
  <1>2. UNCHANGED <<world, sent, unheard>> /\ loop.pc = "release"
    BY DEF ReleaseReminder
  <1>3. PICK x : x = loop.current
    OBVIOUS
  <1>4. /\ x \in claimed /\ x \in Reminder /\ x \in loop.todo
        /\ sent[x] = unheard[x] /\ x \notin abandoned /\ InHand(x)
    BY <1>1, <1>2, <1>3 DEF ReminderTypeOK, ClaimFirst, InHand
  <1>5. loop' = Next1(x)
    BY <1>3 DEF ReleaseReminder
  <1>6. CASE claimed' = claimed \ {x} /\ UNCHANGED <<abandoned, faults>>
    <2>1. ReminderTypeOK'
      BY <1>1, <1>2, <1>4, <1>5, <1>6 DEF ReminderTypeOK, Next1, world
    <2>2. ClaimFirst' /\ RemindedOnce'
      BY <1>1, <1>2, <1>4, <1>5, <1>6 DEF ClaimFirst, RemindersKeepPromises, RemindedOnce,
         InHand, Next1, world
    <2>3. ClaimsAreSpent' /\ PromisesKept'
      BY <1>1, <1>2, <1>3, <1>4, <1>5, <1>6 DEF RemindersKeepPromises, ClaimsAreSpent,
         PromisesKept, Next1, world
    <2>4. NothingMissed'
      BY <1>1, <1>2, <1>4, <1>5, <1>6 DEF NothingMissed, InHand, Next1, world, Owed, Promised
    <2> QED BY <2>1, <2>2, <2>3, <2>4 DEF ReminderInv, RemindersKeepPromises
  <1>7. CASE Fail /\ abandoned' = abandoned \cup {x} /\ UNCHANGED claimed
    <2>1. ReminderTypeOK' /\ NothingMissed' /\ PromisesKept'
      BY <1>1, <1>2, <1>4, <1>5, <1>7, FaultExcuses DEF ReminderTypeOK, Next1, world
    <2>2. ClaimFirst' /\ RemindedOnce'
      BY <1>1, <1>2, <1>4, <1>5, <1>7 DEF ClaimFirst, RemindersKeepPromises, RemindedOnce,
         InHand, Next1, world
    <2>3. ClaimsAreSpent'
      BY <1>1, <1>2, <1>3, <1>4, <1>5, <1>7 DEF RemindersKeepPromises, ClaimsAreSpent,
         Next1, world
    <2> QED BY <2>1, <2>2, <2>3 DEF ReminderInv, RemindersKeepPromises
  <1> QED BY <1>3, <1>6, <1>7 DEF ReleaseReminder

\* A crash leaves the claim in hand behind.
LEMMA CrashKeeps ==
    ASSUME ReminderInv, CrashReminders
    PROVE  ReminderInv'
  <1>1. ReminderTypeOK /\ ClaimFirst /\ RemindersKeepPromises
    BY DEF ReminderInv
  <1>2. /\ UNCHANGED <<rNow, expires, enabled, claimed, sent, unheard, steady, due, moves>>
        /\ Fail /\ loop' = IdleLoop /\ ran' = FALSE
        /\ abandoned' = abandoned \cup ({loop.current} \cap claimed)
    BY DEF CrashReminders
  <1>3. NothingMissed' /\ PromisesKept' /\ faults' \in 0..MaxReminderFaults
    BY <1>1, <1>2, FaultExcuses
  <1>4. ReminderTypeOK'
    BY <1>1, <1>2, <1>3 DEF ReminderTypeOK, IdleLoop
  <1>5. ClaimFirst' /\ RemindedOnce' /\ ClaimsAreSpent'
    BY <1>1, <1>2 DEF ClaimFirst, RemindersKeepPromises, RemindedOnce, ClaimsAreSpent,
       InHand, IdleLoop
  <1> QED BY <1>3, <1>4, <1>5 DEF ReminderInv, RemindersKeepPromises

\* A step of the world: who moves is not steady any more.
LEMMA MoveKeeps ==
    ASSUME ReminderInv, NEW u \in Members, Move(u),
           expires' \in [Members -> Expiries \cup {0}],
           enabled' \in [Members -> SUBSET Channels],
           \A v \in Members : v # u => expires'[v] = expires[v] /\ enabled'[v] = enabled[v],
           UNCHANGED <<rNow, claimed, loop, sent, unheard, abandoned, ran, due, faults>>
    PROVE  ReminderInv'
  <1>1. ReminderTypeOK /\ ClaimFirst /\ RemindersKeepPromises /\ NothingMissed
    BY DEF ReminderInv
  <1>2. moves' \in 0..MaxMoves /\ steady' = steady \ {u}
    BY <1>1, RNumbers DEF Move, ReminderTypeOK, ReminderNumbers
  <1>3. ReminderTypeOK'
    BY <1>1, <1>2 DEF ReminderTypeOK
  <1>4. ClaimFirst' /\ RemindersKeepPromises'
    BY <1>1 DEF ClaimFirst, RemindersKeepPromises, RemindedOnce, ClaimsAreSpent,
       PromisesKept, InHand
  <1>5. \A x \in Reminder : x[1] \in Members
    BY DEF Reminder
  <1>6. \A x \in Reminder : Owed(x)' => Owed(x)
    BY <1>2, <1>5 DEF Owed, Promised
  <1>7. NothingMissed'
    BY <1>1, <1>2, <1>5, <1>6 DEF NothingMissed, InHand
  <1> QED BY <1>3, <1>4, <1>7 DEF ReminderInv

\* The end of a unit: the list is done, so everything owed was sent.
LEMMA ReminderTickKeeps ==
    ASSUME ReminderInv, ReminderTick
    PROVE  ReminderInv'
  <1>1. ReminderTypeOK /\ ClaimFirst /\ RemindersKeepPromises /\ NothingMissed
    BY DEF ReminderInv
  <1>2. /\ ran /\ loop.pc = "idle" /\ rNow < ReminderEnd /\ rNow' = rNow + 1
        /\ ran' = FALSE /\ steady' = {}
        /\ UNCHANGED <<expires, enabled, claimed, loop, sent, unheard, abandoned, faults,
                       moves>>
        /\ due' = due \cup {x \in Reminder : Owed(x)}
    BY DEF ReminderTick, Owed
  <1>3. ReminderTypeOK'
    <2>1. rNow' \in 1..ReminderEnd
      BY <1>1, <1>2, RNumbers DEF ReminderTypeOK, ReminderNumbers
    <2> QED BY <1>1, <1>2, <2>1 DEF ReminderTypeOK
  <1>4. ClaimFirst' /\ RemindedOnce' /\ ClaimsAreSpent'
    BY <1>1, <1>2 DEF ClaimFirst, RemindersKeepPromises, RemindedOnce, ClaimsAreSpent, InHand
  <1>5. faults = 0 => \A x \in Reminder : Owed(x) => sent[x] = 1
    BY <1>1, <1>2 DEF NothingMissed, ClaimFirst
  <1>6. PromisesKept'
    BY <1>1, <1>2, <1>5 DEF RemindersKeepPromises, PromisesKept
  <1>7. NothingMissed'
    BY <1>1, <1>2 DEF NothingMissed, InHand
  <1> QED BY <1>3, <1>4, <1>6, <1>7 DEF ReminderInv, RemindersKeepPromises

\* Every step keeps the invariant of the reminders.
LEMMA ReminderStep == ReminderInv /\ [ReminderNext]_reminderVars => ReminderInv'
  <1> SUFFICES ASSUME ReminderInv, [ReminderNext]_reminderVars PROVE ReminderInv'
    OBVIOUS
  <1>1. ReminderTypeOK
    BY DEF ReminderInv
  <1>2. CASE RunReminders
    BY <1>2, ListKeeps
  <1>3. CASE SendReminder
    BY <1>3, SendKeeps
  <1>4. CASE ReleaseReminder
    BY <1>4, ReleaseKeeps
  <1>5. CASE ListDone
    BY <1>5 DEF ListDone, world, ReminderInv, ReminderTypeOK, ClaimFirst, RemindersKeepPromises,
       RemindedOnce, ClaimsAreSpent, PromisesKept, NothingMissed, InHand, Owed, Promised, IdleLoop
  <1>6. CASE CrashReminders
    BY <1>6, CrashKeeps
  <1>7. CASE ReminderTick
    BY <1>7, ReminderTickKeeps
  <1>8. CASE \E x \in Reminder : ClaimReminder(x)
    BY <1>8, ClaimKeeps
  <1>9. ASSUME NEW u \in Members, MoveExpiry(u)
        PROVE  ReminderInv'
    <2>1. /\ Move(u) /\ expires' \in [Members -> Expiries \cup {0}]
          /\ enabled' \in [Members -> SUBSET Channels]
          /\ \A v \in Members : v # u => expires'[v] = expires[v] /\ enabled'[v] = enabled[v]
          /\ UNCHANGED <<rNow, claimed, loop, sent, unheard, abandoned, ran, due, faults>>
      BY <1>1, <1>9 DEF MoveExpiry, ReminderTypeOK
    <2> QED BY <2>1, MoveKeeps
  <1>10. ASSUME NEW u \in Members, NEW c \in Channels, MoveChannel(u, c)
         PROVE  ReminderInv'
    <2>1. /\ Move(u) /\ expires' \in [Members -> Expiries \cup {0}]
          /\ enabled' \in [Members -> SUBSET Channels]
          /\ \A v \in Members : v # u => expires'[v] = expires[v] /\ enabled'[v] = enabled[v]
          /\ UNCHANGED <<rNow, claimed, loop, sent, unheard, abandoned, ran, due, faults>>
      BY <1>1, <1>10 DEF MoveChannel, ReminderTypeOK
    <2> QED BY <2>1, MoveKeeps
  <1>11. CASE UNCHANGED reminderVars
    BY <1>11 DEF reminderVars, ReminderInv, ReminderTypeOK, ClaimFirst, RemindersKeepPromises,
       RemindedOnce, ClaimsAreSpent, PromisesKept, NothingMissed, InHand, Owed, Promised
  <1> QED BY <1>2, <1>3, <1>4, <1>5, <1>6, <1>7, <1>8, <1>9, <1>10, <1>11 DEF ReminderNext

\* A reminder is claimed before it is sent, and what is owed to a user who has
\* not changed was sent or is still on the list, unless something failed.
THEOREM ReminderInvariant == ReminderSpec => []ReminderInv
  BY ReminderBegins, ReminderStep, PTL DEF ReminderSpec

\* A reminder goes out again only after no channel could say that it had, no
\* claim is lost but by a fault, and without faults every promised reminder went
\* out, once.
THEOREM MembersAreReminded == ReminderSpec => []RemindersKeepPromises
  <1>1. ReminderInv => RemindersKeepPromises
    BY DEF ReminderInv
  <1> QED BY ReminderInvariant, <1>1, PTL

-----------------------------------------------------------------------------
(* The free tier.                                                          *)

\* The sites that are subscribed, or will be when the requests that have
\* passed the limit are done.
SitesPassed ==
    SubscribedSites \cup {request[h].site : h \in {o \in Subscribers : request[o].pc = "insert"}}

\* Whoever passed the limit as a non-member took one of the places that were
\* free, or another channel of a site that is counted: the sites that are on
\* their way keep to the same bound.
PlacesKept ==
    neverMember => ~member /\ Cardinality(SitesPassed) < FreeLimit + Cardinality(Subscribers)

FreeInv == FreeTypeOK /\ PlacesKept

\* The limit is a positive number, and the requests at once are finitely many.
LEMMA FreeNumbers ==
    FreeLimit \in Nat \ {0} /\ IsFiniteSet(Subscribers) /\ Cardinality(Subscribers) \in Nat
  BY FreeAssumption, FS_CardinalityType DEF FreeAssumption

\* The subscribed sites are finitely many.
LEMMA FiniteSites ==
    ASSUME FreeTypeOK
    PROVE  /\ IsFiniteSet(SubscribedSites) /\ Cardinality(SubscribedSites) \in Nat
           /\ \A i \in 1..Len(subs) : subs[i] \in Subscription /\ subs[i].site \in SubscribedSites
           /\ Len(subs) \in Nat
  <1> DEFINE f == [i \in 1..Len(subs) |-> subs[i].site]
  <1>1. Len(subs) \in Nat /\ IsFiniteSet(1..Len(subs))
    BY FS_Interval DEF FreeTypeOK
  <1>2. SubscribedSites = {f[i] : i \in 1..Len(subs)}
    BY DEF SubscribedSites
  <1>3. IsFiniteSet(SubscribedSites) /\ Cardinality(SubscribedSites) \in Nat
    BY <1>1, <1>2, ImageSize
  <1>4. \A i \in 1..Len(subs) : subs[i] \in Subscription /\ subs[i].site \in SubscribedSites
    BY <1>1 DEF SubscribedSites, FreeTypeOK
  <1> QED BY <1>1, <1>3, <1>4

\* The handler's count is the number of the sites.
LEMMA SitesCounted ==
    ASSUME FreeTypeOK
    PROVE  Len(DistinctSites) = Cardinality(SubscribedSites)
  <1> DEFINE n == Cardinality(SubscribedSites)
             S == {DistinctSites[i] : i \in 1..n}
  <1>1. n \in Nat
    BY FiniteSites
  <1>2. DistinctSites \in [1..n -> S]
    BY DEF DistinctSites
  <1> HIDE DEF S, n
  <1>3. Len(DistinctSites) = n
    BY <1>1, <1>2, ListLength
  <1> QED BY <1>3 DEF n

\* What is on its way is at most one site for each request.
LEMMA PassedSize ==
    ASSUME FreeTypeOK
    PROVE  /\ IsFiniteSet(SitesPassed) /\ Cardinality(SitesPassed) \in Nat
           /\ Cardinality(SitesPassed) <= Cardinality(SubscribedSites) + Cardinality(Subscribers)
  <1> DEFINE P == {o \in Subscribers : request[o].pc = "insert"}
             f == [h \in P |-> request[h].site]
             I == {f[h] : h \in P}
  <1>1. /\ IsFiniteSet(P) /\ Cardinality(P) <= Cardinality(Subscribers) /\ Cardinality(P) \in Nat
        /\ Cardinality(Subscribers) \in Nat
    BY FreeNumbers, FS_Subset, FS_CardinalityType
  <1>2. IsFiniteSet(I) /\ Cardinality(I) \in Nat /\ Cardinality(I) <= Cardinality(P)
    BY <1>1, ImageSize
  <1>3. SitesPassed = SubscribedSites \cup I
    BY DEF SitesPassed
  <1>4. /\ IsFiniteSet(SitesPassed)
        /\ Cardinality(SitesPassed) = Cardinality(SubscribedSites) + Cardinality(I)
                                      - Cardinality(SubscribedSites \cap I)
    BY <1>2, <1>3, FiniteSites, FS_Union
  <1>5. Cardinality(SubscribedSites \cap I) \in Nat
    BY <1>2, FS_Subset, FS_CardinalityType
  <1> HIDE DEF P, I
  <1> QED BY <1>1, <1>2, <1>4, <1>5, FiniteSites, FS_CardinalityType

\* A step after which no site is on its way that was not before.
LEMMA NoNewSite ==
    ASSUME FreeInv, FreeTypeOK', SitesPassed' \subseteq SitesPassed,
           UNCHANGED <<member, neverMember>>
    PROVE  FreeInv'
  <1>1. FreeTypeOK /\ PlacesKept
    BY DEF FreeInv
  <1>2. IsFiniteSet(SitesPassed) /\ Cardinality(SitesPassed) \in Nat
    BY <1>1, PassedSize
  <1> DEFINE after == SitesPassed'
  <1>3. Cardinality(after) <= Cardinality(SitesPassed) /\ Cardinality(after) \in Nat
    BY <1>2, FS_Subset, FS_CardinalityType
  <1>4. Cardinality(SitesPassed)' = Cardinality(after)
    OBVIOUS
  <1>5. PlacesKept'
    BY <1>1, <1>2, <1>3, <1>4, FreeNumbers DEF PlacesKept
  <1> QED BY <1>5 DEF FreeInv

\* The invariant of the free tier holds initially.
LEMMA FreeBegins == FreeInit => FreeInv
  <1> SUFFICES ASSUME FreeInit PROVE FreeInv
    OBVIOUS
  <1>1. FreeTypeOK
    BY DEF FreeInit, FreeTypeOK
  <1>2. SitesPassed = {}
    BY DEF FreeInit, SitesPassed, SubscribedSites, NoRequest
  <1>3. neverMember => ~member
    BY DEF FreeInit
  <1>4. Cardinality(SitesPassed) = 0
    BY <1>2, FS_EmptySet
  <1>5. PlacesKept
    BY <1>3, <1>4, FreeNumbers DEF PlacesKept
  <1> QED BY <1>1, <1>5 DEF FreeInv

\* A request begins: only a member goes past the limit uncounted.
LEMMA ReadKeeps ==
    ASSUME FreeInv, NEW h \in Subscribers, NEW s \in FreeSites, NEW c \in FreeChannels,
           ReadMembership(h, s, c)
    PROVE  FreeInv'
  <1>1. FreeTypeOK /\ PlacesKept
    BY DEF FreeInv
  <1>2. UNCHANGED <<member, subs, neverMember>>
    BY DEF ReadMembership
  <1> DEFINE new == [pc |-> IF member THEN "insert" ELSE "count", site |-> s, channel |-> c]
  <1>3. request' = [request EXCEPT ![h] = new]
    BY DEF ReadMembership
  <1>4. new \in [pc : {"count", "insert"}, site : FreeSites, channel : FreeChannels]
        /\ (~member => new.pc = "count")
    OBVIOUS
  <1> HIDE DEF new
  <1>5. FreeTypeOK'
    BY <1>1, <1>2, <1>3, <1>4 DEF FreeTypeOK
  <1>6. \A o \in Subscribers : o # h => request'[o] = request[o]
    BY <1>1, <1>3 DEF FreeTypeOK
  <1>7. request'[h] = new
    BY <1>1, <1>3 DEF FreeTypeOK
  <1>8. CASE member
    BY <1>1, <1>2, <1>5, <1>8 DEF FreeInv, PlacesKept
  <1>9. CASE ~member
    <2>1. SitesPassed' \subseteq SitesPassed
      BY <1>2, <1>4, <1>6, <1>7, <1>9 DEF SitesPassed, SubscribedSites
    <2> QED BY <1>2, <1>5, <2>1, NoNewSite
  <1> QED BY <1>8, <1>9

\* The count: a request passes with a counted site, or below the limit.
LEMMA CountKeeps ==
    ASSUME FreeInv, NEW h \in Subscribers, CountSites(h)
    PROVE  FreeInv'
  <1>1. FreeTypeOK /\ PlacesKept
    BY DEF FreeInv
  <1>2. UNCHANGED <<member, subs, neverMember>> /\ request[h].pc = "count"
    BY DEF CountSites
  <1>3. PICK s \in FreeSites, c \in FreeChannels :
            request[h] = [pc |-> "count", site |-> s, channel |-> c]
    BY <1>1, <1>2 DEF FreeTypeOK, NoRequest
  <1>4. UNCHANGED SubscribedSites
    BY <1>2 DEF SubscribedSites
  <1> DEFINE full == s \notin SubscribedSites /\ Cardinality(SubscribedSites) >= FreeLimit
             passed == [pc |-> "insert", site |-> s, channel |-> c]
  <1>10. full <=> request[h].site \notin SubscribedSites /\ Len(DistinctSites) >= FreeLimit
    BY <1>1, <1>3, SitesCounted
  <1>11. [request[h] EXCEPT !.pc = "insert"] = passed
    BY <1>3
  <1>12. request' = [request EXCEPT ![h] = IF full THEN NoRequest ELSE passed]
    BY <1>10, <1>11 DEF CountSites
  <1>5. CASE s \notin SubscribedSites /\ Cardinality(SubscribedSites) >= FreeLimit
    <2>1. request' = [request EXCEPT ![h] = NoRequest]
      BY <1>5, <1>12
    <2>2. FreeTypeOK'
      BY <1>1, <1>2, <2>1 DEF FreeTypeOK
    <2>3. SitesPassed' \subseteq SitesPassed
      BY <1>1, <1>4, <2>1 DEF SitesPassed, FreeTypeOK, NoRequest
    <2> QED BY <1>2, <2>2, <2>3, NoNewSite
  <1>6. CASE ~(s \notin SubscribedSites /\ Cardinality(SubscribedSites) >= FreeLimit)
    <2> DEFINE new == [pc |-> "insert", site |-> s, channel |-> c]
    <2>1. request' = [request EXCEPT ![h] = new]
      BY <1>6, <1>12
    <2>2. new \in [pc : {"count", "insert"}, site : FreeSites, channel : FreeChannels]
          /\ new.site = s
      OBVIOUS
    <2> HIDE DEF new
    <2>3. FreeTypeOK'
      BY <1>1, <1>2, <2>1, <2>2 DEF FreeTypeOK
    <2>4. CASE s \in SubscribedSites
      <3>1. SitesPassed' \subseteq SitesPassed
        BY <1>1, <1>4, <2>1, <2>2, <2>4 DEF SitesPassed, FreeTypeOK
      <3> QED BY <1>2, <2>3, <3>1, NoNewSite
    <2>5. CASE s \notin SubscribedSites
      <3>1. Cardinality(SubscribedSites) < FreeLimit
        BY <1>1, <1>6, <2>5, FreeNumbers, FiniteSites
      <3>2. (FreeTypeOK => /\ Cardinality(SitesPassed) \in Nat
                           /\ Cardinality(SitesPassed) <= Cardinality(SubscribedSites)
                                                          + Cardinality(Subscribers))'
        BY PassedSize, PTL
      <3>3. Cardinality(SubscribedSites)' = Cardinality(SubscribedSites)
        BY <1>4
      <3>4. Cardinality(SitesPassed)' < FreeLimit + Cardinality(Subscribers)
        BY <1>1, <2>3, <3>1, <3>2, <3>3, FreeNumbers, FiniteSites
      <3> QED BY <1>1, <1>2, <2>3, <3>4 DEF FreeInv, PlacesKept
    <2> QED BY <2>4, <2>5
  <1> QED BY <1>5, <1>6

\* The insert: the site was on its way.
LEMMA InsertKeeps ==
    ASSUME FreeInv, NEW h \in Subscribers, InsertSubscription(h)
    PROVE  FreeInv'
  <1>1. FreeTypeOK /\ PlacesKept
    BY DEF FreeInv
  <1>2. /\ UNCHANGED <<member, neverMember>> /\ request[h].pc = "insert"
        /\ request' = [request EXCEPT ![h] = NoRequest]
    BY DEF InsertSubscription
  <1> DEFINE new == [site |-> request[h].site, channel |-> request[h].channel]
  <1>3. subs' = IF new \in {subs[i] : i \in 1..Len(subs)} THEN subs ELSE Append(subs, new)
    BY DEF InsertSubscription
  <1>4. request[h].site \in FreeSites /\ request[h].channel \in FreeChannels
    BY <1>1, <1>2 DEF FreeTypeOK, NoRequest
  <1>5. new \in Subscription /\ new.site = request[h].site
    BY <1>4 DEF Subscription
  <1>6. subs \in Seq(Subscription) /\ Len(subs) \in Nat
    BY <1>1 DEF FreeTypeOK
  <1> HIDE DEF new
  <1>7. \A o \in Subscribers : o # h => request'[o] = request[o]
    BY <1>1, <1>2 DEF FreeTypeOK
  <1>8. request'[h] = NoRequest
    BY <1>1, <1>2 DEF FreeTypeOK
  <1>9. request' \in [Subscribers -> {NoRequest} \cup
                      [pc : {"count", "insert"}, site : FreeSites, channel : FreeChannels]]
    BY <1>1, <1>2 DEF FreeTypeOK
  <1>10. CASE subs' = subs
    <2>1. FreeTypeOK'
      BY <1>1, <1>2, <1>9, <1>10 DEF FreeTypeOK
    <2>2. SitesPassed' \subseteq SitesPassed
      BY <1>7, <1>8, <1>10 DEF SitesPassed, SubscribedSites, NoRequest
    <2> QED BY <1>2, <2>1, <2>2, NoNewSite
  <1>11. CASE new \notin {subs[i] : i \in 1..Len(subs)} /\ subs' = Append(subs, new)
    <2>1. /\ subs' \in Seq(Subscription) /\ Len(subs') = Len(subs) + 1
          /\ \A i \in 1..Len(subs) : subs'[i] = subs[i]
          /\ subs'[Len(subs) + 1] = new
      BY <1>5, <1>6, <1>11
    <2>2. \A i, j \in 1..Len(subs') : subs'[i] = subs'[j] => i = j
      BY <1>1, <1>6, <1>11, <2>1 DEF FreeTypeOK
    <2>3. FreeTypeOK'
      BY <1>1, <1>2, <1>9, <2>1, <2>2 DEF FreeTypeOK
    <2>4. SubscribedSites' \subseteq SubscribedSites \cup {request[h].site}
      BY <1>5, <1>6, <2>1 DEF SubscribedSites
    <2>5. SitesPassed' \subseteq SitesPassed
      BY <1>2, <1>7, <1>8, <2>4 DEF SitesPassed, NoRequest
    <2> QED BY <1>2, <2>3, <2>5, NoNewSite
  <1> QED BY <1>3, <1>10, <1>11

\* A removed subscription adds no site.
LEMMA UnsubscribeKeeps ==
    ASSUME FreeInv, NEW i \in 1..Len(subs), Unsubscribe(i)
    PROVE  FreeInv'
  <1>1. FreeTypeOK /\ PlacesKept
    BY DEF FreeInv
  <1>2. UNCHANGED <<member, request, neverMember>>
    BY DEF Unsubscribe
  <1>3. subs \in Seq(Subscription) /\ Len(subs) \in Nat
    BY <1>1 DEF FreeTypeOK
  <1>4. /\ subs' \in Seq(Subscription) /\ Len(subs') = Len(subs) - 1
        /\ \A j \in 1..Len(subs') : subs'[j] = IF j < i THEN subs[j] ELSE subs[j + 1]
    <2> DEFINE u == SubSeq(subs, 1, i - 1)
               v == SubSeq(subs, i + 1, Len(subs))
    <2>1. u \in Seq(Subscription) /\ Len(u) = i - 1 /\ \A j \in 1..(i - 1) : u[j] = subs[j]
      BY <1>3
    <2>2. /\ v \in Seq(Subscription) /\ Len(v) = Len(subs) - i
          /\ \A j \in 1..(Len(subs) - i) : v[j] = subs[i + j]
      BY <1>3
    <2>3. subs' = u \o v
      BY DEF Unsubscribe, RemoveAt
    <2> HIDE DEF u, v
    <2>4. /\ subs' \in Seq(Subscription) /\ Len(subs') = (i - 1) + (Len(subs) - i)
          /\ \A j \in 1..Len(subs') : subs'[j] = IF j <= i - 1 THEN u[j] ELSE v[j - (i - 1)]
      <3>1. u \in Seq(Subscription) /\ v \in Seq(Subscription)
        BY <2>1, <2>2
      <3>2. /\ u \o v \in Seq(Subscription) /\ Len(u \o v) = Len(u) + Len(v)
            /\ \A j \in 1..Len(u) + Len(v) : (u \o v)[j] = IF j <= Len(u) THEN u[j] ELSE v[j - Len(u)]
        BY <3>1, ConcatProperties
      <3>3. Len(u) = i - 1 /\ Len(v) = Len(subs) - i
        BY <2>1, <2>2
      <3> QED BY <2>3, <3>2, <3>3
    <2>5. ASSUME NEW j \in 1..Len(subs')
          PROVE  subs'[j] = IF j < i THEN subs[j] ELSE subs[j + 1]
      <3>1. CASE j < i
        <4>1. j \in 1..(i - 1) /\ j <= i - 1
          BY <1>3, <2>4, <3>1
        <4> QED BY <2>1, <2>4, <3>1, <4>1
      <3>2. CASE ~(j < i)
        <4>1. j - (i - 1) \in 1..(Len(subs) - i) /\ ~(j <= i - 1) /\ i + (j - (i - 1)) = j + 1
          BY <1>3, <2>4, <3>2
        <4> QED BY <2>2, <2>4, <3>2, <4>1
      <3> QED BY <3>1, <3>2
    <2>6. (i - 1) + (Len(subs) - i) = Len(subs) - 1
      BY <1>3
    <2> QED BY <2>4, <2>5, <2>6
  <1> DEFINE old(j) == IF j < i THEN j ELSE j + 1
  <1>8. /\ \A j \in 1..Len(subs') : old(j) \in 1..Len(subs) /\ subs'[j] = subs[old(j)]
        /\ \A j, k \in 1..Len(subs') : old(j) = old(k) => j = k
    BY <1>3, <1>4
  <1> HIDE DEF old
  <1>9. \A j, k \in 1..Len(subs') : subs'[j] = subs'[k] => j = k
    BY <1>1, <1>8 DEF FreeTypeOK
  <1>5. FreeTypeOK'
    BY <1>1, <1>2, <1>4, <1>9 DEF FreeTypeOK
  <1>6. SubscribedSites' \subseteq SubscribedSites
    BY <1>8 DEF SubscribedSites
  <1>7. SitesPassed' \subseteq SitesPassed
    BY <1>2, <1>6 DEF SitesPassed
  <1> QED BY <1>2, <1>5, <1>7, NoNewSite

\* Every step keeps the invariant of the free tier.
LEMMA FreeStep == FreeInv /\ [FreeNext]_freeVars => FreeInv'
  <1> SUFFICES ASSUME FreeInv, [FreeNext]_freeVars PROVE FreeInv'
    OBVIOUS
  <1>1. CASE MembershipChanges
    BY <1>1 DEF MembershipChanges, FreeInv, FreeTypeOK, PlacesKept
  <1>2. CASE \E i \in 1..Len(subs) : Unsubscribe(i)
    BY <1>2, UnsubscribeKeeps
  <1>3. CASE \E h \in Subscribers : CountSites(h)
    BY <1>3, CountKeeps
  <1>4. CASE \E h \in Subscribers : InsertSubscription(h)
    BY <1>4, InsertKeeps
  <1>5. CASE \E h \in Subscribers, s \in FreeSites, c \in FreeChannels : ReadMembership(h, s, c)
    BY <1>5, ReadKeeps
  <1>6. CASE UNCHANGED freeVars
    BY <1>6 DEF freeVars, FreeInv, FreeTypeOK, PlacesKept, SitesPassed, SubscribedSites
  <1> QED BY <1>1, <1>2, <1>3, <1>4, <1>5, <1>6 DEF FreeNext

\* The sites that are subscribed or on their way keep to the limit and one for
\* each request at once, for who never was a member.
THEOREM FreeInvariant == FreeSpec => []FreeInv
  BY FreeBegins, FreeStep, PTL DEF FreeSpec

\* The subscribed sites are among those.
LEMMA FreeSlips == FreeInv => LimitSlipsByRequests
  <1> SUFFICES ASSUME FreeInv, neverMember
               PROVE  Cardinality(SubscribedSites) < FreeLimit + Cardinality(Subscribers)
    BY DEF LimitSlipsByRequests
  <1>1. FreeTypeOK /\ Cardinality(SitesPassed) < FreeLimit + Cardinality(Subscribers)
    BY DEF FreeInv, PlacesKept
  <1>2. IsFiniteSet(SitesPassed) /\ Cardinality(SitesPassed) \in Nat
    BY <1>1, PassedSize
  <1>3. SubscribedSites \subseteq SitesPassed
    BY DEF SitesPassed
  <1>4. Cardinality(SubscribedSites) <= Cardinality(SitesPassed)
    BY <1>2, <1>3, FS_Subset
  <1> QED BY <1>1, <1>2, <1>4, FreeNumbers, FiniteSites

\* A user who never was a member exceeds the limit by less than the number of
\* his requests at once.
THEOREM LimitSlipsLittle == FreeSpec => []LimitSlipsByRequests
  BY FreeInvariant, FreeSlips, PTL

-----------------------------------------------------------------------------
(* What is pushed.                                                         *)

\* A set of naturals has a least one.
LEMMA LeastNat ==
    ASSUME NEW T \in SUBSET Nat, T # {}
    PROVE  \E n \in T : \A m \in T : n <= m
  <1> DEFINE R == OpToRel(<, Nat)
  <1>1. IsWellFoundedOn(R, Nat)
    BY NatLessThanWellFounded, Zenon
  <1>2. \A m, n \in T : m < n => <<m, n>> \in R
    BY Zenon DEF OpToRel
  <1> HIDE DEF R
  <1>3. PICK n \in T : \A m \in T : ~(<<m, n>> \in R)
    BY <1>1, WFMin
  <1>4. \A m \in T : ~(m < n)
    BY <1>2, <1>3
  <1> QED BY <1>3, <1>4

\* The sites of the first n subscriptions.
SitesUpto(n) == {subs[i].site : i \in 1..n}

\* What the loop may hold after n subscriptions: the sites of a first part of
\* them, of all of them unless the places are taken.
LoopState(A, n) ==
    \E m \in 0..n : /\ A = SitesUpto(m) /\ Cardinality(A) <= FreeLimit
                    /\ m = n \/ A = SitesUpto(n) \/ Cardinality(A) = FreeLimit

\* f is the loop over the first n subscriptions.
IsLoop(f, n) == f = [i \in 0..n |-> IF i = 0 THEN {} ELSE WithSite(f[i - 1], i)]

\* The sites of some subscriptions are some of the subscribed ones.
LEMMA SomeSites ==
    ASSUME FreeTypeOK, NEW n \in 0..Len(subs)
    PROVE  /\ SitesUpto(n) \subseteq SubscribedSites /\ IsFiniteSet(SitesUpto(n))
           /\ Cardinality(SitesUpto(n)) \in Nat
  <1>1. SitesUpto(n) \subseteq SubscribedSites
    BY FiniteSites DEF SitesUpto, SubscribedSites
  <1> QED BY <1>1, FiniteSites, FS_Subset, FS_CardinalityType

\* One more subscription.
LEMMA LoopGoesOn ==
    ASSUME FreeTypeOK, NEW n \in 1..Len(subs), NEW A, LoopState(A, n - 1)
    PROVE  LoopState(WithSite(A, n), n)
  <1>1. PICK m \in 0..(n - 1) :
            /\ A = SitesUpto(m) /\ Cardinality(A) <= FreeLimit
            /\ m = n - 1 \/ A = SitesUpto(n - 1) \/ Cardinality(A) = FreeLimit
    BY DEF LoopState
  <1>2. n \in Nat /\ n - 1 \in 0..Len(subs) /\ m \in 0..n /\ n \in 0..n /\ m \in 0..Len(subs)
        /\ n \in 0..Len(subs)
    BY <1>1, FiniteSites
  <1>3. /\ IsFiniteSet(A) /\ Cardinality(A) \in Nat
        /\ Cardinality(A \cup {subs[n].site}) \in Nat
        /\ Cardinality(A \cup {subs[n].site}) <= Cardinality(A) + 1
    <2>1. IsFiniteSet(A) /\ Cardinality(A) \in Nat
      BY <1>1, <1>2, SomeSites
    <2>2. Cardinality(A \cup {subs[n].site}) =
             IF subs[n].site \in A THEN Cardinality(A) ELSE Cardinality(A) + 1
      BY <2>1, FS_AddElement
    <2> QED BY <2>1, <2>2
  <1>4. CASE Cardinality(A) < FreeLimit
    <2>1. A = SitesUpto(n - 1)
      BY <1>1, <1>3, <1>4, FreeNumbers
    <2>2. SitesUpto(n) = SitesUpto(n - 1) \cup {subs[n].site}
      BY <1>2 DEF SitesUpto
    <2>3. WithSite(A, n) = SitesUpto(n) /\ Cardinality(WithSite(A, n)) <= FreeLimit
      BY <1>3, <1>4, <2>1, <2>2, FreeNumbers DEF WithSite
    <2> QED BY <1>2, <2>3 DEF LoopState
  <1>5. CASE ~(Cardinality(A) < FreeLimit)
    <2>1. WithSite(A, n) = A /\ Cardinality(A) = FreeLimit
      BY <1>1, <1>3, <1>5, FreeNumbers DEF WithSite
    <2> QED BY <1>1, <1>2, <2>1 DEF LoopState
  <1> QED BY <1>4, <1>5

\* By induction the loop exists and keeps what it may hold: there is no least
\* number of subscriptions for which it does not.
LEMMA LoopRuns ==
    ASSUME FreeTypeOK
    PROVE  \A n \in 0..Len(subs) : \E f : IsLoop(f, n) /\ \A i \in 0..n : LoopState(f[i], i)
  <1> DEFINE Good(n) == \E f : IsLoop(f, n) /\ \A i \in 0..n : LoopState(f[i], i)
             bad == {n \in 0..Len(subs) : ~Good(n)}
  <1>1. Len(subs) \in Nat
    BY FiniteSites
  <1>2. Good(0)
    <2> DEFINE f == [i \in 0..0 |-> {}]
    <2>1. f[0] = {} /\ 0..0 = {0}
      OBVIOUS
    <2>2. IsLoop(f, 0)
      BY <2>1 DEF IsLoop
    <2>3. SitesUpto(0) = {} /\ Cardinality({}) = 0
      BY FS_EmptySet DEF SitesUpto
    <2>4. LoopState({}, 0)
      BY <2>3, FreeNumbers DEF LoopState
    <2> QED BY <2>1, <2>2, <2>4
  <1>3. ASSUME NEW n \in 1..Len(subs), Good(n - 1)
        PROVE  Good(n)
    <2>1. PICK f : IsLoop(f, n - 1) /\ \A i \in 0..(n - 1) : LoopState(f[i], i)
      BY <1>3
    <2> DEFINE g == [i \in 0..n |-> IF i = n THEN WithSite(f[n - 1], n) ELSE f[i]]
    <2>2. n \in Nat \ {0} /\ n - 1 \in 0..(n - 1)
      BY <1>1
    <2>3. \A i \in 0..(n - 1) : i \in 0..n /\ i # n /\ g[i] = f[i]
      BY <2>2
    <2>4. g[n] = WithSite(f[n - 1], n) /\ g[n - 1] = f[n - 1]
      BY <2>2
    <2>5. \A i \in 0..(n - 1) : f[i] = IF i = 0 THEN {} ELSE WithSite(f[i - 1], i)
      BY <2>1 DEF IsLoop
    <2>6. ASSUME NEW i \in 0..n
          PROVE  g[i] = IF i = 0 THEN {} ELSE WithSite(g[i - 1], i)
      <3>1. CASE i = n
        BY <2>2, <2>4, <3>1
      <3>2. CASE i # n
        <4>1. i \in 0..(n - 1) /\ (i # 0 => i - 1 \in 0..(n - 1))
          BY <2>2, <3>2
        <4>2. g[i] = f[i] /\ (i # 0 => g[i - 1] = f[i - 1])
          BY <2>3, <4>1
        <4> QED BY <2>5, <4>1, <4>2
      <3> QED BY <3>1, <3>2
    <2>7. LoopState(g[n], n)
      BY <2>1, <2>2, <2>4, LoopGoesOn
    <2>8. \A i \in 0..n : LoopState(g[i], i)
      BY <2>1, <2>2, <2>3, <2>7
    <2>9. IsLoop(g, n)
      <3>1. g = [i \in 0..n |-> g[i]]
        OBVIOUS
      <3> HIDE DEF g
      <3>2. [i \in 0..n |-> g[i]] = [i \in 0..n |-> IF i = 0 THEN {} ELSE WithSite(g[i - 1], i)]
        BY <2>6
      <3> QED BY <3>1, <3>2 DEF IsLoop
    <2> HIDE DEF g
    <2> QED BY <2>8, <2>9
  <1> HIDE DEF Good
  <1>4. bad = {}
    <2> SUFFICES ASSUME bad # {} PROVE FALSE
      OBVIOUS
    <2>1. bad \subseteq Nat
      BY <1>1
    <2>2. PICK n \in bad : \A m \in bad : n <= m
      BY <2>1, LeastNat
    <2>3. n \in 1..Len(subs) /\ n - 1 \in 0..Len(subs) /\ n - 1 \notin bad
      BY <1>1, <1>2, <2>1, <2>2
    <2>4. Good(n - 1)
      BY <2>3
    <2> QED BY <1>3, <2>2, <2>3, <2>4
  <1> QED BY <1>4 DEF Good

\* What is pushed are the sites of a first part of the subscriptions.
LEMMA PushedSites ==
    ASSUME FreeTypeOK
    PROVE  LoopState(AllowedSites, Len(subs))
  <1> DEFINE n == Len(subs)
  <1>1. n \in Nat /\ n \in 0..n
    BY FiniteSites
  <1>2. \E f : IsLoop(f, n)
    BY <1>1, LoopRuns
  <1>3. IsLoop(AllowedUpto, n)
    BY <1>2 DEF AllowedUpto, IsLoop
  <1>4. PICK f : IsLoop(f, n) /\ \A i \in 0..n : LoopState(f[i], i)
    BY <1>1, LoopRuns
  <1> DEFINE differ == {i \in 0..n : AllowedUpto[i] # f[i]}
  <1>5. \A i \in 0..n : /\ f[i] = IF i = 0 THEN {} ELSE WithSite(f[i - 1], i)
                        /\ AllowedUpto[i] = IF i = 0 THEN {} ELSE WithSite(AllowedUpto[i - 1], i)
    BY <1>3, <1>4 DEF IsLoop
  <1>6. differ = {}
    <2> SUFFICES ASSUME differ # {} PROVE FALSE
      OBVIOUS
    <2>1. differ \subseteq Nat
      BY <1>1
    <2>2. PICK i \in differ : \A j \in differ : i <= j
      BY <2>1, LeastNat
    <2>3. i # 0 /\ i - 1 \in 0..n /\ i - 1 \notin differ
      BY <1>1, <1>5, <2>1, <2>2
    <2> QED BY <1>5, <2>2, <2>3
  <1>7. AllowedUpto[n] = f[n]
    BY <1>1, <1>6
  <1> QED BY <1>1, <1>4, <1>7 DEF AllowedSites

\* Every site has a first subscription.
LEMMA FirstFacts ==
    ASSUME FreeTypeOK, NEW s \in SubscribedSites
    PROVE  /\ First(s) \in 1..Len(subs) /\ subs[First(s)].site = s
           /\ \A i \in 1..Len(subs) : subs[i].site = s => First(s) <= i
  <1> DEFINE T == {i \in 1..Len(subs) : subs[i].site = s}
  <1>1. Len(subs) \in Nat
    BY FiniteSites
  <1>2. T \subseteq Nat /\ T # {}
    BY <1>1 DEF SubscribedSites
  <1>3. PICK n \in T : \A i \in T : n <= i
    BY <1>2, LeastNat
  <1>4. n \in 1..Len(subs) /\ subs[n].site = s /\ \A j \in 1..(n - 1) : subs[j].site # s
    <2> SUFFICES ASSUME NEW j \in 1..(n - 1), subs[j].site = s PROVE FALSE
      BY <1>3
    <2>1. j \in 1..Len(subs) /\ ~(n <= j)
      BY <1>1, <1>3
    <2> QED BY <1>3, <2>1
  <1>5. \E i \in 1..Len(subs) : subs[i].site = s /\ \A j \in 1..(i - 1) : subs[j].site # s
    BY <1>4
  <1>6. /\ First(s) \in 1..Len(subs) /\ subs[First(s)].site = s
        /\ \A j \in 1..(First(s) - 1) : subs[j].site # s
    BY <1>5 DEF First
  <1>7. ASSUME NEW i \in 1..Len(subs), subs[i].site = s
        PROVE  First(s) <= i
    <2>1. ~(i \in 1..(First(s) - 1))
      BY <1>6, <1>7
    <2> QED BY <1>1, <1>6, <2>1
  <1> QED BY <1>6, <1>7

\* The sites of a first part of the subscriptions.
LEMMA UptoByFirst ==
    ASSUME FreeTypeOK, NEW n \in 0..Len(subs)
    PROVE  SitesUpto(n) = {s \in SubscribedSites : First(s) <= n}
  <1>1. Len(subs) \in Nat
    BY FiniteSites
  <1>2. ASSUME NEW s \in SitesUpto(n)
        PROVE  s \in SubscribedSites /\ First(s) <= n
    <2>1. PICK i \in 1..n : subs[i].site = s
      BY DEF SitesUpto
    <2>2. i \in 1..Len(subs) /\ i <= n
      BY <1>1
    <2>3. s \in SubscribedSites
      BY <2>1, <2>2 DEF SubscribedSites
    <2>4. First(s) <= i /\ First(s) \in 1..Len(subs)
      BY <2>1, <2>2, <2>3, FirstFacts
    <2> QED BY <1>1, <2>2, <2>3, <2>4
  <1>3. ASSUME NEW s \in SubscribedSites, First(s) <= n
        PROVE  s \in SitesUpto(n)
    <2>1. First(s) \in 1..n /\ subs[First(s)].site = s
      BY <1>1, <1>3, FirstFacts
    <2> QED BY <2>1 DEF SitesUpto
  <1> QED BY <1>2, <1>3

\* The place of a site among those that are counted.
SitePlace(s) == Cardinality({t \in SubscribedSites : First(t) <= First(s)})

\* Every site has a place of its own, and no place is left out.
LEMMA SitePlaces ==
    ASSUME FreeTypeOK
    PROVE  /\ \A s \in SubscribedSites : SitePlace(s) \in 1..Cardinality(SubscribedSites)
           /\ \A s, t \in SubscribedSites : SitePlace(s) = SitePlace(t) => s = t
           /\ \A n \in 1..Cardinality(SubscribedSites) :
                 \E s \in SubscribedSites : SitePlace(s) = n
  <1> DEFINE v == [s \in SubscribedSites |-> First(s)]
  <1>1. IsFiniteSet(SubscribedSites) /\ Len(subs) \in Nat
    BY FiniteSites
  <1>2. v \in [SubscribedSites -> Int] /\ \A s, t \in SubscribedSites : v[s] = v[t] => s = t
    BY <1>1, FirstFacts
  <1>3. ASSUME NEW s \in SubscribedSites
        PROVE  SitePlace(s) = Rank(SubscribedSites, v, s)
    <2>1. {t \in SubscribedSites : v[t] <= v[s]} = {t \in SubscribedSites : First(t) <= First(s)}
      OBVIOUS
    <2> QED BY <2>1 DEF SitePlace, Rank
  <1> HIDE DEF v
  <1> QED BY <1>1, <1>2, <1>3, Ranks

\* What is counted in the place n.
LEMMA SiteInPlace ==
    ASSUME FreeTypeOK, NEW n \in 1..Cardinality(SubscribedSites)
    PROVE  DistinctSites[n] \in SubscribedSites /\ SitePlace(DistinctSites[n]) = n
  <1>1. \E s \in SubscribedSites : Cardinality({t \in SubscribedSites : First(t) <= First(s)}) = n
    BY SitePlaces DEF SitePlace
  <1> QED BY <1>1 DEF DistinctSites, SitePlace

\* Pushed is who has one of the places.
LEMMA PushedByPlace ==
    ASSUME FreeTypeOK
    PROVE  AllowedSites = {s \in SubscribedSites : SitePlace(s) <= FreeLimit}
  <1> DEFINE A == AllowedSites
  <1>1. Len(subs) \in Nat /\ Len(subs) \in 0..Len(subs)
    BY FiniteSites
  <1>2. PICK m \in 0..Len(subs) :
            /\ A = SitesUpto(m) /\ Cardinality(A) <= FreeLimit
            /\ m = Len(subs) \/ A = SitesUpto(Len(subs)) \/ Cardinality(A) = FreeLimit
    BY PushedSites DEF LoopState
  <1>3. /\ A = {s \in SubscribedSites : First(s) <= m}
        /\ IsFiniteSet(A) /\ Cardinality(A) \in Nat
    BY <1>2, UptoByFirst, SomeSites
  <1>4. A = SubscribedSites \/ Cardinality(A) = FreeLimit
    BY <1>1, <1>2 DEF SitesUpto, SubscribedSites
  <1> HIDE DEF A
  <1>5. ASSUME NEW s \in SubscribedSites
        PROVE  s \in A <=> SitePlace(s) <= FreeLimit
    <2> DEFINE T == {t \in SubscribedSites : First(t) <= First(s)}
    <2>1. First(s) \in Nat /\ \A t \in SubscribedSites : First(t) \in Nat
      BY <1>1, FirstFacts
    <2>2. IsFiniteSet(T) /\ Cardinality(T) \in Nat /\ SitePlace(s) = Cardinality(T)
      BY FiniteSites, FS_Subset, FS_CardinalityType DEF SitePlace
    <2>3. CASE s \in A
      <3>1. T \subseteq A
        BY <1>2, <1>3, <2>1, <2>3
      <3>2. Cardinality(T) <= Cardinality(A)
        BY <1>3, <3>1, FS_Subset
      <3> HIDE DEF T
      <3> QED BY <1>2, <1>3, <2>2, <2>3, <3>2, FreeNumbers
    <2>4. CASE s \notin A
      <3>1. Cardinality(A) = FreeLimit
        BY <1>4, <2>4
      <3>2. A \cup {s} \subseteq T
        BY <1>2, <1>3, <2>1, <2>4
      <3>3. IsFiniteSet(A \cup {s}) /\ Cardinality(A \cup {s}) = Cardinality(A) + 1
        BY <1>3, <2>4, FS_AddElement
      <3>4. Cardinality(A \cup {s}) <= Cardinality(T)
        BY <2>2, <3>2, FS_Subset
      <3> HIDE DEF T
      <3> QED BY <1>3, <2>2, <2>4, <3>1, <3>3, <3>4, FreeNumbers
    <2> QED BY <2>3, <2>4
  <1>6. A \subseteq SubscribedSites
    BY <1>3
  <1>7. A = {s \in SubscribedSites : SitePlace(s) <= FreeLimit}
    BY <1>5, <1>6
  <1> QED BY <1>7 DEF A

\* The sites that are pushed are those that the handler counts first.
LEMMA GrantFollows == FreeTypeOK => GrantFollowsTheLimit
  <1> SUFFICES ASSUME FreeTypeOK
               PROVE  AllowedSites = {DistinctSites[i] : i \in {j \in 1..Len(DistinctSites) : j <= FreeLimit}}
    BY DEF GrantFollowsTheLimit
  <1> DEFINE n == Cardinality(SubscribedSites)
             first == {DistinctSites[i] : i \in {j \in 1..n : j <= FreeLimit}}
  <1>1. Len(DistinctSites) = n
    BY SitesCounted
  <1>2. ASSUME NEW s \in SubscribedSites, SitePlace(s) <= FreeLimit
        PROVE  s \in first
    <2>1. SitePlace(s) \in 1..n
      BY SitePlaces
    <2>2. DistinctSites[SitePlace(s)] = s
      BY <2>1, SiteInPlace, SitePlaces
    <2> QED BY <1>2, <2>1, <2>2
  <1>3. ASSUME NEW s \in first
        PROVE  s \in SubscribedSites /\ SitePlace(s) <= FreeLimit
    <2>1. PICK i \in {j \in 1..n : j <= FreeLimit} : s = DistinctSites[i]
      OBVIOUS
    <2> QED BY <2>1, SiteInPlace
  <1>4. AllowedSites = first
    BY <1>2, <1>3, PushedByPlace
  <1> QED BY <1>1, <1>4

-----------------------------------------------------------------------------
(* Membership time.                                                        *)

\* An order that owns an interval has been paid.
OwnersPaid == \A o \in owned : status[o] # "pending"

IInv == TypeOK /\ SoldOnce /\ OwnersPaid

\* The strengthened invariant holds initially.
LEMMA InitIInv == Init => IInv
  BY LegacyAssumption, TimeAssumption DEF Init, IInv, TypeOK, SoldOnce, OwnersPaid, Times

-----------------------------------------------------------------------------

\* A payment: the new interval is behind every other one.
LEMMA PaidStep ==
    ASSUME IInv, NEW o \in Orders, MarkOrderPaid(o)
    PROVE  IInv'
  <1>1. PICK t \in Readings, days \in Days :
            /\ row /\ status[o] = "pending"
            /\ status' = [status EXCEPT ![o] = "paid"]
            /\ SetExpiry(MaxOf(expiry, t) + days)
            /\ owned' = owned \cup {o}
            /\ starts' = [starts EXCEPT ![o] = MaxOf(expiry, t)]
            /\ ends' = [ends EXCEPT ![o] = MaxOf(expiry, t) + days]
            /\ UNCHANGED <<clock, row, prereg, code>>
    BY DEF MarkOrderPaid
  <1> DEFINE from == MaxOf(expiry, t)
  <1>2. TypeOK BY DEF IInv
  <1>3. /\ t \in 0..MaxTime /\ days \in Nat \ {0} /\ MaxTime \in Nat
        /\ expiry \in 0..MaxTime
    BY <1>1, <1>2, DaysAssumption, TimeAssumption DEF Readings, TypeOK, Times
  <1>4. from \in Nat /\ from >= expiry
    BY <1>3 DEF MaxOf
  <1>5. from + days \in 0..MaxTime /\ expiry' = from + days
    BY <1>1 DEF SetExpiry, Times
  <1>6. from \in 0..MaxTime
    BY <1>3, <1>4, <1>5
  <1> HIDE DEF from
  <1>7. TypeOK'
    <2>1. status' \in [Orders -> {"pending", "paid", "refunded"}] /\ owned' \subseteq Orders
      BY <1>1, <1>2 DEF TypeOK
    <2>2. starts' \in [Orders -> Times] /\ ends' \in [Orders -> Times]
      BY <1>1, <1>2, <1>5, <1>6 DEF TypeOK, Times, from
    <2> QED BY <1>1, <1>2, <1>5, <2>1, <2>2 DEF TypeOK, Times
  <1>8. SoldOnce'
    <2>1. starts' = [starts EXCEPT ![o] = from] /\ ends' = [ends EXCEPT ![o] = from + days]
      BY <1>1 DEF from
    <2>2. \A p \in owned : /\ starts[p] \in Nat /\ ends[p] \in Nat
                           /\ starts[p] <= ends[p] /\ ends[p] <= expiry
      BY <1>2 DEF IInv, SoldOnce, TypeOK, Times
    <2>3. \A p \in owned \ {o} : starts'[p] = starts[p] /\ ends'[p] = ends[p]
      BY <1>2, <2>1 DEF TypeOK
    <2>4. starts'[o] = from /\ ends'[o] = from + days
      BY <1>2, <2>1 DEF TypeOK
    <2>5. \A p \in owned' : starts'[p] <= ends'[p] /\ ends'[p] <= expiry'
      BY <1>1, <1>3, <1>4, <1>5, <2>2, <2>3, <2>4
    <2>6. ASSUME NEW p \in owned', NEW q \in owned', p # q
          PROVE  ends'[p] <= starts'[q] \/ ends'[q] <= starts'[p]
      <3>1. CASE p = o
        <4>1. q \in owned \ {o} BY <1>1, <2>6, <3>1
        <4> QED BY <1>3, <1>4, <2>2, <2>3, <2>4, <3>1, <4>1
      <3>2. CASE q = o
        <4>1. p \in owned \ {o} BY <1>1, <2>6, <3>2
        <4> QED BY <1>3, <1>4, <2>2, <2>3, <2>4, <3>2, <4>1
      <3>3. CASE p # o /\ q # o
        <4>1. p \in owned \ {o} /\ q \in owned \ {o} BY <1>1, <2>6, <3>3
        <4> QED BY <2>3, <2>6, <4>1 DEF IInv, SoldOnce
      <3> QED BY <3>1, <3>2, <3>3
    <2> QED BY <2>5, <2>6 DEF SoldOnce
  <1>9. OwnersPaid'
    BY <1>1, <1>2 DEF IInv, OwnersPaid, TypeOK
  <1> QED BY <1>7, <1>8, <1>9 DEF IInv

-----------------------------------------------------------------------------

\* An administrator's cut: the tail goes from every interval beyond it.
LEMMA SetStep ==
    ASSUME IInv, NEW e \in Times, SetMembership(e)
    PROVE  IInv'
  <1>1. TypeOK /\ SoldOnce BY DEF IInv
  <1>2. e \in Nat /\ e <= MaxTime /\ MaxTime \in Nat BY TimeAssumption DEF Times
  <1>3. CASE /\ row /\ expiry' = e /\ prereg' = 0
             /\ starts' = [o \in Orders |-> IF o \in owned /\ ends[o] > e
                                               THEN MinOf(starts[o], e) ELSE starts[o]]
             /\ ends' = [o \in Orders |-> IF o \in owned /\ ends[o] > e
                                             THEN e ELSE ends[o]]
             /\ UNCHANGED <<clock, row, status, owned, code>>
    <2>1. \A o \in Orders : starts[o] \in Times /\ ends[o] \in Times
      BY <1>1 DEF TypeOK
    <2>2. \A o \in Orders : starts'[o] \in Times /\ ends'[o] \in Times
      BY <1>2, <1>3, <2>1 DEF MinOf, Times
    <2>3. TypeOK'
      BY <1>1, <1>2, <1>3, <2>2 DEF TypeOK, Times
    <2>4. ASSUME NEW o \in owned
          PROVE  /\ \/ starts'[o] = MinOf(starts[o], e)
                    \/ starts'[o] = starts[o] /\ ends[o] <= e
                 /\ ends'[o] = MinOf(ends[o], e)
      <3>1. o \in Orders BY <1>1 DEF TypeOK
      <3>2. ends[o] \in Int BY <2>1, <3>1 DEF Times
      <3>3. CASE ends[o] > e BY <1>2, <1>3, <3>1, <3>2, <3>3 DEF MinOf
      <3>4. CASE ~(ends[o] > e) BY <1>2, <1>3, <3>1, <3>2, <3>4 DEF MinOf
      <3> QED BY <3>3, <3>4
    <2>5. \A o \in owned : starts'[o] <= ends'[o] /\ ends'[o] <= expiry'
      BY <1>1, <1>2, <1>3, <2>1, <2>4 DEF SoldOnce, MinOf, Times, TypeOK
    <2>6. ASSUME NEW p \in owned, NEW q \in owned, p # q
          PROVE  ends'[p] <= starts'[q] \/ ends'[q] <= starts'[p]
      <3>1. ends[p] <= starts[q] \/ ends[q] <= starts[p]
        BY <1>1, <2>6 DEF SoldOnce
      <3>2. /\ starts[p] \in Nat /\ starts[q] \in Nat /\ ends[p] \in Nat /\ ends[q] \in Nat
            /\ starts[p] <= ends[p] /\ starts[q] <= ends[q]
        BY <1>1, <2>1 DEF SoldOnce, TypeOK, Times
      <3> QED BY <1>2, <2>4, <3>1, <3>2 DEF MinOf
    <2> QED BY <1>3, <2>3, <2>5, <2>6 DEF IInv, SoldOnce, OwnersPaid
  <1>4. CASE ~row /\ prereg' = e /\ UNCHANGED <<expiry, starts, ends>>
             /\ UNCHANGED <<clock, row, status, owned, code>>
    BY <1>1, <1>4 DEF IInv, TypeOK, SoldOnce, OwnersPaid
  <1> QED BY <1>3, <1>4 DEF SetMembership

\* What a refund does to the intervals, in terms of the time it takes away.
Removed(o, r) ==
    /\ expiry' = expiry - r
    /\ starts'[o] = starts[o] /\ ends'[o] = ends[o] - r
    /\ r <= ends[o] - starts[o]
    /\ r = 0 \/ ends[o] - r >= clock
    /\ \A p \in owned \ {o} :
          IF starts[p] >= ends[o]
             THEN starts'[p] = starts[p] - r /\ ends'[p] = ends[p] - r
             ELSE starts'[p] = starts[p] /\ ends'[p] = ends[p]
    /\ \A p \in Orders \ owned : starts'[p] = starts[p] /\ ends'[p] = ends[p]

\* A revocation removes from a term what is left of it.
LEMMA RevokeFacts ==
    ASSUME IInv, NEW o \in owned, Revoke(o, clock)
    PROVE  \E r \in Nat : Removed(o, r)
  <1> DEFINE from == MaxOf(starts[o], clock)
             until == MinOf(ends[o], expiry)
             remaining == MaxOf(0, until - from)
             Later(p) == p \in owned \ {o} /\ starts[p] >= until
  <1>1. /\ o \in Orders /\ starts[o] \in Nat /\ ends[o] \in Nat /\ clock \in Nat
        /\ expiry \in Nat /\ starts[o] <= ends[o] /\ ends[o] <= expiry
    BY DEF IInv, TypeOK, SoldOnce, Times
  <1>2. until = ends[o] /\ from \in Nat /\ from >= starts[o] /\ from >= clock
    BY <1>1 DEF MinOf, MaxOf
  <1>3. /\ remaining \in Nat
        /\ remaining = 0 \/ remaining = ends[o] - from
    BY <1>1, <1>2 DEF MaxOf
  <1>4. CASE remaining = 0 /\ UNCHANGED <<expiry, starts, ends>>
    <2>1. \A p \in owned : starts[p] \in Int /\ ends[p] \in Int
      BY DEF IInv, TypeOK, Times
    <2>2. Removed(o, 0)
      BY <1>1, <1>4, <2>1 DEF Removed
    <2> QED BY <2>2
  <1>5. CASE /\ remaining # 0
             /\ expiry' = expiry - remaining
             /\ starts' = [p \in Orders |->
                              IF Later(p) THEN starts[p] - remaining ELSE starts[p]]
             /\ ends' = [p \in Orders |->
                            IF Later(p) THEN ends[p] - remaining
                            ELSE IF p = o THEN MinOf(ends[o], from) ELSE ends[p]]
    <2> HIDE DEF from, remaining, until
    <2>1. MinOf(ends[o], from) = ends[o] - remaining
      BY <1>1, <1>2, <1>3, <1>5 DEF MinOf
    <2>2. owned \subseteq Orders
      BY DEF IInv, TypeOK
    <2>3. starts'[o] = starts[o] /\ ends'[o] = ends[o] - remaining
      BY <1>1, <1>5, <2>1
    <2>4. remaining <= ends[o] - starts[o] /\ ends[o] - remaining >= clock
      BY <1>1, <1>2, <1>3, <1>5
    <2>5. \A p \in owned \ {o} :
             IF starts[p] >= ends[o]
                THEN starts'[p] = starts[p] - remaining /\ ends'[p] = ends[p] - remaining
                ELSE starts'[p] = starts[p] /\ ends'[p] = ends[p]
      BY <1>2, <1>5, <2>2
    <2>6. \A p \in Orders \ owned : starts'[p] = starts[p] /\ ends'[p] = ends[p]
      BY <1>1, <1>5
    <2> QED BY <1>3, <1>5, <2>3, <2>4, <2>5, <2>6 DEF Removed
  <1> QED BY <1>4, <1>5 DEF Revoke

\* Taking a stretch out of one interval and moving those behind it forward
\* keeps them apart: the others end before it or start behind it.
LEMMA RefundedStep ==
    ASSUME IInv, NEW o \in Orders, MarkOrderRefunded(o)
    PROVE  IInv'
  <1>1. /\ o \in owned /\ status' = [status EXCEPT ![o] = "refunded"]
        /\ Revoke(o, clock) /\ UNCHANGED <<clock, row, prereg, owned, code>>
    BY DEF MarkOrderRefunded
  <1>2. PICK r \in Nat : Removed(o, r)
    BY <1>1, RevokeFacts
  <1>3. TypeOK /\ SoldOnce BY DEF IInv
  <1>4. \A p \in Orders : starts[p] \in Times /\ ends[p] \in Times
    BY <1>3 DEF TypeOK
  <1>5. \A p \in owned : /\ starts[p] \in Nat /\ ends[p] \in Nat
                         /\ starts[p] <= ends[p] /\ ends[p] <= expiry
    <2>1. owned \subseteq Orders BY <1>3 DEF TypeOK
    <2>2. \A p \in Orders : starts[p] \in Nat /\ ends[p] \in Nat
      <3>1. Times \subseteq Nat BY TimeAssumption DEF Times
      <3> QED BY <1>4, <3>1
    <2> QED BY <1>3, <2>1, <2>2 DEF SoldOnce
  <1>6. expiry \in Times /\ expiry \in Nat /\ MaxTime \in Nat /\ row
    BY <1>1, <1>3, TimeAssumption DEF TypeOK, Times
  <1>7. r <= ends[o] /\ r <= expiry
    BY <1>1, <1>2, <1>5, <1>6 DEF Removed
  <1>8. TypeOK'
    <2>1. DOMAIN starts' = Orders /\ DOMAIN ends' = Orders
          /\ starts' = [p \in Orders |-> starts'[p]] /\ ends' = [p \in Orders |-> ends'[p]]
      BY <1>1, <1>3 DEF Revoke, TypeOK
    <2>2. \A p \in Orders : starts'[p] \in Times /\ ends'[p] \in Times
      <3>1. starts'[o] \in Times /\ ends'[o] \in Times
        <4>1. starts'[o] = starts[o] /\ ends'[o] = ends[o] - r
          BY <1>2 DEF Removed
        <4>2. o \in Orders /\ r <= ends[o] /\ ends[o] \in 0..MaxTime
          BY <1>4, <1>7 DEF Times
        <4> QED BY <1>4, <1>6, <4>1, <4>2 DEF Times
      <3>2. ASSUME NEW p \in owned \ {o} PROVE starts'[p] \in Times /\ ends'[p] \in Times
        <4>1. CASE starts[p] >= ends[o]
          <5>1. starts'[p] = starts[p] - r /\ ends'[p] = ends[p] - r
            BY <1>2, <4>1 DEF Removed
          <5>2. p \in Orders BY <1>3 DEF TypeOK
          <5> QED BY <1>1, <1>4, <1>5, <1>6, <1>7, <4>1, <5>1, <5>2 DEF Times
        <4>2. CASE ~(starts[p] >= ends[o])
          BY <1>2, <1>3, <1>4, <4>2 DEF Removed, TypeOK
        <4> QED BY <4>1, <4>2
      <3>3. \A p \in Orders \ owned : starts'[p] \in Times /\ ends'[p] \in Times
        BY <1>2, <1>4 DEF Removed
      <3> QED BY <3>1, <3>2, <3>3
    <2>3. expiry' \in Times
      BY <1>2, <1>6, <1>7 DEF Removed, Times
    <2> QED BY <1>1, <1>3, <1>6, <2>1, <2>2, <2>3 DEF TypeOK
  <1>9. ASSUME NEW p \in owned PROVE starts'[p] <= ends'[p] /\ ends'[p] <= expiry'
    BY <1>1, <1>2, <1>3, <1>5, <1>6 DEF Removed, SoldOnce
  <1>10. ASSUME NEW p \in owned, NEW q \in owned, p # q
         PROVE  ends'[p] <= starts'[q] \/ ends'[q] <= starts'[p]
    <2>1. /\ ends[p] <= starts[q] \/ ends[q] <= starts[p]
          /\ p # o => ends[p] <= starts[o] \/ ends[o] <= starts[p]
          /\ q # o => ends[q] <= starts[o] \/ ends[o] <= starts[q]
      BY <1>1, <1>3, <1>10 DEF SoldOnce
    <2>2. CASE p = o
      BY <1>1, <1>2, <1>5, <1>10, <2>1, <2>2 DEF Removed
    <2>3. CASE q = o
      BY <1>1, <1>2, <1>5, <1>10, <2>1, <2>3 DEF Removed
    <2>4. CASE p # o /\ q # o
      BY <1>1, <1>2, <1>5, <1>10, <2>1, <2>4 DEF Removed
    <2> QED BY <2>2, <2>3, <2>4
  <1>11. OwnersPaid'
    BY <1>1, <1>3 DEF IInv, OwnersPaid, TypeOK
  <1> QED BY <1>1, <1>8, <1>9, <1>10, <1>11 DEF IInv, SoldOnce

-----------------------------------------------------------------------------

\* Every step keeps the strengthened invariant.
LEMMA StepIInv == IInv /\ [Next]_vars => IInv'
  <1> SUFFICES ASSUME IInv, [Next]_vars PROVE IInv' OBVIOUS
  <1>1. TypeOK /\ SoldOnce BY DEF IInv
  <1>2. expiry \in 0..MaxTime /\ prereg \in 0..MaxTime /\ clock \in 0..MaxTime
        /\ MaxTime \in Nat
    BY <1>1, TimeAssumption DEF TypeOK, Times
  <1>3. CASE Tick
    BY <1>1, <1>2, <1>3 DEF Tick, IInv, TypeOK, SoldOnce, OwnersPaid, Times
  <1>4. CASE UpsertUser
    <2>1. expiry' \in 0..MaxTime /\ expiry' >= expiry
      BY <1>2, <1>4 DEF UpsertUser, MaxOf
    <2>2. TypeOK' BY <1>1, <1>2, <1>4, <2>1 DEF UpsertUser, TypeOK, Times
    <2>3. SoldOnce'
      BY <1>1, <1>2, <1>4, <2>1 DEF UpsertUser, SoldOnce, TypeOK, Times
    <2>4. OwnersPaid' BY <1>4 DEF UpsertUser, IInv, OwnersPaid
    <2> QED BY <2>2, <2>3, <2>4 DEF IInv
  <1>5. ASSUME NEW o \in Orders, MarkOrderPaid(o) PROVE IInv'
    BY <1>5, PaidStep
  <1>6. ASSUME NEW o \in Orders, MarkOrderRefunded(o) PROVE IInv'
    BY <1>6, RefundedStep
  <1>7. ASSUME NEW c \in Codes, GenerateCode(c) \/ RevokeCode(c) PROVE IInv'
    <2>1. /\ UNCHANGED <<clock, row, expiry, prereg, status, owned, starts, ends>>
          /\ code' \in [Codes -> {"none", "unused", "used", "revoked"}]
      BY <1>1, <1>7 DEF GenerateCode, RevokeCode, TypeOK
    <2> QED BY <1>1, <2>1 DEF IInv, TypeOK, SoldOnce, OwnersPaid
  <1>8. ASSUME NEW c \in Codes, RedeemCode(c) PROVE IInv'
    <2>1. expiry' \in 0..MaxTime /\ expiry' >= expiry
      BY <1>2, <1>8, DaysAssumption DEF RedeemCode, SetExpiry, MaxOf, Readings, Times
    <2>2. TypeOK' BY <1>1, <1>8, <2>1 DEF RedeemCode, TypeOK, Times
    <2>3. SoldOnce'
      BY <1>1, <1>2, <1>8, <2>1 DEF RedeemCode, SoldOnce, TypeOK, Times
    <2>4. OwnersPaid' BY <1>8 DEF RedeemCode, IInv, OwnersPaid
    <2> QED BY <2>2, <2>3, <2>4 DEF IInv
  <1>9. ASSUME NEW e \in Times, SetMembership(e) PROVE IInv'
    BY <1>9, SetStep
  <1>10. CASE UNCHANGED vars
    BY <1>1, <1>10 DEF vars, IInv, TypeOK, SoldOnce, OwnersPaid
  <1> QED BY <1>3, <1>4, <1>5, <1>6, <1>7, <1>8, <1>9, <1>10 DEF Next

\* The strengthened invariant holds in every state.
LEMMA Invariance == Spec => []IInv
  BY InitIInv, StepIInv, PTL DEF Spec

\* The rows of one user's membership keep their types, and a user who has a
\* row has no preregistration waiting.
THEOREM MembershipTypeCorrect == Spec => []TypeOK
  BY Invariance, PTL DEF IInv

\* No moment of a membership is ever sold twice, for any number of orders,
\* lengths and times.
THEOREM TimeSoldOnce == Spec => []SoldOnce
  BY Invariance, PTL DEF IInv

\* A refund takes the remaining time of its own order from the membership
\* and nothing of any other order or of a gift.
THEOREM RefundIsFair == Spec => RefundTakesOwnShare
  <1> DEFINE Fair ==
        \A o \in Orders :
          status[o] = "paid" /\ status'[o] = "refunded" =>
              /\ expiry - expiry' = Length(o) - Length(o)'
              /\ \A p \in owned \ {o} : Length(p)' = Length(p)
              /\ starts'[o] = starts[o]
              /\ ends'[o] >= MinOf(ends[o], clock)
  <1>1. ASSUME IInv, Next, NEW o \in Orders, status[o] = "paid", status'[o] = "refunded"
        PROVE  /\ expiry - expiry' = Length(o) - Length(o)'
               /\ \A p \in owned \ {o} : Length(p)' = Length(p)
               /\ starts'[o] = starts[o]
               /\ ends'[o] >= MinOf(ends[o], clock)
    <2>1. MarkOrderRefunded(o)
      BY <1>1 DEF Next, Tick, UpsertUser, MarkOrderPaid, MarkOrderRefunded, GenerateCode,
                  RevokeCode, RedeemCode, SetMembership, IInv, TypeOK
    <2>2. o \in owned /\ Revoke(o, clock)
      BY <2>1 DEF MarkOrderRefunded
    <2>3. PICK r \in Nat : Removed(o, r)
      BY <1>1, <2>2, RevokeFacts
    <2>4. /\ \A p \in owned : starts[p] \in Nat /\ ends[p] \in Nat
          /\ expiry \in Nat /\ clock \in Nat
      BY <1>1 DEF IInv, TypeOK, Times
    <2>5. expiry - expiry' = Length(o) - Length(o)' /\ starts'[o] = starts[o]
      BY <2>2, <2>3, <2>4 DEF Removed, Length
    <2>6. ASSUME NEW p \in owned \ {o} PROVE Length(p)' = Length(p)
      BY <2>3, <2>4, <2>6 DEF Removed, Length
    <2>7. ends'[o] >= MinOf(ends[o], clock)
      BY <2>2, <2>3, <2>4 DEF Removed, MinOf
    <2> QED BY <2>5, <2>6, <2>7
  <1>2. IInv /\ [Next]_vars => [Fair]_vars
    BY <1>1
  <1> HIDE DEF Fair
  <1>3. Spec => [][Fair]_vars
    BY <1>2, Invariance, PTL DEF Spec
  <1> QED BY <1>3 DEF RefundTakesOwnShare, Fair

\* Time an order has lost never comes back to it.
THEOREM LossIsFinal == Spec => LostTimeStaysLost
  <1> DEFINE Kept == \A o \in owned : o \in owned' /\ Length(o)' <= Length(o)
  <1>1. ASSUME IInv, Next, NEW o \in owned
        PROVE  o \in owned' /\ Length(o)' <= Length(o)
    <2>1. /\ \A p \in owned : starts[p] \in Nat /\ ends[p] \in Nat /\ starts[p] <= ends[p]
          /\ owned \subseteq Orders
      BY <1>1 DEF IInv, TypeOK, SoldOnce, Times
    <2>2. ASSUME NEW p \in Orders, MarkOrderRefunded(p)
          PROVE  o \in owned' /\ Length(o)' <= Length(o)
      <3>1. p \in owned /\ Revoke(p, clock) /\ owned' = owned
        BY <2>2 DEF MarkOrderRefunded
      <3>2. PICK r \in Nat : Removed(p, r)
        BY <1>1, <3>1, RevokeFacts
      <3> QED BY <2>1, <3>1, <3>2 DEF Removed, Length
    <2>3. ASSUME NEW e \in Times, SetMembership(e)
          PROVE  o \in owned' /\ Length(o)' <= Length(o)
      <3>1. e \in Int BY DEF Times
      <3>2. \/ starts'[o] = starts[o] /\ ends'[o] = ends[o]
            \/ /\ starts'[o] = MinOf(starts[o], e) /\ ends'[o] = e
               /\ ends[o] > e
        BY <2>1, <2>3 DEF SetMembership
      <3>3. owned' = owned BY <2>3 DEF SetMembership
      <3> QED BY <1>1, <2>1, <3>1, <3>2, <3>3 DEF MinOf, Length
    <2>4. ASSUME NEW p \in Orders, MarkOrderPaid(p)
          PROVE  o \in owned' /\ Length(o)' <= Length(o)
      <3>1. o # p
        BY <1>1, <2>4 DEF IInv, OwnersPaid, MarkOrderPaid
      <3>2. starts'[o] = starts[o] /\ ends'[o] = ends[o] /\ o \in owned'
        BY <1>1, <2>1, <2>4, <3>1 DEF MarkOrderPaid, IInv, TypeOK
      <3> QED BY <2>1, <3>2 DEF Length
    <2>5. ASSUME \/ Tick \/ UpsertUser
                 \/ \E c \in Codes : GenerateCode(c) \/ RevokeCode(c) \/ RedeemCode(c)
          PROVE  o \in owned' /\ Length(o)' <= Length(o)
      BY <1>1, <2>1, <2>5 DEF Tick, UpsertUser, GenerateCode, RevokeCode, RedeemCode, Length
    <2> QED BY <1>1, <2>2, <2>3, <2>4, <2>5 DEF Next
  <1>2. IInv /\ [Next]_vars => [Kept]_vars
    BY <1>1
  <1> HIDE DEF Kept
  <1>3. Spec => [][Kept]_vars
    BY <1>2, Invariance, PTL DEF Spec
  <1> QED BY <1>3 DEF LostTimeStaysLost, Kept

-----------------------------------------------------------------------------
(* The components together.                                                *)

\* A behaviour of the server is one of each component.
LEMMA ServicesRunComponents ==
    ServicesSpec => /\ SyncSpec /\ AdminSpec /\ OAuthSpec /\ LimiterSpec
                    /\ BucketSpec /\ ReminderSpec /\ FreeSpec /\ Spec
<1>1. ServicesInit => /\ SyncInit /\ AdminInit /\ OAuthInit /\ LimiterInit
                      /\ BucketInit /\ ReminderInit /\ FreeInit /\ Init
  BY DEF ServicesInit
<1>2. [ServicesNext]_parts => /\ [SyncNext]_syncVars /\ [AdminNext]_adminVars
                              /\ [OAuthNext]_oauthVars /\ [LimiterNext]_limiterVars
                              /\ [BucketNext]_bucketVars /\ [ReminderNext]_reminderVars
                              /\ [FreeNext]_freeVars /\ [Next]_vars
  BY DEF ServicesNext, parts, StepSync, StepAdmin, StepOAuth, StepLimiter, StepBucket,
         StepReminder, StepFree, StepMembership
<1> QED
  BY <1>1, <1>2, PTL DEF ServicesSpec, SyncSpec, AdminSpec, OAuthSpec, LimiterSpec,
         BucketSpec, ReminderSpec, FreeSpec, Spec

\* No component ever holds a value outside of its type.
THEOREM ServicesTypesCorrect == ServicesSpec => []ServicesTypeOK
<1>1. SyncInv /\ AdminInv /\ OAuthInv /\ LimiterInv /\ BucketInv /\ ReminderInv /\ FreeInv /\ IInv
         => ServicesTypeOK
  BY DEF SyncInv, AdminInv, OAuthInv, LimiterInv, BucketInv, ReminderInv, FreeInv, IInv,
         ServicesTypeOK
<1> QED
  BY <1>1, ServicesRunComponents, SyncInvariant, AdminInvariant, OAuthInvariant,
     LimiterInvariant, BucketInvariant, ReminderInvariant, FreeInvariant, Invariance, PTL

\* The request windows, the sender's bucket and the free tier's number of
\* sites limit whatever the components do.
THEOREM LimitsAlwaysHold == ServicesSpec => []LimitsHold
<1>1. LimiterInv /\ BucketInv /\ FreeInv => LimitsHold
  BY GrantFollows, FreeSlips DEF LimiterInv, BucketInv, FreeInv, LimitsHold
<1> QED
  BY <1>1, ServicesRunComponents, LimiterInvariant, BucketInvariant, FreeInvariant, PTL

\* Of one behaviour of the server, the types of all its components and what each
\* of them promises: its limits, the tokens of the browser synchronisation, the
\* administration and the logins behind their checks, the reminders, and the
\* membership time that was sold.
THEOREM ServicesKeepPromises ==
    ServicesSpec =>
        /\ []ServicesTypeOK /\ []LimitsHold
        /\ []ClaimIsHeld /\ SyncTicketsOnce /\ []AdminIsGuarded /\ LoginsHold
        /\ []RemindersKeepPromises
        /\ []SoldOnce /\ RefundTakesOwnShare /\ LostTimeStaysLost
  BY ServicesRunComponents, ServicesTypesCorrect, LimitsAlwaysHold, ClaimedTokenIsHeld,
     SyncTicketsUsedOnce, AdministrationGuarded, LoginsAreSafe, MembersAreReminded,
     TimeSoldOnce, RefundIsFair, LossIsFinal, PTL
=============================================================================
