---------------------------- MODULE LoginProofs ----------------------------
(***************************************************************************)
(* Proofs about the three ways in: OAuthLogin, SessionSync and AdminAuth,  *)
(* for any browsers, logins, codes, tokens, handlers, sites and addresses, *)
(* and any durations.                                                      *)
(*                                                                         *)
(* OAuthLogin: everything that carries a state onward, a cookie, a         *)
(* callback in progress or a session, belongs to the browser that began    *)
(* the login.                                                              *)
(*                                                                         *)
(* SessionSync: a handler between its claim and its Finish is alone with   *)
(* its token, which is claimed or has been dropped meanwhile, and has      *)
(* stored with it just when it is at "verify".                             *)
(*                                                                         *)
(* AdminAuth: the failures of an address that are not within its count     *)
(* are a lock ago, or the lock they led to is as long as that.             *)
(***************************************************************************)
EXTENDS OAuthLogin, SessionSync, AdminAuth, FiniteSetTheorems, TLAPS

-----------------------------------------------------------------------------
(* The administrator's login.                                              *)

\* The failures an address has behind it are within its count, or older than
\* a lock, or the lock they led to lasts at least as long after them.
CountsFailures ==
    \A a \in Addresses :
        LET f == failed[a]
            r == failures[a]
        IN  /\ Len(f) <= MaxFailures + 1
            /\ \A j \in 1..Len(f) :
                  /\ f[j] <= adminNow
                  /\ j > Len(f) - r.count => f[j] <= r.last
                  /\ j <= Len(f) - r.count => \/ f[j] + LockTime <= adminNow
                                              \/ f[j] + LockTime <= r.until

AdminInv == AdminTypeOK /\ CountsFailures /\ AdminIsGuarded

\* The same for one address, at any time.
Counted(f, r, now) ==
    /\ Len(f) <= MaxFailures + 1
    /\ \A j \in 1..Len(f) :
          /\ f[j] <= now
          /\ j > Len(f) - r.count => f[j] <= r.last
          /\ j <= Len(f) - r.count => \/ f[j] + LockTime <= now
                                      \/ f[j] + LockTime <= r.until
Slow(f) == Len(f) > MaxFailures => f[Len(f)] - f[1] >= LockTime

AdminEntry == [count : 0..(MaxFailures - 1), until : 0..(AdminEnd + LockTime), last : 0..AdminEnd]

\* The parameters are positive numbers.
LEMMA AdminNumbers ==
    /\ MaxFailures \in Nat \ {0} /\ LockTime \in Nat \ {0} /\ FailureWindow \in Nat \ {0}
    /\ AdminTTL \in Nat \ {0} /\ AdminEnd \in Nat \ {0} /\ LockTime <= FailureWindow
BY AdminAssumption DEF AdminAssumption

\* Times of failures, and what is remembered of an address, are numbers.
LEMMA EntryNumbers ==
    ASSUME NEW f \in Seq(1..AdminEnd), NEW r \in AdminEntry
    PROVE  /\ Len(f) \in Nat /\ \A j \in 1..Len(f) : f[j] \in Nat /\ f[j] # 0
           /\ r.count \in Nat /\ r.count <= MaxFailures - 1 /\ r.until \in Nat /\ r.last \in Nat
<1>1. \A j \in 1..Len(f) : f[j] \in 1..AdminEnd
  BY AdminNumbers
<1> QED BY <1>1, AdminNumbers DEF AdminEntry

\* The invariant and the property, address by address.
LEMMA AdminRestated ==
    /\ CountsFailures <=> \A a \in Addresses : Counted(failed[a], failures[a], adminNow)
    /\ GuessingIsSlow <=> \A a \in Addresses : Slow(failed[a])
BY DEF CountsFailures, Counted, GuessingIsSlow, Slow

\* Time goes by.
LEMMA CountedLater ==
    ASSUME NEW f \in Seq(1..AdminEnd), NEW r \in AdminEntry, NEW now \in 1..AdminEnd, Counted(f, r, now),
           NEW later \in 1..AdminEnd, now <= later
    PROVE  Counted(f, r, later)
<1>1. now \in Nat /\ later \in Nat
  OBVIOUS
<1> QED BY <1>1, AdminNumbers, EntryNumbers DEF Counted

\* An address is forgotten when all it did is a lock ago.
LEMMA CountedForgotten ==
    ASSUME NEW f \in Seq(1..AdminEnd), NEW r \in AdminEntry, NEW now \in 1..AdminEnd, Counted(f, r, now),
           r.until <= now, now - r.last >= FailureWindow
    PROVE  Counted(f, NoFailure, now)
<1>1. now \in Nat
  OBVIOUS
<1>2. \A j \in 1..Len(f) : f[j] + LockTime <= now
  <2> SUFFICES ASSUME NEW j \in 1..Len(f) PROVE f[j] + LockTime <= now
    OBVIOUS
  <2>1. /\ f[j] \in Nat /\ Len(f) \in Nat /\ j \in Nat
        /\ r.count \in Nat /\ r.until \in Nat /\ r.last \in Nat
    BY EntryNumbers
  <2>2. CASE j > Len(f) - r.count
    <3>1. f[j] <= r.last
      BY <2>2 DEF Counted
    <3> QED BY <1>1, <2>1, <3>1, AdminNumbers
  <2>3. CASE j <= Len(f) - r.count
    <3>1. f[j] + LockTime <= now \/ f[j] + LockTime <= r.until
      BY <2>3 DEF Counted
    <3> QED BY <1>1, <2>1, <3>1, AdminNumbers
  <2> QED BY <2>1, <2>2, <2>3
<1> QED BY <1>1, <1>2, AdminNumbers, EntryNumbers DEF Counted, NoFailure

\* A success or a restart starts from nothing.
LEMMA NothingCounted ==
    ASSUME NEW now, NEW r
    PROVE  Counted(<<>>, r, now) /\ Slow(<<>>)
BY AdminNumbers DEF Counted, Slow

\* The history keeps what the property looks at.
LEMMA HistoryGrows ==
    ASSUME NEW f \in Seq(1..AdminEnd), NEW now \in 1..AdminEnd, Len(f) <= MaxFailures + 1
    PROVE  LET g == LastOf(Append(f, now))
               d == IF Len(f) = MaxFailures + 1 THEN 1 ELSE 0
           IN  /\ g \in Seq(1..AdminEnd) /\ Len(g) = Len(f) + 1 - d
               /\ g[Len(g)] = now
               /\ \A j \in 1..(Len(g) - 1) : g[j] = f[j + d]
<1> DEFINE e == Append(f, now)
<1>1. /\ e \in Seq(1..AdminEnd) /\ Len(e) = Len(f) + 1 /\ e[Len(f) + 1] = now
      /\ \A j \in 1..Len(f) : e[j] = f[j]
  OBVIOUS
<1>2. MaxFailures \in Nat \ {0} /\ Len(f) \in Nat
  BY AdminNumbers
<1> HIDE DEF e
<1>3. CASE Len(f) = MaxFailures + 1
  <2>1. LastOf(e) = Tail(e) /\ e # <<>>
    BY <1>1, <1>2, <1>3 DEF LastOf
  <2>2. /\ Tail(e) \in Seq(1..AdminEnd) /\ Len(Tail(e)) = Len(f)
        /\ \A j \in 1..Len(f) : Tail(e)[j] = e[j + 1]
    BY <1>1, <1>2, <2>1
  <2> QED BY <1>1, <1>2, <1>3, <2>1, <2>2 DEF e
<1>4. CASE Len(f) # MaxFailures + 1
  <2>1. LastOf(e) = e
    BY <1>1, <1>2, <1>4 DEF LastOf
  <2> QED BY <1>1, <1>2, <1>4, <2>1 DEF e
<1> QED BY <1>3, <1>4

\* A wrong password is compared only when the address is not locked; then the
\* failure that is MaxFailures behind is a lock ago.
LEMMA CountedFailure ==
    ASSUME NEW f \in Seq(1..AdminEnd), NEW r \in AdminEntry, NEW now \in 1..AdminEnd, Counted(f, r, now),
           r.until <= now
    PROVE  LET g == LastOf(Append(f, now))
           IN  /\ g \in Seq(1..AdminEnd) /\ Slow(g)
               /\ Counted(g, [count |-> 0, until |-> now + LockTime, last |-> now], now)
               /\ Counted(g, [count |-> r.count + 1, until |-> r.until, last |-> now], now)
<1> DEFINE g == LastOf(Append(f, now))
           d == IF Len(f) = MaxFailures + 1 THEN 1 ELSE 0
<1>1. /\ MaxFailures \in Nat \ {0} /\ LockTime \in Nat \ {0} /\ Len(f) \in Nat /\ now \in Nat
      /\ r.count \in Nat /\ r.count <= MaxFailures - 1 /\ r.until \in Nat
      /\ \A j \in 1..Len(f) : f[j] \in Nat
  BY AdminNumbers, EntryNumbers
<1>2. /\ Len(f) <= MaxFailures + 1
      /\ \A j \in 1..Len(f) : /\ f[j] <= now
                              /\ j <= Len(f) - r.count => f[j] + LockTime <= now
  <2>1. \A j \in 1..Len(f) : f[j] + LockTime <= r.until => f[j] + LockTime <= now
    BY <1>1
  <2> QED BY <2>1 DEF Counted
<1>3. /\ g \in Seq(1..AdminEnd) /\ Len(g) = Len(f) + 1 - d /\ g[Len(g)] = now
      /\ \A j \in 1..(Len(g) - 1) : g[j] = f[j + d]
  BY <1>2, HistoryGrows
<1>4. (d = 0 \/ d = 1) /\ d \in Nat /\ (d = 1 <=> Len(f) = MaxFailures + 1)
  OBVIOUS
<1> HIDE DEF g, d
<1>10. Len(g) \in Nat
  BY <1>1, <1>3, <1>4
<1>5. \A j \in 1..Len(g) : /\ g[j] <= now /\ g[j] \in Nat
                           /\ j <= Len(g) - (r.count + 1) => g[j] + LockTime <= now
  <2> SUFFICES ASSUME NEW j \in 1..Len(g)
               PROVE  /\ g[j] <= now /\ g[j] \in Nat
                      /\ j <= Len(g) - (r.count + 1) => g[j] + LockTime <= now
    OBVIOUS
  <2>1. CASE j = Len(g)
    BY <1>1, <1>3, <1>10, <2>1
  <2>2. CASE j # Len(g)
    <3>0. j \in Nat /\ 1 <= j /\ j <= Len(g)
      BY <1>10
    <3>1. j \in 1..(Len(g) - 1) /\ j + d \in 1..Len(f)
      BY <1>1, <1>3, <1>4, <1>10, <2>2, <3>0
    <3>2. g[j] = f[j + d]
      BY <1>3, <3>1
    <3>3. j <= Len(g) - (r.count + 1) => j + d <= Len(f) - r.count
      BY <1>1, <1>3, <1>4
    <3> QED BY <1>1, <1>2, <3>1, <3>2, <3>3
  <2> QED BY <2>1, <2>2
<1>6. Len(g) \in Nat /\ Len(g) <= MaxFailures + 1
  BY <1>1, <1>2, <1>3, <1>4
<1>7. Slow(g)
  <2> SUFFICES ASSUME Len(g) > MaxFailures PROVE g[Len(g)] - g[1] >= LockTime
    BY DEF Slow
  <2>1. 1 \in 1..Len(g) /\ 1 <= Len(g) - (r.count + 1)
    BY <1>1, <1>6
  <2>2. g[1] \in Nat /\ g[1] + LockTime <= now
    BY <1>5, <2>1
  <2> QED BY <1>1, <1>3, <2>2
<1>8. Counted(g, [count |-> 0, until |-> now + LockTime, last |-> now], now)
  BY <1>1, <1>5, <1>6 DEF Counted
<1>9. Counted(g, [count |-> r.count + 1, until |-> r.until, last |-> now], now)
  BY <1>1, <1>5, <1>6 DEF Counted
<1> QED BY <1>3, <1>7, <1>8, <1>9 DEF g

\* What a call finds after it has removed what has expired.
LEMMA AdminCleaned ==
    ASSUME AdminInv
    PROVE  /\ LiveSessions \in [AdminTokens -> [state : {"new", "live", "gone"},
                                                expires : 0..(AdminEnd + AdminTTL)]]
           /\ LiveFailures \in [Addresses -> AdminEntry]
           /\ \A a \in Addresses : Counted(failed[a], LiveFailures[a], adminNow)
           /\ LiveCSRF \subseteq AdminTokens
           /\ \A k \in LiveCSRF : LiveSessions[k] = session[k] /\ session[k].state = "live"
<1>1. /\ session \in [AdminTokens -> [state : {"new", "live", "gone"},
                                      expires : 0..(AdminEnd + AdminTTL)]]
      /\ csrf \subseteq AdminTokens /\ failures \in [Addresses -> AdminEntry]
      /\ failed \in [Addresses -> Seq(1..AdminEnd)] /\ adminNow \in 1..AdminEnd
  BY DEF AdminInv, AdminTypeOK, AdminEntry
<1>2. LiveSessions \in [AdminTokens -> [state : {"new", "live", "gone"},
                                        expires : 0..(AdminEnd + AdminTTL)]]
  BY <1>1 DEF LiveSessions
<1>3. NoFailure \in AdminEntry
  BY AdminNumbers DEF NoFailure, AdminEntry
<1>4. LiveFailures \in [Addresses -> AdminEntry]
  BY <1>1, <1>3 DEF LiveFailures
<1>5. \A a \in Addresses : Counted(failed[a], failures[a], adminNow)
  BY AdminRestated DEF AdminInv
<1>6. ASSUME NEW a \in Addresses PROVE Counted(failed[a], LiveFailures[a], adminNow)
  <2>1. CASE Forgotten(a)
    <3>1. LiveFailures[a] = NoFailure
      BY <2>1 DEF LiveFailures
    <3>2. failures[a].until <= adminNow /\ adminNow - failures[a].last >= FailureWindow
      BY <2>1 DEF Forgotten
    <3>3. failed[a] \in Seq(1..AdminEnd) /\ failures[a] \in AdminEntry
      BY <1>1
    <3>4. Counted(failed[a], NoFailure, adminNow)
      BY <1>1, <1>5, <3>2, <3>3, CountedForgotten
    <3> QED BY <3>1, <3>4
  <2>2. CASE ~Forgotten(a)
    BY <1>5, <2>2 DEF LiveFailures
  <2> QED BY <2>1, <2>2
<1>7. \A k \in LiveCSRF : session[k].state = "live"
  BY DEF LiveCSRF, AdminInv, AdminIsGuarded, CSRFNeedsSession
<1>8. \A k \in LiveCSRF : k \in AdminTokens /\ ~ExpiredSession(k)
  BY <1>1 DEF LiveCSRF
<1> QED BY <1>2, <1>4, <1>6, <1>7, <1>8 DEF LiveSessions

\* The invariant, from what a step makes of its parts.
LEMMA AdminHolds ==
    ASSUME adminNow' \in 1..AdminEnd,
           session' \in [AdminTokens -> [state : {"new", "live", "gone"},
                                         expires : 0..(AdminEnd + AdminTTL)]],
           csrf' \subseteq AdminTokens, \A k \in csrf' : session'[k].state = "live",
           failures' \in [Addresses -> AdminEntry], failed' \in [Addresses -> Seq(1..AdminEnd)],
           \A a \in Addresses : Counted(failed'[a], failures'[a], adminNow') /\ Slow(failed'[a])
    PROVE  AdminInv'
BY DEF AdminInv, AdminTypeOK, AdminEntry, CountsFailures, Counted, AdminIsGuarded, GuessingIsSlow,
       Slow, CSRFNeedsSession

\* A login attempt: turned away, failed or successful.
LEMMA TryLoginKeeps ==
    ASSUME AdminInv, NEW a \in Addresses, NEW right \in BOOLEAN, NEW k \in AdminTokens,
           TryLogin(a, right, k)
    PROVE  AdminInv'
<1>1. /\ LiveSessions \in [AdminTokens -> [state : {"new", "live", "gone"},
                                           expires : 0..(AdminEnd + AdminTTL)]]
      /\ LiveFailures \in [Addresses -> AdminEntry]
      /\ \A b \in Addresses : Counted(failed[b], LiveFailures[b], adminNow)
      /\ LiveCSRF \subseteq AdminTokens
      /\ \A j \in LiveCSRF : LiveSessions[j] = session[j] /\ session[j].state = "live"
  BY AdminCleaned
<1>2. /\ failed \in [Addresses -> Seq(1..AdminEnd)] /\ adminNow \in 1..AdminEnd
      /\ \A b \in Addresses : Slow(failed[b])
  BY AdminRestated DEF AdminInv, AdminTypeOK, AdminIsGuarded
<1>3. session[k].state = "new" /\ csrf' = LiveCSRF /\ adminNow' = adminNow
  BY DEF TryLogin
<1>4. CASE /\ failures' = LiveFailures /\ session' = LiveSessions
           /\ UNCHANGED failed
  BY <1>1, <1>2, <1>3, <1>4, AdminHolds
<1>5. CASE /\ LiveFailures[a].until <= adminNow
           /\ failures' = [LiveFailures EXCEPT ![a] = CountFailure(@)]
           /\ failed' = [failed EXCEPT ![a] = LastOf(Append(@, adminNow))]
           /\ session' = LiveSessions
  <2> DEFINE f == failed[a]
             r == LiveFailures[a]
             g == LastOf(Append(f, adminNow))
             new == CountFailure(r)
  <2>1. f \in Seq(1..AdminEnd) /\ r \in AdminEntry
    BY <1>1, <1>2
  <2>2. /\ g \in Seq(1..AdminEnd) /\ Slow(g)
        /\ Counted(g, [count |-> 0, until |-> adminNow + LockTime, last |-> adminNow], adminNow)
        /\ Counted(g, [count |-> r.count + 1, until |-> r.until, last |-> adminNow], adminNow)
    BY <1>1, <1>2, <1>5, <2>1, CountedFailure
  <2>3. new \in AdminEntry /\ Counted(g, new, adminNow)
    <3>1. CASE r.count + 1 >= MaxFailures
      <4>1. new = [count |-> 0, until |-> adminNow + LockTime, last |-> adminNow]
        BY <3>1 DEF CountFailure
      <4>2. new \in AdminEntry
        BY <1>2, <4>1, AdminNumbers DEF AdminEntry
      <4> QED BY <2>2, <4>1, <4>2
    <3>2. CASE ~(r.count + 1 >= MaxFailures)
      <4>1. new = [r EXCEPT !.count = @ + 1, !.last = adminNow]
        BY <3>2 DEF CountFailure
      <4>2. [r EXCEPT !.count = @ + 1, !.last = adminNow]
              = [[r EXCEPT !.count = @ + 1] EXCEPT !.last = adminNow]
        BY Zenon
      <4>3. [r EXCEPT !.count = @ + 1] = [count |-> r.count + 1, until |-> r.until, last |-> r.last]
        BY <2>1 DEF AdminEntry
      <4>4. new = [count |-> r.count + 1, until |-> r.until, last |-> adminNow]
        BY <4>1, <4>2, <4>3
      <4>5. new \in AdminEntry
        <5>1. r.count \in Nat /\ r.until \in 0..(AdminEnd + LockTime) /\ r.count + 1 < MaxFailures
          BY <2>1, <3>2, AdminNumbers DEF AdminEntry
        <5> HIDE DEF r, new
        <5> QED BY <1>2, <4>4, <5>1, AdminNumbers DEF AdminEntry
      <4> QED BY <2>2, <4>4, <4>5
    <3> QED BY <3>1, <3>2
  <2>4. failures' = [LiveFailures EXCEPT ![a] = new] /\ failed' = [failed EXCEPT ![a] = g]
    BY <1>5
  <2> HIDE DEF g, new
  <2>5. /\ failures' \in [Addresses -> AdminEntry] /\ failed' \in [Addresses -> Seq(1..AdminEnd)]
        /\ \A b \in Addresses : Counted(failed'[b], failures'[b], adminNow) /\ Slow(failed'[b])
    <3>1. failures' \in [Addresses -> AdminEntry] /\ failed' \in [Addresses -> Seq(1..AdminEnd)]
      BY <1>1, <1>2, <2>2, <2>3, <2>4
    <3>2. failures'[a] = new /\ failed'[a] = g
      BY <1>1, <1>2, <2>4
    <3>3. \A b \in Addresses : b # a => failures'[b] = LiveFailures[b] /\ failed'[b] = failed[b]
      BY <1>1, <1>2, <2>4
    <3>4. \A b \in Addresses : Counted(failed'[b], failures'[b], adminNow) /\ Slow(failed'[b])
      <4> TAKE b \in Addresses
      <4>1. CASE b = a
        BY <2>2, <2>3, <3>2, <4>1
      <4>2. CASE b # a
        BY <1>1, <1>2, <3>3, <4>2
      <4> QED BY <4>1, <4>2
    <3> QED BY <3>1, <3>4
  <2>6. session' = LiveSessions
    BY <1>5
  <2> QED BY <1>1, <1>2, <1>3, <2>5, <2>6, AdminHolds
<1>6. CASE /\ failures' = [LiveFailures EXCEPT ![a] = NoFailure]
           /\ failed' = [failed EXCEPT ![a] = <<>>]
           /\ session' = [LiveSessions EXCEPT ![k] =
                            [state |-> "live", expires |-> adminNow + AdminTTL]]
  <2>1. NoFailure \in AdminEntry
    BY AdminNumbers DEF NoFailure, AdminEntry
  <2>2. failures' \in [Addresses -> AdminEntry] /\ failed' \in [Addresses -> Seq(1..AdminEnd)]
    BY <1>1, <1>2, <1>6, <2>1
  <2>3. \A b \in Addresses : /\ b = a => failed'[b] = <<>> /\ failures'[b] = NoFailure
                             /\ b # a => failed'[b] = failed[b] /\ failures'[b] = LiveFailures[b]
    BY <1>1, <1>2, <1>6
  <2>4. \A b \in Addresses : Counted(failed'[b], failures'[b], adminNow) /\ Slow(failed'[b])
    <3> TAKE b \in Addresses
    <3>1. CASE b = a
      BY <2>3, <3>1, NothingCounted
    <3>2. CASE b # a
      BY <1>1, <1>2, <2>3, <3>2
    <3> QED BY <3>1, <3>2
  <2> DEFINE r == [state |-> "live", expires |-> adminNow + AdminTTL]
  <2>5. r \in [state : {"new", "live", "gone"}, expires : 0..(AdminEnd + AdminTTL)]
        /\ r.state = "live"
    BY <1>2, AdminNumbers
  <2>6. session' = [LiveSessions EXCEPT ![k] = r]
    BY <1>6
  <2> HIDE DEF r
  <2>7. session' \in [AdminTokens -> [state : {"new", "live", "gone"},
                                      expires : 0..(AdminEnd + AdminTTL)]]
    BY <1>1, <2>5, <2>6
  <2>8. \A j \in csrf' : session'[j].state = "live"
    BY <1>1, <1>3, <2>5, <2>6
  <2> QED BY <1>1, <1>2, <1>3, <2>2, <2>4, <2>7, <2>8, AdminHolds
<1> QED BY <1>4, <1>5, <1>6 DEF TryLogin

\* The other calls clean up and touch one session.
LEMMA AdminCallKeeps ==
    ASSUME AdminInv, NEW k \in AdminTokens, IssueCSRF(k) \/ Request(k) \/ AdminLogout(k)
    PROVE  AdminInv'
<1>1. /\ LiveSessions \in [AdminTokens -> [state : {"new", "live", "gone"},
                                           expires : 0..(AdminEnd + AdminTTL)]]
      /\ LiveFailures \in [Addresses -> AdminEntry]
      /\ \A b \in Addresses : Counted(failed[b], LiveFailures[b], adminNow)
      /\ LiveCSRF \subseteq AdminTokens
      /\ \A j \in LiveCSRF : LiveSessions[j] = session[j] /\ session[j].state = "live"
  BY AdminCleaned
<1>2. /\ failed \in [Addresses -> Seq(1..AdminEnd)] /\ adminNow \in 1..AdminEnd
      /\ \A b \in Addresses : Slow(failed[b])
  BY AdminRestated DEF AdminInv, AdminTypeOK, AdminIsGuarded
<1>3. failures' = LiveFailures /\ UNCHANGED <<adminNow, failed>>
  BY DEF IssueCSRF, Request, AdminLogout
<1>4. CASE IssueCSRF(k)
  <2>1. /\ session' = LiveSessions /\ session[k].state = "live"
        /\ csrf' = IF ExpiredSession(k) THEN LiveCSRF ELSE LiveCSRF \cup {k}
    BY <1>4 DEF IssueCSRF
  <2>2. \A j \in csrf' : session'[j].state = "live"
    BY <1>1, <2>1 DEF LiveSessions
  <2> QED BY <1>1, <1>2, <1>3, <2>1, <2>2, AdminHolds
<1>5. CASE Request(k)
  <2>1. session' = LiveSessions /\ csrf' = LiveCSRF
    BY <1>5 DEF Request
  <2> QED BY <1>1, <1>2, <1>3, <2>1, AdminHolds
<1>6. CASE AdminLogout(k)
  <2>1. session' = [LiveSessions EXCEPT ![k].state = "gone"] /\ csrf' = LiveCSRF \ {k}
    BY <1>6 DEF AdminLogout
  <2>2. session' \in [AdminTokens -> [state : {"new", "live", "gone"},
                                      expires : 0..(AdminEnd + AdminTTL)]]
    BY <1>1, <2>1
  <2>3. \A j \in csrf' : session'[j].state = "live"
    BY <1>1, <2>1
  <2> QED BY <1>1, <1>2, <1>3, <2>1, <2>2, <2>3, AdminHolds
<1> QED BY <1>4, <1>5, <1>6

\* Initially nobody has failed and nobody is logged in.
LEMMA AdminStart == AdminInit => AdminInv
<1> SUFFICES ASSUME AdminInit PROVE AdminInv
  OBVIOUS
<1>1. AdminTypeOK
  BY AdminNumbers DEF AdminInit, AdminTypeOK, NoFailure
<1>2. \A a \in Addresses : Counted(failed[a], failures[a], adminNow) /\ Slow(failed[a])
  BY NothingCounted DEF AdminInit
<1>3. CSRFNeedsSession
  BY DEF AdminInit, CSRFNeedsSession
<1> QED BY <1>1, <1>2, <1>3, AdminRestated DEF AdminInv, AdminIsGuarded

\* Every step keeps the invariant.
LEMMA AdminStep == AdminInv /\ [AdminNext]_adminVars => AdminInv'
<1> SUFFICES ASSUME AdminInv, [AdminNext]_adminVars PROVE AdminInv'
  OBVIOUS
<1>0. /\ session \in [AdminTokens -> [state : {"new", "live", "gone"},
                                      expires : 0..(AdminEnd + AdminTTL)]]
      /\ csrf \subseteq AdminTokens /\ failures \in [Addresses -> AdminEntry]
      /\ failed \in [Addresses -> Seq(1..AdminEnd)] /\ adminNow \in 1..AdminEnd
      /\ \A k \in csrf : session[k].state = "live"
      /\ \A a \in Addresses : Counted(failed[a], failures[a], adminNow) /\ Slow(failed[a])
  BY AdminRestated DEF AdminInv, AdminTypeOK, AdminEntry, AdminIsGuarded, CSRFNeedsSession
<1>1. CASE AdminTick
  <2>1. /\ adminNow' \in 1..AdminEnd /\ adminNow <= adminNow'
        /\ UNCHANGED <<session, csrf, failures, failed>>
    BY <1>0, <1>1, AdminNumbers DEF AdminTick
  <2>2. \A a \in Addresses : Counted(failed[a], failures[a], adminNow')
    BY <1>0, <2>1, CountedLater
  <2> QED BY <1>0, <2>1, <2>2, AdminHolds
<1>2. CASE AdminRestart
  <2>1. /\ failures' \in [Addresses -> AdminEntry] /\ failed' \in [Addresses -> Seq(1..AdminEnd)]
        /\ \A a \in Addresses : failed'[a] = <<>>
    BY <1>2, AdminNumbers DEF AdminRestart, NoFailure, AdminEntry
  <2>2. session' \in [AdminTokens -> [state : {"new", "live", "gone"},
                                      expires : 0..(AdminEnd + AdminTTL)]]
    BY <1>0, <1>2 DEF AdminRestart
  <2>3. csrf' = {} /\ adminNow' = adminNow
    BY <1>2 DEF AdminRestart
  <2>4. \A a \in Addresses : Counted(failed'[a], failures'[a], adminNow') /\ Slow(failed'[a])
    BY <2>1, NothingCounted
  <2>5. csrf' \subseteq AdminTokens /\ \A k \in csrf' : session'[k].state = "live"
    BY <2>3
  <2> QED BY <1>0, <2>1, <2>2, <2>3, <2>4, <2>5, AdminHolds
<1>3. ASSUME NEW k \in AdminTokens, IssueCSRF(k) \/ Request(k) \/ AdminLogout(k)
      PROVE  AdminInv'
  BY <1>3, AdminCallKeeps
<1>4. ASSUME NEW k \in AdminTokens, NEW a \in Addresses, NEW right \in BOOLEAN,
             TryLogin(a, right, k)
      PROVE  AdminInv'
  BY <1>4, TryLoginKeeps
<1>5. CASE UNCHANGED adminVars
  BY <1>0, <1>5, AdminHolds DEF adminVars
<1> QED BY <1>1, <1>2, <1>3, <1>4, <1>5 DEF AdminNext

\* The administrator's login keeps its types and counts what it must.
THEOREM AdminInvariant == AdminSpec => []AdminInv
  BY AdminStart, AdminStep, PTL DEF AdminSpec

\* Guessing is slow, and nothing is accepted with a CSRF token alone.
THEOREM AdministrationGuarded == AdminSpec => []AdminIsGuarded
<1>1. AdminInv => AdminIsGuarded
  BY DEF AdminInv
<1> QED BY <1>1, AdminInvariant, PTL

-----------------------------------------------------------------------------
(* The users' login.                                                       *)

USE OAuthAssumption

\* Whatever carries login x is with the browser that began it; a login that was
\* not begun is carried by nothing.
Carried ==
    /\ \A b \in Browsers : stateCookie[b] # NoLogin => begunBy[stateCookie[b]] = b
    /\ \A x \in Logins : callback[x] # Waiting => begunBy[x] = callback[x].browser
    /\ LoggedInWhereBegun
Unbegun ==
    \A x \in Logins : oauth[x].state = "new" =>
        /\ callback[x] = Waiting
        /\ \A b \in Browsers : stateCookie[b] # x /\ userCookie[b] # x

\* A state was admitted when it was used, and only then.
Admitted ==
    \A x \in Logins : /\ oauth[x].state = "used" => admitted[x] = 1
                      /\ oauth[x].state # "used" => admitted[x] = 0
                      /\ oauth[x].state = "new" => oauth[x].deadline = 0

OAuthInv == OAuthTypeOK /\ Carried /\ Unbegun /\ Admitted

OAuthActions ==
    \/ OAuthTick \/ OAuthRestart \/ CleanupSessions
    \/ \E b \in Browsers : Logout(b)
    \/ \E b \in Browsers, x \in Logins : Begin(b, x)
    \/ \E b \in Browsers, x \in Logins : Callback(b, x)
    \/ \E x \in Logins : ProviderAnswers(x)
    \/ \E x \in Logins : StartSession(x)

\* A step is a step of one named action.
LEMMA OAuthNextSplits == OAuthNext => OAuthActions
  BY DEF OAuthNext, OAuthActions

LoginState == [state : {"new", "open", "used", "gone"}, deadline : 0..(OAuthEnd + StateTTL)]
LoginSession == [state : {"none", "live", "gone"}, expires : 0..(OAuthEnd + UserTTL)]
CallbackJob == {Waiting} \cup [pc : {"provider", "session"}, browser : Browsers]

\* What the clean-up leaves of the states: some that were open are gone.
LEMMA OpenStatesType ==
    ASSUME OAuthTypeOK
    PROVE /\ OpenStates \in [Logins -> LoginState]
          /\ \A x \in Logins :
                \/ OpenStates[x] = oauth[x]
                \/ /\ oauth[x].state = "open"
                   /\ OpenStates[x] = [oauth[x] EXCEPT !.state = "gone"]
                   /\ OpenStates[x].state = "gone"
                   /\ OpenStates[x].deadline = oauth[x].deadline
          /\ \A x \in Logins : OpenStates[x].state = "open" =>
                OpenStates[x] = oauth[x] /\ oauthNow < oauth[x].deadline
<1>1. /\ oauth \in [Logins -> LoginState] /\ oauthNow \in Nat
      /\ \A x \in Logins : oauth[x].deadline \in Nat
  BY DEF OAuthTypeOK, LoginState
<1>2. \A s \in LoginState : /\ [s EXCEPT !.state = "gone"] \in LoginState
                       /\ [s EXCEPT !.state = "gone"].state = "gone"
                       /\ [s EXCEPT !.state = "gone"].deadline = s.deadline
  BY DEF LoginState
<1> QED
  BY <1>1, <1>2 DEF OpenStates

\* A callback nobody has sent is idle.
LEMMA WaitingIsIdle == Waiting.pc = "idle"
  BY DEF Waiting

-----------------------------------------------------------------------------

\* The invariant holds initially.
LEMMA OAuthInvInit == OAuthInit => OAuthInv
<1> SUFFICES ASSUME OAuthInit PROVE OAuthInv
  OBVIOUS
<1>1. OAuthTypeOK
  <2>1. /\ [state |-> "new", deadline |-> 0] \in LoginState
        /\ [state |-> "none", expires |-> 0] \in LoginSession
    BY DEF LoginState, LoginSession
  <2> QED
    BY <2>1 DEF OAuthInit, OAuthTypeOK, LoginState, LoginSession
<1>2. Carried /\ Unbegun /\ Admitted
  BY DEF OAuthInit, Carried, LoggedInWhereBegun, Unbegun, Admitted
<1> QED
  BY <1>1, <1>2 DEF OAuthInv

\* Every step keeps the types.
LEMMA OAuthTypeStep == OAuthInv /\ [OAuthNext]_oauthVars => OAuthTypeOK'
<1> SUFFICES ASSUME OAuthInv, [OAuthNext]_oauthVars PROVE OAuthTypeOK'
  OBVIOUS
<1>t. /\ OAuthTypeOK /\ oauthNow \in 1..OAuthEnd
      /\ oauth \in [Logins -> LoginState] /\ userSession \in [Logins -> LoginSession]
      /\ callback \in [Logins -> CallbackJob]
      /\ \A x \in Logins : oauth[x] \in LoginState /\ userSession[x] \in LoginSession
      /\ OpenStates \in [Logins -> LoginState]
  BY OpenStatesType DEF OAuthInv, OAuthTypeOK, LoginState, LoginSession, CallbackJob
<1>g. /\ \A s \in LoginState, l \in {"used", "gone"} : [s EXCEPT !.state = l] \in LoginState
      /\ \A s \in LoginSession : [s EXCEPT !.state = "gone"] \in LoginSession
  BY DEF LoginState, LoginSession
<1>0. CASE UNCHANGED oauthVars
  BY <1>0, <1>t DEF oauthVars, OAuthTypeOK
<1>1. CASE OAuthTick
  BY <1>1, <1>t DEF OAuthTick, OAuthTypeOK
<1>2. CASE OAuthRestart
  <2>1. oauth' \in [Logins -> LoginState] /\ callback' \in [Logins -> CallbackJob]
    BY <1>2, <1>t, <1>g DEF OAuthRestart, CallbackJob
  <2> QED
    BY <1>2, <1>t, <2>1 DEF OAuthRestart, OAuthTypeOK, LoginState, CallbackJob
<1>3. CASE CleanupSessions
  <2>1. userSession' \in [Logins -> LoginSession]
    BY <1>3, <1>t, <1>g DEF CleanupSessions
  <2> QED
    BY <1>3, <1>t, <2>1 DEF CleanupSessions, OAuthTypeOK, LoginSession
<1>4. ASSUME NEW b \in Browsers, Logout(b) PROVE OAuthTypeOK'
  <2>1. userSession' \in [Logins -> LoginSession]
    BY <1>4, <1>t, <1>g DEF Logout
  <2>2. userCookie' \in [Browsers -> Logins \cup {NoLogin}]
    BY <1>4, <1>t DEF Logout, OAuthTypeOK
  <2> QED
    BY <1>4, <1>t, <2>1, <2>2 DEF Logout, OAuthTypeOK, LoginSession
<1>5. ASSUME NEW b \in Browsers, NEW x \in Logins, Begin(b, x) PROVE OAuthTypeOK'
  <2>1. [state |-> "open", deadline |-> oauthNow + StateTTL] \in LoginState
    BY <1>t DEF LoginState
  <2>2. oauth' \in [Logins -> LoginState]
    BY <1>5, <1>t, <2>1 DEF Begin
  <2>3. /\ stateCookie' \in [Browsers -> Logins \cup {NoLogin}]
        /\ begunBy' \in [Logins -> Browsers \cup {NoLogin}]
    BY <1>5, <1>t DEF Begin, OAuthTypeOK
  <2> QED
    BY <1>5, <1>t, <2>2, <2>3 DEF Begin, OAuthTypeOK, LoginState
<1>6. ASSUME NEW b \in Browsers, NEW x \in Logins, Callback(b, x) PROVE OAuthTypeOK'
  <2>1. [OpenStates EXCEPT ![x].state = "used"] \in [Logins -> LoginState]
    BY <1>t, <1>g
  <2>2. oauth' \in [Logins -> LoginState]
    BY <1>6, <1>t, <2>1 DEF Callback
  <2>3. callback' \in [Logins -> CallbackJob]
    <3>1. [pc |-> "provider", browser |-> b] \in CallbackJob
      BY DEF CallbackJob
    <3> QED
      BY <1>6, <1>t, <3>1 DEF Callback
  <2>4. admitted' \in [Logins -> 0..1]
    <3>1. CASE stateCookie[b] = x /\ OpenStates[x].state = "open"
      <4>1. oauth[x].state = "open"
        BY <3>1, <1>t, OpenStatesType
      <4>2. admitted[x] = 0 /\ admitted' = [admitted EXCEPT ![x] = @ + 1]
        BY <1>6, <3>1, <4>1 DEF Callback, OAuthInv, Admitted
      <4> QED
        BY <1>t, <4>2 DEF OAuthTypeOK
    <3>2. CASE ~(stateCookie[b] = x /\ OpenStates[x].state = "open")
      BY <1>6, <1>t, <3>2 DEF Callback, OAuthTypeOK
    <3> QED
      BY <3>1, <3>2
  <2>5. stateCookie' \in [Browsers -> Logins \cup {NoLogin}]
    BY <1>6, <1>t DEF Callback, OAuthTypeOK
  <2> QED
    BY <1>6, <1>t, <2>2, <2>3, <2>4, <2>5 DEF Callback, OAuthTypeOK, LoginState, CallbackJob
<1>7. ASSUME NEW x \in Logins, ProviderAnswers(x) PROVE OAuthTypeOK'
  <2>1. callback[x] \in [pc : {"provider", "session"}, browser : Browsers]
    BY <1>7, <1>t, WaitingIsIdle DEF ProviderAnswers, CallbackJob
  <2>2. callback' \in [Logins -> CallbackJob]
    BY <1>7, <1>t, <2>1 DEF ProviderAnswers, CallbackJob
  <2> QED
    BY <1>7, <1>t, <2>2 DEF ProviderAnswers, OAuthTypeOK, CallbackJob
<1>8. ASSUME NEW x \in Logins, StartSession(x) PROVE OAuthTypeOK'
  <2>1. callback[x] \in [pc : {"provider", "session"}, browser : Browsers]
    BY <1>8, <1>t, WaitingIsIdle DEF StartSession, CallbackJob
  <2>2. [state |-> "live", expires |-> oauthNow + UserTTL] \in LoginSession
    BY <1>t DEF LoginSession
  <2>3. userSession' \in [Logins -> LoginSession]
    BY <1>8, <1>t, <2>2 DEF StartSession
  <2>4. userCookie' \in [Browsers -> Logins \cup {NoLogin}]
    BY <1>8, <1>t, <2>1 DEF StartSession, OAuthTypeOK
  <2>5. callback' \in [Logins -> CallbackJob]
    BY <1>8, <1>t DEF StartSession, CallbackJob
  <2> QED
    BY <1>8, <1>t, <2>3, <2>4, <2>5 DEF StartSession, OAuthTypeOK, LoginSession, CallbackJob
<1> QED
  BY <1>0, <1>1, <1>2, <1>3, <1>4, <1>5, <1>6, <1>7, <1>8, OAuthNextSplits DEF OAuthActions

-----------------------------------------------------------------------------
(* Who carries what.                                                       *)

\* Cookies, callbacks and sessions stay with their browser.
LEMMA CarriedStep == OAuthInv /\ [OAuthNext]_oauthVars => Carried' /\ Unbegun'
<1> SUFFICES ASSUME OAuthInv, [OAuthNext]_oauthVars PROVE Carried' /\ Unbegun'
  OBVIOUS
<1> USE DEF LoggedInWhereBegun
<1>t. /\ stateCookie \in [Browsers -> Logins \cup {NoLogin}]
      /\ userCookie \in [Browsers -> Logins \cup {NoLogin}]
      /\ oauth \in [Logins -> LoginState] /\ callback \in [Logins -> CallbackJob]
      /\ begunBy \in [Logins -> Browsers \cup {NoLogin}]
      /\ Carried /\ Unbegun /\ OpenStates \in [Logins -> LoginState]
  BY OpenStatesType DEF OAuthInv, OAuthTypeOK, LoginState, CallbackJob
\* The clean-up begins no login and forgets none.
<1>o. \A x \in Logins : OpenStates[x].state = "new" => oauth[x].state = "new"
  BY OpenStatesType, <1>t DEF OAuthInv
<1>0. CASE UNCHANGED oauthVars
  BY <1>0, <1>t DEF oauthVars, Carried, Unbegun
<1>1. CASE OAuthTick
  BY <1>1, <1>t DEF OAuthTick, Carried, Unbegun
<1>2. CASE OAuthRestart
  <2>1. \A x \in Logins : callback'[x] = Waiting
    BY <1>2 DEF OAuthRestart
  <2>2. \A x \in Logins : oauth'[x].state = "new" => oauth[x].state = "new"
    BY <1>2, <1>t DEF OAuthRestart, LoginState
  <2> QED
    BY <1>2, <1>t, <2>1, <2>2 DEF OAuthRestart, Carried, Unbegun
<1>3. CASE CleanupSessions
  BY <1>3, <1>t DEF CleanupSessions, Carried, Unbegun
<1>4. ASSUME NEW b \in Browsers, Logout(b) PROVE Carried' /\ Unbegun'
  BY <1>4, <1>t DEF Logout, Carried, Unbegun
<1>5. ASSUME NEW b \in Browsers, NEW x \in Logins, Begin(b, x) PROVE Carried' /\ Unbegun'
  <2>1. /\ oauth[x].state = "new" /\ UNCHANGED <<callback, userCookie>>
        /\ stateCookie' = [stateCookie EXCEPT ![b] = x]
        /\ begunBy' = [begunBy EXCEPT ![x] = b]
    BY <1>5 DEF Begin
  <2>2. \A y \in Logins : oauth'[y].state = "new" => y # x /\ oauth[y].state = "new"
    BY <1>5, <1>t, <1>o DEF Begin
  <2>3. /\ callback[x] = Waiting
        /\ \A c \in Browsers : stateCookie[c] # x /\ userCookie[c] # x
    BY <1>t, <2>1 DEF Unbegun
  <2>4. Carried'
    BY <1>t, <2>1, <2>3 DEF Carried
  <2>5. Unbegun'
    BY <1>t, <2>1, <2>2, <2>3 DEF Unbegun
  <2> QED
    BY <2>4, <2>5
<1>6. ASSUME NEW b \in Browsers, NEW x \in Logins, Callback(b, x) PROVE Carried' /\ Unbegun'
  <2> DEFINE job == [pc |-> "provider", browser |-> b]
  <2>1. /\ UNCHANGED <<userCookie, begunBy>> /\ oauth[x].state # "new"
        /\ \E cookie \in {stateCookie[b], NoLogin} :
              stateCookie' = [stateCookie EXCEPT ![b] = cookie]
        /\ \/ UNCHANGED callback
           \/ stateCookie[b] = x /\ callback' = [callback EXCEPT ![x] = job]
    BY <1>6 DEF Callback
  <2>2. \A y \in Logins : oauth'[y].state = "new" => y # x /\ oauth[y].state = "new"
    <3>1. [OpenStates EXCEPT ![x].state = "used"][x].state = "used"
      BY <1>t DEF LoginState
    <3> QED
      BY <1>6, <1>t, <1>o, <3>1 DEF Callback
  <2>3. job.browser = b
    OBVIOUS
  <2> HIDE DEF job
  <2>4. Carried'
    BY <1>t, <2>1, <2>3 DEF Carried
  <2>5. Unbegun'
    BY <1>t, <2>1, <2>2 DEF Unbegun
  <2> QED
    BY <2>4, <2>5
<1>7. ASSUME NEW x \in Logins, ProviderAnswers(x) PROVE Carried' /\ Unbegun'
  <2>1. callback[x] \in [pc : {"provider", "session"}, browser : Browsers]
    BY <1>7, <1>t, WaitingIsIdle DEF ProviderAnswers, CallbackJob
  <2>2. /\ UNCHANGED <<oauth, stateCookie, userCookie, begunBy>>
        /\ \E job \in CallbackJob : /\ job # Waiting => job.browser = callback[x].browser
                            /\ callback' = [callback EXCEPT ![x] = job]
    BY <1>7, <2>1 DEF ProviderAnswers, CallbackJob
  <2>3. callback[x] # Waiting
    BY <1>7, WaitingIsIdle DEF ProviderAnswers
  <2> QED
    BY <1>t, <2>2, <2>3 DEF Carried, Unbegun
<1>8. ASSUME NEW x \in Logins, StartSession(x) PROVE Carried' /\ Unbegun'
  <2>1. callback[x] \in [pc : {"provider", "session"}, browser : Browsers]
    BY <1>8, <1>t, WaitingIsIdle DEF StartSession, CallbackJob
  <2>2. callback[x] # Waiting
    BY <1>8, WaitingIsIdle DEF StartSession
  <2>3. /\ UNCHANGED <<oauth, stateCookie, begunBy>>
        /\ callback' = [callback EXCEPT ![x] = Waiting]
        /\ \/ UNCHANGED userCookie
           \/ userCookie' = [userCookie EXCEPT ![callback[x].browser] = x]
    BY <1>8 DEF StartSession
  <2> QED
    BY <1>t, <2>1, <2>2, <2>3 DEF Carried, Unbegun
<1> QED
  BY <1>0, <1>1, <1>2, <1>3, <1>4, <1>5, <1>6, <1>7, <1>8, OAuthNextSplits DEF OAuthActions

-----------------------------------------------------------------------------
(* A state is a ticket.                                                    *)

\* The steps a single login's state can take.
LEMMA StatesStep ==
    OAuthInv /\ [OAuthNext]_oauthVars =>
        /\ oauthNow' >= oauthNow /\ oauthNow \in Nat
        /\ \A x \in Logins :
              \/ oauth'[x] = oauth[x] /\ admitted'[x] = admitted[x]
              \/ /\ oauth[x].state = "open" /\ oauth'[x].state = "gone"
                 /\ oauth'[x].deadline = oauth[x].deadline /\ admitted'[x] = admitted[x]
              \/ /\ oauth[x].state = "open" /\ oauth'[x].state = "used"
                 /\ oauthNow < oauth[x].deadline
                 /\ oauth'[x].deadline = oauth[x].deadline /\ admitted'[x] = 1
              \/ /\ oauth[x].state = "new" /\ oauth'[x].state = "open"
                 /\ oauth'[x].deadline = oauthNow + StateTTL /\ admitted'[x] = admitted[x]
<1> DEFINE Stays(x) == oauth'[x] = oauth[x] /\ admitted'[x] = admitted[x]
           Goes(x) == /\ oauth[x].state = "open" /\ oauth'[x].state = "gone"
                      /\ oauth'[x].deadline = oauth[x].deadline
                      /\ admitted'[x] = admitted[x]
           IsUsed(x) == /\ oauth[x].state = "open" /\ oauth'[x].state = "used"
                        /\ oauthNow < oauth[x].deadline
                        /\ oauth'[x].deadline = oauth[x].deadline /\ admitted'[x] = 1
           Opens(x) == /\ oauth[x].state = "new" /\ oauth'[x].state = "open"
                       /\ oauth'[x].deadline = oauthNow + StateTTL
                       /\ admitted'[x] = admitted[x]
<1> SUFFICES ASSUME OAuthInv, [OAuthNext]_oauthVars
             PROVE /\ oauthNow' >= oauthNow /\ oauthNow \in Nat
                   /\ \A x \in Logins : Stays(x) \/ Goes(x) \/ IsUsed(x) \/ Opens(x)
  OBVIOUS
<1>t. /\ OAuthTypeOK /\ oauthNow \in Nat /\ oauth \in [Logins -> LoginState]
      /\ admitted \in [Logins -> 0..1] /\ OpenStates \in [Logins -> LoginState]
  BY OpenStatesType DEF OAuthInv, OAuthTypeOK, LoginState
<1>n. oauthNow' >= oauthNow
  <2>1. oauthNow' = oauthNow \/ oauthNow' = oauthNow + 1
    BY OAuthNextSplits DEF OAuthActions, oauthVars, OAuthTick, OAuthRestart, CleanupSessions,
       Logout, Begin, Callback, ProviderAnswers, StartSession
  <2> QED
    BY <1>t, <2>1
\* The clean-up alone.
<1>o. ASSUME NEW x \in Logins, oauth'[x] = OpenStates[x], admitted'[x] = admitted[x]
      PROVE Stays(x) \/ Goes(x)
  BY <1>o, <1>t, OpenStatesType
<1>s. ASSUME UNCHANGED <<oauth, admitted>> PROVE \A x \in Logins : Stays(x)
  BY <1>s
<1>0. CASE UNCHANGED oauthVars
  BY <1>0, <1>s, <1>n, <1>t DEF oauthVars
<1>1. CASE OAuthTick
  BY <1>1, <1>s, <1>n, <1>t DEF OAuthTick
<1>2. CASE OAuthRestart
  <2>1. ASSUME NEW x \in Logins PROVE Stays(x) \/ Goes(x)
    BY <1>2, <1>t, <2>1 DEF OAuthRestart, LoginState
  <2> QED
    BY <1>n, <1>t, <2>1
<1>3. CASE CleanupSessions
  BY <1>3, <1>s, <1>n, <1>t DEF CleanupSessions
<1>4. ASSUME NEW b \in Browsers, Logout(b) PROVE \A x \in Logins : Stays(x)
  BY <1>4, <1>s DEF Logout
<1>5. ASSUME NEW b \in Browsers, NEW y \in Logins, Begin(b, y), NEW x \in Logins
      PROVE Stays(x) \/ Goes(x) \/ Opens(x)
  <2>1. CASE x = y
    BY <1>5, <1>t, <2>1 DEF Begin
  <2>2. CASE x # y
    BY <1>5, <1>t, <1>o, <2>2 DEF Begin
  <2> QED
    BY <2>1, <2>2
<1>6. ASSUME NEW b \in Browsers, NEW y \in Logins, Callback(b, y), NEW x \in Logins
      PROVE Stays(x) \/ Goes(x) \/ IsUsed(x)
  <2>1. CASE stateCookie[b] = y /\ OpenStates[y].state = "open"
    <3>1. /\ oauth' = [OpenStates EXCEPT ![y].state = "used"]
          /\ admitted' = [admitted EXCEPT ![y] = @ + 1]
      BY <1>6, <2>1 DEF Callback
    <3>2. CASE x # y
      BY <1>o, <1>t, <3>1, <3>2
    <3>3. CASE x = y
      <4>1. /\ OpenStates[x] = oauth[x] /\ oauth[x].state = "open"
            /\ oauthNow < oauth[x].deadline
        BY <1>t, <2>1, <3>3, OpenStatesType
      <4>2. admitted[x] = 0
        BY <4>1 DEF OAuthInv, Admitted
      <4>3. admitted'[x] = 1
        BY <1>t, <3>1, <3>3, <4>2
      <4>4. oauth'[x].state = "used" /\ oauth'[x].deadline = oauth[x].deadline
        BY <1>t, <3>1, <3>3, <4>1 DEF LoginState
      <4> QED
        BY <4>1, <4>3, <4>4
    <3> QED
      BY <3>2, <3>3
  <2>2. CASE ~(stateCookie[b] = y /\ OpenStates[y].state = "open")
    <3>1. admitted' = admitted /\ oauth' \in {oauth, OpenStates}
      BY <1>6, <2>2 DEF Callback
    <3> QED
      BY <1>o, <3>1
  <2> QED
    BY <2>1, <2>2
<1>7. ASSUME NEW x \in Logins, ProviderAnswers(x) PROVE \A y \in Logins : Stays(y)
  BY <1>7, <1>s DEF ProviderAnswers
<1>8. ASSUME NEW x \in Logins, StartSession(x) PROVE \A y \in Logins : Stays(y)
  BY <1>8, <1>s DEF StartSession
<1> HIDE DEF Stays, Goes, IsUsed, Opens
<1> QED
  BY <1>0, <1>1, <1>2, <1>3, <1>4, <1>5, <1>6, <1>7, <1>8, <1>n, <1>t, OAuthNextSplits
     DEF OAuthActions

\* Every step keeps that only a used state has admitted somebody.
LEMMA AdmittedStep == OAuthInv /\ [OAuthNext]_oauthVars => Admitted'
  BY StatesStep DEF OAuthInv, Admitted

-----------------------------------------------------------------------------
(* The theorems.                                                           *)

\* Everything that carries a login belongs to the browser that began it, and a
\* state was admitted just when it was used.
THEOREM OAuthInvariant == OAuthSpec => []OAuthInv
<1>1. OAuthInv /\ [OAuthNext]_oauthVars => OAuthInv'
  BY OAuthTypeStep, CarriedStep, AdmittedStep DEF OAuthInv
<1> QED
  BY OAuthInvInit, <1>1, PTL DEF OAuthSpec

\* Every step is a step of the tickets or leaves them alone.
LEMMA LoginTicketStep ==
    OAuthInv /\ [OAuthNext]_oauthVars => [LoginTickets!Next]_<<loginTickets, oauthNow>>
<1> SUFFICES ASSUME OAuthInv, [OAuthNext]_oauthVars PROVE LoginTickets!Next
  OBVIOUS
<1>1. ASSUME NEW x \in Logins
      PROVE \/ loginTickets'[x] = loginTickets[x]
            \/ LoginTickets!Step(x, loginTickets'[x])
  <2> DEFINE t == loginTickets[x]
             u == loginTickets'[x]
  <2>t. /\ t = [phase |-> IF oauth[x].state = "new" THEN "none" ELSE oauth[x].state,
                deadline |-> oauth[x].deadline, uses |-> admitted[x]]
        /\ u = [phase |-> IF oauth'[x].state = "new" THEN "none" ELSE oauth'[x].state,
                deadline |-> oauth'[x].deadline, uses |-> admitted'[x]]
    BY DEF loginTickets
  <2>a. /\ oauth[x].state = "open" => admitted[x] = 0
        /\ oauth[x].state = "new" => admitted[x] = 0 /\ oauth[x].deadline = 0
    BY DEF OAuthInv, Admitted
  <2> DEFINE P == {"none", "open", "used", "gone"}
             N == Nat
  <2>p. t \in [phase : P, deadline : N, uses : N] /\ u \in [phase : P, deadline : N, uses : N]
    <3>1. /\ oauth[x].deadline \in Nat /\ admitted[x] \in Nat
          /\ oauth[x].state \in {"new", "open", "used", "gone"}
      BY DEF OAuthInv, OAuthTypeOK
    <3>2. /\ oauth'[x].deadline \in Nat /\ admitted'[x] \in Nat
          /\ oauth'[x].state \in {"new", "open", "used", "gone"}
      BY OAuthTypeStep DEF OAuthTypeOK
    <3> QED
      BY <2>t, <3>1, <3>2
  <2> HIDE DEF t, u, P, N
  \* Tickets that agree field by field are equal.
  <2>u. /\ u.deadline = t.deadline => u = [t EXCEPT !.phase = u.phase, !.uses = u.uses]
        /\ u.uses = t.uses => u = [t EXCEPT !.phase = u.phase, !.deadline = u.deadline]
    BY <2>p
  <2>1. CASE oauth'[x] = oauth[x] /\ admitted'[x] = admitted[x]
    BY <2>1, <2>t DEF t, u
  <2>2. CASE /\ oauth[x].state = "open" /\ oauth'[x].state = "gone"
             /\ oauth'[x].deadline = oauth[x].deadline /\ admitted'[x] = admitted[x]
    <3>1. t.phase = "open" /\ u = [t EXCEPT !.phase = "gone"]
      BY <2>2, <2>t
    <3> QED
      BY <3>1 DEF LoginTickets!Step, LoginTickets!Vanish, t, u
  <2>3. CASE /\ oauth[x].state = "open" /\ oauth'[x].state = "used"
             /\ oauthNow < oauth[x].deadline
             /\ oauth'[x].deadline = oauth[x].deadline /\ admitted'[x] = 1
    <3>2. /\ t.phase = "open" /\ t.deadline = oauth[x].deadline
          /\ u.phase = "used" /\ u.deadline = t.deadline /\ u.uses = 1
      BY <2>3, <2>t
    <3>3. u = [t EXCEPT !.phase = "used", !.uses = 1]
      BY <2>u, <3>2, Zenon
    <3>1. /\ t.phase = "open" /\ oauthNow < t.deadline
          /\ u = [t EXCEPT !.phase = "used", !.uses = 1]
      BY <2>3, <3>2, <3>3
    <3> QED
      BY <3>1 DEF LoginTickets!Step, LoginTickets!Use, LoginTickets!InTime, t, u
  <2>4. CASE /\ oauth[x].state = "new" /\ oauth'[x].state = "open"
             /\ oauth'[x].deadline = oauthNow + StateTTL /\ admitted'[x] = admitted[x]
    <3>1. /\ t = LoginTickets!New
          /\ u = [LoginTickets!New EXCEPT !.phase = "open",
                                          !.deadline = oauthNow + StateTTL]
      <4>1. t = LoginTickets!New
        BY <2>4, <2>t, <2>a DEF LoginTickets!New
      <4>2. u.phase = "open" /\ u.deadline = oauthNow + StateTTL /\ u.uses = t.uses
        BY <2>4, <2>t
      <4> QED
        BY <2>u, <4>1, <4>2, Zenon
    <3> QED
      BY <3>1 DEF LoginTickets!Step, LoginTickets!Open, t, u
  <2> QED
    BY <2>1, <2>2, <2>3, <2>4, StatesStep DEF t, u
<1> QED
  BY <1>1, StatesStep DEF LoginTickets!Next, loginTickets

\* Nobody ends a session but its user and time.
LEMMA StaysStep ==
    OAuthInv /\ [OAuthNext]_oauthVars =>
        \A b \in Browsers :
            LoggedIn(b) /\ userCookie'[b] = userCookie[b] /\ oauthNow' = oauthNow
                => LoggedIn(b)'
<1> SUFFICES ASSUME OAuthInv, [OAuthNext]_oauthVars, NEW b \in Browsers, LoggedIn(b),
                    userCookie'[b] = userCookie[b], oauthNow' = oauthNow
             PROVE LoggedIn(b)'
  OBVIOUS
<1> DEFINE y == userCookie[b]
<1>t. /\ y \in Logins /\ y # NoLogin /\ begunBy[y] = b
      /\ userSession \in [Logins -> LoginSession] /\ oauthNow \in Nat
      /\ userCookie \in [Browsers -> Logins \cup {NoLogin}]
      /\ userSession[y].state = "live" /\ userSession[y].expires > oauthNow
  BY DEF OAuthInv, OAuthTypeOK, LoggedIn, Carried, LoggedInWhereBegun, LoginSession
<1>u. userSession'[y] = userSession[y] => LoggedIn(b)'
  BY <1>t DEF LoggedIn
<1>3. CASE CleanupSessions
  BY <1>3, <1>t, <1>u DEF CleanupSessions, LoginSession
<1>4. ASSUME NEW c \in Browsers, Logout(c) PROVE LoggedIn(b)'
  <2>1. c # b
    BY <1>4, <1>t DEF Logout
  <2>2. userCookie[c] # y
    BY <1>4, <1>t, <2>1 DEF Logout, OAuthInv, Carried, LoggedInWhereBegun
  <2> QED
    BY <1>4, <1>t, <1>u, <2>2 DEF Logout
<1>8. ASSUME NEW x \in Logins, StartSession(x) PROVE LoggedIn(b)'
  <2>1. CASE x # y
    BY <1>8, <1>t, <1>u, <2>1 DEF StartSession
  <2>2. CASE x = y
    <3>1. userSession'[y] = [state |-> "live", expires |-> oauthNow + UserTTL]
      BY <1>8, <1>t, <2>2 DEF StartSession
    <3>2. userSession'[y].state = "live" /\ userSession'[y].expires > oauthNow
      BY <1>t, <3>1
    <3> QED
      BY <1>t, <3>2 DEF LoggedIn
  <2> QED
    BY <2>1, <2>2
<1> QED
  BY <1>u, <1>3, <1>4, <1>8, OAuthNextSplits
     DEF OAuthActions, oauthVars, OAuthTick, OAuthRestart, Begin, Callback, ProviderAnswers

\* Login states are single-use tickets, a browser is logged in only by a login
\* it began, and a login lasts until it expires or its user logs out.
THEOREM LoginsAreSafe == OAuthSpec => LoginsHold
<1>1. OAuthInit => LoginTickets!Init
  BY DEF OAuthInit, LoginTickets!Init, LoginTickets!New, loginTickets
<1>2. OAuthSpec => LoginTicketsOnce
  BY <1>1, OAuthInvariant, LoginTicketStep, PTL DEF OAuthSpec, LoginTicketsOnce, LoginTickets!Spec
<1>3. OAuthInv => LoggedInWhereBegun
  BY DEF OAuthInv, Carried
<1>4. OAuthSpec => []LoggedInWhereBegun
  BY <1>3, OAuthInvariant, PTL
<1>5. OAuthSpec => StaysLoggedIn
  BY OAuthInvariant, StaysStep, PTL DEF OAuthSpec, StaysLoggedIn
<1> QED
  BY <1>2, <1>4, <1>5 DEF LoginsHold

-----------------------------------------------------------------------------
(* Browser session sync.                                                   *)

HIDE OAuthAssumption
USE SyncAssumption

CodeEntry == Entry({"new", "valid", "spent", "gone"})
TokenEntry == Entry({"new", "valid", "claimed", "spent", "gone"})

Holds(b) == batch[b].pc \in HolderPC
Held ==
    /\ \A b, c \in Batches :
          Holds(b) /\ Holds(c) /\ batch[b].token = batch[c].token => b = c
    /\ \A b \in Batches : Holds(b) =>
          /\ batch[b].token \in Tokens
          /\ token[batch[b].token].state \in {"claimed", "gone"}
          /\ uses[batch[b].token] = IF batch[b].pc = "verify" THEN 1 ELSE 0
    /\ \A t \in Tokens : token[t].state = "claimed" =>
          \E b \in Batches : Holds(b) /\ batch[b].token = t

\* What can be had yet was not had.
Unused(e, used) == /\ e.state \in {"new", "valid"} => used = 0
                   /\ e.state = "new" => e.deadline = 0
AllUnused == /\ \A c \in PairingCodes : Unused(pairing[c], uses[c])
             /\ \A t \in Tokens : Unused(token[t], uses[t])

SyncInv == SyncTypeOK /\ Held /\ AllUnused

SyncActions ==
    \/ SyncTick \/ RestartSync \/ WrongCode
    \/ \E c \in PairingCodes : CreatePairing(c)
    \/ \E t \in Tokens : CreateToken(t)
    \/ \E t \in Tokens, c \in PairingCodes : Exchange(c, t)
    \/ \E b \in Batches : Claim(b)
    \/ \E b \in Batches : SaveBatch(b)
    \/ \E b \in Batches : Finish(b)
    \/ \E b \in Batches, t \in Tokens : Authorize(b, t)
    \/ \E b \in Batches, S \in SUBSET SyncSites : CheckBatch(b, S)
    \/ \E s \in SyncSites : Collect(s)
    \/ \E s \in SyncSites : Administer(s)

\* A step is a step of one named action.
LEMMA SyncNextSplits == SyncNext => SyncActions
  BY DEF SyncNext, SyncActions, BatchStep

-----------------------------------------------------------------------------
(* Entries, and what the clean-up and a restart make of them.              *)

\* The clean-up removes what has expired and changes nothing else.
LEMMA DropFacts ==
    ASSUME syncNow \in Nat, NEW S, NEW L, "gone" \in L, NEW map \in [S -> Entry(L)]
    PROVE  /\ Drop(map) \in [S -> Entry(L)]
           /\ \A x \in S :
                 \/ Drop(map)[x] = map[x]
                 \/ /\ map[x].state \in {"valid", "claimed"}
                    /\ Drop(map)[x].state = "gone"
                    /\ Drop(map)[x].deadline = map[x].deadline
           /\ \A x \in S : Drop(map)[x].state # "gone" => Drop(map)[x] = map[x]
           /\ \A x \in S : Drop(map)[x].state \in {"valid", "claimed"} =>
                 syncNow < map[x].deadline
<1>1. \A e \in Entry(L) : /\ [e EXCEPT !.state = "gone"] \in Entry(L)
                          /\ [e EXCEPT !.state = "gone"].state = "gone"
                          /\ [e EXCEPT !.state = "gone"].deadline = e.deadline
                          /\ e.deadline \in Nat
  BY DEF Entry
<1>2. DOMAIN map = S /\ \A x \in S : map[x] \in Entry(L)
  OBVIOUS
<1>3. Drop(map) = [x \in S |-> IF Expired(map[x]) THEN [map[x] EXCEPT !.state = "gone"]
                                                ELSE map[x]]
  BY <1>2 DEF Drop
<1>4. \A x \in S : map[x].deadline \in Nat
  BY <1>1, <1>2
<1>5. \A x \in S : Expired(map[x]) <=> /\ map[x].state \in {"valid", "claimed"}
                                       /\ ~(syncNow < map[x].deadline)
  <2> SUFFICES ASSUME NEW n \in Nat PROVE n <= syncNow <=> ~(syncNow < n)
    BY <1>4 DEF Expired
  <2> QED
    OBVIOUS
<1> QED
  BY <1>1, <1>2, <1>3, <1>5

\* A restart forgets all that was open or claimed.
LEMMA ForgetFacts ==
    ASSUME NEW S, NEW L, "gone" \in L, NEW map \in [S -> Entry(L)]
    PROVE  /\ Forget(map) \in [S -> Entry(L)]
           /\ \A x \in S :
                 \/ Forget(map)[x] = map[x]
                 \/ /\ map[x].state \in {"valid", "claimed"}
                    /\ Forget(map)[x].state = "gone"
                    /\ Forget(map)[x].deadline = map[x].deadline
           /\ \A x \in S : Forget(map)[x].state \notin {"valid", "claimed"}
<1>1. \A e \in Entry(L) : /\ [e EXCEPT !.state = "gone"] \in Entry(L)
                          /\ [e EXCEPT !.state = "gone"].state = "gone"
                          /\ [e EXCEPT !.state = "gone"].deadline = e.deadline
  BY DEF Entry
<1> QED
  BY <1>1 DEF Forget

\* The typed state, and the clean-up applied to it.
Cleaned ==
    /\ syncNow \in Nat /\ syncNow <= SyncEnd
    /\ pairing \in [PairingCodes -> CodeEntry] /\ token \in [Tokens -> TokenEntry]
    /\ Drop(pairing) \in [PairingCodes -> CodeEntry]
    /\ Drop(token) \in [Tokens -> TokenEntry]
    /\ Valid(syncNow + PairingTTL) \in CodeEntry
    /\ Valid(syncNow + SyncTTL) \in TokenEntry
    /\ \A e \in CodeEntry : [e EXCEPT !.state = "spent"] \in CodeEntry
    /\ \A e \in TokenEntry, l \in {"valid", "claimed", "spent"} :
          [e EXCEPT !.state = l] \in TokenEntry
    /\ batch \in [Batches -> Batch] /\ uses \in [PairingCodes \cup Tokens -> 0..1]

\* What the updates of entries return has its type.
LEMMA CleanedTypes == SyncTypeOK => Cleaned
<1> SUFFICES ASSUME SyncTypeOK PROVE Cleaned
  OBVIOUS
<1>1. /\ syncNow \in Nat /\ syncNow <= SyncEnd
      /\ pairing \in [PairingCodes -> CodeEntry] /\ token \in [Tokens -> TokenEntry]
      /\ batch \in [Batches -> Batch] /\ uses \in [PairingCodes \cup Tokens -> 0..1]
  BY DEF SyncTypeOK, CodeEntry, TokenEntry
<1>2. Drop(pairing) \in [PairingCodes -> CodeEntry]
  BY <1>1, DropFacts DEF CodeEntry
<1>3. Drop(token) \in [Tokens -> TokenEntry]
  BY <1>1, DropFacts DEF TokenEntry
<1>4. /\ Valid(syncNow + PairingTTL) \in CodeEntry
      /\ Valid(syncNow + SyncTTL) \in TokenEntry
  BY <1>1 DEF Valid, CodeEntry, TokenEntry, Entry
<1>5. \A e \in CodeEntry : [e EXCEPT !.state = "spent"] \in CodeEntry
  BY DEF CodeEntry, Entry
<1>6. \A e \in TokenEntry, l \in {"valid", "claimed", "spent"} :
          [e EXCEPT !.state = l] \in TokenEntry
  BY DEF TokenEntry, Entry
<1> QED
  BY <1>1, <1>2, <1>3, <1>4, <1>5, <1>6 DEF Cleaned

\* What the clean-up leaves: an entry as it was, or a dropped one; what is still
\* valid or claimed has time left.
CleanEntry(e, f) ==
    /\ \/ f = e
       \/ e.state \in {"valid", "claimed"} /\ f.state = "gone" /\ f.deadline = e.deadline
    /\ f.state # "gone" => f = e
    /\ f.state \in {"valid", "claimed"} => syncNow < e.deadline
Dropped == /\ \A c \in PairingCodes : CleanEntry(pairing[c], Drop(pairing)[c])
           /\ \A t \in Tokens : CleanEntry(token[t], Drop(token)[t])

\* The clean-up, for the maps of this module.
LEMMA DroppedFacts == SyncTypeOK => Dropped
<1> SUFFICES ASSUME SyncTypeOK PROVE Dropped
  OBVIOUS
<1>1. Cleaned
  BY CleanedTypes
<1>2. \A c \in PairingCodes : CleanEntry(pairing[c], Drop(pairing)[c])
  BY <1>1, DropFacts DEF Cleaned, CodeEntry, CleanEntry
<1>3. \A t \in Tokens : CleanEntry(token[t], Drop(token)[t])
  BY <1>1, DropFacts DEF Cleaned, TokenEntry, CleanEntry
<1> QED
  BY <1>2, <1>3 DEF Dropped

\* What a restart leaves: an entry as it was, or a dropped one, none open.
Restarted ==
    /\ Forget(pairing) \in [PairingCodes -> CodeEntry]
    /\ \A c \in PairingCodes :
          \/ Forget(pairing)[c] = pairing[c]
          \/ /\ pairing[c].state \in {"valid", "claimed"}
             /\ Forget(pairing)[c].state = "gone"
             /\ Forget(pairing)[c].deadline = pairing[c].deadline
    /\ Forget(token) \in [Tokens -> TokenEntry]
    /\ \A t \in Tokens :
          \/ Forget(token)[t] = token[t]
          \/ /\ token[t].state \in {"valid", "claimed"}
             /\ Forget(token)[t].state = "gone"
             /\ Forget(token)[t].deadline = token[t].deadline
    /\ \A t \in Tokens : Forget(token)[t].state # "claimed"

\* A restart, for the maps of this module.
LEMMA RestartedFacts == SyncTypeOK => Restarted
<1> SUFFICES ASSUME SyncTypeOK PROVE Restarted
  OBVIOUS
<1> DEFINE CL == {"new", "valid", "spent", "gone"}
           TL == {"new", "valid", "claimed", "spent", "gone"}
<1>1. /\ "gone" \in CL /\ pairing \in [PairingCodes -> Entry(CL)]
      /\ "gone" \in TL /\ token \in [Tokens -> Entry(TL)]
  BY DEF SyncTypeOK
<1>2. CodeEntry = Entry(CL) /\ TokenEntry = Entry(TL)
  BY DEF CodeEntry, TokenEntry
<1> HIDE DEF CL, TL
<1>3. /\ Forget(pairing) \in [PairingCodes -> Entry(CL)]
      /\ \A c \in PairingCodes :
          \/ Forget(pairing)[c] = pairing[c]
          \/ /\ pairing[c].state \in {"valid", "claimed"}
             /\ Forget(pairing)[c].state = "gone"
             /\ Forget(pairing)[c].deadline = pairing[c].deadline
  BY <1>1, ForgetFacts
<1>4. /\ Forget(token) \in [Tokens -> Entry(TL)]
      /\ \A t \in Tokens :
          \/ Forget(token)[t] = token[t]
          \/ /\ token[t].state \in {"valid", "claimed"}
             /\ Forget(token)[t].state = "gone"
             /\ Forget(token)[t].deadline = token[t].deadline
      /\ \A t \in Tokens : Forget(token)[t].state \notin {"valid", "claimed"}
  BY <1>1, ForgetFacts
<1> QED
  BY <1>2, <1>3, <1>4 DEF Restarted

\* What a handler has in each of its steps.
LEMMA BatchFacts ==
    ASSUME SyncTypeOK, NEW b \in Batches
    PROVE  /\ IdleBatch \in Batch /\ IdleBatch.pc = "idle"
           /\ batch[b].pc \notin {"idle", "pending"} =>
                 batch[b] \in [pc : {"claim", "save", "verify", "failed"}, token : Tokens,
                               sites : SUBSET SyncSites]
           /\ batch[b].pc # "idle" => batch[b].token \in Tokens
<1>1. batch[b] \in Batch
  BY DEF SyncTypeOK
<1> QED
  BY <1>1 DEF Batch, IdleBatch

\* A handler that goes on keeps its token.
LEMMA NextBatchStep ==
    ASSUME SyncTypeOK, NEW b \in Batches, batch[b].pc \notin {"idle", "pending"},
           NEW l \in {"save", "verify", "failed"}
    PROVE  /\ [batch[b] EXCEPT !.pc = l] \in Batch
           /\ [batch[b] EXCEPT !.pc = l].pc = l
           /\ [batch[b] EXCEPT !.pc = l].token = batch[b].token
<1>1. batch[b] \in [pc : {"claim", "save", "verify", "failed"}, token : Tokens,
                    sites : SUBSET SyncSites]
  BY BatchFacts
<1> DEFINE Working == [pc : {"claim", "save", "verify", "failed"}, token : Tokens,
                       sites : SUBSET SyncSites]
<1>2. \A r \in Working : /\ [r EXCEPT !.pc = l] \in Working
                         /\ [r EXCEPT !.pc = l].pc = l
                         /\ [r EXCEPT !.pc = l].token = r.token
  OBVIOUS
<1>3. Working \subseteq Batch
  BY DEF Batch
<1> QED
  BY <1>1, <1>2, <1>3

\* The invariant holds initially.
LEMMA SyncInvInit == SyncInit => SyncInv
<1> SUFFICES ASSUME SyncInit PROVE SyncInv
  OBVIOUS
<1>1. SyncTypeOK
  <2>1. /\ [state |-> "new", deadline |-> 0] \in CodeEntry
        /\ [state |-> "new", deadline |-> 0] \in TokenEntry
    BY DEF CodeEntry, TokenEntry, Entry
  <2>2. IdleBatch \in Batch /\ NoAttempts \in [count : 0..MaxPairingAttempts, since : 0..SyncEnd]
    BY DEF Batch, NoAttempts
  <2> QED
    BY <2>1, <2>2 DEF SyncInit, SyncTypeOK, CodeEntry, TokenEntry, Stored, State
<1>2. Held
  BY DEF SyncInit, Held, Holds, HolderPC, IdleBatch
<1>3. AllUnused
  BY DEF SyncInit, AllUnused, Unused
<1> QED
  BY <1>1, <1>2, <1>3 DEF SyncInv

-----------------------------------------------------------------------------
(* How an entry and what was had with it may change.                       *)

\* From e with u had to f with v had, if entries of its kind live for life.
Moves(e, f, u, v, life) ==
    \/ f = e /\ v = u
    \/ /\ e.state \in {"valid", "claimed"} /\ f.state = "gone"
       /\ f.deadline = e.deadline /\ v = u
    \/ /\ e.state = "new" /\ f.state = "valid" /\ f.deadline = syncNow + life /\ v = u
    \/ /\ e.state = "valid" /\ f.state = "claimed" /\ syncNow < e.deadline
       /\ f.deadline = e.deadline /\ v = u
    \/ /\ e.state = "valid" /\ f.state = "spent" /\ syncNow < e.deadline
       /\ f.deadline = e.deadline /\ v = 1
    \/ e.state \in {"claimed", "gone"} /\ f = e /\ u = 0 /\ v = 1
    \/ e.state = "claimed" /\ f.state = "spent" /\ f.deadline = e.deadline /\ u = 1 /\ v = u
    \/ e.state = "claimed" /\ f.state = "valid" /\ f.deadline = e.deadline /\ u = 0 /\ v = u

CodesMove == \A c \in PairingCodes :
                Moves(pairing[c], pairing'[c], uses[c], uses'[c], PairingTTL)
TokensMove == \A t \in Tokens : Moves(token[t], token'[t], uses[t], uses'[t], SyncTTL)

\* The clean-up of codes or of tokens alone.
LEMMA DropMoves ==
    ASSUME SyncTypeOK, uses' = uses
    PROVE  /\ pairing' \in {pairing, Drop(pairing)} => CodesMove
           /\ token' \in {token, Drop(token)} => TokensMove
<1>1. Dropped
  BY DroppedFacts
<1> QED
  BY <1>1 DEF Dropped, CleanEntry, CodesMove, TokensMove, Moves

\* One entry opens, beside the clean-up of the others.
LEMMA CodeOpens ==
    ASSUME SyncTypeOK, NEW c \in PairingCodes, pairing[c].state = "new", uses' = uses,
           pairing' = [Drop(pairing) EXCEPT ![c] = Valid(syncNow + PairingTTL)]
    PROVE  CodesMove /\ pairing' \in [PairingCodes -> CodeEntry]
<1>1. Cleaned
  BY CleanedTypes
<1>2. \A d \in PairingCodes : CleanEntry(pairing[d], Drop(pairing)[d])
  BY DroppedFacts DEF Dropped
<1>3. /\ Valid(syncNow + PairingTTL).state = "valid"
      /\ Valid(syncNow + PairingTTL).deadline = syncNow + PairingTTL
  BY DEF Valid
<1>4. pairing' \in [PairingCodes -> CodeEntry]
  BY <1>1 DEF Cleaned
<1>5. /\ pairing'[c] = Valid(syncNow + PairingTTL)
      /\ \A d \in PairingCodes : d # c => pairing'[d] = Drop(pairing)[d]
  BY <1>1 DEF Cleaned
<1> QED
  BY <1>2, <1>3, <1>4, <1>5 DEF CodesMove, Moves, CleanEntry

\* A token opens, beside the clean-up of the others.
LEMMA TokenOpens ==
    ASSUME SyncTypeOK, NEW t \in Tokens, token[t].state = "new",
           \A x \in Tokens : uses'[x] = uses[x],
           token' = [Drop(token) EXCEPT ![t] = Valid(syncNow + SyncTTL)]
    PROVE  TokensMove /\ token' \in [Tokens -> TokenEntry]
<1>1. Cleaned
  BY CleanedTypes
<1>2. \A x \in Tokens : CleanEntry(token[x], Drop(token)[x])
  BY DroppedFacts DEF Dropped
<1>3. /\ Valid(syncNow + SyncTTL).state = "valid"
      /\ Valid(syncNow + SyncTTL).deadline = syncNow + SyncTTL
  BY DEF Valid
<1>4. token' \in [Tokens -> TokenEntry]
  BY <1>1 DEF Cleaned
<1>5. /\ token'[t] = Valid(syncNow + SyncTTL)
      /\ \A x \in Tokens : x # t => token'[x] = Drop(token)[x]
  BY <1>1 DEF Cleaned
<1> QED
  BY <1>2, <1>3, <1>4, <1>5 DEF TokensMove, Moves, CleanEntry

\* A valid code is used up; nothing but it was had.
LEMMA CodeIsUsed ==
    ASSUME SyncInv, NEW c \in PairingCodes, Drop(pairing)[c].state = "valid",
           pairing' = [Drop(pairing) EXCEPT ![c].state = "spent"],
           uses' = [uses EXCEPT ![c] = @ + 1]
    PROVE  /\ CodesMove /\ pairing' \in [PairingCodes -> CodeEntry]
           /\ uses' \in [PairingCodes \cup Tokens -> 0..1]
           /\ \A t \in Tokens : uses'[t] = uses[t]
<1>1. Cleaned
  BY CleanedTypes DEF SyncInv
<1>2. /\ \A d \in PairingCodes : CleanEntry(pairing[d], Drop(pairing)[d])
      /\ Drop(pairing)[c] = pairing[c] /\ syncNow < pairing[c].deadline
  BY DroppedFacts DEF Dropped, CleanEntry, SyncInv
<1>3. /\ pairing' \in [PairingCodes -> CodeEntry]
      /\ pairing'[c] = [pairing[c] EXCEPT !.state = "spent"]
      /\ \A d \in PairingCodes : d # c => pairing'[d] = Drop(pairing)[d]
  BY <1>1, <1>2 DEF Cleaned
<1>4. pairing'[c].state = "spent" /\ pairing'[c].deadline = pairing[c].deadline
  <2>1. \A e \in CodeEntry : /\ [e EXCEPT !.state = "spent"].state = "spent"
                            /\ [e EXCEPT !.state = "spent"].deadline = e.deadline
    BY DEF CodeEntry, Entry
  <2>2. pairing[c] \in CodeEntry
    BY <1>1 DEF Cleaned
  <2> QED
    BY <1>3, <2>1, <2>2
<1>5. uses[c] = 0
  BY <1>2 DEF SyncInv, AllUnused, Unused
<1>6. /\ uses' \in [PairingCodes \cup Tokens -> 0..1] /\ uses'[c] = 1
      /\ \A x \in PairingCodes \cup Tokens : x # c => uses'[x] = uses[x]
  BY <1>1, <1>5 DEF Cleaned
<1>7. \A t \in Tokens : t # c
  OBVIOUS
<1> QED
  BY <1>2, <1>3, <1>4, <1>6, <1>7 DEF CodesMove, Moves, CleanEntry

\* One token takes a new state, beside the clean-up of the others or none.
LEMMA TokenGoesOn ==
    ASSUME SyncTypeOK, uses' = uses, NEW t \in Tokens, NEW l \in {"valid", "claimed", "spent"},
           NEW before \in {token, Drop(token)}, before[t] = token[t],
           token' = [before EXCEPT ![t].state = l],
           \/ token[t].state = "valid" /\ l = "claimed" /\ syncNow < token[t].deadline
           \/ token[t].state = "claimed" /\ l = "spent" /\ uses[t] = 1
           \/ token[t].state = "claimed" /\ l = "valid" /\ uses[t] = 0
    PROVE  /\ TokensMove /\ token' \in [Tokens -> TokenEntry]
           /\ token'[t].state = l
           /\ \A x \in Tokens : x # t => token'[x] = before[x]
<1>1. Cleaned
  BY CleanedTypes
<1>2. \A x \in Tokens : before[x] = token[x] \/ CleanEntry(token[x], before[x])
  BY DroppedFacts DEF Dropped
<1>3. before \in [Tokens -> TokenEntry]
  BY <1>1 DEF Cleaned
<1>4. /\ token' \in [Tokens -> TokenEntry]
      /\ token'[t] = [token[t] EXCEPT !.state = l]
      /\ \A x \in Tokens : x # t => token'[x] = before[x]
  BY <1>1, <1>3 DEF Cleaned
<1>5. token'[t].state = l /\ token'[t].deadline = token[t].deadline
  BY <1>1, <1>4 DEF Cleaned, TokenEntry, Entry
<1>6. ASSUME NEW x \in Tokens PROVE Moves(token[x], token'[x], uses[x], uses'[x], SyncTTL)
  <2>1. CASE x = t
    BY <1>5, <2>1 DEF Moves
  <2>2. CASE x # t
    BY <1>2, <1>4, <2>2 DEF Moves, CleanEntry
  <2> QED
    BY <2>1, <2>2
<1> QED
  BY <1>4, <1>5, <1>6 DEF TokensMove

\* Entries move like this in every step, and the values keep their types.
LEMMA EntriesStep ==
    SyncInv /\ [SyncNext]_syncVars =>
        /\ CodesMove /\ TokensMove
        /\ pairing' \in [PairingCodes -> CodeEntry] /\ token' \in [Tokens -> TokenEntry]
        /\ uses' \in [PairingCodes \cup Tokens -> 0..1]
        /\ batch' \in [Batches -> Batch]
<1> DEFINE Goal == /\ CodesMove /\ TokensMove
                   /\ pairing' \in [PairingCodes -> CodeEntry]
                   /\ token' \in [Tokens -> TokenEntry]
                   /\ uses' \in [PairingCodes \cup Tokens -> 0..1]
                   /\ batch' \in [Batches -> Batch]
<1> SUFFICES ASSUME SyncInv, [SyncNext]_syncVars PROVE Goal
  OBVIOUS
<1>t. SyncTypeOK /\ Cleaned /\ Dropped
  BY CleanedTypes, DroppedFacts DEF SyncInv
\* Steps that leave codes and tokens to the clean-up at most.
<1>c. ASSUME uses' = uses, batch' \in [Batches -> Batch],
             pairing' \in {pairing, Drop(pairing)}, token' \in {token, Drop(token)}
      PROVE  Goal
  BY <1>c, <1>t, DropMoves DEF Cleaned
<1>b. ASSUME NEW b \in Batches, NEW r \in Batch, batch' = [batch EXCEPT ![b] = r]
      PROVE  batch' \in [Batches -> Batch]
  BY <1>b, <1>t DEF Cleaned
<1>0. CASE UNCHANGED syncVars
  BY <1>0, <1>c, <1>t DEF syncVars, manager, Cleaned
<1>1. CASE SyncTick
  BY <1>1, <1>c, <1>t DEF SyncTick, manager, Cleaned
<1>2. CASE RestartSync
  <2>1. Restarted
    BY <1>t, RestartedFacts
  <2>2. /\ pairing' = Forget(pairing) /\ token' = Forget(token) /\ uses' = uses
        /\ batch' \in [Batches -> Batch]
    BY <1>2 DEF RestartSync, Batch
  <2>3. CodesMove /\ TokensMove
    BY <2>1, <2>2 DEF Restarted, CodesMove, TokensMove, Moves
  <2> QED
    BY <1>t, <2>1, <2>2, <2>3 DEF Restarted, Cleaned
<1>3. CASE WrongCode
  BY <1>3, <1>c, <1>t DEF WrongCode, Cleaned
<1>4. ASSUME NEW c \in PairingCodes, CreatePairing(c) PROVE Goal
  <2>1. /\ uses' = uses /\ batch' = batch /\ token' = Drop(token)
        /\ pairing[c].state = "new"
        /\ pairing' = [Drop(pairing) EXCEPT ![c] = Valid(syncNow + PairingTTL)]
    BY <1>4 DEF CreatePairing
  <2>2. CodesMove /\ pairing' \in [PairingCodes -> CodeEntry]
    BY <1>t, <2>1, CodeOpens
  <2>3. TokensMove
    BY <1>t, <2>1, DropMoves
  <2> QED
    BY <1>t, <2>1, <2>2, <2>3 DEF Cleaned
<1>5. ASSUME NEW t \in Tokens, CreateToken(t) PROVE Goal
  <2>1. /\ uses' = uses /\ batch' = batch /\ pairing' = Drop(pairing)
        /\ token[t].state = "new"
        /\ token' = [Drop(token) EXCEPT ![t] = Valid(syncNow + SyncTTL)]
    BY <1>5 DEF CreateToken
  <2>2. TokensMove /\ token' \in [Tokens -> TokenEntry]
    BY <1>t, <2>1, TokenOpens
  <2>3. CodesMove
    BY <1>t, <2>1, DropMoves
  <2> QED
    BY <1>t, <2>1, <2>2, <2>3 DEF Cleaned
<1>6. ASSUME NEW t \in Tokens, NEW c \in PairingCodes, Exchange(c, t) PROVE Goal
  <2>1. /\ batch' = batch /\ token[t].state = "new" /\ Drop(pairing)[c].state = "valid"
        /\ pairing' = [Drop(pairing) EXCEPT ![c].state = "spent"]
        /\ token' = [Drop(token) EXCEPT ![t] = Valid(syncNow + SyncTTL)]
        /\ uses' = [uses EXCEPT ![c] = @ + 1]
    BY <1>6 DEF Exchange
  <2>2. /\ CodesMove /\ pairing' \in [PairingCodes -> CodeEntry]
        /\ uses' \in [PairingCodes \cup Tokens -> 0..1]
        /\ \A x \in Tokens : uses'[x] = uses[x]
    BY <2>1, CodeIsUsed
  <2>3. TokensMove /\ token' \in [Tokens -> TokenEntry]
    BY <1>t, <2>1, <2>2, TokenOpens
  <2> QED
    BY <1>t, <2>1, <2>2, <2>3 DEF Cleaned
<1>7. ASSUME NEW b \in Batches, Claim(b) PROVE Goal
  <2>1. batch[b].pc = "claim" /\ uses' = uses /\ pairing' = Drop(pairing)
    BY <1>7 DEF Claim
  <2>2. CASE Drop(token)[batch[b].token].state = "valid"
    <3> DEFINE t == batch[b].token
    <3>1. t \in Tokens
      BY <1>t, <2>1, BatchFacts
    <3>2. /\ Drop(token)[t] = token[t] /\ token[t].state = "valid"
          /\ syncNow < token[t].deadline
      BY <1>t, <2>2, <3>1 DEF Dropped, CleanEntry
    <3>3. /\ token' = [Drop(token) EXCEPT ![t].state = "claimed"]
          /\ batch' = [batch EXCEPT ![b].pc = "save"]
      BY <1>7, <2>2 DEF Claim
    <3> HIDE DEF t
    <3>4. TokensMove /\ token' \in [Tokens -> TokenEntry]
      BY <1>t, <2>1, <3>1, <3>2, <3>3, TokenGoesOn
    <3>5. CodesMove
      BY <1>t, <2>1, DropMoves
    <3>6. batch' \in [Batches -> Batch]
      BY <1>t, <1>b, <2>1, <3>3, NextBatchStep
    <3> QED
      BY <1>t, <2>1, <3>4, <3>5, <3>6 DEF Cleaned
  <2>3. CASE Drop(token)[batch[b].token].state # "valid"
    <3>1. token' = Drop(token) /\ batch' = [batch EXCEPT ![b] = IdleBatch]
      BY <1>7, <2>3 DEF Claim
    <3>2. batch' \in [Batches -> Batch]
      BY <1>t, <1>b, <3>1, BatchFacts
    <3> QED
      BY <1>c, <2>1, <3>1, <3>2
  <2> QED
    BY <2>2, <2>3
<1>8. ASSUME NEW b \in Batches, SaveBatch(b) PROVE Goal
  <2>1. batch[b].pc = "save" /\ pairing' = pairing /\ token' = token
    BY <1>8 DEF SaveBatch, manager
  <2>2. batch' \in [Batches -> Batch]
    <3>1. \E l \in {"verify", "failed"} : batch' = [batch EXCEPT ![b].pc = l]
      BY <1>8 DEF SaveBatch
    <3> QED
      BY <1>t, <1>b, <2>1, <3>1, NextBatchStep
  <2>3. CASE uses' = uses
    BY <1>c, <2>1, <2>2, <2>3
  <2>4. CASE uses' = [uses EXCEPT ![batch[b].token] = @ + 1]
    <3> DEFINE t == batch[b].token
    <3>1. t \in Tokens /\ token[t].state \in {"claimed", "gone"} /\ uses[t] = 0
      BY <2>1 DEF SyncInv, Held, Holds, HolderPC
    <3>2. /\ uses' \in [PairingCodes \cup Tokens -> 0..1] /\ uses'[t] = 1
          /\ \A x \in PairingCodes \cup Tokens : x # t => uses'[x] = uses[x]
      BY <1>t, <2>4, <3>1 DEF Cleaned
    <3> HIDE DEF t
    <3>3. CodesMove /\ TokensMove
      BY <2>1, <3>1, <3>2 DEF CodesMove, TokensMove, Moves
    <3> QED
      BY <1>t, <2>1, <2>2, <3>2, <3>3 DEF Cleaned
  <2> QED
    BY <1>8, <2>3, <2>4 DEF SaveBatch
<1>9. ASSUME NEW b \in Batches, Finish(b) PROVE Goal
  <2> DEFINE t == batch[b].token
  <2>1. /\ batch[b].pc \in {"verify", "failed"} /\ pairing' = pairing /\ uses' = uses
        /\ batch' = [batch EXCEPT ![b] = IdleBatch]
    BY <1>9 DEF Finish
  <2>2. batch' \in [Batches -> Batch]
    BY <1>t, <1>b, <2>1, BatchFacts
  <2>3. CASE token' = token
    BY <1>c, <2>1, <2>2, <2>3
  <2>4. CASE /\ token[t].state = "claimed"
             /\ token' = [token EXCEPT ![t].state =
                             IF batch[b].pc = "verify" THEN "spent" ELSE "valid"]
    <3> DEFINE l == IF batch[b].pc = "verify" THEN "spent" ELSE "valid"
    <3>1. t \in Tokens /\ uses[t] = IF batch[b].pc = "verify" THEN 1 ELSE 0
      BY <2>1 DEF SyncInv, Held, Holds, HolderPC
    <3>2. \/ l = "spent" /\ uses[t] = 1
          \/ l = "valid" /\ uses[t] = 0
      BY <2>1, <3>1
    <3> HIDE DEF t, l
    <3>3. token' = [token EXCEPT ![t].state = l]
      BY <2>4 DEF l
    <3>4. TokensMove /\ token' \in [Tokens -> TokenEntry]
      BY <1>t, <2>1, <2>4, <3>1, <3>2, <3>3, TokenGoesOn
    <3>5. CodesMove
      BY <1>t, <2>1, DropMoves
    <3> QED
      BY <1>t, <2>1, <2>2, <3>4, <3>5 DEF Cleaned
  <2> QED
    BY <1>9, <2>3, <2>4 DEF Finish
<1>10. ASSUME NEW b \in Batches, NEW t \in Tokens, Authorize(b, t) PROVE Goal
  <2>1. /\ uses' = uses /\ pairing' = Drop(pairing) /\ token' = Drop(token)
        /\ batch' = [batch EXCEPT ![b] = [pc |-> "pending", token |-> t]]
    BY <1>10 DEF Authorize, Clean
  <2>2. [pc |-> "pending", token |-> t] \in Batch
    BY DEF Batch
  <2> QED
    BY <1>b, <1>c, <2>1, <2>2
<1>11. ASSUME NEW b \in Batches, NEW S \in SUBSET SyncSites, CheckBatch(b, S) PROVE Goal
  <2>1. batch[b].token \in Tokens
    BY <1>t, <1>11, BatchFacts DEF CheckBatch
  <2>2. /\ uses' = uses /\ pairing' = pairing /\ token' = token
        /\ \E r \in {IdleBatch, [pc |-> "claim", token |-> batch[b].token, sites |-> S]} :
              batch' = [batch EXCEPT ![b] = r]
    BY <1>11 DEF CheckBatch, manager
  <2>3. IdleBatch \in Batch /\ [pc |-> "claim", token |-> batch[b].token, sites |-> S] \in Batch
    BY <2>1 DEF Batch
  <2> QED
    BY <1>b, <1>c, <2>2, <2>3
<1>12. ASSUME NEW s \in SyncSites, Collect(s) \/ Administer(s) PROVE Goal
  BY <1>12, <1>c, <1>t DEF Collect, Administer, manager, Cleaned
<1> HIDE DEF Goal
<1> QED
  BY <1>0, <1>1, <1>2, <1>3, <1>4, <1>5, <1>6, <1>7, <1>8, <1>9, <1>10, <1>11, <1>12,
     SyncNextSplits DEF SyncActions

\* Every step keeps the types.
LEMMA SyncTypeStep == SyncInv /\ [SyncNext]_syncVars => SyncTypeOK'
<1> SUFFICES ASSUME SyncInv, [SyncNext]_syncVars PROVE SyncTypeOK'
  OBVIOUS
<1> DEFINE Windows == [count : 0..MaxPairingAttempts, since : 0..SyncEnd]
<1>t. /\ syncNow \in 1..SyncEnd /\ attempts \in Windows
      /\ stored \in [SyncSites -> Stored] /\ state \in [SyncSites -> State]
  BY DEF SyncInv, SyncTypeOK
<1>a. NoAttempts \in Windows /\ Attempts \in Windows
  BY <1>t DEF NoAttempts, Attempts
<1>w. WrongCode => attempts' \in Windows
  <2>1. \A w \in Windows : [w EXCEPT !.since = syncNow] \in Windows
    BY <1>t
  <2>2. \A w \in Windows : Count(w) \in Windows
    BY DEF Count
  <2> HIDE DEF Windows
  <2> QED
    BY <1>a, <2>1, <2>2 DEF WrongCode
<1>1. /\ pairing' \in [PairingCodes -> CodeEntry] /\ token' \in [Tokens -> TokenEntry]
      /\ uses' \in [PairingCodes \cup Tokens -> 0..1] /\ batch' \in [Batches -> Batch]
  BY EntriesStep
<1>2. syncNow' \in 1..SyncEnd
  <2>1. \/ syncNow' = syncNow
        \/ syncNow < SyncEnd /\ syncNow' = syncNow + 1
    BY SyncNextSplits DEF SyncActions, syncVars, SyncTick, RestartSync, WrongCode,
       CreatePairing, CreateToken, Exchange, Claim, SaveBatch, Finish, Authorize,
       CheckBatch, Collect, Administer
  <2> QED
    BY <1>t, <2>1
<1>3. attempts' \in Windows
  <2>1. attempts' \in {attempts, Attempts, NoAttempts} \/ WrongCode
    BY SyncNextSplits DEF SyncActions, syncVars, manager, SyncTick, RestartSync,
       CreatePairing, CreateToken, Exchange, Claim, SaveBatch, Finish, Authorize, Clean,
       CheckBatch, Collect, Administer
  <2> QED
    BY <1>t, <1>a, <1>w, <2>1
<1>4. stored' \in [SyncSites -> Stored]
  <2>1. ASSUME NEW b \in Batches, SaveBatch(b) PROVE stored' \in [SyncSites -> Stored]
    BY <1>t, <2>1 DEF SaveBatch
  <2>2. ASSUME NEW s \in SyncSites, Administer(s) PROVE stored' \in [SyncSites -> Stored]
    BY <1>t, <2>2 DEF Administer
  <2> QED
    BY <1>t, <2>1, <2>2, SyncNextSplits DEF SyncActions, syncVars, sites, SyncTick, RestartSync,
       WrongCode, CreatePairing, CreateToken, Exchange, Claim, Finish, Authorize,
       CheckBatch, Collect
<1>5. state' \in [SyncSites -> State]
  <2>1. ASSUME NEW b \in Batches, Finish(b) PROVE state' \in [SyncSites -> State]
    BY <1>t, <2>1 DEF Finish
  <2>2. ASSUME NEW s \in SyncSites, Collect(s) PROVE state' \in [SyncSites -> State]
    BY <1>t, <2>2 DEF Collect
  <2> QED
    BY <1>t, <2>1, <2>2, SyncNextSplits DEF SyncActions, syncVars, sites, SyncTick, RestartSync,
       WrongCode, CreatePairing, CreateToken, Exchange, Claim, SaveBatch, Authorize,
       CheckBatch, Administer
<1> QED
  BY <1>1, <1>2, <1>3, <1>4, <1>5 DEF SyncTypeOK, CodeEntry, TokenEntry

\* Every step keeps that what can be had yet was not had.
LEMMA UnusedStep == SyncInv /\ [SyncNext]_syncVars => AllUnused'
<1> SUFFICES ASSUME SyncInv, [SyncNext]_syncVars PROVE AllUnused'
  OBVIOUS
<1>1. CodesMove /\ TokensMove /\ AllUnused
  BY EntriesStep DEF SyncInv
<1>2. ASSUME NEW e, NEW f, NEW u, NEW v, NEW life, Unused(e, u), Moves(e, f, u, v, life)
      PROVE  Unused(f, v)
  BY <1>2 DEF Unused, Moves
<1> QED
  BY <1>1, <1>2 DEF AllUnused, CodesMove, TokensMove

-----------------------------------------------------------------------------
(* Who holds a token.                                                      *)

\* Handlers stay alone with their tokens.
LEMMA HeldStep == SyncInv /\ [SyncNext]_syncVars => Held'
<1> SUFFICES ASSUME SyncInv, [SyncNext]_syncVars PROVE Held'
  OBVIOUS
<1> USE DEF Holds, HolderPC
<1>t. SyncTypeOK /\ Cleaned /\ Dropped /\ Held
  BY CleanedTypes, DroppedFacts DEF SyncInv
<1>m. /\ token \in [Tokens -> TokenEntry] /\ batch \in [Batches -> Batch]
      /\ IdleBatch.pc \notin HolderPC
  BY <1>t DEF Cleaned, IdleBatch
\* The clean-up beside a handler that holds nothing before and after.
<1>c. ASSUME token' \in {token, Drop(token)}, \A t \in Tokens : uses'[t] = uses[t],
             \/ batch' = batch
             \/ \E b \in Batches, r \in Batch :
                  ~Holds(b) /\ r.pc \notin HolderPC /\ batch' = [batch EXCEPT ![b] = r]
      PROVE  Held'
  <2>1. \A t \in Tokens :
           /\ token[t].state \in {"claimed", "gone"} => token'[t].state \in {"claimed", "gone"}
           /\ token'[t].state = "claimed" => token[t].state = "claimed"
    BY <1>t, <1>c DEF Dropped, CleanEntry
  <2>2. \A b \in Batches : /\ Holds(b)' <=> Holds(b)
                           /\ Holds(b) => batch'[b] = batch[b]
    BY <1>c, <1>m
  <2> QED
    BY <1>t, <1>c, <2>1, <2>2 DEF Held
<1>0. CASE UNCHANGED syncVars
  BY <1>0, <1>c DEF syncVars, manager
<1>1. CASE SyncTick
  BY <1>1, <1>c DEF SyncTick, manager
<1>2. CASE RestartSync
  <2>1. Restarted
    BY <1>t, RestartedFacts
  <2>2. /\ token' = Forget(token) /\ \A b \in Batches : batch'[b] = IdleBatch
    BY <1>2 DEF RestartSync
  <2> QED
    BY <1>m, <2>1, <2>2 DEF Held, Restarted
<1>3. CASE WrongCode
  BY <1>3, <1>c DEF WrongCode
<1>4. ASSUME NEW c \in PairingCodes, CreatePairing(c) PROVE Held'
  BY <1>4, <1>c DEF CreatePairing
<1>5. ASSUME NEW t \in Tokens, token[t].state = "new",
             token' = [Drop(token) EXCEPT ![t] = Valid(syncNow + SyncTTL)],
             \A x \in Tokens : uses'[x] = uses[x], batch' = batch
      PROVE Held'
  <2>1. /\ token'[t].state = "valid"
        /\ \A x \in Tokens : x # t => token'[x] = Drop(token)[x]
    BY <1>5, <1>t DEF Cleaned, Valid
  <2>2. \A x \in Tokens :
           /\ token[x].state \in {"claimed", "gone"} => token'[x].state \in {"claimed", "gone"}
           /\ token'[x].state = "claimed" => token[x].state = "claimed"
    BY <1>t, <1>5, <2>1 DEF Dropped, CleanEntry
  <2> QED
    BY <1>t, <1>5, <2>2 DEF Held
<1>6. ASSUME NEW t \in Tokens, CreateToken(t) PROVE Held'
  BY <1>5, <1>6 DEF CreateToken
<1>7. ASSUME NEW t \in Tokens, NEW c \in PairingCodes, Exchange(c, t) PROVE Held'
  <2>1. \A x \in Tokens : uses'[x] = uses[x]
    BY <1>7, CodeIsUsed DEF Exchange
  <2> QED
    BY <1>5, <1>7, <2>1 DEF Exchange
<1>8. ASSUME NEW b \in Batches, Claim(b) PROVE Held'
  <2>1. batch[b].pc = "claim" /\ uses' = uses
    BY <1>8 DEF Claim
  <2>2. CASE Drop(token)[batch[b].token].state = "valid"
    <3> DEFINE t == batch[b].token
               r == [batch[b] EXCEPT !.pc = "save"]
    <3>1. t \in Tokens
      BY <1>t, <2>1, BatchFacts
    <3>2. /\ Drop(token)[t] = token[t] /\ token[t].state = "valid" /\ uses[t] = 0
      BY <1>t, <2>2, <3>1 DEF Dropped, CleanEntry, SyncInv, AllUnused, Unused
    <3>3. /\ token' = [Drop(token) EXCEPT ![t].state = "claimed"]
          /\ batch' = [batch EXCEPT ![b] = r]
      BY <1>8, <2>2 DEF Claim
    <3>4. r.pc = "save" /\ r.token = t
      BY <1>t, <2>1, NextBatchStep
    <3> HIDE DEF t, r
    <3>5. /\ token'[t].state = "claimed"
          /\ \A x \in Tokens : x # t => token'[x] = Drop(token)[x]
      <4>1. syncNow < token[t].deadline
        BY <1>t, <3>1, <3>2 DEF Dropped, CleanEntry
      <4> QED
        BY <1>t, <2>1, <3>1, <3>2, <3>3, <4>1, TokenGoesOn
    <3>6. \A c \in Batches : Holds(c) => batch[c].token # t
      BY <1>t, <3>2 DEF Held
    <3>7. /\ batch'[b] = r
          /\ \A c \in Batches : c # b => batch'[c] = batch[c]
      BY <1>m, <3>3
    <3>8. \A x \in Tokens : x # t =>
             /\ token[x].state \in {"claimed", "gone"} => token'[x].state \in {"claimed", "gone"}
             /\ token'[x].state = "claimed" => token[x].state = "claimed"
      BY <1>t, <3>5 DEF Dropped, CleanEntry
    <3> QED
      BY <1>t, <2>1, <3>1, <3>2, <3>4, <3>5, <3>6, <3>7, <3>8 DEF Held
  <2>3. CASE Drop(token)[batch[b].token].state # "valid"
    <3>1. token' = Drop(token) /\ batch' = [batch EXCEPT ![b] = IdleBatch] /\ ~Holds(b)
      BY <1>8, <2>1, <2>3 DEF Claim
    <3>2. IdleBatch \in Batch
      BY DEF Batch
    <3> QED
      BY <1>c, <1>m, <2>1, <3>1, <3>2
  <2> QED
    BY <2>2, <2>3
<1>9. ASSUME NEW b \in Batches, SaveBatch(b) PROVE Held'
  <2> DEFINE t == batch[b].token
  <2>1. /\ batch[b].pc = "save" /\ token' = token
        /\ t \in Tokens /\ uses[t] = 0 /\ token[t].state \in {"claimed", "gone"}
        /\ \A c \in Batches : c # b /\ Holds(c) => batch[c].token # t
    BY <1>9, <1>t DEF SaveBatch, manager, Held
  <2>2. PICK l \in {"verify", "failed"} :
           /\ batch' = [batch EXCEPT ![b].pc = l]
           /\ uses' = IF l = "verify" THEN [uses EXCEPT ![t] = @ + 1] ELSE uses
    BY <1>9 DEF SaveBatch
  <2>3. /\ batch'[b] = [batch[b] EXCEPT !.pc = l]
        /\ \A c \in Batches : c # b => batch'[c] = batch[c]
    BY <1>m, <2>2
  <2>4. batch'[b].pc = l /\ batch'[b].token = t
    BY <1>t, <2>1, <2>3, NextBatchStep
  <2>5. /\ uses'[t] = IF l = "verify" THEN 1 ELSE 0
        /\ \A x \in Tokens : x # t => uses'[x] = uses[x]
    BY <1>t, <2>1, <2>2 DEF Cleaned
  <2> HIDE DEF t
  <2>6. /\ batch[b].token = t
        /\ Holds(b) /\ batch'[b].pc \in HolderPC
    BY <2>1, <2>4 DEF t
  <2> HIDE DEF HolderPC, Holds
  <2>7. /\ \A c \in Batches : (batch'[c].pc \in HolderPC) = (batch[c].pc \in HolderPC)
        /\ \A c \in Batches : batch'[c].token = batch[c].token
        /\ \A c \in Batches : c # b => batch'[c].pc = batch[c].pc
    <3>1. batch'[b].token = batch[b].token
      BY <2>4, <2>6
    <3>2. batch[b].pc \in HolderPC
      BY <2>6 DEF Holds
    <3>3. \A c \in Batches : c # b => batch'[c] = batch[c]
      BY <2>3
    <3> QED
      BY <2>6, <3>1, <3>2, <3>3
  <2>k. \A c \in Batches : Holds(c) <=> batch[c].pc \in HolderPC
    BY DEF Holds
  <2>d. \A c, d \in Batches : Holds(c) /\ Holds(d) /\ batch[c].token = batch[d].token => c = d
    BY <1>t DEF Held
  <2>f. \A c \in Batches : Holds(c) =>
             /\ batch[c].token \in Tokens
             /\ token[batch[c].token].state \in {"claimed", "gone"}
             /\ uses[batch[c].token] = IF batch[c].pc = "verify" THEN 1 ELSE 0
    BY <1>t DEF Held
  <2>g. \A x \in Tokens : token[x].state = "claimed" =>
              \E c \in Batches : Holds(c) /\ batch[c].token = x
    BY <1>t DEF Held
  <2>8. ASSUME NEW c \in Batches, batch'[c].pc \in HolderPC
        PROVE  /\ batch'[c].token \in Tokens
               /\ token'[batch'[c].token].state \in {"claimed", "gone"}
               /\ uses'[batch'[c].token] = IF batch'[c].pc = "verify" THEN 1 ELSE 0
    <3>1. CASE c = b
      BY <2>1, <2>2, <2>4, <2>5, <2>6, <3>1
    <3>2. CASE c # b
      <4>1. /\ batch[c].pc \in HolderPC
            /\ batch'[c].token = batch[c].token
            /\ batch'[c].pc = batch[c].pc
        BY <2>7, <2>8, <3>2
      <4>2. /\ batch[c].token \in Tokens
            /\ token[batch[c].token].state \in {"claimed", "gone"}
            /\ uses[batch[c].token] = IF batch[c].pc = "verify" THEN 1 ELSE 0
        BY <2>f, <2>k, <4>1
      <4>3. batch[c].token # t
        BY <2>6, <2>d, <2>k, <3>2, <4>1
      <4>4. token' = token /\ uses'[batch[c].token] = uses[batch[c].token]
        BY <2>1, <2>5, <4>2, <4>3
      <4> QED
        BY <4>1, <4>2, <4>4
    <3> QED
      BY <3>1, <3>2
  <2>9. /\ \A c, d \in Batches :
              batch'[c].pc \in HolderPC /\ batch'[d].pc \in HolderPC
                    /\ batch'[c].token = batch'[d].token => c = d
        /\ \A x \in Tokens : token'[x].state = "claimed" =>
              \E c \in Batches : batch'[c].pc \in HolderPC /\ batch'[c].token = x
    <3>1. token' = token
      BY <2>1
    <3>2. \A c \in Batches : (batch'[c].pc \in HolderPC) = (batch[c].pc \in HolderPC)
      BY <2>7
    <3>3. \A c \in Batches : batch'[c].token = batch[c].token
      BY <2>7
    <3>4. \A c \in Batches : batch'[c].pc \in HolderPC <=> Holds(c)
      BY <2>k, <3>2
    <3>5. ASSUME NEW c \in Batches, NEW d \in Batches, batch'[c].pc \in HolderPC,
                 batch'[d].pc \in HolderPC, batch'[c].token = batch'[d].token
          PROVE  c = d
      <4>1. Holds(c) /\ Holds(d)
        BY <3>4, <3>5
      <4>2. batch[c].token = batch[d].token
        BY <3>3, <3>5
      <4> QED
        BY <2>d, <4>1, <4>2
    <3>6. ASSUME NEW x \in Tokens, token'[x].state = "claimed"
          PROVE  \E c \in Batches : batch'[c].pc \in HolderPC /\ batch'[c].token = x
      <4>1. PICK c \in Batches : Holds(c) /\ batch[c].token = x
        BY <2>g, <3>1, <3>6
      <4> QED
        BY <3>3, <3>4, <4>1
    <3> QED
      BY <3>5, <3>6
  <2> QED
    BY <2>8, <2>9 DEF Held, Holds, HolderPC
<1>10. ASSUME NEW b \in Batches, Finish(b) PROVE Held'
  <2> DEFINE t == batch[b].token
  <2>1. /\ batch[b].pc \in {"verify", "failed"} /\ uses' = uses
        /\ batch' = [batch EXCEPT ![b] = IdleBatch] /\ t \in Tokens
        /\ \A c \in Batches : c # b /\ Holds(c) => batch[c].token # t
    BY <1>10, <1>t DEF Finish, Held
  <2>2. token'[t].state # "claimed"
    BY <1>10, <1>m, <2>1 DEF Finish, TokenEntry, Entry
  <2>3. \A x \in Tokens : x # t => token'[x] = token[x]
    BY <1>10, <1>m DEF Finish
  <2>4. /\ batch'[b] = IdleBatch
        /\ \A c \in Batches : c # b => batch'[c] = batch[c]
    BY <1>m, <2>1
  <2> HIDE DEF t
  <2>5. batch[b].token = t
    BY DEF t
  <2> QED
    BY <1>t, <1>m, <2>1, <2>2, <2>3, <2>4, <2>5 DEF Held
<1>11. ASSUME NEW b \in Batches, NEW t \in Tokens, Authorize(b, t) PROVE Held'
  <2>1. /\ [pc |-> "pending", token |-> t] \in Batch
        /\ [pc |-> "pending", token |-> t].pc = "pending"
    BY DEF Batch
  <2> QED
    BY <1>11, <1>c, <1>m, <2>1 DEF Authorize, Clean
<1>12. ASSUME NEW b \in Batches, NEW S \in SUBSET SyncSites, CheckBatch(b, S) PROVE Held'
  <2>1. batch[b].token \in Tokens
    BY <1>t, <1>12, BatchFacts DEF CheckBatch
  <2> DEFINE r == [pc |-> "claim", token |-> batch[b].token, sites |-> S]
  <2>2. r \in Batch /\ r.pc = "claim" /\ IdleBatch \in Batch
    BY <2>1 DEF Batch
  <2>3. /\ uses' = uses /\ token' = token /\ ~Holds(b)
        /\ batch' = [batch EXCEPT ![b] = r] \/ batch' = [batch EXCEPT ![b] = IdleBatch]
    BY <1>12 DEF CheckBatch, manager
  <2> HIDE DEF r
  <2> QED
    BY <1>c, <1>m, <2>2, <2>3
<1>13. ASSUME NEW s \in SyncSites, Collect(s) \/ Administer(s) PROVE Held'
  BY <1>13, <1>c DEF Collect, Administer, manager
<1> QED
  BY <1>0, <1>1, <1>2, <1>3, <1>4, <1>6, <1>7, <1>8, <1>9, <1>10, <1>11, <1>12, <1>13,
     SyncNextSplits DEF SyncActions

-----------------------------------------------------------------------------
(* The theorems.                                                           *)

\* A handler between claim and Finish is alone with its token, and has stored
\* with it just when it goes on to verify.
THEOREM SyncInvariant == SyncSpec => []SyncInv
<1>1. SyncInv /\ [SyncNext]_syncVars => SyncInv'
  BY SyncTypeStep, UnusedStep, HeldStep DEF SyncInv
<1> QED
  BY SyncInvInit, <1>1, PTL DEF SyncSpec

\* A claimed token is in the hands of exactly one handler, and something was
\* stored with it just when that handler is about to remove it.
THEOREM ClaimedTokenIsHeld == SyncSpec => []ClaimIsHeld
<1>1. SyncInv => ClaimIsHeld
  <2> SUFFICES ASSUME SyncInv, NEW t \in Tokens, token[t].state = "claimed"
               PROVE /\ Cardinality({b \in Batches : batch[b].pc \in HolderPC
                                                       /\ batch[b].token = t}) = 1
                     /\ uses[t] = 1 <=> \E b \in Batches : batch[b].pc = "verify"
                                                             /\ batch[b].token = t
    BY DEF ClaimIsHeld
  <2>1. PICK b \in Batches : Holds(b) /\ batch[b].token = t
    BY DEF SyncInv, Held
  <2>2. \A c \in Batches : Holds(c) /\ batch[c].token = t => c = b
    BY <2>1 DEF SyncInv, Held
  <2>3. {c \in Batches : batch[c].pc \in HolderPC /\ batch[c].token = t} = {b}
    BY <2>1, <2>2 DEF Holds
  <2>4. uses[t] = IF batch[b].pc = "verify" THEN 1 ELSE 0
    BY <2>1 DEF SyncInv, Held
  <2>5. Cardinality({b}) = 1
    BY FS_Singleton
  <2>6. uses[t] = 1 <=> \E c \in Batches : batch[c].pc = "verify" /\ batch[c].token = t
    BY <2>1, <2>2, <2>4 DEF Holds, HolderPC
  <2> QED
    BY <2>3, <2>5, <2>6
<1> QED
  BY <1>1, SyncInvariant, PTL

AnyEntry == [state : {"new", "valid", "claimed", "spent", "gone"}, deadline : Nat]

\* What a ticket t that is open for life may become in one step.
TicketMoves(t, w, life) ==
    \/ w = t
    \/ /\ t = SyncTickets!New
       /\ w = [SyncTickets!New EXCEPT !.phase = "open", !.deadline = syncNow + life]
    \/ t.phase = "open" /\ syncNow < t.deadline /\ w = [t EXCEPT !.phase = "used", !.uses = 1]
    \/ t.phase = "open" /\ syncNow < t.deadline /\ w = [t EXCEPT !.phase = "taken"]
    \/ t.phase \in {"taken", "gone"} /\ t.uses = 0 /\ w = [t EXCEPT !.uses = 1]
    \/ t.phase = "taken" /\ t.uses = 1 /\ w = [t EXCEPT !.phase = "used"]
    \/ t.phase = "taken" /\ t.uses = 0 /\ w = [t EXCEPT !.phase = "open"]
    \/ t.phase \in {"open", "taken"} /\ w = [t EXCEPT !.phase = "gone"]

\* One entry's move is a step of its ticket.
LEMMA EntryIsTicket ==
    ASSUME syncNow \in Nat, NEW life \in Nat, NEW e \in AnyEntry, NEW f \in AnyEntry,
           NEW u \in Nat, NEW v \in Nat, Unused(e, u), Moves(e, f, u, v, life)
    PROVE  TicketMoves([phase |-> PhaseOf(e.state), deadline |-> e.deadline, uses |-> u],
                       [phase |-> PhaseOf(f.state), deadline |-> f.deadline, uses |-> v], life)
<1> DEFINE t == [phase |-> PhaseOf(e.state), deadline |-> e.deadline, uses |-> u]
           w == [phase |-> PhaseOf(f.state), deadline |-> f.deadline, uses |-> v]
           P == {"none", "open", "taken", "used", "gone"}
           N == Nat
           n == SyncTickets!New
<1>p. /\ t \in [phase : P, deadline : N, uses : N] /\ w \in [phase : P, deadline : N, uses : N]
      /\ n \in [phase : P, deadline : N, uses : N]
      /\ n.phase = "none" /\ n.deadline = 0 /\ n.uses = 0
  BY DEF PhaseOf, AnyEntry, SyncTickets!New
<1>f. /\ t.phase = PhaseOf(e.state) /\ t.deadline = e.deadline /\ t.uses = u
      /\ w.phase = PhaseOf(f.state) /\ w.deadline = f.deadline /\ w.uses = v
  OBVIOUS
<1> SUFFICES \/ w = t
             \/ /\ t = n
                /\ w = [n EXCEPT !.phase = "open", !.deadline = syncNow + life]
             \/ /\ t.phase = "open" /\ syncNow < t.deadline
                /\ w = [t EXCEPT !.phase = "used", !.uses = 1]
             \/ t.phase = "open" /\ syncNow < t.deadline /\ w = [t EXCEPT !.phase = "taken"]
             \/ t.phase \in {"taken", "gone"} /\ t.uses = 0 /\ w = [t EXCEPT !.uses = 1]
             \/ t.phase = "taken" /\ t.uses = 1 /\ w = [t EXCEPT !.phase = "used"]
             \/ t.phase = "taken" /\ t.uses = 0 /\ w = [t EXCEPT !.phase = "open"]
             \/ t.phase \in {"open", "taken"} /\ w = [t EXCEPT !.phase = "gone"]
  BY DEF TicketMoves
<1> HIDE DEF t, w, P, N, n
\* Tickets that agree field by field are equal.
<1>u. \A s, r \in [phase : P, deadline : N, uses : N] :
         /\ s.phase = r.phase /\ s.deadline = r.deadline /\ s.uses = r.uses => s = r
         /\ s.deadline = r.deadline => s = [r EXCEPT !.phase = s.phase, !.uses = s.uses]
         /\ s.uses = r.uses => s = [r EXCEPT !.phase = s.phase, !.deadline = s.deadline]
         /\ s.uses = r.uses /\ s.deadline = r.deadline => s = [r EXCEPT !.phase = s.phase]
         /\ s.phase = r.phase /\ s.deadline = r.deadline => s = [r EXCEPT !.uses = s.uses]
  <2> SUFFICES ASSUME NEW s \in [phase : P, deadline : N, uses : N],
                      NEW r \in [phase : P, deadline : N, uses : N]
      PROVE  /\ s.phase = r.phase /\ s.deadline = r.deadline /\ s.uses = r.uses => s = r
             /\ s.deadline = r.deadline => s = [r EXCEPT !.phase = s.phase, !.uses = s.uses]
             /\ s.uses = r.uses => s = [r EXCEPT !.phase = s.phase, !.deadline = s.deadline]
             /\ s.uses = r.uses /\ s.deadline = r.deadline => s = [r EXCEPT !.phase = s.phase]
             /\ s.phase = r.phase /\ s.deadline = r.deadline => s = [r EXCEPT !.uses = s.uses]
    OBVIOUS
  <2>1. s.phase = r.phase /\ s.deadline = r.deadline /\ s.uses = r.uses => s = r
    OBVIOUS
  <2>2. s.deadline = r.deadline => s = [r EXCEPT !.phase = s.phase, !.uses = s.uses]
    OBVIOUS
  <2>3. s.uses = r.uses => s = [r EXCEPT !.phase = s.phase, !.deadline = s.deadline]
    OBVIOUS
  <2>4. s.uses = r.uses /\ s.deadline = r.deadline => s = [r EXCEPT !.phase = s.phase]
    OBVIOUS
  <2>5. s.phase = r.phase /\ s.deadline = r.deadline => s = [r EXCEPT !.uses = s.uses]
    OBVIOUS
  <2> QED
    BY <2>1, <2>2, <2>3, <2>4, <2>5
<1>k. f = e /\ v = u => w = t
  BY DEF t, w
<1>1. CASE e.state \in {"valid", "claimed"} /\ f.state = "gone" /\ f.deadline = e.deadline /\ v = u
  <2>1. /\ t.phase \in {"open", "taken"} /\ w.phase = "gone"
        /\ w.uses = t.uses /\ w.deadline = t.deadline
    BY <1>1, <1>f DEF PhaseOf
  <2>2. w = [t EXCEPT !.phase = "gone"]
    BY <1>p, <1>u, <2>1, Zenon
  <2> QED
    BY <2>1, <2>2
<1>2. CASE e.state = "new" /\ f.state = "valid" /\ f.deadline = syncNow + life /\ v = u
  <2>1. /\ t.phase = "none" /\ t.deadline = 0 /\ t.uses = 0
        /\ w.phase = "open" /\ w.deadline = syncNow + life /\ w.uses = 0
    BY <1>2, <1>f DEF PhaseOf, Unused
  <2>0. t.phase = n.phase /\ t.deadline = n.deadline /\ t.uses = n.uses
    BY <1>p, <2>1
  <2>2. t = n
    BY <1>p, <1>u, <2>0, Zenon
  <2>3. w.uses = n.uses
    BY <1>p, <2>1
  <2>a. w = [n EXCEPT !.phase = w.phase, !.deadline = w.deadline]
    BY <1>p, <1>u, <2>3, Zenon
  <2>b. w.phase = "open" /\ w.deadline = syncNow + life
    BY <2>1
  <2>4. w = [n EXCEPT !.phase = "open", !.deadline = syncNow + life]
    BY <2>a, <2>b, Zenon
  <2> QED
    BY <2>2, <2>4
<1>3. CASE /\ e.state = "valid" /\ f.state = "claimed" /\ syncNow < e.deadline
           /\ f.deadline = e.deadline /\ v = u
  <2>1. /\ t.phase = "open" /\ syncNow < t.deadline
        /\ w.phase = "taken" /\ w.uses = t.uses /\ w.deadline = t.deadline
    BY <1>3, <1>f DEF PhaseOf
  <2>2. w = [t EXCEPT !.phase = "taken"]
    BY <1>p, <1>u, <2>1, Zenon
  <2> QED
    BY <2>1, <2>2
<1>4. CASE /\ e.state = "valid" /\ f.state = "spent" /\ syncNow < e.deadline
           /\ f.deadline = e.deadline /\ v = 1
  <2>1. /\ t.phase = "open" /\ syncNow < t.deadline
        /\ w.phase = "used" /\ w.uses = 1 /\ w.deadline = t.deadline
    BY <1>4, <1>f DEF PhaseOf
  <2>2. w = [t EXCEPT !.phase = "used", !.uses = 1]
    BY <1>p, <1>u, <2>1, Zenon
  <2> QED
    BY <2>1, <2>2
<1>5. CASE e.state \in {"claimed", "gone"} /\ f = e /\ u = 0 /\ v = 1
  <2>1. /\ t.phase \in {"taken", "gone"} /\ t.uses = 0
        /\ w.phase = t.phase /\ w.uses = 1 /\ w.deadline = t.deadline
    BY <1>5, <1>f DEF PhaseOf
  <2>2. w = [t EXCEPT !.uses = 1]
    BY <1>p, <1>u, <2>1, Zenon
  <2> QED
    BY <2>1, <2>2
<1>6. CASE e.state = "claimed" /\ f.state = "spent" /\ f.deadline = e.deadline /\ u = 1 /\ v = u
  <2>1. /\ t.phase = "taken" /\ t.uses = 1
        /\ w.phase = "used" /\ w.uses = t.uses /\ w.deadline = t.deadline
    BY <1>6, <1>f DEF PhaseOf
  <2>2. w = [t EXCEPT !.phase = "used"]
    BY <1>p, <1>u, <2>1, Zenon
  <2> QED
    BY <2>1, <2>2
<1>7. CASE e.state = "claimed" /\ f.state = "valid" /\ f.deadline = e.deadline /\ u = 0 /\ v = u
  <2>1. /\ t.phase = "taken" /\ t.uses = 0
        /\ w.phase = "open" /\ w.uses = t.uses /\ w.deadline = t.deadline
    BY <1>7, <1>f DEF PhaseOf
  <2>2. w = [t EXCEPT !.phase = "open"]
    BY <1>p, <1>u, <2>1, Zenon
  <2> QED
    BY <2>1, <2>2
<1> QED
  BY <1>k, <1>1, <1>2, <1>3, <1>4, <1>5, <1>6, <1>7 DEF Moves

\* A ticket's moves are steps of the abstract specification.
LEMMA SyncTicketStep ==
    SyncInv /\ [SyncNext]_syncVars => [SyncTickets!Next]_<<syncTickets, syncNow>>
<1> SUFFICES ASSUME SyncInv, [SyncNext]_syncVars PROVE SyncTickets!Next
  OBVIOUS
<1> DEFINE Life == [x \in PairingCodes \cup Tokens |->
                      IF x \in PairingCodes THEN PairingTTL ELSE SyncTTL]
<1>1. syncNow \in Nat /\ syncNow' >= syncNow
  <2>1. \/ syncNow' = syncNow
        \/ syncNow < SyncEnd /\ syncNow' = syncNow + 1
    BY SyncNextSplits DEF SyncActions, syncVars, SyncTick, RestartSync, WrongCode,
       CreatePairing, CreateToken, Exchange, Claim, SaveBatch, Finish, Authorize,
       CheckBatch, Collect, Administer
  <2>2. syncNow \in Nat
    BY DEF SyncInv, SyncTypeOK
  <2> QED
    BY <2>1, <2>2
<1>2. /\ pairing \in [PairingCodes -> CodeEntry] /\ token \in [Tokens -> TokenEntry]
      /\ uses \in [PairingCodes \cup Tokens -> 0..1]
      /\ pairing' \in [PairingCodes -> CodeEntry] /\ token' \in [Tokens -> TokenEntry]
      /\ uses' \in [PairingCodes \cup Tokens -> 0..1]
  BY EntriesStep DEF SyncInv, SyncTypeOK, CodeEntry, TokenEntry
<1>3. CodesMove /\ TokensMove /\ AllUnused
  BY EntriesStep DEF SyncInv
<1>4. ASSUME NEW x \in PairingCodes \cup Tokens
      PROVE  \E life \in Nat, e, f \in AnyEntry, u, v \in Nat :
                /\ life = Life[x] /\ e = EntryOf(x) /\ f = EntryOf(x)'
                /\ u = uses[x] /\ v = uses'[x]
                /\ Unused(e, u) /\ Moves(e, f, u, v, life)
  <2>1. CASE x \in PairingCodes
    <3>1. /\ EntryOf(x) = pairing[x] /\ EntryOf(x)' = pairing'[x] /\ Life[x] = PairingTTL
          /\ PairingTTL \in Nat
      BY <2>1 DEF EntryOf
    <3>2. /\ pairing[x] \in AnyEntry
          /\ pairing'[x] \in AnyEntry
          /\ uses[x] \in Nat /\ uses'[x] \in Nat
      BY <1>2, <2>1 DEF CodeEntry, Entry, AnyEntry
    <3>3. /\ Unused(pairing[x], uses[x])
          /\ Moves(pairing[x], pairing'[x], uses[x], uses'[x], PairingTTL)
      BY <1>3, <2>1 DEF AllUnused, CodesMove
    <3> HIDE DEF Life
    <3> QED
      BY <3>1, <3>2, <3>3
  <2>2. CASE x \notin PairingCodes
    <3>1. /\ EntryOf(x) = token[x] /\ EntryOf(x)' = token'[x] /\ Life[x] = SyncTTL
          /\ SyncTTL \in Nat /\ x \in Tokens
      BY <2>2 DEF EntryOf
    <3>2. /\ token[x] \in AnyEntry /\ token'[x] \in AnyEntry
          /\ uses[x] \in Nat /\ uses'[x] \in Nat
      BY <1>2, <3>1 DEF TokenEntry, Entry, AnyEntry
    <3>3. /\ Unused(token[x], uses[x])
          /\ Moves(token[x], token'[x], uses[x], uses'[x], SyncTTL)
      BY <1>3, <3>1 DEF AllUnused, TokensMove
    <3> HIDE DEF Life
    <3> QED
      BY <3>1, <3>2, <3>3
  <2> QED
    BY <2>1, <2>2
<1>5. ASSUME NEW x \in PairingCodes \cup Tokens
      PROVE \/ syncTickets'[x] = syncTickets[x]
            \/ SyncTickets!Step(x, syncTickets'[x])
  <2>1. PICK life \in Nat, e \in AnyEntry, f \in AnyEntry,
             u \in Nat, v \in Nat :
                /\ life = Life[x] /\ e = EntryOf(x) /\ f = EntryOf(x)'
                /\ u = uses[x] /\ v = uses'[x]
                /\ Unused(e, u) /\ Moves(e, f, u, v, life)
    BY <1>4
  <2> DEFINE t == syncTickets[x]
             w == syncTickets'[x]
  <2>2. /\ t = [phase |-> PhaseOf(e.state), deadline |-> e.deadline, uses |-> u]
        /\ w = [phase |-> PhaseOf(f.state), deadline |-> f.deadline, uses |-> v]
    BY <2>1 DEF syncTickets
  <2>3. TicketMoves(t, w, Life[x])
    BY <1>1, <2>1, <2>2, EntryIsTicket
  <2> HIDE DEF t, w
  <2> QED
    BY <2>3 DEF TicketMoves, SyncTickets!Step, SyncTickets!Open, SyncTickets!Use, SyncTickets!Take,
       SyncTickets!UseTaken, SyncTickets!UseUp, SyncTickets!GiveBack, SyncTickets!Vanish,
       SyncTickets!InTime, t, w
<1>6. DOMAIN syncTickets' = PairingCodes \cup Tokens
  BY DEF syncTickets
<1> QED
  BY <1>1, <1>5, <1>6 DEF SyncTickets!Next

\* Codes and tokens are used once, and only before their deadline.
THEOREM SyncTicketsUsedOnce == SyncSpec => SyncTicketsOnce
<1>1. SyncInit => SyncTickets!Init
  <2> SUFFICES ASSUME SyncInit PROVE SyncTickets!Init
    OBVIOUS
  <2>1. ASSUME NEW x \in PairingCodes \cup Tokens
        PROVE  [phase |-> PhaseOf(EntryOf(x).state), deadline |-> EntryOf(x).deadline,
                uses |-> uses[x]] = SyncTickets!New
    <3>1. EntryOf(x) = [state |-> "new", deadline |-> 0] /\ uses[x] = 0
      BY DEF SyncInit, EntryOf
    <3> QED
      BY <3>1 DEF SyncTickets!New, PhaseOf
  <2> QED
    BY <2>1 DEF SyncTickets!Init, syncTickets
<1> QED
  BY <1>1, SyncInvariant, SyncTicketStep, PTL
     DEF SyncSpec, SyncTicketsOnce, SyncTickets!Spec
HIDE SyncAssumption
=============================================================================
