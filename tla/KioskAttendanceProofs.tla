------------------------ MODULE KioskAttendanceProofs ------------------------
(***************************************************************************)
(* Type correctness of KioskAttendance, serializability of concurrent      *)
(* performs and the membership gate, for every number of threads,          *)
(* participants, records and ticks, both reset modes and every Group       *)
(* configuration.                                                          *)
(*                                                                         *)
(* SerializedLegality is not inductive: that a record fits the history     *)
(* before it holds because the request that inserts it has held the row    *)
(* lock since it read that history.  LockInv says which requests hold      *)
(* their lock, ReadInv what they know about it.                            *)
(***************************************************************************)
EXTENDS KioskAttendance, WellFoundedInduction, FiniteSetTheorems, SequenceTheorems, TLAPS

(* Facts about the attendance rules: in a history with bounded ids and     *)
(* times the newest entry exists, so every reset boundary is a number.     *)
Entry == [id : Nat, action : ActionTypes, at : Nat]

(* A history with distinct ids up to n, none dated after time c.           *)
BoundedHistory(E, n, c) ==
  /\ E \subseteq Entry
  /\ \A e \in E : e.id <= n /\ e.at <= c
  /\ \A e, f \in E : e.id = f.id => e = f

(* A nonempty set of naturals has a least element.                         *)
LEMMA LeastNat ==
  ASSUME NEW T, T \subseteq Nat, T # {}
  PROVE  \E m \in T : \A k \in T : m <= k
<1>1. PICK m \in T : \A k \in T : ~ (<<k, m>> \in OpToRel(<, Nat))
  BY WFMin, NatLessThanWellFounded
<1>2. ASSUME NEW k \in T
      PROVE  m <= k
  <2>1. <<k, m>> \in Nat \X Nat
    OBVIOUS
  <2>2. k < m => <<k, m>> \in OpToRel(<, Nat)
    BY <2>1, Zenon DEF OpToRel
  <2>3. ~(k < m)
    BY <1>1, <2>2
  <2>4. k \in Nat /\ m \in Nat
    OBVIOUS
  <2>5. QED
    BY <2>3, <2>4
<1>3. QED
  BY <1>2

(* The newest entry of a nonempty bounded history exists.                  *)
LEMMA NewestExists ==
  ASSUME NEW E, NEW n \in Nat, NEW c \in Nat, BoundedHistory(E, n, c), E # {}
  PROVE  /\ Newest(E) \in E
         /\ \A f \in E \ {Newest(E)} : IsNewer(Newest(E), f)
<1> DEFINE Ages == {c - e.at : e \in E}
<1>1. \E m \in Ages : \A k \in Ages : m <= k
  <2>1. Ages \subseteq Nat /\ Ages # {}
    BY DEF BoundedHistory, Entry
  <2>2. QED
    BY <2>1, LeastNat
<1>2. PICK d \in E : \A e \in E : c - d.at <= c - e.at
  BY <1>1
<1>3. \A e \in E : e.at <= d.at
  BY <1>2 DEF BoundedHistory, Entry
<1> DEFINE Top == {e \in E : e.at = d.at}
<1> DEFINE Ranks == {n - e.id : e \in Top}
<1>4. \E m \in Ranks : \A k \in Ranks : m <= k
  <2>1. Ranks \subseteq Nat /\ Ranks # {}
    BY DEF BoundedHistory, Entry
  <2>2. QED
    BY <2>1, LeastNat
<1>5. PICK t \in Top : \A e \in Top : n - t.id <= n - e.id
  BY <1>4
<1>6. \A f \in E \ {t} : IsNewer(t, f)
  <2> SUFFICES ASSUME NEW f \in E, f # t
               PROVE  IsNewer(t, f)
    OBVIOUS
  <2>1. CASE f.at = d.at
    <3>1. n - t.id <= n - f.id
      BY <1>5, <2>1
    <3>2. t.id # f.id
      BY DEF BoundedHistory
    <3>3. t.id > f.id
      BY <3>1, <3>2 DEF BoundedHistory, Entry
    <3>4. QED
      BY <2>1, <3>3 DEF IsNewer
  <2>2. CASE f.at # d.at
    BY <1>3, <2>2 DEF IsNewer, BoundedHistory, Entry
  <2>3. QED
    BY <2>1, <2>2
<1>7. t \in E
  OBVIOUS
<1>8. QED
  BY <1>6, <1>7 DEF Newest

(* The Rolling anchor of a nonempty history is a time.                     *)
LEMMA RollingAnchorType ==
  ASSUME NEW E, NEW n \in Nat, NEW c \in Nat, BoundedHistory(E, n, c), E # {}
  PROVE  RollingAnchor(E) \in Nat
<1> DEFINE ins == OfType(E, "check_in")
<1>1. CASE ins # {}
  <2>1. BoundedHistory(ins, n, c)
    BY DEF BoundedHistory, OfType
  <2>2. Newest(ins) \in ins
    BY <1>1, <2>1, NewestExists
  <2>3. Newest(ins).at \in Nat
    BY <2>2 DEF OfType, BoundedHistory, Entry
  <2>4. QED
    BY <1>1, <2>3 DEF RollingAnchor
<1>2. CASE ins = {}
  <2> DEFINE times == {e.at : e \in E}
  <2>1. \E t \in times : \A e \in E : t <= e.at
    <3>1. times \subseteq Nat /\ times # {}
      BY DEF BoundedHistory, Entry
    <3>2. PICK t \in times : \A k \in times : t <= k
      BY <3>1, LeastNat
    <3>3. QED
      BY <3>2
  <2>2. (CHOOSE t \in times : \A e \in E : t <= e.at) \in times
    BY <2>1
  <2>3. (CHOOSE t \in times : \A e \in E : t <= e.at) \in Nat
    BY <2>2 DEF BoundedHistory, Entry
  <2>4. QED
    BY <1>2, <2>3 DEF RollingAnchor
<1>3. QED
  BY <1>1, <1>2

(* Whatever the mode, the effective boundary is an integer.                *)
LEMMA EffectiveBoundaryType ==
  ASSUME NEW E, NEW n \in Nat, NEW c \in Nat, BoundedHistory(E, n, c),
         NEW manual \in Nat, NEW now \in Nat
  PROVE  EffectiveBoundary(E, manual, now) \in Int
<1>1. DailyBoundary(now) \in Int
  <2>1. DailyTime \in Int /\ DayLength \in Nat \ {0}
    BY RulesAssumption
  <2>2. (now - DailyTime) % DayLength \in 0 .. DayLength - 1
    BY <2>1
  <2>3. QED
    BY <2>1, <2>2 DEF DailyBoundary
<1>2. RollingBoundary(E, manual, now) \in Int
  <2> DEFINE scoped == RecordsFrom(E, manual)
  <2>1. BoundedHistory(scoped, n, c)
    BY DEF BoundedHistory, RecordsFrom
  <2>2. scoped # {} => RollingAnchor(scoped) \in Nat
    BY <2>1, RollingAnchorType
  <2>3. RollingDuration \in Nat
    BY RulesAssumption
  <2>4. QED
    BY <2>2, <2>3 DEF RollingBoundary, Later
<1>3. QED
  BY <1>1, <1>2 DEF EffectiveBoundary, Later
-----------------------------------------------------------------------------
(* Division with remainder.                                                *)
LEMMA Quotient ==
  ASSUME NEW x \in Int, NEW L \in Nat \ {0}
  PROVE  /\ x = (L * (x \div L)) + (x % L)
         /\ x \div L \in Int
         /\ x % L \in 0 .. L - 1
OBVIOUS

LEMMA Multiples ==
  ASSUME NEW L \in Nat \ {0}, NEW p \in Int, NEW q \in Int
  PROVE  /\ q < p => L * p - L * q >= L
         /\ q >= p => L * q - L * p >= 0
<1>1. ASSUME q < p
      PROVE  L * p - L * q >= L
  <2>1. p - q >= 1 /\ p - q \in Int
    BY <1>1
  <2>2. \A d \in Int : d >= 1 => L * d >= L
    OBVIOUS
  <2>3. L * (p - q) >= L
    BY <2>1, <2>2
  <2>4. QED
    BY <2>3
<1>2. q >= p => L * q - L * p >= 0
  OBVIOUS
<1>3. QED
  BY <1>1, <1>2

LEMMA NextRemainder ==
  ASSUME NEW x \in Int, NEW L \in Nat \ {0}
  PROVE  (x + 1) % L <= (x % L) + 1
<1> DEFINE y == x + 1
<1> DEFINE p == x \div L
<1> DEFINE q == y \div L
<1> DEFINE r == x % L
<1> DEFINE s == y % L
<1>1. x = L * p + r /\ p \in Int /\ r \in 0 .. L - 1
  BY Quotient
<1>2. y = L * q + s /\ q \in Int /\ s \in 0 .. L - 1
  BY Quotient
<1>3. L * p \in Int /\ L * q \in Int
  BY <1>1, <1>2
<1>4. /\ q < p => L * p - L * q >= L
      /\ q >= p => L * q - L * p >= 0
  BY <1>1, <1>2, Multiples
<1> HIDE DEF p, q, r, s
<1>5. s <= r + 1
  BY <1>1, <1>2, <1>3, <1>4
<1>6. QED
  BY <1>5 DEF s, r

(* The Daily boundary is in the past and never moves back.                 *)
LEMMA DailyMovesOn ==
  ASSUME NEW now \in Nat
  PROVE  /\ DailyBoundary(now) \in Int
         /\ DailyBoundary(now) <= now
         /\ DailyBoundary(now) <= DailyBoundary(now + 1)
<1>1. DailyTime \in Int /\ DayLength \in Nat \ {0}
  BY RulesAssumption
<1>2. PICK x \in Int : x = now - DailyTime
  BY <1>1
<1>3. x % DayLength \in 0 .. DayLength - 1
  BY <1>1, Quotient
<1>4. (x + 1) % DayLength \in 0 .. DayLength - 1
  <2>1. x + 1 \in Int
    OBVIOUS
  <2>2. QED
    BY <1>1, <2>1, Quotient
<1>5. (x + 1) % DayLength <= (x % DayLength) + 1
  BY <1>1, NextRemainder
<1>6. now + 1 - DailyTime = x + 1
  BY <1>1, <1>2
<1>7. DailyBoundary(now + 1) = now + 1 - ((x + 1) % DayLength)
  BY <1>1, <1>6 DEF DailyBoundary
<1>8. DailyBoundary(now) = now - (x % DayLength)
  BY <1>2 DEF DailyBoundary
<1>9. QED
  BY <1>1, <1>3, <1>4, <1>5, <1>7, <1>8

(* The effective boundary is no earlier than Reset now, never in the       *)
(* future of both, and the passing of time only moves it on: a window that *)
(* was left is not entered again.                                          *)
LEMMA BoundaryMovesOn ==
  ASSUME NEW E, NEW n \in Nat, NEW c \in Nat, BoundedHistory(E, n, c),
         NEW manual \in Nat, NEW now \in Nat
  PROVE  /\ EffectiveBoundary(E, manual, now) \in Int
         /\ EffectiveBoundary(E, manual, now) >= manual
         /\ EffectiveBoundary(E, manual, now) <= Later(manual, now)
         /\ EffectiveBoundary(E, manual, now) <= EffectiveBoundary(E, manual, now + 1)
<1>1. /\ EffectiveBoundary(E, manual, now) \in Int
      /\ EffectiveBoundary(E, manual, now + 1) \in Int
  <2>1. now + 1 \in Nat
    OBVIOUS
  <2>2. QED
    BY <2>1, EffectiveBoundaryType
<1>2. CASE ResetMode = "daily"
  BY <1>2, DailyMovesOn DEF EffectiveBoundary, Later
<1>3. CASE ResetMode # "daily"
  <2> DEFINE scoped == RecordsFrom(E, manual)
  <2> DEFINE expires == RollingAnchor(scoped) + RollingDuration
  <2>1. BoundedHistory(scoped, n, c)
    BY DEF BoundedHistory, RecordsFrom
  <2>2. scoped # {} => expires \in Nat
    BY <2>1, RollingAnchorType, RulesAssumption
  <2>3. \A t \in Nat : EffectiveBoundary(E, manual, t) =
          IF scoped = {} \/ t < expires THEN manual ELSE Later(manual, expires)
    BY <1>3 DEF EffectiveBoundary, RollingBoundary
  <2> HIDE DEF scoped, expires
  <2>4. QED
    BY <1>1, <2>2, <2>3 DEF Later
<1>4. QED
  BY <1>2, <1>3
-----------------------------------------------------------------------------
(* The newest entry is no older than any other.                            *)
LEMMA NewestIsLatest ==
  ASSUME NEW E, NEW n \in Nat, NEW c \in Nat, BoundedHistory(E, n, c), NEW e \in E
  PROVE  Newest(E) \in E /\ e.at <= Newest(E).at
<1>1. Newest(E) \in E /\ \A f \in E \ {Newest(E)} : IsNewer(Newest(E), f)
  BY NewestExists
<1>2. \A f \in E : f.at \in Nat
  BY DEF BoundedHistory, Entry
<1>3. QED
  BY <1>1, <1>2 DEF IsNewer

(* Checked in means: some check-in of the window is newer than each of its *)
(* check-outs.                                                             *)
LEMMA Presence ==
  ASSUME NEW W, NEW n \in Nat, NEW c \in Nat, BoundedHistory(W, n, c)
  PROVE  IsCheckedIn(W) <=>
           \E i \in OfType(W, "check_in") : \A o \in OfType(W, "check_out") : IsNewer(i, o)
<1> DEFINE ins  == OfType(W, "check_in")
<1> DEFINE outs == OfType(W, "check_out")
<1>1. BoundedHistory(ins, n, c) /\ BoundedHistory(outs, n, c)
  BY DEF BoundedHistory, OfType
<1>2. \A e \in W : e.at \in Nat /\ e.id \in Nat
  BY DEF BoundedHistory, Entry
<1>3. ins \subseteq W /\ outs \subseteq W
  BY DEF OfType
<1>4. \A a, b, d \in W : IsNewer(a, b) /\ IsNewer(b, d) => IsNewer(a, d)
  BY <1>2 DEF IsNewer
<1>5. IsCheckedIn(W) <=> ins # {} /\ (outs = {} \/ IsNewer(Newest(ins), Newest(outs)))
  BY DEF IsCheckedIn, LastIsNewer
<1> HIDE DEF ins, outs
<1>6. ASSUME IsCheckedIn(W)
      PROVE  \E i \in ins : \A o \in outs : IsNewer(i, o)
  <2>1. Newest(ins) \in ins
    BY <1>1, <1>5, <1>6, NewestExists
  <2>2. ASSUME NEW o \in outs
        PROVE  IsNewer(Newest(ins), o)
    <3>1. /\ Newest(outs) \in outs
          /\ o # Newest(outs) => IsNewer(Newest(outs), o)
      BY <1>1, NewestExists
    <3>2. IsNewer(Newest(ins), Newest(outs))
      BY <1>5, <1>6
    <3>3. QED
      BY <1>3, <1>4, <2>1, <3>1, <3>2
  <2>3. QED
    BY <2>1, <2>2
<1>7. ASSUME NEW i \in ins, \A o \in outs : IsNewer(i, o)
      PROVE  IsCheckedIn(W)
  <2>1. /\ Newest(ins) \in ins
        /\ i # Newest(ins) => IsNewer(Newest(ins), i)
    BY <1>1, NewestExists
  <2>2. ASSUME outs # {}
        PROVE  IsNewer(Newest(ins), Newest(outs))
    <3>1. Newest(outs) \in outs
      BY <1>1, <2>2, NewestExists
    <3>2. QED
      BY <1>3, <1>4, <1>7, <2>1, <3>1
  <2>3. QED
    BY <1>5, <2>2
<1>8. QED
  BY <1>6, <1>7 DEF ins, outs

(* With more records, none of them a check-in, and a later boundary nobody *)
(* becomes checked in.                                                     *)
LEMMA PresenceShrinks ==
  ASSUME NEW E, NEW F, NEW n \in Nat, NEW c \in Nat,
         E \subseteq F, BoundedHistory(F, n, c),
         OfType(F, "check_in") \subseteq E,
         NEW b \in Int, NEW d \in Int, b <= d,
         IsCheckedIn(RecordsFrom(F, d))
  PROVE  IsCheckedIn(RecordsFrom(E, b))
<1>1. /\ BoundedHistory(RecordsFrom(F, d), n, c)
      /\ BoundedHistory(RecordsFrom(E, b), n, c)
  BY DEF BoundedHistory, RecordsFrom
<1>2. PICK i \in OfType(RecordsFrom(F, d), "check_in") :
        \A o \in OfType(RecordsFrom(F, d), "check_out") : IsNewer(i, o)
  BY <1>1, Presence
<1>3. \A e \in F : e.at \in Nat
  BY DEF BoundedHistory, Entry
<1>4. i \in F /\ i.action = "check_in" /\ i.at >= d
  BY <1>2 DEF OfType, RecordsFrom
<1>5. i \in OfType(RecordsFrom(E, b), "check_in")
  BY <1>3, <1>4 DEF OfType, RecordsFrom
<1>6. ASSUME NEW o \in OfType(RecordsFrom(E, b), "check_out")
      PROVE  IsNewer(i, o)
  <2>1. o \in F /\ o.action = "check_out"
    BY DEF OfType, RecordsFrom
  <2>2. CASE o.at >= d
    BY <1>2, <2>1, <2>2 DEF OfType, RecordsFrom
  <2>3. CASE ~(o.at >= d)
    BY <1>3, <1>4, <2>1, <2>3 DEF IsNewer
  <2>4. QED
    BY <2>2, <2>3
<1>7. QED
  BY <1>1, <1>5, <1>6, Presence

(* In Rolling mode a window with somebody checked in ends before their     *)
(* newest check-in is as old as the duration.                              *)
LEMMA PresenceExpires ==
  ASSUME ResetMode = "rolling",
         NEW E, NEW n \in Nat, NEW c \in Nat, BoundedHistory(E, n, c),
         NEW manual \in Nat, NEW now \in Nat,
         IsCheckedIn(RecordsFrom(E, EffectiveBoundary(E, manual, now)))
  PROVE  now < Newest(OfType(E, "check_in")).at + RollingDuration
<1> DEFINE b == EffectiveBoundary(E, manual, now)
<1> DEFINE scoped == RecordsFrom(E, manual)
<1> DEFINE ins == OfType(scoped, "check_in")
<1>1. b \in Int /\ b >= manual
  BY BoundaryMovesOn
<1>2. PICK i \in E : i.action = "check_in" /\ i.at >= b
  <2>1. OfType(RecordsFrom(E, b), "check_in") # {}
    BY DEF IsCheckedIn, LastIsNewer
  <2>2. QED
    BY <2>1 DEF OfType, RecordsFrom
<1>3. \A e \in E : e.at \in Nat
  BY DEF BoundedHistory, Entry
<1>4. i \in scoped /\ i \in ins
  BY <1>1, <1>2, <1>3 DEF RecordsFrom, OfType
<1>5. BoundedHistory(ins, n, c) /\ BoundedHistory(OfType(E, "check_in"), n, c)
  BY DEF BoundedHistory, RecordsFrom, OfType
<1>6. Newest(ins) \in ins /\ i.at <= Newest(ins).at
  BY <1>4, <1>5, NewestIsLatest
<1>7. ins \subseteq OfType(E, "check_in") /\ ins \subseteq E
  BY DEF RecordsFrom, OfType
<1>8. Newest(ins).at <= Newest(OfType(E, "check_in")).at
  BY <1>5, <1>6, <1>7, NewestIsLatest
<1>9. Newest(OfType(E, "check_in")).at \in Nat
  <2>1. Newest(OfType(E, "check_in")) \in OfType(E, "check_in")
    BY <1>5, <1>6, <1>7, NewestIsLatest
  <2>2. QED
    BY <1>3, <2>1 DEF OfType
<1>10. RollingAnchor(scoped) = Newest(ins).at
  BY <1>4 DEF RollingAnchor
<1>11. RollingDuration \in Nat \ {0} /\ Newest(ins).at \in Nat /\ i.at \in Nat
  BY <1>2, <1>3, <1>6, <1>7, RulesAssumption
<1>12. b = IF now < Newest(ins).at + RollingDuration THEN manual
           ELSE Later(manual, Newest(ins).at + RollingDuration)
  BY <1>4, <1>10 DEF EffectiveBoundary, RollingBoundary
<1> HIDE DEF b, scoped, ins
<1>13. now < Newest(ins).at + RollingDuration
  BY <1>1, <1>2, <1>6, <1>11, <1>12 DEF Later
<1>14. QED
  BY <1>8, <1>9, <1>11, <1>13

(* A record that is no check-in does not move the boundary back under      *)
(* somebody who is checked in.                                             *)
LEMMA BoundaryWithRecord ==
  ASSUME NEW E, NEW F, NEW n \in Nat, NEW c \in Nat,
         E \subseteq F, BoundedHistory(F, n, c),
         OfType(F, "check_in") \subseteq E,
         NEW manual \in Nat, NEW now \in Nat,
         IsCheckedIn(RecordsFrom(F, EffectiveBoundary(F, manual, now)))
  PROVE  EffectiveBoundary(E, manual, now) = EffectiveBoundary(F, manual, now)
<1>1. CASE ResetMode = "daily"
  BY <1>1 DEF EffectiveBoundary
<1>2. CASE ResetMode # "daily"
  <2> DEFINE b == EffectiveBoundary(F, manual, now)
  <2>1. b \in Int /\ b >= manual
    BY BoundaryMovesOn
  <2>2. PICK i \in F : i.action = "check_in" /\ i.at >= b
    <3>1. OfType(RecordsFrom(F, b), "check_in") # {}
      BY DEF IsCheckedIn, LastIsNewer
    <3>2. QED
      BY <3>1 DEF OfType, RecordsFrom
  <2>3. i \in E /\ i.at >= manual
    <3>1. i.at \in Nat
      BY DEF BoundedHistory, Entry
    <3>2. QED
      BY <2>1, <2>2, <3>1 DEF OfType
  <2>4. OfType(RecordsFrom(E, manual), "check_in") = OfType(RecordsFrom(F, manual), "check_in")
    BY DEF OfType, RecordsFrom
  <2>5. i \in OfType(RecordsFrom(E, manual), "check_in")
    BY <2>2, <2>3 DEF OfType, RecordsFrom
  <2>6. RecordsFrom(E, manual) # {} /\ RecordsFrom(F, manual) # {}
    BY <2>3 DEF RecordsFrom
  <2>7. RollingAnchor(RecordsFrom(E, manual)) = RollingAnchor(RecordsFrom(F, manual))
    BY <2>4, <2>5 DEF RollingAnchor
  <2>8. QED
    BY <1>2, <2>6, <2>7 DEF EffectiveBoundary, RollingBoundary
<1>3. QED
  BY <1>1, <1>2
-----------------------------------------------------------------------------
(* The threads of the kiosk, their locks and what they know.               *)
Holding == {"locked", "decided"}

(* A request between select_for_update and commit holds its row lock.      *)
LockInv ==
  \A w \in Workers : request[w].pc \in Holding => rowLock[request[w].who] = w

(* What a holder of the lock knows stays true: a membership is still       *)
(* active, and an action found valid is valid in the current history.      *)
ReadInv ==
  \A w \in Workers :
    /\ request[w].pc \in Holding /\ request[w].who \in Members
         => rowActive[request[w].who]
    /\ request[w].pc = "decided"
         => request[w].action \in
              ValidActions(AttendanceState(OwnHistory(request[w].who), request[w].window))

(* Nothing is dated after the present.                                     *)
TimeInv ==
  /\ \A i \in 1 .. Len(records) : records[i].at <= clock
  /\ \A w \in Workers : request[w].at <= clock

IInv == TypeOK /\ TimeInv /\ LockInv /\ ReadInv /\ SerializedLegality
-----------------------------------------------------------------------------
(* The history of p up to n does not depend on later records.              *)
LEMMA HistoryPrefix ==
  ASSUME NEW S, NEW rs \in Seq(S), NEW r \in S, NEW p, NEW n \in 0 .. Len(rs)
  PROVE  History(Append(rs, r), p, n) = History(rs, p, n)
<1>1. \A k \in 1 .. n : Append(rs, r)[k] = rs[k]
  OBVIOUS
<1>2. QED
  BY <1>1 DEF History

(* A record of somebody else does not change the history of p.             *)
LEMMA HistoryOfOthers ==
  ASSUME NEW S, NEW rs \in Seq(S), NEW r \in S, NEW p, r.who # p
  PROVE  History(Append(rs, r), p, Len(rs) + 1) = History(rs, p, Len(rs))
<1>1. \A k \in 1 .. Len(rs) : Append(rs, r)[k] = rs[k]
  OBVIOUS
<1>2. Append(rs, r)[Len(rs) + 1] = r
  OBVIOUS
<1>3. {k \in 1 .. Len(rs) + 1 : Append(rs, r)[k].who = p}
        = {k \in 1 .. Len(rs) : rs[k].who = p}
  BY <1>1, <1>2
<1>4. QED
  BY <1>1, <1>3 DEF History

(* Every record has its type.                                              *)
LEMMA RecordsTyped ==
  ASSUME TypeOK
  PROVE  \A k \in 1 .. Len(records) :
           records[k] \in [who : Participants, action : ActionTypes, at : Nat \ {0}]
<1> DEFINE Typed == [who : Participants, action : ActionTypes, at : Nat \ {0}]
<1>1. records \in Seq(Typed)
  BY DEF TypeOK
<1> HIDE DEF Typed
<1>2. \A k \in 1 .. Len(records) : records[k] \in Typed
  BY <1>1, ElementOfSeq
<1>3. QED
  BY <1>2 DEF Typed

(* A history is bounded by the records and the clock.                      *)
LEMMA HistoryBounded ==
  ASSUME NEW rs, NEW n \in Nat, NEW c \in Nat, NEW p,
         \A k \in 1 .. n :
           /\ rs[k] \in [who : Participants, action : ActionTypes, at : Nat \ {0}]
           /\ rs[k].at <= c
  PROVE  BoundedHistory(History(rs, p, n), n, c)
<1>1. History(rs, p, n) \subseteq Entry
  BY DEF History, Entry
<1>2. QED
  BY <1>1 DEF History, BoundedHistory

LEMMA OwnHistoryBounded ==
  ASSUME TypeOK, TimeInv, NEW p
  PROVE  BoundedHistory(OwnHistory(p), Len(records), clock)
BY RecordsTyped, HistoryBounded DEF OwnHistory, TimeInv, TypeOK

LEMMA InitIInv == Init => IInv
<1> SUFFICES ASSUME Init PROVE IInv
  OBVIOUS
<1>1. TypeOK
  BY KioskAssumption DEF Init, TypeOK, RequestType, Idle, InFlight, NoBoundary
<1>2. TimeInv /\ LockInv /\ ReadInv /\ SerializedLegality
  BY DEF Init, TimeInv, LockInv, ReadInv, SerializedLegality, Idle, Holding
<1>3. QED
  BY <1>1, <1>2 DEF IInv

-----------------------------------------------------------------------------
(* A thread other than w keeps its request, w gets a request of the type.  *)
LEMMA RequestStep ==
  ASSUME TypeOK, NEW w \in Workers, NEW r \in RequestType,
         request' = [request EXCEPT ![w] = r]
  PROVE  /\ request' \in [Workers -> RequestType]
         /\ request'[w] = r
         /\ \A v \in Workers : v # w => request'[v] = request[v]
BY DEF TypeOK

LEMMA IdleType == Idle \in RequestType
BY DEF Idle, RequestType, NoBoundary

(* The steps that only move the request of one thread forward.             *)
LEMMA AdmitInv ==
  ASSUME IInv, NEW w \in Workers, NEW p \in Participants, NEW a \in ActionTypes,
         Admit(w, p, a)
  PROVE  IInv'
<1> DEFINE r == [request[w] EXCEPT !.pc = "admitted", !.who = p, !.action = a]
<1>1. r \in RequestType /\ request' = [request EXCEPT ![w] = r]
  BY DEF IInv, TypeOK, Admit, RequestType
<1>2. UNCHANGED <<clock, records, outbox, rowLock, windowOf, manualResetAt,
                  groupActive, rowActive, memberActive, ownerSteps>>
  BY DEF Admit, ownerVars
<1>3. /\ request' \in [Workers -> RequestType]
      /\ request'[w] = r
      /\ \A v \in Workers : v # w => request'[v] = request[v]
  BY <1>1, RequestStep DEF IInv
<1>4. r.pc = "admitted" /\ r.who = p /\ r.action = a /\ r.at = request[w].at
  BY DEF IInv, TypeOK, RequestType
<1>5. p # NoOne /\ a # "none"
  BY KioskAssumption DEF Participants, ActionTypes
<1>6. TypeOK'
  BY <1>2, <1>3, <1>4, <1>5 DEF IInv, TypeOK, InFlight
<1>7. TimeInv'
  BY <1>2, <1>3, <1>4 DEF IInv, TimeInv
<1>8. LockInv' /\ ReadInv'
  BY <1>2, <1>3, <1>4 DEF IInv, LockInv, ReadInv, Holding, OwnHistory
<1>9. SerializedLegality'
  BY <1>2 DEF IInv, SerializedLegality
<1>10. QED
  BY <1>6, <1>7, <1>8, <1>9 DEF IInv

LEMMA StampInv ==
  ASSUME IInv, NEW w \in Workers, Stamp(w)
  PROVE  IInv'
<1> DEFINE r == [request[w] EXCEPT !.pc = "stamped", !.at = clock]
<1>1. r \in RequestType /\ request' = [request EXCEPT ![w] = r]
  BY DEF IInv, TypeOK, Stamp, RequestType
<1>2. UNCHANGED <<clock, records, outbox, rowLock, windowOf, manualResetAt,
                  groupActive, rowActive, memberActive, ownerSteps>>
  BY DEF Stamp, ownerVars
<1>3. /\ request' \in [Workers -> RequestType]
      /\ request'[w] = r
      /\ \A v \in Workers : v # w => request'[v] = request[v]
  BY <1>1, RequestStep DEF IInv
<1>4. r.pc = "stamped" /\ r.who = request[w].who /\ r.action = request[w].action /\ r.at = clock
  BY DEF IInv, TypeOK, RequestType
<1>5. r.who # NoOne /\ r.action # "none" /\ r.at > 0
  BY <1>4 DEF IInv, TypeOK, InFlight, Stamp
<1>6. TypeOK'
  BY <1>2, <1>3, <1>5 DEF IInv, TypeOK, InFlight
<1>7. TimeInv'
  <2>1. clock <= clock
    BY DEF IInv, TypeOK
  <2>2. request'[w].at <= clock'
    BY <1>2, <1>3, <1>4, <2>1
  <2>3. QED
    BY <1>2, <1>3, <2>2 DEF IInv, TimeInv
<1>8. LockInv' /\ ReadInv'
  BY <1>2, <1>3, <1>4 DEF IInv, LockInv, ReadInv, Holding, OwnHistory
<1>9. SerializedLegality'
  BY <1>2 DEF IInv, SerializedLegality
<1>10. QED
  BY <1>6, <1>7, <1>8, <1>9 DEF IInv

(* A thread that gives up: its request is idle and every row lock it held  *)
(* is free; other threads keep theirs.                                     *)
LEMMA GiveUpInv ==
  ASSUME IInv, NEW w \in Workers,
         request' = [request EXCEPT ![w] = Idle],
         rowLock' \in [Participants -> Workers \cup {NoWorker}],
         \A p \in Participants : rowLock[p] # w => rowLock'[p] = rowLock[p],
         UNCHANGED <<clock, records, outbox, windowOf, ownerVars>>
  PROVE  IInv'
<1>1. /\ request' \in [Workers -> RequestType]
      /\ request'[w] = Idle
      /\ \A v \in Workers : v # w => request'[v] = request[v]
  BY IdleType, RequestStep DEF IInv
<1>2. UNCHANGED <<clock, records, outbox, windowOf, manualResetAt,
                  groupActive, rowActive, memberActive, ownerSteps>>
  BY DEF ownerVars
<1>3. Idle.pc = "idle" /\ Idle.at = 0
  BY DEF Idle
<1>4. TypeOK'
  BY <1>1, <1>2, <1>3 DEF IInv, TypeOK, InFlight
<1>5. TimeInv'
  BY <1>1, <1>2, <1>3 DEF IInv, TimeInv, TypeOK
<1>6. LockInv'
  <2> SUFFICES ASSUME NEW v \in Workers, request'[v].pc \in Holding
               PROVE  rowLock'[request'[v].who] = v
    BY DEF LockInv
  <2>1. v # w /\ request'[v] = request[v]
    BY <1>1, <1>3 DEF Holding
  <2>2. request[v].who \in Participants
    BY <2>1 DEF IInv, TypeOK, InFlight, RequestType, Holding
  <2>3. rowLock[request[v].who] = v
    BY <2>1 DEF IInv, LockInv
  <2>4. QED
    BY <2>1, <2>2, <2>3
<1>7. ReadInv'
  BY <1>1, <1>2, <1>3 DEF IInv, ReadInv, Holding, OwnHistory
<1>8. SerializedLegality'
  BY <1>2 DEF IInv, SerializedLegality
<1>9. QED
  BY <1>4, <1>5, <1>6, <1>7, <1>8 DEF IInv

LEMMA LockRowInv ==
  ASSUME IInv, NEW w \in Workers, LockRow(w)
  PROVE  IInv'
<1> DEFINE p == request[w].who
<1>1. p \in Participants /\ rowLock[p] = NoWorker /\ w # NoWorker
  BY KioskAssumption DEF IInv, TypeOK, InFlight, RequestType, LockRow
<1>2. CASE ~StillOperational(p)
  <2>1. request' = [request EXCEPT ![w] = Idle] /\ rowLock' = rowLock
    BY <1>2 DEF LockRow
  <2>2. rowLock' \in [Participants -> Workers \cup {NoWorker}]
    BY <2>1 DEF IInv, TypeOK
  <2>3. UNCHANGED <<clock, records, outbox, windowOf, ownerVars>>
    BY DEF LockRow
  <2>4. QED
    BY <2>1, <2>2, <2>3, GiveUpInv
<1>3. CASE StillOperational(p)
  <2> DEFINE r == [request[w] EXCEPT !.pc = "locked"]
  <2>1. r \in RequestType /\ request' = [request EXCEPT ![w] = r]
    BY ZenonT(60), <1>3 DEF IInv, TypeOK, LockRow, RequestType
  <2>2. /\ UNCHANGED <<clock, records, outbox, windowOf, manualResetAt,
                       groupActive, rowActive, memberActive, ownerSteps>>
        /\ rowLock' = [rowLock EXCEPT ![p] = w]
    BY <1>3 DEF LockRow, ownerVars
  <2>3. /\ request' \in [Workers -> RequestType]
        /\ request'[w] = r
        /\ \A v \in Workers : v # w => request'[v] = request[v]
    BY <2>1, RequestStep DEF IInv
  <2>4. /\ r.pc = "locked" /\ r.who = p
        /\ r.action = request[w].action /\ r.at = request[w].at
    BY DEF IInv, TypeOK, RequestType
  <2>5. p # NoOne /\ r.action # "none" /\ r.at > 0
    BY <2>4 DEF IInv, TypeOK, InFlight, LockRow
  <2>6. TypeOK'
    BY ZenonT(60), <1>1, <2>2, <2>3, <2>4, <2>5 DEF IInv, TypeOK, InFlight
  <2>7. TimeInv'
    BY <2>2, <2>3, <2>4 DEF IInv, TimeInv
  <2>8. LockInv'
    <3> SUFFICES ASSUME NEW v \in Workers, request'[v].pc \in Holding
                 PROVE  rowLock'[request'[v].who] = v
      BY DEF LockInv
    <3>1. CASE v = w
      BY ZenonT(60), <1>1, <2>2, <2>3, <2>4, <3>1 DEF IInv, TypeOK
    <3>2. CASE v # w
      <4>1. rowLock[request[v].who] = v /\ request[v].who \in Participants
        BY <2>3, <3>2 DEF IInv, LockInv, TypeOK, InFlight, RequestType, Holding
      <4>2. request[v].who # p
        BY <1>1, <4>1, KioskAssumption
      <4>3. QED
        BY <2>2, <2>3, <3>2, <4>1, <4>2 DEF IInv, TypeOK
    <3>3. QED
      BY <3>1, <3>2
  <2>9. ReadInv'
    BY <1>3, <2>2, <2>3, <2>4 DEF IInv, ReadInv, Holding, OwnHistory, StillOperational
  <2>10. SerializedLegality'
    BY <2>2 DEF IInv, SerializedLegality
  <2>11. QED
    BY <2>6, <2>7, <2>8, <2>9, <2>10 DEF IInv
<1>4. QED
  BY <1>2, <1>3

LEMMA ReadStateInv ==
  ASSUME IInv, NEW w \in Workers, ReadState(w)
  PROVE  IInv'
<1> DEFINE p == request[w].who
<1> DEFINE b == EffectiveBoundary(OwnHistory(p), manualResetAt, request[w].at)
<1> DEFINE valid == request[w].action \in ValidActions(AttendanceState(OwnHistory(p), b))
<1>1. p \in Participants /\ request[w].pc = "locked" /\ rowLock[p] = w
  BY DEF IInv, TypeOK, InFlight, RequestType, ReadState, LockInv, Holding
<1>2. UNCHANGED <<clock, records, outbox, windowOf, ownerVars>>
  BY DEF ReadState
<1>3. CASE ~valid
  <2>1. /\ request' = [request EXCEPT ![w] = Idle]
        /\ rowLock' = [rowLock EXCEPT ![p] = NoWorker]
    BY <1>3 DEF ReadState, JudgedAt
  <2>2. rowLock' \in [Participants -> Workers \cup {NoWorker}]
    BY <2>1 DEF IInv, TypeOK
  <2>3. \A q \in Participants : rowLock[q] # w => rowLock'[q] = rowLock[q]
    BY <1>1, <2>1 DEF IInv, TypeOK
  <2>4. QED
    BY <1>2, <2>1, <2>2, <2>3, GiveUpInv
<1>4. CASE valid
  <2> DEFINE r == [request[w] EXCEPT !.pc = "decided", !.window = b]
  <2>1. b \in Int
    <3>1. BoundedHistory(OwnHistory(p), Len(records), clock)
      BY OwnHistoryBounded DEF IInv
    <3>2. /\ Len(records) \in Nat /\ clock \in Nat
          /\ manualResetAt \in Nat /\ request[w].at \in Nat
      BY DEF IInv, TypeOK, RequestType
    <3>3. QED
      BY <3>1, <3>2, EffectiveBoundaryType
  <2>2. request' = [request EXCEPT ![w] = r] /\ rowLock' = rowLock
    BY <1>4 DEF ReadState, JudgedAt
  <2>3. /\ r \in RequestType
        /\ r.pc = "decided" /\ r.who = p /\ r.window = b
        /\ r.action = request[w].action /\ r.at = request[w].at
    BY ZenonT(60), <2>1 DEF IInv, TypeOK, RequestType
  <2> HIDE DEF b, valid, r
  <2>4. /\ request' \in [Workers -> RequestType]
        /\ request'[w] = r
        /\ \A v \in Workers : v # w => request'[v] = request[v]
    BY <2>2, <2>3, RequestStep DEF IInv
  <2>5. UNCHANGED <<clock, records, outbox, windowOf, manualResetAt,
                    groupActive, rowActive, memberActive, ownerSteps>>
    BY <1>2 DEF ownerVars
  <2>6. p # NoOne /\ r.action # "none" /\ r.at > 0
    BY <1>1, <2>3 DEF IInv, TypeOK, InFlight
  <2>7. TypeOK'
    BY <2>2, <2>3, <2>4, <2>5, <2>6 DEF IInv, TypeOK, InFlight
  <2>8. TimeInv'
    BY <2>3, <2>4, <2>5 DEF IInv, TimeInv
  <2>9. LockInv'
    BY <1>1, <2>2, <2>3, <2>4 DEF IInv, LockInv, Holding
  <2>10. ReadInv'
    <3> SUFFICES ASSUME NEW v \in Workers
        PROVE /\ request'[v].pc \in Holding /\ request'[v].who \in Members
                   => rowActive'[request'[v].who]
              /\ request'[v].pc = "decided" =>
                   request'[v].action \in
                     ValidActions(AttendanceState(
                       History(records', request'[v].who, Len(records')),
                       request'[v].window))
      BY DEF ReadInv, OwnHistory
    <3>1. CASE v = w
      BY <1>1, <1>4, <2>3, <2>4, <2>5, <3>1
      DEF IInv, ReadInv, Holding, OwnHistory, valid
    <3>2. CASE v # w
      BY <2>4, <2>5, <3>2 DEF IInv, ReadInv, Holding, OwnHistory
    <3>3. QED
      BY <3>1, <3>2
  <2>11. SerializedLegality'
    BY <2>5 DEF IInv, SerializedLegality
  <2>12. QED
    BY <2>7, <2>8, <2>9, <2>10, <2>11 DEF IInv
<1>5. QED
  BY <1>3, <1>4

LEMMA AbortInv ==
  ASSUME IInv, NEW w \in Workers, Abort(w)
  PROVE  IInv'
<1>1. rowLock' \in [Participants -> Workers \cup {NoWorker}]
  BY DEF IInv, TypeOK, Abort
<1>2. \A p \in Participants : rowLock[p] # w => rowLock'[p] = rowLock[p]
  BY DEF Abort
<1>3. QED
  BY <1>1, <1>2, GiveUpInv DEF Abort

LEMMA CommitInv ==
  ASSUME IInv, NEW w \in Workers, Commit(w)
  PROVE  IInv'
<1> DEFINE p == request[w].who
<1> DEFINE e == [who |-> p, action |-> request[w].action, at |-> request[w].at]
<1> DEFINE RecordType == [who : Participants, action : ActionTypes, at : Nat \ {0}]
<1> DEFINE n == Len(records)
<1>1. /\ p \in Participants /\ e \in RecordType /\ e.who = p
      /\ request[w].window \in Int /\ request[w].at <= clock
  <2>1. request[w] \in RequestType /\ request[w].pc = "decided"
    BY DEF IInv, TypeOK, Commit
  <2>2. p # NoOne /\ request[w].action # "none" /\ request[w].at > 0
    BY <2>1 DEF IInv, TypeOK, InFlight
  <2>3. /\ p \in Participants /\ request[w].action \in ActionTypes
        /\ request[w].at \in Nat \ {0} /\ request[w].window \in Int
    BY <2>1, <2>2 DEF RequestType
  <2>4. QED
    BY <2>3 DEF IInv, TimeInv
<1>2. /\ records \in Seq(RecordType) /\ n \in Nat
      /\ windowOf \in Seq(Int) /\ Len(windowOf) = n
  BY DEF IInv, TypeOK
<1>3. /\ records' = Append(records, e)
      /\ windowOf' = Append(windowOf, request[w].window)
      /\ rowLock' = [rowLock EXCEPT ![p] = NoWorker]
      /\ request' = [request EXCEPT ![w] = Idle]
      /\ outbox' \subseteq outbox \cup {n + 1}
      /\ UNCHANGED <<clock, manualResetAt, groupActive, rowActive, memberActive, ownerSteps>>
  BY DEF Commit, ownerVars
<1> HIDE DEF e, RecordType
<1>4. /\ records' \in Seq(RecordType) /\ Len(records') = n + 1
      /\ windowOf' \in Seq(Int) /\ Len(windowOf') = n + 1
  BY <1>1, <1>2, <1>3
<1>5. /\ \A i \in 1 .. n : records'[i] = records[i] /\ windowOf'[i] = windowOf[i]
      /\ records'[n + 1] = e /\ windowOf'[n + 1] = request[w].window
  BY <1>1, <1>2, <1>3
<1>6. /\ request' \in [Workers -> RequestType]
      /\ request'[w] = Idle
      /\ \A v \in Workers : v # w => request'[v] = request[v]
  BY <1>3, IdleType, RequestStep DEF IInv
<1>7. Idle.pc = "idle" /\ Idle.at = 0
  BY DEF Idle
<1>8. request[w].pc = "decided" /\ rowLock[p] = w
  BY DEF Commit, IInv, LockInv, Holding
<1>9. \A v \in Workers : v # w /\ request[v].pc \in Holding =>
        request[v].who \in Participants /\ request[v].who # p
  BY <1>8 DEF IInv, LockInv, TypeOK, InFlight, RequestType, Holding
<1>10. TypeOK'
  <2>1. records' \in Seq([who : Participants, action : ActionTypes, at : Nat \ {0}])
    BY <1>4 DEF RecordType
  <2>2. outbox' \subseteq 1 .. Len(records')
    <3>1. outbox \subseteq 1 .. n
      BY DEF IInv, TypeOK
    <3>2. outbox' \subseteq 1 .. n + 1
      BY <1>2, <1>3, <3>1
    <3>3. QED
      BY <1>4, <3>2
  <2>3. rowLock' \in [Participants -> Workers \cup {NoWorker}]
    BY <1>3 DEF IInv, TypeOK
  <2>4. QED
    BY <1>3, <1>4, <1>6, <1>7, <2>1, <2>2, <2>3 DEF IInv, TypeOK, InFlight
<1>11. TimeInv'
  <2>1. \A i \in 1 .. n + 1 : records'[i].at <= clock
    <3>1. e.at <= clock
      BY <1>1 DEF e
    <3>2. \A i \in 1 .. n + 1 : i \in 1 .. n \/ i = n + 1
      BY <1>2
    <3>3. QED
      BY <1>5, <3>1, <3>2 DEF IInv, TimeInv
  <2>2. \A v \in Workers : request'[v].at <= clock
    <3>1. 0 <= clock
      BY DEF IInv, TypeOK
    <3>2. QED
      BY <1>6, <1>7, <3>1 DEF IInv, TimeInv
  <2>3. QED
    BY <1>3, <1>4, <2>1, <2>2 DEF TimeInv
<1>12. LockInv'
  BY <1>3, <1>6, <1>7, <1>9 DEF IInv, LockInv, TypeOK, Holding
<1>13. ReadInv'
  <2> SUFFICES ASSUME NEW v \in Workers, request'[v].pc \in Holding
      PROVE /\ request'[v].who \in Members => rowActive'[request'[v].who]
            /\ request'[v].pc = "decided" =>
                 request'[v].action \in
                   ValidActions(AttendanceState(
                     History(records', request'[v].who, Len(records')),
                     request'[v].window))
    BY DEF ReadInv, OwnHistory, Holding
  <2>1. v # w /\ request'[v] = request[v]
    BY <1>6, <1>7 DEF Holding
  <2>2. request[v].who # p
    BY <1>9, <2>1
  <2>3. History(records', request[v].who, Len(records')) = History(records, request[v].who, n)
    BY <1>1, <1>2, <1>3, <1>4, <2>2, HistoryOfOthers
  <2>4. QED
    BY <1>3, <2>1, <2>3 DEF IInv, ReadInv, OwnHistory
<1>14. SerializedLegality'
  <2> SUFFICES ASSUME NEW i \in 1 .. n + 1
      PROVE records'[i].action \in ValidActions(AttendanceState(
              History(records', records'[i].who, i - 1), windowOf'[i]))
    BY <1>4 DEF SerializedLegality
  <2>1. CASE i \in 1 .. n
    <3>1. i - 1 \in 0 .. Len(records)
      BY <1>2, <2>1
    <3>2. History(records', records[i].who, i - 1) = History(records, records[i].who, i - 1)
      BY <1>1, <1>2, <1>3, <3>1, HistoryPrefix
    <3>3. QED
      BY <1>5, <2>1, <3>2 DEF IInv, SerializedLegality
  <2>2. CASE i = n + 1
    <3>1. i - 1 = n /\ n \in 0 .. Len(records)
      BY <1>2, <2>2
    <3>2. History(records', p, n) = History(records, p, n)
      BY <1>1, <1>2, <1>3, <3>1, HistoryPrefix
    <3>3. e.action \in ValidActions(AttendanceState(OwnHistory(p), request[w].window))
      BY <1>8 DEF IInv, ReadInv, e
    <3>4. QED
      BY <1>1, <1>5, <2>2, <3>1, <3>2, <3>3 DEF OwnHistory
  <2>3. QED
    BY <1>2, <2>1, <2>2
<1>15. QED
  BY <1>10, <1>11, <1>12, <1>13, <1>14 DEF IInv

(* Owner operations leave requests and history alone; a participation row  *)
(* changes only while nobody holds its lock.                               *)
LEMMA OwnerInv ==
  ASSUME IInv, Owner
  PROVE  IInv'
<1>1. /\ UNCHANGED <<clock, records, outbox, rowLock, request, windowOf>>
      /\ ownerSteps' = ownerSteps + 1
  BY DEF Owner, ResetNow, ArchiveGroup, RestoreGroup, DeactivateRow,
         ReactivateMembership, ToggleMember, OwnerStep
<1>2. /\ manualResetAt' \in Nat /\ groupActive' \in BOOLEAN
      /\ rowActive' \in [Participants -> BOOLEAN]
      /\ memberActive' \in [Members -> BOOLEAN]
  BY DEF Owner, ResetNow, ArchiveGroup, RestoreGroup, DeactivateRow,
         ReactivateMembership, ToggleMember, IInv, TypeOK, Participants
<1>3. \A p \in Participants : rowLock[p] # NoWorker => rowActive'[p] = rowActive[p]
  BY DEF Owner, ResetNow, ArchiveGroup, RestoreGroup, DeactivateRow,
         ReactivateMembership, ToggleMember, IInv, TypeOK, Participants
<1>4. TypeOK'
  BY <1>1, <1>2 DEF IInv, TypeOK, InFlight
<1>5. ReadInv'
  <2> SUFFICES ASSUME NEW v \in Workers, request[v].pc \in Holding
               PROVE  request[v].who \in Members => rowActive'[request[v].who]
    BY <1>1 DEF IInv, ReadInv, OwnHistory
  <2>1. rowLock[request[v].who] # NoWorker
    BY KioskAssumption DEF IInv, LockInv
  <2>2. QED
    BY <1>3, <2>1 DEF IInv, ReadInv, Participants
<1>6. QED
  BY <1>1, <1>4, <1>5 DEF IInv, TimeInv, LockInv, SerializedLegality

LEMMA TickInv ==
  ASSUME IInv, Tick
  PROVE  IInv'
<1>1. /\ UNCHANGED <<records, outbox, rowLock, request, windowOf, manualResetAt,
                     groupActive, rowActive, memberActive, ownerSteps>>
      /\ clock' = clock + 1
  BY DEF Tick, ownerVars
<1>2. TypeOK'
  BY <1>1 DEF IInv, TypeOK, InFlight
<1>3. TimeInv'
  <2>1. \A i \in 1 .. Len(records) : records[i].at \in Nat
    BY RecordsTyped DEF IInv
  <2>2. \A w \in Workers : request[w].at \in Nat
    BY DEF IInv, TypeOK, RequestType
  <2>3. clock \in Nat
    BY DEF IInv, TypeOK
  <2>4. QED
    BY <1>1, <2>1, <2>2, <2>3 DEF IInv, TimeInv
<1>4. QED
  BY <1>1, <1>2, <1>3 DEF IInv, LockInv, ReadInv, SerializedLegality, OwnHistory
-----------------------------------------------------------------------------
LEMMA NextIInv == IInv /\ [Next]_vars => IInv'
<1> SUFFICES ASSUME IInv, [Next]_vars PROVE IInv'
  OBVIOUS
<1>1. CASE UNCHANGED vars
  BY <1>1 DEF vars, IInv, TypeOK, TimeInv, LockInv, ReadInv, SerializedLegality,
              InFlight, OwnHistory
<1>2. ASSUME NEW w \in Workers, Perform(w)
      PROVE  IInv'
  BY <1>2, AdmitInv, StampInv, LockRowInv, ReadStateInv, CommitInv, AbortInv DEF Perform
<1>3. CASE Owner
  BY <1>3, OwnerInv
<1>4. CASE Tick
  BY <1>4, TickInv
<1>5. QED
  BY <1>1, <1>2, <1>3, <1>4 DEF Next

(* The strengthened invariant holds in every reachable state.              *)
THEOREM Invariance == Spec => []IInv
BY InitIInv, NextIInv, PTL DEF Spec

(* Every variable keeps its type, whatever the constants.                  *)
THEOREM TypeCorrect == Spec => []TypeOK
<1>1. IInv => TypeOK
  BY DEF IInv
<1>2. QED
  BY <1>1, Invariance, PTL

(* Every record was valid in the state of the records committed before it  *)
(* (the lock taken at services.py:268 and 293 serializes the performs).    *)
THEOREM Serialized == Spec => []SerializedLegality
<1>1. IInv => SerializedLegality
  BY DEF IInv
<1>2. QED
  BY <1>1, Invariance, PTL

(* A step that commits a record of a membership finds the membership       *)
(* active (services.py:269-273).                                           *)
LEMMA StepGate ==
  ASSUME IInv, [Next]_vars, NEW m \in Members,
         NEW i \in 1 .. Len(records'), i > Len(records), records'[i].who = m
  PROVE  rowActive[m]
<1>1. Len(records) \in Nat
  BY DEF IInv, TypeOK
<1>2. records' # records
  BY <1>1
<1>3. PICK w \in Workers : Commit(w)
  BY <1>2 DEF Next, vars, Perform, Admit, Stamp, LockRow, ReadState, Abort, Owner,
     ResetNow, ArchiveGroup, RestoreGroup, DeactivateRow, ReactivateMembership,
     ToggleMember, OwnerStep, Tick
<1> DEFINE e == [who |-> request[w].who, action |-> request[w].action, at |-> request[w].at]
<1>4. records' = Append(records, e)
  BY <1>3 DEF Commit
<1>5. i = Len(records) + 1 /\ records'[i] = e
  BY <1>1, <1>4 DEF IInv, TypeOK
<1>6. request[w].who = m /\ request[w].pc = "decided"
  BY <1>3, <1>5 DEF Commit
<1>7. QED
  BY <1>6 DEF IInv, ReadInv, Holding

(* Hence no behaviour ever commits a record for an inactive membership.    *)
THEOREM GateHolds == Spec => MembershipGate
<1>1. IInv /\ [Next]_vars =>
        [\A m \in Members :
           (\E i \in 1 .. Len(records') : i > Len(records) /\ records'[i].who = m)
             => rowActive[m]]_vars
  BY StepGate
<1>2. QED
  BY <1>1, Invariance, PTL DEF Spec, MembershipGate
-----------------------------------------------------------------------------
(* Windows.  A boundary beyond the time a request stamped can only be that *)
(* of a Reset now, and manual_reset_at never goes back.                    *)
WindowInv ==
  /\ manualResetAt <= clock
  /\ \A w \in Workers : request[w].pc = "decided" =>
       (request[w].window > request[w].at => request[w].window <= manualResetAt)
  /\ RecordInItsWindow

LEMMA WindowInit == Init => WindowInv
BY DEF Init, WindowInv, RecordInItsWindow, Idle, NoBoundary

(* What a step that commits nothing does to the clock and Reset now.       *)
LEMMA ResetMovesOn ==
  ASSUME IInv, WindowInv, [Next]_vars
  PROVE  /\ manualResetAt' \in Nat /\ clock' \in Nat
         /\ manualResetAt <= manualResetAt' /\ manualResetAt' <= clock'
<1>1. manualResetAt \in Nat /\ clock \in Nat /\ manualResetAt <= clock
  BY DEF IInv, TypeOK, WindowInv
<1>2. manualResetAt' \in {manualResetAt, clock} /\ clock' \in {clock, clock + 1}
  BY DEF Next, Perform, Admit, Stamp, LockRow, ReadState, Commit, Abort, Owner, ResetNow,
     ArchiveGroup, RestoreGroup, DeactivateRow, ReactivateMembership, ToggleMember,
     OwnerStep, Tick, vars, ownerVars
<1>3. QED
  BY <1>1, <1>2

(* A thread's request is decided only by its ReadState.                    *)
LEMMA DecidedBy ==
  ASSUME IInv, [Next]_vars, NEW w \in Workers, request'[w].pc = "decided"
  PROVE  request'[w] = request[w] \/ ReadState(w)
<1>1. CASE UNCHANGED vars
  BY <1>1 DEF vars
<1>2. CASE Owner \/ Tick
  BY <1>2 DEF Owner, ResetNow, ArchiveGroup, RestoreGroup, DeactivateRow,
     ReactivateMembership, ToggleMember, OwnerStep, Tick
<1>3. ASSUME NEW v \in Workers, Perform(v)
      PROVE  request'[w] = request[w] \/ ReadState(w)
  <2>1. CASE v # w
    BY <1>3, <2>1 DEF Perform, Admit, Stamp, LockRow, ReadState, Commit, Abort, IInv, TypeOK
  <2>2. CASE v = w
    <3>1. request \in [Workers -> RequestType] /\ Idle.pc = "idle"
      BY DEF IInv, TypeOK, Idle
    <3>2. ASSUME NEW p \in Participants, NEW a \in ActionTypes, Admit(w, p, a)
          PROVE  FALSE
      BY <3>1, <3>2 DEF Admit, RequestType
    <3>3. CASE Stamp(w)
      BY <3>1, <3>3 DEF Stamp, RequestType
    <3>4. CASE LockRow(w)
      BY <3>1, <3>4 DEF LockRow, RequestType
    <3>5. CASE Commit(w) \/ Abort(w)
      BY <3>1, <3>5 DEF Commit, Abort
    <3>6. QED
      BY <1>3, <2>2, <3>2, <3>3, <3>4, <3>5 DEF Perform
  <2>3. QED
    BY <2>1, <2>2
<1>4. QED
  BY <1>1, <1>2, <1>3 DEF Next

LEMMA DecidedInWindow ==
  ASSUME IInv, WindowInv, NEW w \in Workers, ReadState(w), request'[w].pc = "decided"
  PROVE  request'[w].window > request'[w].at => request'[w].window <= manualResetAt
<1> DEFINE p == request[w].who
<1> DEFINE b == EffectiveBoundary(OwnHistory(p), manualResetAt, request[w].at)
<1>1. BoundedHistory(OwnHistory(p), Len(records), clock)
  BY OwnHistoryBounded DEF IInv
<1>2. /\ Len(records) \in Nat /\ clock \in Nat
      /\ manualResetAt \in Nat /\ request[w].at \in Nat
  BY DEF IInv, TypeOK, RequestType
<1>3. b \in Int /\ b <= Later(manualResetAt, request[w].at)
  BY <1>1, <1>2, BoundaryMovesOn
<1>4. request'[w].window = b /\ request'[w].at = request[w].at
  BY DEF ReadState, JudgedAt, IInv, TypeOK, RequestType, Idle
<1> HIDE DEF b
<1>5. QED
  BY <1>2, <1>3, <1>4 DEF Later

LEMMA WindowStep == IInv /\ WindowInv /\ [Next]_vars => WindowInv'
<1> SUFFICES ASSUME IInv, WindowInv, [Next]_vars PROVE WindowInv'
  OBVIOUS
<1>1. /\ manualResetAt' \in Nat /\ manualResetAt \in Nat
      /\ manualResetAt <= manualResetAt' /\ manualResetAt' <= clock'
  BY ResetMovesOn DEF IInv, TypeOK
<1>2. IInv'
  BY NextIInv
<1>3. ASSUME NEW w \in Workers, request'[w].pc = "decided",
             request'[w].window > request'[w].at
      PROVE  request'[w].window <= manualResetAt'
  <2>1. request'[w].window \in Int
    BY <1>2 DEF IInv, TypeOK, RequestType
  <2>2. request'[w].window <= manualResetAt
    <3>1. CASE request'[w] = request[w]
      BY <1>3, <3>1 DEF WindowInv
    <3>2. CASE ReadState(w)
      BY <1>3, <3>2, DecidedInWindow
    <3>3. QED
      BY <1>3, <3>1, <3>2, DecidedBy
  <2>3. QED
    BY <1>1, <2>1, <2>2
<1>4. \A i \in 1 .. Len(records) :
        windowOf[i] \in Int /\ (windowOf[i] > records[i].at => windowOf[i] <= manualResetAt')
  <2>1. \A i \in 1 .. Len(records) : windowOf[i] \in Int
    BY DEF IInv, TypeOK
  <2>2. QED
    BY <1>1, <2>1 DEF WindowInv, RecordInItsWindow
<1>5. CASE \E w \in Workers : Commit(w)
  <2>1. PICK w \in Workers : Commit(w)
    BY <1>5
  <2> DEFINE e == [who |-> request[w].who, action |-> request[w].action, at |-> request[w].at]
  <2>2. /\ records' = Append(records, e)
        /\ windowOf' = Append(windowOf, request[w].window)
        /\ request[w].pc = "decided" /\ manualResetAt' = manualResetAt
    BY <2>1 DEF Commit, ownerVars
  <2>3. /\ Len(records') = Len(records) + 1
        /\ \A i \in 1 .. Len(records) :
              records'[i] = records[i] /\ windowOf'[i] = windowOf[i]
        /\ records'[Len(records) + 1].at = request[w].at
        /\ windowOf'[Len(records) + 1] = request[w].window
    BY <2>2 DEF IInv, TypeOK
  <2>4. \A i \in 1 .. Len(records') : i \in 1 .. Len(records) \/ i = Len(records) + 1
    BY <2>3 DEF IInv, TypeOK
  <2>5. RecordInItsWindow'
    BY <1>4, <2>2, <2>3, <2>4 DEF RecordInItsWindow, WindowInv
  <2>6. QED
    BY <1>1, <1>3, <2>5 DEF WindowInv
<1>6. CASE ~\E w \in Workers : Commit(w)
  <2>1. UNCHANGED <<records, windowOf>>
    BY <1>6 DEF Next, Perform, Admit, Stamp, LockRow, ReadState, Abort, Owner, ResetNow,
       ArchiveGroup, RestoreGroup, DeactivateRow, ReactivateMembership, ToggleMember,
       OwnerStep, Tick, vars
  <2>2. QED
    BY <1>1, <1>3, <1>4, <2>1 DEF WindowInv, RecordInItsWindow
<1>7. QED
  BY <1>5, <1>6

THEOREM WindowInvariance == Spec => []WindowInv
BY InitIInv, WindowInit, WindowStep, Invariance, PTL DEF Spec

(* However late its lock was granted, a record lies inside the window it   *)
(* was judged by, unless Reset now was pressed (services.py:265-284).      *)
THEOREM RecordsInWindow == Spec => []RecordInItsWindow
<1>1. WindowInv => RecordInItsWindow
  BY DEF WindowInv
<1>2. QED
  BY <1>1, WindowInvariance, PTL

LEMMA ExpiresInTime ==
  ASSUME IInv
  PROVE  RollingExpiry
<1> SUFFICES ASSUME ResetMode = "rolling", NEW p \in Participants, CurrentState(p).isCheckedIn
             PROVE  clock < Newest(OfType(OwnHistory(p), "check_in")).at + RollingDuration
  BY DEF RollingExpiry
<1>1. BoundedHistory(OwnHistory(p), Len(records), clock)
  BY OwnHistoryBounded DEF IInv
<1>2. Len(records) \in Nat /\ clock \in Nat /\ manualResetAt \in Nat
  BY DEF IInv, TypeOK
<1>3. IsCheckedIn(RecordsFrom(OwnHistory(p),
                    EffectiveBoundary(OwnHistory(p), manualResetAt, clock)))
  BY DEF CurrentState, AttendanceState, CheckedOutState
<1>4. QED
  BY <1>1, <1>2, <1>3, PresenceExpires

(* In Rolling mode presence ends with the duration, whatever was recorded  *)
(* since (attendance_reset.py:98-105).                                     *)
THEOREM PresenceEnds == Spec => []RollingExpiry
<1>1. IInv => RollingExpiry
  BY ExpiresInTime
<1>2. QED
  BY <1>1, Invariance, PTL
-----------------------------------------------------------------------------
(* An insert adds one entry to the history of its participant.             *)
LEMMA HistoryGrows ==
  ASSUME NEW S, NEW rs \in Seq(S), NEW r \in S, NEW p, r.who = p
  PROVE  History(Append(rs, r), p, Len(rs) + 1) =
           History(rs, p, Len(rs)) \cup {[id |-> Len(rs) + 1, action |-> r.action, at |-> r.at]}
<1>1. \A k \in 1 .. Len(rs) : Append(rs, r)[k] = rs[k]
  OBVIOUS
<1>2. Append(rs, r)[Len(rs) + 1] = r
  OBVIOUS
<1>3. {k \in 1 .. Len(rs) + 1 : Append(rs, r)[k].who = p}
        = {k \in 1 .. Len(rs) : rs[k].who = p} \cup {Len(rs) + 1}
  BY <1>1, <1>2
<1>4. QED
  BY <1>1, <1>2, <1>3 DEF History

(* What a step that commits no check-in of p does to their history.        *)
LEMMA HistoryStep ==
  ASSUME IInv, [Next]_vars, NEW p \in Participants,
         ~\E i \in 1 .. Len(records') :
            i > Len(records) /\ records'[i].who = p /\ records'[i].action = "check_in"
  PROVE  \/ OwnHistory(p)' = OwnHistory(p)
         \/ /\ OwnHistory(p) \subseteq OwnHistory(p)'
            /\ OfType(OwnHistory(p)', "check_in") \subseteq OwnHistory(p)
            /\ UNCHANGED <<manualResetAt, clock>>
<1>1. CASE \E w \in Workers : Commit(w)
  <2>1. PICK w \in Workers : Commit(w)
    BY <1>1
  <2> DEFINE e == [who |-> request[w].who, action |-> request[w].action, at |-> request[w].at]
  <2>2. records' = Append(records, e) /\ UNCHANGED <<manualResetAt, clock>>
    BY <2>1 DEF Commit, ownerVars
  <2>3. records \in Seq([who : Participants, action : ActionTypes, at : Nat \ {0}])
    BY DEF IInv, TypeOK
  <2>4. e \in [who : Participants, action : ActionTypes, at : Nat \ {0}]
    <3>1. request[w] \in RequestType /\ request[w].pc = "decided"
      BY <2>1 DEF Commit, IInv, TypeOK
    <3>2. request[w].who # NoOne /\ request[w].action # "none" /\ request[w].at > 0
      BY <3>1 DEF IInv, TypeOK, InFlight
    <3>3. QED
      BY <3>1, <3>2 DEF RequestType
  <2> HIDE DEF e
  <2>5. Len(records') = Len(records) + 1 /\ records'[Len(records) + 1] = e
    BY <2>2, <2>3, <2>4
  <2>6. OwnHistory(p)' = History(Append(records, e), p, Len(records) + 1)
    BY <2>2, <2>5 DEF OwnHistory
  <2>7. CASE e.who # p
    BY <2>3, <2>4, <2>6, <2>7, HistoryOfOthers DEF OwnHistory
  <2>8. CASE e.who = p
    <3>1. OwnHistory(p)' = OwnHistory(p) \cup
            {[id |-> Len(records) + 1, action |-> e.action, at |-> e.at]}
      <4> DEFINE RecordType == [who : Participants, action : ActionTypes, at : Nat \ {0}]
      <4>1. records \in Seq(RecordType) /\ e \in RecordType
        BY <2>3, <2>4
      <4> HIDE DEF RecordType
      <4>2. History(Append(records, e), p, Len(records) + 1) =
              History(records, p, Len(records)) \cup
                {[id |-> Len(records) + 1, action |-> e.action, at |-> e.at]}
        BY <2>8, <4>1, HistoryGrows
      <4>3. QED
        BY <2>6, <4>2 DEF OwnHistory
    <3>2. Len(records) \in Nat
      BY <2>3
    <3>3. e.action # "check_in"
      BY <2>5, <2>8, <3>2
    <3>4. QED
      BY <2>2, <3>1, <3>3 DEF OfType
  <2>9. QED
    BY <2>7, <2>8
<1>2. CASE ~\E w \in Workers : Commit(w)
  <2>1. UNCHANGED records
    BY <1>2 DEF Next, Perform, Admit, Stamp, LockRow, ReadState, Abort, Owner, ResetNow,
       ArchiveGroup, RestoreGroup, DeactivateRow, ReactivateMembership, ToggleMember,
       OwnerStep, Tick, vars
  <2>2. QED
    BY <2>1 DEF OwnHistory
<1>3. QED
  BY <1>1, <1>2

LEMMA NobodyAppears ==
  ASSUME IInv, WindowInv, [Next]_vars, NEW p \in Participants,
         ~\E i \in 1 .. Len(records') :
            i > Len(records) /\ records'[i].who = p /\ records'[i].action = "check_in",
         CurrentState(p)'.isCheckedIn
  PROVE  CurrentState(p).isCheckedIn
<1> DEFINE H == OwnHistory(p)
<1> DEFINE b == EffectiveBoundary(H, manualResetAt, clock)
<1> DEFINE d == EffectiveBoundary(H, manualResetAt', clock')
<1>1. IInv'
  BY NextIInv
<1>2. /\ Len(records) \in Nat /\ clock \in Nat /\ clock' \in Nat
      /\ manualResetAt \in Nat /\ manualResetAt' \in Nat /\ manualResetAt <= clock
  BY <1>1 DEF IInv, TypeOK, WindowInv
<1>3. BoundedHistory(H, Len(records), clock)
  BY OwnHistoryBounded DEF IInv
<1>4. BoundedHistory(H', Len(records'), clock') /\ Len(records') \in Nat
  <2>1. \A k \in 1 .. Len(records') :
          /\ records'[k] \in [who : Participants, action : ActionTypes, at : Nat \ {0}]
          /\ records'[k].at <= clock'
    <3>1. records' \in Seq([who : Participants, action : ActionTypes, at : Nat \ {0}])
      BY <1>1 DEF IInv, TypeOK
    <3>2. \A k \in 1 .. Len(records') :
            records'[k] \in [who : Participants, action : ActionTypes, at : Nat \ {0}]
      BY <3>1, ElementOfSeq
    <3>3. \A k \in 1 .. Len(records') : records'[k].at <= clock'
      BY <1>1 DEF IInv, TimeInv
    <3>4. QED
      BY <3>2, <3>3
  <2>2. Len(records') \in Nat
    BY <1>1 DEF IInv, TypeOK
  <2>3. QED
    BY <1>2, <2>1, <2>2, HistoryBounded DEF OwnHistory
<1>5. IsCheckedIn(RecordsFrom(H', EffectiveBoundary(H', manualResetAt', clock')))
  BY DEF CurrentState, AttendanceState, CheckedOutState
<1>6. SUFFICES IsCheckedIn(RecordsFrom(H, b))
  BY DEF CurrentState, AttendanceState, CheckedOutState
<1> HIDE DEF H
<1>7. b \in Int /\ d \in Int
  BY <1>2, <1>3, BoundaryMovesOn
<1>8. CASE H' = H
  <2>1. b <= d
    <3>1. \/ manualResetAt' = manualResetAt /\ clock' = clock
          \/ manualResetAt' = manualResetAt /\ clock' = clock + 1
          \/ manualResetAt' = clock /\ clock' = clock
      BY ZenonT(60) DEF Next, Perform, Admit, Stamp, LockRow, ReadState, Commit, Abort, Owner, ResetNow,
         ArchiveGroup, RestoreGroup, DeactivateRow, ReactivateMembership, ToggleMember,
         OwnerStep, Tick, vars, ownerVars
    <3>2. CASE manualResetAt' = manualResetAt /\ clock' = clock
      BY <1>7, <3>2
    <3>3. CASE manualResetAt' = manualResetAt /\ clock' = clock + 1
      BY <1>2, <1>3, <3>3, BoundaryMovesOn
    <3>4. CASE manualResetAt' = clock /\ clock' = clock
      <4>1. b <= Later(manualResetAt, clock) /\ d >= clock
        BY <1>2, <1>3, <3>4, BoundaryMovesOn
      <4>2. QED
        BY <1>2, <1>7, <4>1 DEF Later
    <3>5. QED
      BY <3>1, <3>2, <3>3, <3>4
  <2>2. OfType(H, "check_in") \subseteq H
    BY DEF OfType
  <2>3. IsCheckedIn(RecordsFrom(H, d))
    BY <1>5, <1>8
  <2> HIDE DEF b, d
  <2>4. QED
    BY <1>2, <1>3, <1>7, <2>1, <2>2, <2>3, PresenceShrinks
<1>9. CASE /\ H \subseteq H' /\ OfType(H', "check_in") \subseteq H
           /\ UNCHANGED <<manualResetAt, clock>>
  <2>1. EffectiveBoundary(H', manualResetAt, clock) = b
    BY <1>2, <1>4, <1>5, <1>9, BoundaryWithRecord
  <2>2. IsCheckedIn(RecordsFrom(H', b))
    BY <1>5, <1>9, <2>1
  <2>3. b <= b
    BY <1>7
  <2> HIDE DEF b
  <2>4. QED
    BY <1>2, <1>4, <1>7, <1>9, <2>2, <2>3, PresenceShrinks
<1>10. QED
  BY <1>8, <1>9, HistoryStep DEF H

(* A participant becomes checked in only by a check-in of their own that   *)
(* commits in that step.                                                   *)
THEOREM PresenceIsEarned == Spec => PresenceNeedsCheckIn
<1>1. IInv /\ WindowInv /\ [Next]_vars =>
        [\A p \in Participants :
           ~CurrentState(p).isCheckedIn /\ CurrentState(p)'.isCheckedIn
             => \E i \in 1 .. Len(records') :
                  /\ i > Len(records)
                  /\ records'[i].who = p
                  /\ records'[i].action = "check_in"]_vars
  BY NobodyAppears
<1>2. QED
  BY <1>1, Invariance, WindowInvariance, PTL DEF Spec, PresenceNeedsCheckIn
-----------------------------------------------------------------------------
(* The derivation against the history in commit order.                     *)
EntryAt(i) == [id |-> i, action |-> records[i].action, at |-> records[i].at]

(* A participant's entries are their records, under the records' ids.      *)
LEMMA Entries ==
  ASSUME NEW p
  PROVE  /\ \A i \in 1 .. Len(records) : records[i].who = p => EntryAt(i) \in OwnHistory(p)
         /\ \A e \in OwnHistory(p) :
              \E i \in 1 .. Len(records) : records[i].who = p /\ e = EntryAt(i)
BY DEF OwnHistory, History, EntryAt

LEMMA EntryTimes ==
  ASSUME IInv
  PROVE  /\ Len(records) \in Nat
         /\ \A i \in 1 .. Len(records) : records[i].at \in Nat /\ records[i].action \in ActionTypes
  BY RecordsTyped DEF IInv, TypeOK

(* Commits in the order of time: the later commit is the newer entry.      *)
LEMMA OrderedEntries ==
  ASSUME IInv, InOrder, NEW i \in 1 .. Len(records), NEW j \in 1 .. Len(records), j < i
  PROVE  IsNewer(EntryAt(i), EntryAt(j))
BY EntryTimes DEF InOrder, IsNewer, EntryAt

(* A check-in that nothing but older records stand against counts, if it   *)
(* lies in the window.                                                     *)
LEMMA LastCheckInCounts ==
  ASSUME IInv, InOrder, NEW p \in Participants, NEW i \in Ids(p, {"check_in"}),
         \A j \in Ids(p, {"check_out"}) : j <= i,
         records[i].at >= EffectiveBoundary(OwnHistory(p), manualResetAt, clock)
  PROVE  CurrentState(p).isCheckedIn
<1> DEFINE b == EffectiveBoundary(OwnHistory(p), manualResetAt, clock)
<1> DEFINE W == RecordsFrom(OwnHistory(p), b)
<1>1. BoundedHistory(OwnHistory(p), Len(records), clock)
  BY OwnHistoryBounded DEF IInv
<1>2. BoundedHistory(W, Len(records), clock)
  BY <1>1 DEF BoundedHistory, RecordsFrom
<1>3. EntryAt(i) \in OfType(W, "check_in")
  BY Entries DEF Ids, OfType, RecordsFrom, EntryAt
<1>4. ASSUME NEW o \in OfType(W, "check_out")
      PROVE  IsNewer(EntryAt(i), o)
  <2>1. PICK j \in 1 .. Len(records) : records[j].who = p /\ o = EntryAt(j)
    BY Entries DEF OfType, RecordsFrom
  <2>2. records[j].action = "check_out"
    BY <2>1 DEF OfType, EntryAt
  <2>3. j \in Ids(p, {"check_out"}) /\ i \in 1 .. Len(records)
    BY <2>1, <2>2 DEF Ids
  <2>4. j # i
    BY <2>2 DEF Ids
  <2>5. j < i
    BY <2>3, <2>4, EntryTimes
  <2>6. QED
    BY <2>1, <2>3, <2>5, OrderedEntries
<1>5. clock \in Nat /\ Len(records) \in Nat
  BY DEF IInv, TypeOK
<1>6. IsCheckedIn(W)
  BY <1>2, <1>3, <1>4, <1>5, Presence
<1>7. QED
  BY <1>6 DEF CurrentState, AttendanceState

(* Rolling mode: nobody is checked out before their time.                  *)
LEMMA CountsInTime ==
  ASSUME IInv
  PROVE  NotExpiredEarly
<1> SUFFICES ASSUME ResetMode = "rolling", InOrder,
                    NEW p \in Participants, NEW i \in Ids(p, {"check_in"}),
                    \A j \in Ids(p, {"check_in", "check_out"}) : j <= i,
                    records[i].at >= manualResetAt,
                    clock < records[i].at + RollingDuration
             PROVE  CurrentState(p).isCheckedIn
  BY DEF NotExpiredEarly
<1> DEFINE scoped == RecordsFrom(OwnHistory(p), manualResetAt)
<1> DEFINE ins == OfType(scoped, "check_in")
<1>1. BoundedHistory(OwnHistory(p), Len(records), clock)
  BY OwnHistoryBounded DEF IInv
<1>2. /\ BoundedHistory(ins, Len(records), clock)
      /\ \A e \in ins : e.at \in Nat
  BY <1>1 DEF BoundedHistory, RecordsFrom, OfType, Entry
<1>3. EntryAt(i) \in ins /\ EntryAt(i) \in scoped /\ EntryAt(i).at = records[i].at
  BY Entries DEF Ids, OfType, RecordsFrom, EntryAt
<1>4. /\ clock \in Nat /\ Len(records) \in Nat /\ RollingDuration \in Nat
      /\ records[i].at \in Nat /\ manualResetAt \in Nat
  BY EntryTimes, RulesAssumption DEF IInv, TypeOK, Ids
<1>5. Newest(ins) \in ins /\ records[i].at <= Newest(ins).at
  BY <1>2, <1>3, <1>4, NewestIsLatest
<1>6. RollingAnchor(scoped) = Newest(ins).at /\ Newest(ins).at \in Nat
  BY <1>2, <1>3, <1>5 DEF RollingAnchor
<1>7. clock < RollingAnchor(scoped) + RollingDuration
  BY <1>4, <1>5, <1>6
<1>8. EffectiveBoundary(OwnHistory(p), manualResetAt, clock) = manualResetAt
  BY <1>7 DEF EffectiveBoundary, RollingBoundary
<1>9. \A j \in Ids(p, {"check_out"}) : j <= i
  BY DEF Ids
<1>10. QED
  BY <1>8, <1>9, LastCheckInCounts

(* In Rolling mode a check-in that nothing followed counts for the whole   *)
(* duration (attendance_reset.py:98-105).                                  *)
THEOREM StaysForTheDuration == Spec => []NotExpiredEarly
<1>1. IInv => NotExpiredEarly
  BY CountsInTime
<1>2. QED
  BY <1>1, Invariance, PTL
-----------------------------------------------------------------------------
(* A nonempty set of ids has a greatest one.                               *)
LEMMA GreatestIn ==
  ASSUME NEW n \in Nat, NEW S, S \subseteq 1 .. n, S # {}
  PROVE  \E l \in S : \A j \in S : j <= l
<1> DEFINE Gaps == {n - i : i \in S}
<1>1. Gaps \subseteq Nat /\ Gaps # {}
  <2>1. \A i \in S : i \in 1 .. n /\ n - i \in Nat
    OBVIOUS
  <2>2. QED
    BY <2>1
<1>2. PICK m \in Gaps : \A k \in Gaps : m <= k
  BY <1>1, LeastNat
<1>3. PICK l \in S : m = n - l
  BY <1>2
<1>4. ASSUME NEW j \in S
      PROVE  j <= l
  <2>1. n - l <= n - j
    BY <1>2, <1>3
  <2>2. j \in 1 .. n /\ l \in 1 .. n
    OBVIOUS
  <2>3. QED
    BY <2>1, <2>2
<1>5. QED
  BY <1>4

(* The last record of a participant.                                       *)
IsLast(p, l) == l \in Ids(p, ActionTypes) /\ \A j \in Ids(p, ActionTypes) : j <= l

LEMMA LastExists ==
  ASSUME IInv, NEW p, Ids(p, ActionTypes) # {}
  PROVE  \E l : IsLast(p, l)
<1>1. Len(records) \in Nat /\ Ids(p, ActionTypes) \subseteq 1 .. Len(records)
  BY EntryTimes DEF Ids
<1>2. QED
  BY <1>1, GreatestIn DEF IsLast

(* Every other entry of the participant is older than the last.            *)
LEMMA LastIsNewest ==
  ASSUME IInv, InOrder, NEW p, NEW l, IsLast(p, l)
  PROVE  /\ l \in 1 .. Len(records) /\ EntryAt(l) \in OwnHistory(p)
         /\ \A e \in OwnHistory(p) : e # EntryAt(l) => IsNewer(EntryAt(l), e)
<1>1. l \in 1 .. Len(records) /\ records[l].who = p
  BY DEF IsLast, Ids
<1>2. ASSUME NEW e \in OwnHistory(p), e # EntryAt(l)
      PROVE  IsNewer(EntryAt(l), e)
  <2>1. PICK j \in 1 .. Len(records) : records[j].who = p /\ e = EntryAt(j)
    BY Entries
  <2>2. j \in Ids(p, ActionTypes)
    BY <2>1, EntryTimes DEF Ids
  <2>3. j <= l /\ j # l
    BY <1>2, <2>1, <2>2 DEF IsLast
  <2>4. j < l
    BY <1>1, <2>3, EntryTimes
  <2>5. QED
    BY <1>1, <2>1, <2>4, OrderedEntries
<1>3. QED
  BY <1>1, <1>2, Entries

LEMMA LastCheckOutShows ==
  ASSUME IInv, InOrder, NEW p \in Participants, NEW l, IsLast(p, l),
         records[l].action = "check_out"
  PROVE  ~CurrentState(p).isCheckedIn
<1> DEFINE b == EffectiveBoundary(OwnHistory(p), manualResetAt, clock)
<1> DEFINE W == RecordsFrom(OwnHistory(p), b)
<1>1. BoundedHistory(OwnHistory(p), Len(records), clock) /\ Len(records) \in Nat
      /\ clock \in Nat /\ manualResetAt \in Nat
  BY OwnHistoryBounded DEF IInv, TypeOK
<1>2. BoundedHistory(W, Len(records), clock)
  BY <1>1 DEF BoundedHistory, RecordsFrom
<1>3. b \in Int
  BY <1>1, BoundaryMovesOn
<1>4. SUFFICES ASSUME NEW i \in OfType(W, "check_in"),
                      \A o \in OfType(W, "check_out") : IsNewer(i, o)
               PROVE  FALSE
  BY <1>1, <1>2, Presence DEF CurrentState, AttendanceState, CheckedOutState
<1>5. /\ i \in OwnHistory(p) /\ i.action = "check_in" /\ i.at >= b
      /\ EntryAt(l).action = "check_out" /\ EntryAt(l) \in OwnHistory(p)
  BY LastIsNewest DEF OfType, RecordsFrom, EntryAt
<1>6. IsNewer(EntryAt(l), i)
  BY <1>5, LastIsNewest
<1>7. i.at \in Nat /\ EntryAt(l).at \in Nat /\ i.id \in Nat /\ EntryAt(l).id \in Nat
  BY <1>1, <1>5 DEF BoundedHistory, Entry
<1>8. EntryAt(l).at >= b
  BY <1>3, <1>5, <1>6, <1>7 DEF IsNewer
<1>9. EntryAt(l) \in OfType(W, "check_out")
  BY <1>5, <1>8 DEF OfType, RecordsFrom
<1>10. QED
  BY <1>4, <1>6, <1>7, <1>9 DEF IsNewer

LEMMA LastBreakShows ==
  ASSUME IInv, InOrder, NEW p \in Participants, NEW l, IsLast(p, l),
         records[l].action = "break_start", Ids(p, {"check_out"}) = {},
         CurrentState(p).isCheckedIn
  PROVE  CurrentState(p).isOnBreak
<1> DEFINE b == EffectiveBoundary(OwnHistory(p), manualResetAt, clock)
<1> DEFINE W == RecordsFrom(OwnHistory(p), b)
<1> DEFINE ins == OfType(W, "check_in")
<1> DEFINE cycle == CycleRecords(W)
<1> DEFINE starts == OfType(cycle, "break_start")
<1> DEFINE ends == OfType(cycle, "break_end")
<1> DEFINE last == EntryAt(l)
<1>1. BoundedHistory(OwnHistory(p), Len(records), clock) /\ Len(records) \in Nat
      /\ clock \in Nat /\ manualResetAt \in Nat
  BY OwnHistoryBounded DEF IInv, TypeOK
<1>2. \A e \in OwnHistory(p) : e.at \in Nat /\ e.id \in Nat
  BY <1>1 DEF BoundedHistory, Entry
<1>3. b \in Int
  BY <1>1, BoundaryMovesOn
<1>4. IsCheckedIn(W)
  BY DEF CurrentState, AttendanceState, CheckedOutState
<1>5. /\ BoundedHistory(W, Len(records), clock)
      /\ BoundedHistory(ins, Len(records), clock)
      /\ BoundedHistory(starts, Len(records), clock)
      /\ BoundedHistory(ends, Len(records), clock)
  BY <1>1 DEF BoundedHistory, RecordsFrom, OfType, CycleRecords
<1>6. ins # {}
  BY <1>4 DEF IsCheckedIn, LastIsNewer
<1>7. Newest(ins) \in OwnHistory(p) /\ Newest(ins).at >= b /\ Newest(ins).action = "check_in"
  <2>1. Newest(ins) \in ins
    BY <1>1, <1>5, <1>6, NewestExists
  <2>2. QED
    BY <2>1 DEF OfType, RecordsFrom
<1>8. last \in OwnHistory(p) /\ last.action = "break_start"
  BY LastIsNewest DEF EntryAt
<1>9. last.at >= Newest(ins).at
  <2>1. IsNewer(last, Newest(ins))
    BY <1>7, <1>8, LastIsNewest
  <2>2. QED
    BY <1>2, <1>7, <1>8, <2>1 DEF IsNewer
<1>10. OfType(W, "check_out") = {}
  <2> SUFFICES ASSUME NEW o \in OfType(W, "check_out") PROVE FALSE
    OBVIOUS
  <2>1. PICK j \in 1 .. Len(records) : records[j].who = p /\ o = EntryAt(j)
    BY Entries DEF OfType, RecordsFrom
  <2>2. j \in Ids(p, {"check_out"})
    BY <2>1 DEF Ids, OfType, EntryAt
  <2>3. QED
    BY <2>2
<1>11. last \in starts
  BY <1>2, <1>3, <1>7, <1>8, <1>9, <1>10 DEF OfType, RecordsFrom, CycleRecords
<1>12. starts \subseteq OwnHistory(p) /\ ends \subseteq OwnHistory(p)
  BY DEF OfType, CycleRecords, RecordsFrom
<1>13. Newest(starts) = last
  <2>1. /\ Newest(starts) \in starts
        /\ last # Newest(starts) => IsNewer(Newest(starts), last)
    BY <1>1, <1>5, <1>11, NewestExists
  <2>2. Newest(starts) # last => IsNewer(last, Newest(starts))
    BY <1>12, <2>1, LastIsNewest
  <2>3. ~(IsNewer(last, Newest(starts)) /\ IsNewer(Newest(starts), last))
    BY <1>2, <1>8, <1>12, <2>1 DEF IsNewer
  <2>4. QED
    BY <2>1, <2>2, <2>3
<1>14. ends # {} => IsNewer(last, Newest(ends))
  <2>1. ends # {} => Newest(ends) \in ends
    BY <1>1, <1>5, NewestExists
  <2>2. ends # {} => Newest(ends) # last
    BY <1>8, <2>1 DEF OfType
  <2>3. QED
    BY <1>12, <2>1, <2>2, LastIsNewest
<1>15. LastIsNewer(starts, ends)
  BY <1>11, <1>13, <1>14 DEF LastIsNewer
<1>16. QED
  BY <1>4, <1>15 DEF CurrentState, AttendanceState

LEMMA LastShows ==
  ASSUME IInv
  PROVE  LastRecordShows
<1> SUFFICES ASSUME InOrder, NEW p \in Participants, Ids(p, ActionTypes) # {},
                    NEW l, l = (CHOOSE i \in Ids(p, ActionTypes) :
                                   \A j \in Ids(p, ActionTypes) : j <= i)
    PROVE /\ records[l].action = "check_in"
               /\ records[l].at >= EffectiveBoundary(OwnHistory(p), manualResetAt, clock)
               => CurrentState(p).isCheckedIn
          /\ records[l].action = "check_out" => ~CurrentState(p).isCheckedIn
          /\ (/\ records[l].action = "break_start"
              /\ CurrentState(p).isCheckedIn
              /\ Ids(p, {"check_out"}) = {}) => CurrentState(p).isOnBreak
  BY DEF LastRecordShows
<1>1. IsLast(p, l)
  BY LastExists DEF IsLast
<1>2. ASSUME records[l].action = "check_in",
             records[l].at >= EffectiveBoundary(OwnHistory(p), manualResetAt, clock)
      PROVE  CurrentState(p).isCheckedIn
  <2>1. l \in Ids(p, {"check_in"})
    BY <1>1, <1>2 DEF IsLast, Ids
  <2>2. \A j \in Ids(p, {"check_out"}) : j <= l
    BY <1>1 DEF IsLast, Ids, ActionTypes
  <2>3. QED
    BY <1>2, <2>1, <2>2, LastCheckInCounts
<1>3. QED
  BY <1>1, <1>2, LastCheckOutShows, LastBreakShows

(* While commits keep the order of time, the state the code derives from   *)
(* timestamps says what the participant did last.                          *)
THEOREM DerivationReadsLast == Spec => []LastRecordShows
<1>1. IInv => LastRecordShows
  BY LastShows
<1>2. QED
  BY <1>1, Invariance, PTL
-----------------------------------------------------------------------------
(* The cap on breaks, counted over the whole history.                      *)

(* A request could start a break at id b, in a cycle opened at i before    *)
(* any check-out: its window holds the check-in i and no check-out.        *)
LEMMA BreakBelongs ==
  ASSUME IInv, InOrder, NEW p \in Participants, NEW i \in Ids(p, {"check_in"}),
         \A o \in Ids(p, {"check_out"}) : o > i,
         NEW b \in BreaksOfCycle(p, i), NEW W,
         W = RecordsFrom(History(records, p, b - 1), windowOf[b])
  PROVE  /\ BoundedHistory(W, b - 1, clock)
         /\ IsCheckedIn(W)
         /\ OfType(W, "check_out") = {}
         /\ EntryAt(i) \in W
         /\ Newest(OfType(W, "check_in")) = EntryAt(i)
         /\ Cardinality(OfType(CycleRecords(W), "break_start")) < MaxBreaks
<1> DEFINE H == History(records, p, b - 1)
<1> DEFINE s == AttendanceState(H, windowOf[b])
<1>1. /\ i \in 1 .. Len(records) /\ records[i].who = p /\ records[i].action = "check_in"
      /\ b \in 1 .. Len(records) /\ records[b].who = p /\ records[b].action = "break_start"
      /\ i < b /\ Len(records) \in Nat
      /\ \A k \in Ids(p, {"check_in"}) : k < b => k <= i
  BY EntryTimes DEF BreaksOfCycle, Ids
<1>2. windowOf[b] \in Int
  BY <1>1, ElementOfSeq DEF IInv, TypeOK
<1>3. BoundedHistory(H, b - 1, clock) /\ BoundedHistory(W, b - 1, clock)
  <2>1. BoundedHistory(H, b - 1, clock)
    <3>1. \A k \in 1 .. b - 1 :
            /\ records[k] \in [who : Participants, action : ActionTypes, at : Nat \ {0}]
            /\ records[k].at <= clock
      BY <1>1, RecordsTyped DEF IInv, TimeInv
    <3>2. b - 1 \in Nat /\ clock \in Nat
      BY <1>1 DEF IInv, TypeOK
    <3>3. QED
      BY <3>1, <3>2, HistoryBounded
  <2>2. QED
    BY <2>1 DEF BoundedHistory, RecordsFrom
<1>4. \A e \in H : \E k \in 1 .. b - 1 : records[k].who = p /\ e = EntryAt(k)
  BY DEF History, EntryAt
<1>5. \A k \in 1 .. b - 1 : records[k].who = p => EntryAt(k) \in H
  BY DEF History, EntryAt
<1>6. "break_start" \in ValidActions(s)
  BY <1>1 DEF IInv, SerializedLegality
<1>7. s.isCheckedIn /\ s.breakCount < MaxBreaks
  BY <1>6 DEF ValidActions, MayStartBreak
<1>8. /\ IsCheckedIn(W)
      /\ s.breakCount = Cardinality(OfType(CycleRecords(W), "break_start"))
  BY <1>7 DEF AttendanceState, CheckedOutState
<1>9. clock \in Nat /\ b - 1 \in Nat
  <2>1. clock \in Nat
    BY DEF IInv, TypeOK
  <2>2. b - 1 \in Nat
    BY <1>1
  <2>3. QED
    BY <2>1, <2>2
<1>10. PICK c \in OfType(W, "check_in") :
         \A o \in OfType(W, "check_out") : IsNewer(c, o)
  BY <1>3, <1>8, <1>9, Presence
<1>11. \A d \in OfType(W, "check_in") :
         d = EntryAt(i) \/ (IsNewer(EntryAt(i), d) /\ EntryAt(i).at >= d.at)
  <2> SUFFICES ASSUME NEW d \in OfType(W, "check_in"), d # EntryAt(i)
               PROVE  IsNewer(EntryAt(i), d) /\ EntryAt(i).at >= d.at
    OBVIOUS
  <2>1. PICK k \in 1 .. b - 1 : records[k].who = p /\ d = EntryAt(k)
    BY <1>4 DEF OfType, RecordsFrom
  <2>2. k \in Ids(p, {"check_in"}) /\ k < b /\ k \in 1 .. Len(records)
    BY <1>1, <2>1 DEF Ids, OfType, EntryAt
  <2>3. k < i
    BY <1>1, <2>1, <2>2
  <2>4. QED
    BY <1>1, <2>1, <2>2, <2>3, OrderedEntries, EntryTimes DEF InOrder, EntryAt
<1>12. EntryAt(i) \in H /\ EntryAt(i).action = "check_in"
  BY <1>1, <1>5 DEF EntryAt
<1>13. EntryAt(i) \in W
  <2>1. \A e \in H : e.at \in Nat
    BY <1>3 DEF BoundedHistory, Entry
  <2>2. c.at >= windowOf[b] /\ c \in H
    BY <1>10 DEF OfType, RecordsFrom
  <2>3. EntryAt(i).at >= windowOf[b]
    BY <1>2, <1>10, <1>11, <1>12, <2>1, <2>2
  <2>4. QED
    BY <1>12, <2>3 DEF RecordsFrom
<1>14. EntryAt(i) \in OfType(W, "check_in")
  BY <1>12, <1>13 DEF OfType
<1>15. OfType(W, "check_out") = {}
  <2> SUFFICES ASSUME NEW o \in OfType(W, "check_out") PROVE FALSE
    OBVIOUS
  <2>1. PICK k \in 1 .. b - 1 : records[k].who = p /\ o = EntryAt(k)
    BY <1>4 DEF OfType, RecordsFrom
  <2>2. k \in Ids(p, {"check_out"}) /\ k \in 1 .. Len(records)
    BY <1>1, <2>1 DEF Ids, OfType, EntryAt
  <2>3. IsNewer(o, EntryAt(i))
    BY <1>1, <2>1, <2>2, OrderedEntries
  <2>4. \A e \in W : e.at \in Nat /\ e.id \in Nat
    BY <1>3 DEF BoundedHistory, Entry
  <2>5. o \in W /\ c \in W
    BY DEF OfType
  <2>6. QED
    BY <1>10, <1>11, <1>13, <2>3, <2>4, <2>5 DEF IsNewer
<1>16. Newest(OfType(W, "check_in")) = EntryAt(i)
  <2>1. BoundedHistory(OfType(W, "check_in"), b - 1, clock)
    BY <1>3 DEF BoundedHistory, OfType
  <2> DEFINE top == Newest(OfType(W, "check_in"))
  <2>2. /\ top \in OfType(W, "check_in")
        /\ EntryAt(i) # top => IsNewer(top, EntryAt(i))
    BY <1>9, <1>14, <2>1, NewestExists
  <2>3. \A e \in W : e.at \in Nat /\ e.id \in Nat
    BY <1>3 DEF BoundedHistory, Entry
  <2>4. top \in W
    BY <2>2 DEF OfType
  <2> HIDE DEF top
  <2>5. QED
    BY <1>11, <1>13, <2>2, <2>3, <2>4 DEF IsNewer, top
<1>17. QED
  BY <1>3, <1>7, <1>8, <1>13, <1>15, <1>16

(* The earlier breaks of the cycle are among those the code counted when   *)
(* it admitted the last one.                                               *)
LEMMA BreaksCounted ==
  ASSUME IInv, InOrder, NEW p \in Participants, NEW i \in Ids(p, {"check_in"}),
         \A o \in Ids(p, {"check_out"}) : o > i,
         NEW b \in BreaksOfCycle(p, i), \A c \in BreaksOfCycle(p, i) : c <= b
  PROVE  Cardinality(BreaksOfCycle(p, i)) <= MaxBreaks
<1> DEFINE All == BreaksOfCycle(p, i)
<1> DEFINE W == RecordsFrom(History(records, p, b - 1), windowOf[b])
<1> DEFINE starts == OfType(CycleRecords(W), "break_start")
<1> DEFINE f == [c \in All \ {b} |-> EntryAt(c)]
<1>1. /\ EntryAt(i) \in W /\ OfType(W, "check_out") = {}
      /\ Newest(OfType(W, "check_in")) = EntryAt(i)
      /\ Cardinality(starts) < MaxBreaks
      /\ BoundedHistory(W, b - 1, clock)
  BY BreakBelongs
<1>2. /\ All \subseteq 1 .. Len(records) /\ Len(records) \in Nat /\ b \in 1 .. Len(records)
      /\ i \in 1 .. Len(records)
      /\ \A c \in All : records[c].who = p /\ records[c].action = "break_start" /\ i < c
  BY EntryTimes DEF BreaksOfCycle, Ids
<1>3. IsFiniteSet(1 .. Len(records)) /\ IsFiniteSet(All)
  <2>1. IsFiniteSet(1 .. Len(records))
    BY <1>2, FS_Interval
  <2>2. QED
    BY <1>2, <2>1, FS_Subset
<1>4. IsFiniteSet(starts)
  <2>1. starts \subseteq History(records, p, b - 1)
    BY DEF OfType, CycleRecords, RecordsFrom
  <2>2. \A e \in starts : e.id \in 1 .. Len(records) /\ e = EntryAt(e.id)
    BY <1>2, <2>1 DEF History, EntryAt
  <2> DEFINE id == [e \in starts |-> e.id]
  <2>3. id \in Injection(starts, 1 .. Len(records))
    BY <2>2 DEF Injection, IsInjective
  <2>4. QED
    BY <1>3, <2>3, FS_Injection
<1>5. ASSUME NEW c \in All \ {b}
      PROVE  EntryAt(c) \in starts
  <2>1. c \in 1 .. b - 1 /\ i < c /\ c \in 1 .. Len(records)
    BY <1>2
  <2>2. EntryAt(c) \in History(records, p, b - 1)
    BY <1>2, <2>1 DEF History, EntryAt
  <2>3. records[i].at <= records[c].at /\ records[i].at \in Nat /\ records[c].at \in Nat
    BY <1>2, <2>1, EntryTimes DEF InOrder
  <2>4. EntryAt(i).at >= windowOf[b] /\ windowOf[b] \in Int
    <3>1. EntryAt(i).at >= windowOf[b]
      BY <1>1 DEF RecordsFrom
    <3>2. windowOf[b] \in Int
      BY <1>2, ElementOfSeq DEF IInv, TypeOK
    <3>3. QED
      BY <3>1, <3>2
  <2>5. EntryAt(c) \in W
    BY <2>2, <2>3, <2>4 DEF RecordsFrom, EntryAt
  <2>6. QED
    BY <1>1, <1>2, <2>3, <2>5 DEF OfType, CycleRecords, EntryAt
<1>6. f \in Injection(All \ {b}, starts)
  <2>1. f \in [All \ {b} -> starts]
    BY <1>5
  <2>2. \A c, d \in All \ {b} : f[c] = f[d] => c = d
    BY DEF EntryAt
  <2>3. QED
    BY <2>1, <2>2 DEF Injection, IsInjective
<1> HIDE DEF All, starts, f
<1>7. Cardinality(All \ {b}) <= Cardinality(starts)
  BY <1>4, <1>6, FS_Injection
<1>8. Cardinality(All \ {b}) = Cardinality(All) - 1
  BY <1>3, FS_RemoveElement DEF All
<1>9. Cardinality(All) \in Nat /\ Cardinality(starts) \in Nat /\ MaxBreaks \in Nat
  BY <1>3, <1>4, FS_CardinalityType, RulesAssumption
<1>10. QED
  BY <1>1, <1>7, <1>8, <1>9 DEF All, starts

LEMMA CapKept ==
  ASSUME IInv
  PROVE  BreakCapBeforeCheckOut
<1> SUFFICES ASSUME InOrder, NEW p \in Participants, NEW i \in Ids(p, {"check_in"}),
                    \A o \in Ids(p, {"check_out"}) : o > i
             PROVE  Cardinality(BreaksOfCycle(p, i)) <= MaxBreaks
  BY DEF BreakCapBeforeCheckOut
<1>1. CASE BreaksOfCycle(p, i) = {}
  BY <1>1, FS_EmptySet, RulesAssumption
<1>2. CASE BreaksOfCycle(p, i) # {}
  <2>1. Len(records) \in Nat /\ BreaksOfCycle(p, i) \subseteq 1 .. Len(records)
    BY EntryTimes DEF BreaksOfCycle, Ids
  <2>2. QED
    BY <1>2, <2>1, GreatestIn, BreaksCounted
<1>3. QED
  BY <1>1, <1>2

(* However many threads compete, a cycle before the first check-out has at *)
(* most max_breaks breaks ("max-breaks caps number of break_start records  *)
(* per check-in cycle", services.py:52).                                   *)
THEOREM BreaksAreCapped == Spec => []BreakCapBeforeCheckOut
<1>1. IInv => BreakCapBeforeCheckOut
  BY CapKept
<1>2. QED
  BY <1>1, Invariance, PTL
=============================================================================
