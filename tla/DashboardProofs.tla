--------------------------- MODULE DashboardProofs ---------------------------
(***************************************************************************)
(* What the rate limiter and the server in front of it guarantee for every  *)
(* number of requests and addresses, every limit and window, and however    *)
(* long the clock runs.                                                     *)
(***************************************************************************)
EXTENDS Dashboard, SequenceTheorems, FiniteSetTheorems, TLAPS

----------------------------------------------------------------------------
(* Types.                                                                   *)

(* A bucket with one more request in it is a bucket.                        *)
LEMMA CountedType ==
    ASSUME TypeOK, NEW r \in Requests, pc[r] = "purged",
           LET b == Entry(Address[r]) IN now - b[2] >= Window \/ b[1] < Limit
    PROVE  LET b == Counted(Entry(Address[r])) IN b \in Nat \X Nat /\ b[1] \in 1 .. Limit
<1> DEFINE a == Address[r]
           b == Entry(a)
<1>1. a \in Addresses /\ now \in Nat /\ Limit \in Nat \ {0}
  BY AddressAssumption, WindowAssumption DEF TypeOK, LimiterTypeOK
<1>2. b \in Nat \X Nat /\ b[1] \in 0 .. Limit
  <2>1. CASE buckets[a] = NoBucket
    BY <1>1, <2>1 DEF Entry
  <2>2. CASE buckets[a] # NoBucket
    BY <1>1, <2>2 DEF Entry, TypeOK, LimiterTypeOK
  <2> QED BY <2>1, <2>2
<1>3. CASE now - b[2] >= Window
  BY <1>1, <1>3 DEF Counted
<1>4. CASE ~(now - b[2] >= Window)
  <2>1. b[1] < Limit /\ Counted(b) = <<b[1] + 1, b[2]>>
    BY <1>4 DEF Counted
  <2> QED BY <1>1, <1>2, <2>1
<1> QED BY <1>3, <1>4

(* One more time is noted after the others, the oldest of which goes when   *)
(* there are 2 * Limit of them.                                             *)
Dropped(times) == IF Len(times) < 2 * Limit THEN 0 ELSE 1

LEMMA RecordedProperties ==
    ASSUME now \in Nat, NEW times \in Seq(Nat)
    PROVE  LET new == Recorded(times)
               n == Len(times) + 1 - Dropped(times) IN
           /\ new \in Seq(Nat)
           /\ Len(new) = n
           /\ n \in Nat \ {0}
           /\ Len(times) <= 2 * Limit => n <= 2 * Limit
           /\ new[n] = now
           /\ \A i \in 1 .. n - 1 : new[i] = times[i + Dropped(times)]
<1>1. Limit \in Nat \ {0} /\ Len(times) \in Nat
  BY WindowAssumption, LenProperties
<1>2. CASE Len(times) < 2 * Limit
  <2>1. Recorded(times) = Append(times, now) /\ Dropped(times) = 0
    BY <1>2 DEF Recorded, Dropped
  <2> QED BY <1>1, <1>2, <2>1, AppendProperties
<1>3. CASE Len(times) >= 2 * Limit
  <2>1. Recorded(times) = Append(Tail(times), now) /\ Dropped(times) = 1
    BY <1>1, <1>3 DEF Recorded, Dropped
  <2>2. /\ Tail(times) \in Seq(Nat)
        /\ Len(Tail(times)) = Len(times) - 1
        /\ \A i \in 1 .. Len(times) - 1 : Tail(times)[i] = times[i + 1]
    BY <1>1, <1>3, HeadTailProperties, EmptySeq
  <2> QED BY <1>1, <1>3, <2>1, <2>2, AppendProperties
<1> QED BY <1>1, <1>2, <1>3

(* Every step keeps the types, and a request in progress keeps its          *)
(* connection open.                                                         *)
LEMMA TypeStep == TypeOK /\ [Next]_vars => TypeOK'
<1> SUFFICES ASSUME TypeOK, [Next]_vars PROVE TypeOK'
  OBVIOUS
<1> USE AddressAssumption, WindowAssumption, NoBucketAssumption,
        NoRequestAssumption DEF TypeOK, LimiterTypeOK, vars, limiterVars
<1>1. CASE Tick /\ UNCHANGED <<server, wire>>
  BY <1>1 DEF Tick
<1>2. CASE StartServer
  BY <1>2 DEF StartServer
<1>3. CASE AcceptFails
  BY <1>3 DEF AcceptFails
<1>4. ASSUME NEW a \in Addresses, Dial(a) PROVE TypeOK'
  BY <1>4 DEF Dial
<1>5. ASSUME NEW a \in Addresses, Accept(a) PROVE TypeOK'
  BY <1>5 DEF Accept
<1>6. ASSUME NEW a \in Addresses, Handshake(a) PROVE TypeOK'
  BY <1>6 DEF Handshake
<1>7. ASSUME NEW a \in Addresses, Hangup(a) PROVE TypeOK'
  BY <1>7 DEF Hangup, Quiet
<1>8. ASSUME NEW r \in Requests, wire[Address[r]] = "open", Arrive(r),
             UNCHANGED <<server, wire>>
      PROVE  TypeOK'
  BY <1>8 DEF Arrive
<1>9. ASSUME NEW r \in Requests, Cancel(r), UNCHANGED <<server, wire>>
      PROVE  TypeOK'
  BY <1>9 DEF Cancel
<1>10. ASSUME NEW r \in Requests, Purge(r), UNCHANGED <<server, wire>>
       PROVE  TypeOK'
  BY <1>10 DEF Purge
<1>11. ASSUME NEW r \in Requests, Allow(r), UNCHANGED <<server, wire>>
       PROVE  TypeOK'
  <2> DEFINE a == Address[r]
             b == Counted(Entry(a))
  <2>1. a \in Addresses /\ b \in Nat \X Nat /\ b[1] \in 1 .. Limit
    BY <1>11, CountedType DEF Allow
  <2>2. buckets' = [buckets EXCEPT ![a] = b]
    BY <1>11 DEF Allow
  <2>3. Recorded(passed[a]) \in Seq(Nat)
    BY <2>1, RecordedProperties
  <2> QED BY <1>11, <2>1, <2>2, <2>3 DEF Allow
<1>12. ASSUME NEW r \in Requests, Refuse(r), UNCHANGED <<server, wire>>
       PROVE  TypeOK'
  BY <1>12 DEF Refuse
<1>13. ASSUME NEW r \in Requests, Answer(r), UNCHANGED <<server, wire>>
       PROVE  TypeOK'
  BY <1>13 DEF Answer
<1>14. CASE UNCHANGED vars
  BY <1>14
<1> QED
  BY <1>1, <1>2, <1>3, <1>4, <1>5, <1>6, <1>7, <1>8, <1>9, <1>10, <1>11,
     <1>12, <1>13, <1>14 DEF Next, Served, LimiterStep

----------------------------------------------------------------------------
(* The mutex.                                                               *)

(* Whoever is between purge_old and is_allowed holds the mutex, and nobody  *)
(* else does.                                                               *)
MutexInv ==
    \A r \in Requests : holder = r <=> pc[r] = "purged"

(* Every step keeps it: a request that is dropped does not hold it.         *)
LEMMA MutexStep == TypeOK /\ MutexInv /\ [Next]_vars => MutexInv'
<1> SUFFICES ASSUME TypeOK, MutexInv, [Next]_vars PROVE MutexInv'
  OBVIOUS
<1> USE NoRequestAssumption DEF TypeOK, LimiterTypeOK, MutexInv, vars, limiterVars
<1>1. CASE Tick /\ UNCHANGED <<server, wire>>
  BY <1>1 DEF Tick
<1>2. CASE StartServer
  BY <1>2 DEF StartServer
<1>3. CASE AcceptFails
  BY <1>3 DEF AcceptFails
<1>4. ASSUME NEW a \in Addresses, Dial(a) \/ Accept(a) \/ Handshake(a) \/ Hangup(a)
      PROVE  MutexInv'
  BY <1>4 DEF Dial, Accept, Handshake, Hangup
<1>5. ASSUME NEW r \in Requests, Arrive(r) \/ Cancel(r) PROVE MutexInv'
  BY <1>5 DEF Arrive, Cancel
<1>6. ASSUME NEW r \in Requests, Purge(r) PROVE MutexInv'
  BY <1>6 DEF Purge
<1>7. ASSUME NEW r \in Requests, Allow(r) PROVE MutexInv'
  BY <1>7 DEF Allow
<1>8. ASSUME NEW r \in Requests, Refuse(r) PROVE MutexInv'
  BY <1>8 DEF Refuse
<1>9. ASSUME NEW r \in Requests, Answer(r) PROVE MutexInv'
  BY <1>9 DEF Answer
<1>10. CASE UNCHANGED vars
  BY <1>10
<1> QED
  BY <1>1, <1>2, <1>3, <1>4, <1>5, <1>6, <1>7, <1>8, <1>9, <1>10
     DEF Next, Served, LimiterStep

----------------------------------------------------------------------------
(* Windows.                                                                 *)

(* What the times of the requests an address was let through have to do     *)
(* with its bucket at time t.  They are in order; without a bucket the last *)
(* window is over; the requests a bucket counts are the last ones, they     *)
(* began with its window and fall into it; those a limit and more before    *)
(* its window belong to windows that were over when it began.               *)
Spaced(times, bucket, t) ==
    LET n == Len(times) IN
    /\ n <= 2 * Limit
    /\ \A i \in 1 .. n : times[i] <= t
    /\ \A i, j \in 1 .. n : i <= j => times[i] <= times[j]
    /\ n = 2 * Limit => times[n] - times[1] >= Window
    /\ bucket = NoBucket => \A i \in 1 .. n : t - times[i] >= Window
    /\ bucket # NoBucket =>
          LET first == n - bucket[1] + 1 IN
          /\ first >= 1
          /\ times[first] = bucket[2]
          /\ \A i \in first .. n : times[i] - bucket[2] < Window
          /\ \A i \in 1 .. first - Limit : bucket[2] - times[i] >= Window

RateInv == \A a \in Addresses : Spaced(passed[a], buckets[a], now)

(* Without a bucket it does not matter when the next request comes.         *)
LEMMA SpacedLater ==
    ASSUME NEW times \in Seq(Nat), NEW bucket \in (Nat \X Nat) \cup {NoBucket},
           NEW t \in Nat, NEW u \in Nat, t <= u, Spaced(times, bucket, t)
    PROVE  Spaced(times, bucket, u)
<1>1. \A i \in 1 .. Len(times) : times[i] \in Nat
  OBVIOUS
<1> QED BY <1>1, WindowAssumption, SMTT(30) DEF Spaced

(* A bucket that is stale has a window that is over.                        *)
LEMMA SpacedPurged ==
    ASSUME NEW times \in Seq(Nat), NEW bucket \in Nat \X Nat, now \in Nat,
           bucket # NoBucket, bucket[1] \in 1 .. Limit,
           Spaced(times, bucket, now), Stale(bucket)
    PROVE  Spaced(times, NoBucket, now)
<1> DEFINE n == Len(times)
           c == bucket[1]
           s == bucket[2]
           first == n - c + 1
<1>1. /\ n \in Nat /\ c \in Nat /\ 1 <= c /\ s \in Nat
      /\ Window \in Nat \ {0}
      /\ \A i \in 1 .. n : times[i] \in Nat
  BY WindowAssumption
<1>2. /\ first >= 1 /\ times[first] = s
      /\ \A i \in first .. n : times[i] - s < Window
      /\ \A i, j \in 1 .. n : i <= j => times[i] <= times[j]
  BY DEF Spaced
<1>3. now - s >= 2 * Window
  BY <1>1 DEF Stale
<1> HIDE DEF c, s
<1>4. ASSUME NEW i \in 1 .. n PROVE now - times[i] >= Window
  <2>1. CASE i >= first
    <3>1. times[i] - s < Window
      BY <1>1, <1>2, <2>1
    <3> QED BY <1>1, <1>3, <3>1
  <2>2. CASE i < first
    <3>1. first \in 1 .. n /\ i <= first
      BY <1>1, <1>2, <2>2
    <3>2. times[i] <= times[first]
      BY <1>2, <3>1
    <3>3. times[i] <= s /\ times[i] \in Nat
      BY <1>1, <1>2, <3>2
    <3> QED BY <1>1, <1>3, <3>3
  <2> QED BY <1>1, <2>1, <2>2
<1> QED BY <1>4 DEF Spaced

(* One more time at the end leaves the times in order.                      *)
LEMMA RecordedInOrder ==
    ASSUME NEW times \in Seq(Nat), now \in Nat, NEW bucket, Spaced(times, bucket, now)
    PROVE  LET new == Recorded(times)
               m == Len(times) + 1 - Dropped(times) IN
           /\ new \in Seq(Nat) /\ Len(new) = m /\ m \in Nat /\ 1 <= m /\ m <= 2 * Limit
           /\ Dropped(times) \in 0 .. 1 /\ (Dropped(times) = 1 => m = 2 * Limit)
           /\ new[m] = now
           /\ \A i \in 1 .. m - 1 :
                 new[i] = times[i + Dropped(times)] /\ i + Dropped(times) \in 1 .. Len(times)
           /\ \A i \in 1 .. m : new[i] \in Nat /\ new[i] <= now
           /\ \A i, j \in 1 .. m : i <= j => new[i] <= new[j]
<1> DEFINE n == Len(times)
           d == Dropped(times)
           new == Recorded(times)
           m == n + 1 - d
<1>1. n \in Nat /\ Limit \in Nat \ {0} /\ n <= 2 * Limit
  BY WindowAssumption DEF Spaced
<1>2. (d = 0 /\ n < 2 * Limit) \/ (d = 1 /\ n = 2 * Limit)
  BY <1>1 DEF Dropped
<1>3. /\ new \in Seq(Nat) /\ Len(new) = m
      /\ new[m] = now
      /\ \A i \in 1 .. m - 1 : new[i] = times[i + d]
  BY RecordedProperties
<1> HIDE DEF d, new
<1>4. m \in Nat /\ 1 <= m /\ m <= 2 * Limit
  BY <1>1, <1>2
<1>5. \A i \in 1 .. m - 1 : i + d \in 1 .. n
  BY <1>1, <1>2
<1>6. \A i \in 1 .. m : new[i] \in Nat
  BY <1>3, <1>4
<1>7. \A i \in 1 .. m : new[i] <= now
  <2> SUFFICES ASSUME NEW i \in 1 .. m PROVE new[i] <= now
    OBVIOUS
  <2>1. CASE i = m
    BY <1>3, <2>1
  <2>2. CASE i \in 1 .. m - 1
    <3>1. i + d \in 1 .. n /\ new[i] = times[i + d]
      BY <1>3, <1>5, <2>2
    <3>2. \A k \in 1 .. n : times[k] <= now
      BY DEF Spaced
    <3> QED BY <3>1, <3>2
  <2> QED BY <1>4, <2>1, <2>2
<1>8. \A i, j \in 1 .. m : i <= j => new[i] <= new[j]
  <2> SUFFICES ASSUME NEW i \in 1 .. m, NEW j \in 1 .. m, i <= j
               PROVE  new[i] <= new[j]
    OBVIOUS
  <2>1. CASE j = m
    BY <1>3, <1>7, <2>1
  <2>2. CASE j \in 1 .. m - 1
    <3>1. i \in 1 .. m - 1
      BY <1>4, <2>2
    <3>2. /\ i + d \in 1 .. n /\ new[i] = times[i + d]
          /\ j + d \in 1 .. n /\ new[j] = times[j + d]
      BY <1>3, <1>5, <2>2, <3>1
    <3>3. i + d <= j + d
      BY <1>1, <1>2, <1>4
    <3>4. \A k, l \in 1 .. n : k <= l => times[k] <= times[l]
      BY DEF Spaced
    <3> QED BY <3>2, <3>3, <3>4
  <2> QED BY <1>4, <2>1, <2>2
<1> QED BY <1>2, <1>1, <1>3, <1>4, <1>5, <1>6, <1>7, <1>8, SMTT(30) DEF d, new

(* A request that opens a window comes a window after those before.         *)
LEMMA SpacedRenewed ==
    ASSUME NEW times \in Seq(Nat), NEW bucket \in (Nat \X Nat) \cup {NoBucket},
           now \in Nat, bucket # NoBucket => bucket[1] \in 1 .. Limit,
           Spaced(times, bucket, now),
           bucket = NoBucket \/ now - bucket[2] >= Window
    PROVE  Spaced(Recorded(times), <<1, now>>, now)
<1> DEFINE n == Len(times)
           d == Dropped(times)
           new == Recorded(times)
           m == n + 1 - d
<1>1. /\ n \in Nat /\ Window \in Nat \ {0} /\ Limit \in Nat \ {0}
      /\ d \in 0 .. 1 /\ (d = 1 => m = 2 * Limit)
      /\ \A i \in 1 .. n : times[i] \in Nat
  BY WindowAssumption, RecordedInOrder
<1>2. /\ new \in Seq(Nat) /\ Len(new) = m /\ m \in Nat /\ 1 <= m /\ m <= 2 * Limit
      /\ new[m] = now
      /\ \A i \in 1 .. m - 1 : new[i] = times[i + d] /\ i + d \in 1 .. n
      /\ \A i \in 1 .. m : new[i] \in Nat /\ new[i] <= now
      /\ \A i, j \in 1 .. m : i <= j => new[i] <= new[j]
  BY RecordedInOrder
<1> HIDE DEF d, new
<1>3. ASSUME NEW i \in 1 .. m - Limit PROVE now - new[i] >= Window
  <2>1. i \in 1 .. m - 1
    BY <1>1, <1>2
  <2>2. i + d \in 1 .. n /\ new[i] = times[i + d] /\ times[i + d] \in Nat
    BY <1>1, <1>2, <2>1
  <2>3. CASE bucket = NoBucket
    BY <2>2, <2>3 DEF Spaced
  <2>4. CASE bucket # NoBucket
    <3> DEFINE c == bucket[1]
               s == bucket[2]
               first == n - c + 1
    <3>1. /\ c \in Nat /\ 1 <= c /\ c <= Limit /\ s \in Nat
          /\ now - s >= Window
          /\ first >= 1 /\ times[first] = s
      BY <2>4 DEF Spaced
    <3> HIDE DEF c, s
    <3>2. first \in 1 .. n /\ i + d <= first
      BY <1>1, <3>1
    <3>3. times[i + d] <= times[first]
      BY <2>2, <3>2 DEF Spaced
    <3> QED BY <1>1, <2>2, <3>1, <3>3
  <2> QED BY <2>3, <2>4
<1>4. m = 2 * Limit => new[m] - new[1] >= Window
  <2>1. m = 2 * Limit => 1 \in 1 .. m - Limit
    BY <1>1
  <2> QED BY <1>2, <1>3, <2>1
<1>5. ASSUME NEW i \in m .. m PROVE new[i] - now < Window
  BY <1>1, <1>2
<1> DEFINE k == <<1, now>>
<1>6. k # NoBucket /\ k[1] = 1 /\ k[2] = now /\ Len(new) - k[1] + 1 = m
  BY <1>2, NoBucketAssumption
<1> HIDE DEF k
<1>7. Spaced(new, k, now)
  BY <1>2, <1>3, <1>4, <1>5, <1>6 DEF Spaced
<1> QED BY <1>7 DEF k, new

(* A request inside a window is one more of it.                             *)
LEMMA SpacedCounted ==
    ASSUME NEW times \in Seq(Nat), NEW bucket \in Nat \X Nat, now \in Nat,
           bucket # NoBucket, bucket[1] \in 1 .. Limit,
           Spaced(times, bucket, now),
           now - bucket[2] < Window, bucket[1] < Limit
    PROVE  Spaced(Recorded(times), <<bucket[1] + 1, bucket[2]>>, now)
<1> DEFINE n == Len(times)
           d == Dropped(times)
           new == Recorded(times)
           m == n + 1 - d
           c == bucket[1]
           s == bucket[2]
           first == n - c + 1
<1>1. /\ n \in Nat /\ Window \in Nat \ {0} /\ Limit \in Nat \ {0}
      /\ d \in 0 .. 1 /\ (d = 1 => m = 2 * Limit)
      /\ c \in Nat /\ 1 <= c /\ c < Limit /\ s \in Nat /\ now - s < Window
  BY WindowAssumption, RecordedInOrder
<1>2. /\ new \in Seq(Nat) /\ Len(new) = m /\ m \in Nat /\ 1 <= m /\ m <= 2 * Limit
      /\ new[m] = now
      /\ \A i \in 1 .. m - 1 : new[i] = times[i + d] /\ i + d \in 1 .. n
      /\ \A i \in 1 .. m : new[i] \in Nat /\ new[i] <= now
      /\ \A i, j \in 1 .. m : i <= j => new[i] <= new[j]
  BY RecordedInOrder
<1>3. /\ first >= 1 /\ times[first] = s
      /\ \A i \in first .. n : times[i] - s < Window
      /\ \A i \in 1 .. first - Limit : s - times[i] >= Window
      /\ \A i \in 1 .. n : times[i] <= now
  BY DEF Spaced
<1> HIDE DEF d, new, c, s
<1>4. first \in 1 .. n /\ first - d \in 1 .. m - 1 /\ m - (c + 1) + 1 = first - d
  BY <1>1, <1>3, SMTT(30)
<1>5. new[first - d] = s /\ s <= now
  <2>1. new[first - d] = times[(first - d) + d] /\ (first - d) + d = first
    BY <1>1, <1>2, <1>4
  <2> QED BY <1>3, <1>4, <2>1
<1>6. ASSUME NEW i \in first - d .. m PROVE new[i] - s < Window
  <2>1. CASE i = m
    BY <1>1, <1>2, <2>1
  <2>2. CASE i # m
    <3>1. i \in 1 .. m - 1
      <4>1. m \in Nat /\ i \in Nat /\ 1 <= i /\ i <= m
        BY <1>1, <1>2, <1>4
      <4> QED BY <2>2, <4>1
    <3>2. i + d \in first .. n
      BY <1>1, <1>4, <3>1
    <3> QED BY <1>2, <1>3, <3>1, <3>2
  <2> QED BY <2>1, <2>2
<1>7. ASSUME NEW i \in 1 .. first - d - Limit PROVE s - new[i] >= Window
  <2>1. i \in 1 .. m - 1 /\ i + d \in 1 .. first - Limit
    BY <1>1, <1>4, SMTT(30)
  <2> QED BY <1>2, <1>3, <2>1
<1>8. m = 2 * Limit => new[m] - new[1] >= Window
  <2> SUFFICES ASSUME m = 2 * Limit PROVE new[m] - new[1] >= Window
    OBVIOUS
  <2>1. 1 \in 1 .. first - d - Limit /\ 1 \in 1 .. m
    BY <1>1, <1>4, SMTT(30)
  <2>2. s - new[1] >= Window /\ new[1] \in Nat
    BY <1>2, <1>7, <2>1
  <2>3. s \in Nat /\ s <= now /\ Window \in Nat
    BY <1>1, <1>5
  <2>4. now - new[1] >= Window
    BY <2>2, <2>3
  <2> QED BY <1>2, <2>4
<1> DEFINE k == <<c + 1, s>>
<1>9. /\ k # NoBucket /\ k[1] = c + 1 /\ k[2] = s
      /\ Len(new) - k[1] + 1 = first - d
  <2>1. k # NoBucket /\ k[1] = c + 1 /\ k[2] = s
    BY <1>1, NoBucketAssumption, SMTT(30)
  <2> QED BY <1>2, <1>4, <2>1
<1> HIDE DEF k
<1>10. Spaced(new, k, now)
  BY <1>2, <1>4, <1>5, <1>6, <1>7, <1>8, <1>9, SMTT(30) DEF Spaced
<1> QED BY <1>10 DEF k, new, c, s

(* Every step keeps the spacing: only requests that are let through, the    *)
(* clock and a new limiter touch it.                                        *)
LEMMA RateStep == TypeOK /\ RateInv /\ [Next]_vars => RateInv'
<1> SUFFICES ASSUME TypeOK, RateInv, [Next]_vars PROVE RateInv'
  OBVIOUS
<1> USE DEF RateInv
<1>0. /\ now \in Nat /\ Address \in [Requests -> Addresses]
      /\ \A a \in Addresses :
            /\ passed[a] \in Seq(Nat)
            /\ buckets[a] \in (Nat \X Nat) \cup {NoBucket}
            /\ buckets[a] # NoBucket => buckets[a][1] \in 1 .. Limit
  BY AddressAssumption DEF TypeOK, LimiterTypeOK
<1>1. CASE Tick
  <2>1. now + 1 \in Nat /\ now <= now + 1
    BY <1>0
  <2>2. \A a \in Addresses : Spaced(passed[a], buckets[a], now + 1)
    BY <1>0, <2>1, SpacedLater
  <2> QED BY <1>1, <2>2 DEF Tick
<1>2. CASE StartServer
  <2>1. Spaced(<<>>, NoBucket, now)
    BY WindowAssumption DEF Spaced
  <2> QED BY <1>2, <2>1 DEF StartServer
<1>3. ASSUME NEW r \in Requests, Purge(r) PROVE RateInv'
  <2> SUFFICES ASSUME NEW a \in Addresses
               PROVE  Spaced(passed[a], buckets'[a], now)
    BY <1>3 DEF Purge
  <2>1. CASE buckets[a] # NoBucket /\ Stale(buckets[a])
    <3>1. Spaced(passed[a], NoBucket, now)
      BY <1>0, <2>1, SpacedPurged
    <3>2. buckets'[a] = NoBucket
      BY <1>3, <2>1 DEF Purge
    <3> QED BY <3>1, <3>2
  <2>2. CASE ~(buckets[a] # NoBucket /\ Stale(buckets[a]))
    <3>1. buckets'[a] = buckets[a]
      BY <1>3, <2>2 DEF Purge
    <3> QED BY <3>1
  <2> QED BY <2>1, <2>2
<1>4. ASSUME NEW r \in Requests, Allow(r) PROVE RateInv'
  <2> DEFINE a == Address[r]
             b == buckets[a]
  <2>1. a \in Addresses /\ Spaced(passed[a], b, now)
    BY <1>0
  <2>2. Spaced(Recorded(passed[a]), Counted(Entry(a)), now)
    <3>1. CASE b = NoBucket
      <4>1. Counted(Entry(a)) = <<1, now>>
        BY <1>0, <3>1, WindowAssumption DEF Entry, Counted
      <4>2. Spaced(Recorded(passed[a]), <<1, now>>, now)
        BY <1>0, <2>1, <3>1, SpacedRenewed
      <4> QED BY <4>1, <4>2
    <3>2. CASE b # NoBucket /\ now - b[2] >= Window
      <4>1. Counted(Entry(a)) = <<1, now>>
        BY <3>2 DEF Entry, Counted
      <4>2. Spaced(Recorded(passed[a]), <<1, now>>, now)
        BY <1>0, <2>1, <3>2, SpacedRenewed
      <4> QED BY <4>1, <4>2
    <3>3. CASE b # NoBucket /\ ~(now - b[2] >= Window)
      <4>1. Counted(Entry(a)) = <<b[1] + 1, b[2]>> /\ b[1] < Limit
        BY <1>4, <3>3 DEF Allow, Entry, Counted
      <4>2. b \in Nat \X Nat /\ now - b[2] < Window
        BY <1>0, <2>1, <3>3, WindowAssumption
      <4>3. Spaced(Recorded(passed[a]), <<b[1] + 1, b[2]>>, now)
        BY <1>0, <2>1, <3>3, <4>1, <4>2, SpacedCounted
      <4> QED BY <4>1, <4>3
    <3> QED BY <3>1, <3>2, <3>3
  <2>3. /\ passed' = [passed EXCEPT ![a] = Recorded(passed[a])]
        /\ buckets' = [buckets EXCEPT ![a] = Counted(Entry(a))]
        /\ now' = now
    BY <1>4 DEF Allow
  <2>4. passed \in [Addresses -> Seq(Nat)] /\ DOMAIN buckets = Addresses
    BY DEF TypeOK, LimiterTypeOK
  <2> HIDE DEF a
  <2>5. ASSUME NEW c \in Addresses PROVE Spaced(passed'[c], buckets'[c], now')
    <3>1. CASE c = a
      BY <2>1, <2>2, <2>3, <2>4, <3>1
    <3>2. CASE c # a
      BY <2>3, <2>4, <3>2
    <3> QED BY <3>1, <3>2
  <2> QED BY <2>5
<1>5. CASE UNCHANGED <<now, buckets, passed>>
  BY <1>5
<1>6. Tick \/ StartServer \/ (\E r \in Requests : Purge(r) \/ Allow(r))
         \/ UNCHANGED <<now, buckets, passed>>
  BY DEF Next, Served, LimiterStep, AcceptFails, Dial, Accept, Handshake,
         Hangup, Arrive, Cancel, Refuse, Answer, vars, limiterVars
<1> QED BY <1>1, <1>2, <1>3, <1>4, <1>5, <1>6

----------------------------------------------------------------------------
(* The theorems.                                                            *)

(* The inductive invariant.                                                 *)
IInv == TypeOK /\ MutexInv /\ RateInv

(* It holds at first.                                                       *)
LEMMA InvInit == Init => IInv
<1> SUFFICES ASSUME Init PROVE IInv
  OBVIOUS
<1>1. TypeOK
  BY EmptySeq DEF Init, LimiterInit, TypeOK, LimiterTypeOK
<1>2. MutexInv
  BY NoRequestAssumption DEF Init, LimiterInit, MutexInv
<1>3. Spaced(<<>>, NoBucket, now)
  BY WindowAssumption DEF Spaced
<1>4. RateInv
  BY <1>3 DEF Init, LimiterInit, RateInv
<1> QED BY <1>1, <1>2, <1>4 DEF IInv

(* Every step keeps it.                                                     *)
LEMMA InvStep == IInv /\ [Next]_vars => IInv'
  BY TypeStep, MutexStep, RateStep DEF IInv

(* In every reachable state.                                                *)
LEMMA Invariance == Spec => []IInv
  BY InvInit, InvStep, PTL DEF Spec

(* Types; and only a client whose connection is open has requests, and only *)
(* a server that listens has clients before it.                             *)
THEOREM TypeCorrect == Spec => []TypeOK
<1>1. IInv => TypeOK
  BY DEF IInv
<1> QED BY <1>1, Invariance, PTL

(* No request keeps the mutex beyond its decision, whichever are dropped.   *)
THEOREM MutexIsGivenBack == Spec => []MutexIsNotKept
<1>1. IInv => MutexIsNotKept
  BY NoRequestAssumption DEF IInv, MutexInv, MutexIsNotKept, TypeOK, LimiterTypeOK
<1> QED BY <1>1, Invariance, PTL

(* 2 * Limit requests let through take at least a window: no more than      *)
(* 2 * Limit - 1 fall into any span shorter than that.                      *)
THEOREM RateIsBounded == Spec => []AtMostTwiceTheRate
<1>1. IInv => AtMostTwiceTheRate
  BY DEF IInv, RateInv, Spaced, AtMostTwiceTheRate
<1> QED BY <1>1, Invariance, PTL

(* A bucket that is full and runs stands for that many requests let through *)
(* within the last window.                                                  *)
LEMMA FullBucket ==
    ASSUME NEW times \in Seq(Nat), NEW bucket \in Nat \X Nat, now \in Nat,
           bucket # NoBucket, bucket[1] \in 1 .. Limit,
           Spaced(times, bucket, now),
           now - bucket[2] < Window, bucket[1] >= Limit
    PROVE  Cardinality({k \in 1 .. Len(times) : now - times[k] < Window}) >= Limit
<1> DEFINE n == Len(times)
           s == bucket[2]
           first == n - Limit + 1
           recent == {k \in 1 .. n : now - times[k] < Window}
<1>1. n \in Nat /\ Limit \in Nat \ {0} /\ Window \in Nat /\ s \in Nat /\ bucket[1] = Limit
  BY WindowAssumption
<1>2. /\ first >= 1 /\ times[first] = s
      /\ \A i, j \in 1 .. n : i <= j => times[i] <= times[j]
      /\ now - s < Window
  BY <1>1 DEF Spaced
<1> HIDE DEF s
<1>3. first .. n \subseteq recent
  <2> SUFFICES ASSUME NEW k \in first .. n PROVE now - times[k] < Window
    BY <1>1, <1>2, SMTT(30)
  <2>1. k \in 1 .. n /\ first \in 1 .. n /\ first <= k
    BY <1>1, <1>2
  <2>2. times[k] \in Nat /\ times[first] <= times[k]
    BY <1>2, <2>1, SMTT(30)
  <2>3. s <= times[k]
    BY <1>2, <2>2
  <2> QED BY <1>1, <1>2, <2>2, <2>3, SMTT(30)
<1>4. IsFiniteSet(recent)
  <2>1. IsFiniteSet(1 .. n)
    BY <1>1, FS_Interval
  <2>2. recent \in SUBSET (1 .. n)
    OBVIOUS
  <2> QED BY <2>1, <2>2, FS_Subset
<1>5. Cardinality(first .. n) = Limit
  <2>1. Cardinality(first .. n) = IF first > n THEN 0 ELSE n - first + 1
    BY <1>1, FS_Interval
  <2> QED BY <1>1, <2>1
<1> HIDE DEF recent
<1>6. Cardinality(first .. n) <= Cardinality(recent)
  BY <1>3, <1>4, FS_Subset
<1>7. Cardinality(recent) >= Limit
  BY <1>1, <1>4, <1>5, <1>6, FS_CardinalityType
<1> QED BY <1>7 DEF recent

(* Nobody is refused for what others did, nor for requests refused before,  *)
(* nor under a bucket that should have been purged.                         *)
THEOREM RefusedHaveUsedTheLimit == Spec => RefusalsAreEarned
<1> DEFINE Earned ==
        \A r \in Requests : pc[r] = "purged" /\ pc'[r] = "idle" /\ server' = "listening" =>
            LET times == passed[Address[r]] IN
            Cardinality({k \in 1 .. Len(times) : now - times[k] < Window}) >= Limit
<1>1. IInv /\ [Next]_vars => [Earned]_vars
  <2> SUFFICES ASSUME IInv, Next, NEW r \in Requests,
                      pc[r] = "purged", pc'[r] = "idle", server' = "listening"
               PROVE  LET times == passed[Address[r]] IN
                      Cardinality({k \in 1 .. Len(times) : now - times[k] < Window}) >= Limit
    OBVIOUS
  <2> DEFINE a == Address[r]
  <2>1. Refuse(r)
    BY DEF IInv, TypeOK, LimiterTypeOK, Next, Served, LimiterStep, Tick,
           StartServer, AcceptFails, Dial, Accept, Handshake, Hangup,
           Arrive, Cancel, Purge, Allow, Refuse, Answer, limiterVars
  <2>2. /\ a \in Addresses /\ now \in Nat
        /\ passed[a] \in Seq(Nat)
        /\ buckets[a] \in (Nat \X Nat) \cup {NoBucket}
        /\ buckets[a] # NoBucket => buckets[a][1] \in 1 .. Limit
        /\ Spaced(passed[a], buckets[a], now)
    BY AddressAssumption DEF IInv, RateInv, TypeOK, LimiterTypeOK
  <2>3. /\ buckets[a] # NoBucket
        /\ now - buckets[a][2] < Window /\ buckets[a][1] >= Limit
    BY <2>1, <2>2, WindowAssumption DEF Refuse, Entry
  <2> QED BY <2>2, <2>3, FullBucket
<1> QED BY <1>1, Invariance, PTL DEF Spec, RefusalsAreEarned

(* What the limiter keeps when it decides are clients of the last two       *)
(* windows.                                                                 *)
THEOREM OldClientsAreForgotten == Spec => OnlyRecentClientsKept
<1> DEFINE Recent ==
        \A r \in Requests : pc[r] = "arrived" /\ pc'[r] = "purged" =>
            \A a \in Addresses : buckets'[a] # NoBucket =>
                \E k \in DOMAIN passed[a] : now - passed[a][k] < 2 * Window
<1>1. IInv /\ [Next]_vars => [Recent]_vars
  <2> SUFFICES ASSUME IInv, Next, NEW r \in Requests,
                      pc[r] = "arrived", pc'[r] = "purged",
                      NEW a \in Addresses, buckets'[a] # NoBucket
               PROVE  \E k \in DOMAIN passed[a] : now - passed[a][k] < 2 * Window
    OBVIOUS
  <2>1. Purge(r)
    BY DEF IInv, TypeOK, LimiterTypeOK, Next, Served, LimiterStep, Tick,
           StartServer, AcceptFails, Dial, Accept, Handshake, Hangup,
           Arrive, Cancel, Purge, Allow, Refuse, Answer, limiterVars
  <2> DEFINE times == passed[a]
             first == Len(times) - buckets[a][1] + 1
  <2>2. /\ now \in Nat /\ times \in Seq(Nat)
        /\ buckets[a] # NoBucket => buckets[a] \in Nat \X Nat /\ buckets[a][1] \in 1 .. Limit
        /\ Spaced(times, buckets[a], now)
    BY DEF IInv, RateInv, TypeOK, LimiterTypeOK
  <2>3. buckets[a] # NoBucket /\ ~Stale(buckets[a])
    BY <2>1 DEF Purge
  <2>4. now - buckets[a][2] < 2 * Window
    BY <2>2, <2>3, WindowAssumption DEF Stale
  <2>5. first \in 1 .. Len(times) /\ times[first] = buckets[a][2]
    BY <2>2, <2>3, WindowAssumption, SMTT(30) DEF Spaced
  <2>6. DOMAIN times = 1 .. Len(times)
    BY <2>2
  <2> QED BY <2>4, <2>5, <2>6
<1> QED BY <1>1, Invariance, PTL DEF Spec, OnlyRecentClientsKept
=============================================================================
