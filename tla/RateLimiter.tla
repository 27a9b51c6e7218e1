---------------------------- MODULE RateLimiter ----------------------------
(***************************************************************************)
(* The dashboard's request path in src/dashboard.rs: the rate_limit         *)
(* middleware around require_auth and the handlers, for several requests in *)
(* progress on connections that are open.  A bucket is what RateLimiter     *)
(* keeps of one client address: how many requests it let through since its  *)
(* window began, and when that was.  The mutex spans purge_old and          *)
(* is_allowed, which read the clock each for themselves.                    *)
(***************************************************************************)
EXTENDS Integers, Sequences, FiniteSets

CONSTANTS
    Requests,   \* requests in progress
    Addresses,  \* client addresses
    Address,    \* the address each request comes from
    Window,     \* RATE_LIMIT_WINDOW in ticks
    Limit,      \* RATE_LIMIT_MAX
    NoBucket,   \* no entry for the address
    NoRequest,  \* nobody holds the mutex
    MaxTime     \* bound: ticks

ASSUME AddressAssumption == Address \in [Requests -> Addresses]
ASSUME WindowAssumption == Window \in Nat \ {0} /\ Limit \in Nat \ {0}
ASSUME NoBucketAssumption == NoBucket \notin Nat \X Nat
ASSUME NoRequestAssumption == NoRequest \notin Requests

VARIABLES
    now,        \* Instant::now()
    buckets,    \* per address: <<count, start>> or NoBucket
    holder,     \* who holds the mutex
    pc,         \* per request: "idle", "arrived", "purged" or "inside"
    passed      \* history, per address: when its last 2 * Limit requests
                \* were let through

limiterVars == <<now, buckets, holder, pc, passed>>

(* Types.                                                                   *)
LimiterTypeOK ==
    /\ now \in Nat
    /\ buckets \in [Addresses -> (Nat \X Nat) \cup {NoBucket}]
    /\ holder \in Requests \cup {NoRequest}
    /\ pc \in [Requests -> {"idle", "arrived", "purged", "inside"}]
    /\ passed \in [Addresses -> Seq(Nat)]
    /\ \A a \in Addresses : buckets[a] # NoBucket => buckets[a][1] \in 1 .. Limit

LimiterInit ==
    /\ now = 0
    /\ buckets = [a \in Addresses |-> NoBucket]
    /\ holder = NoRequest
    /\ pc = [r \in Requests |-> "idle"]
    /\ passed = [a \in Addresses |-> <<>>]

----------------------------------------------------------------------------

Tick ==
    /\ now < MaxTime
    /\ now' = now + 1
    /\ UNCHANGED <<buckets, holder, pc, passed>>

(* A request for a protected route reaches the outer layer.                 *)
Arrive(r) ==
    /\ pc[r] = "idle"
    /\ pc' = [pc EXCEPT ![r] = "arrived"]
    /\ UNCHANGED <<now, buckets, holder, passed>>

\* Mutant of Stale: buckets are dropped while their window runs.
StaleTooSoon(b) == now - b[2] >= Window - 1

\* purge_old drops a bucket that began this long ago.
Stale(b) == now - b[2] >= Window * 2

\* Mutant of Purge: purge_old is not called.
PurgeNothing(r) ==
    /\ pc[r] = "arrived"
    /\ holder = NoRequest
    /\ holder' = r
    /\ pc' = [pc EXCEPT ![r] = "purged"]
    /\ UNCHANGED <<now, buckets, passed>>

(* The mutex is taken and old buckets of all addresses are dropped.         *)
Purge(r) ==
    /\ pc[r] = "arrived"
    /\ holder = NoRequest
    /\ holder' = r
    /\ buckets' = [a \in Addresses |->
                      IF buckets[a] # NoBucket /\ Stale(buckets[a])
                      THEN NoBucket ELSE buckets[a]]
    /\ pc' = [pc EXCEPT ![r] = "purged"]
    /\ UNCHANGED <<now, passed>>

\* The bucket of address a, or a new one.
Entry(a) == IF buckets[a] = NoBucket THEN <<0, now>> ELSE buckets[a]

\* Mutant of Counted: a renewed window starts at the count of the old one.
CountedOn(b) ==
    IF now - b[2] >= Window THEN <<b[1], now>> ELSE <<b[1] + 1, b[2]>>

\* Mutant of Counted: the request that renews the window is not counted.
CountedFromZero(b) ==
    IF now - b[2] >= Window THEN <<0, now>> ELSE <<b[1] + 1, b[2]>>

\* Bucket b with one more request let through.
Counted(b) ==
    IF now - b[2] >= Window THEN <<1, now>> ELSE <<b[1] + 1, b[2]>>

\* One more request let through now, of which the last ones are kept.
Recorded(times) ==
    IF Len(times) < 2 * Limit THEN Append(times, now) ELSE Append(Tail(times), now)

\* Mutant of Allow: the guard lives until the handler has answered.
AllowKeepsMutex(r) ==
    LET a == Address[r]
        b == Entry(a) IN
    /\ pc[r] = "purged"
    /\ now - b[2] >= Window \/ b[1] < Limit
    /\ buckets' = [buckets EXCEPT ![a] = Counted(b)]
    /\ passed' = [passed EXCEPT ![a] = Recorded(@)]
    /\ pc' = [pc EXCEPT ![r] = "inside"]
    /\ UNCHANGED <<now, holder>>

(* is_allowed says yes; the guard is dropped before next.run.               *)
Allow(r) ==
    LET a == Address[r]
        b == Entry(a) IN
    /\ pc[r] = "purged"
    /\ now - b[2] >= Window \/ b[1] < Limit
    /\ buckets' = [buckets EXCEPT ![a] = Counted(b)]
    /\ passed' = [passed EXCEPT ![a] = Recorded(@)]
    /\ holder' = NoRequest
    /\ pc' = [pc EXCEPT ![r] = "inside"]
    /\ UNCHANGED now

(* is_allowed says no: 429, and the guard is dropped.                       *)
Refuse(r) ==
    LET a == Address[r]
        b == Entry(a) IN
    /\ pc[r] = "purged"
    /\ now - b[2] < Window /\ b[1] >= Limit
    /\ holder' = NoRequest
    /\ pc' = [pc EXCEPT ![r] = "idle"]
    /\ UNCHANGED <<now, buckets, passed>>

(* require_auth: 401, or the handler runs and answers; neither touches the  *)
(* limiter, so a request without the token is counted like any other.       *)
Answer(r) ==
    /\ pc[r] = "inside"
    /\ pc' = [pc EXCEPT ![r] = "idle"]
    /\ UNCHANGED <<now, buckets, holder, passed>>

(* The connection ends and the request is dropped where it waits: for the   *)
(* mutex, or in require_auth or a handler.  Between lock and guard drop     *)
(* there is no await, so the mutex is not lost.                             *)
Cancel(r) ==
    /\ pc[r] \in {"arrived", "inside"}
    /\ pc' = [pc EXCEPT ![r] = "idle"]
    /\ UNCHANGED <<now, buckets, holder, passed>>

LimiterStep(r) == Purge(r) \/ Allow(r) \/ Refuse(r) \/ Answer(r)

----------------------------------------------------------------------------

(* Fixed windows let no more than 2 * Limit - 1 requests through in any     *)
(* span shorter than the window: 119 in a minute, not the 60 that the head  *)
(* of dashboard.rs names, and not 120, since a window begins at a request.  *)
AtMostTwiceTheRate ==
    \A a \in Addresses :
        Len(passed[a]) = 2 * Limit => passed[a][2 * Limit] - passed[a][1] >= Window
=============================================================================
