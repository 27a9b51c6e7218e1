----------------------------- MODULE Dashboard -----------------------------
(***************************************************************************)
(* run_dashboard_with_key of src/dashboard.rs: one loop that accepts        *)
(* connections and a task of its own for each of them, in front of the      *)
(* rate limiter.  The CLI and the automatic mode of src/main.rs end with    *)
(* the server; the menu goes on and can start it again, with a new limiter, *)
(* while the connections of the old one keep theirs.                        *)
(***************************************************************************)
EXTENDS RateLimiter

CONSTANTS Modes  \* ways to run it: subset of {"process", "menu"}

ASSUME ModesAssumption == Modes \subseteq {"process", "menu"}

VARIABLES
    server,  \* "off" or "listening"
    wire     \* per address, its connection: "away", "queued", "handshake",
             \* "open" or, under a limiter that is left out here, "former"

vars == <<limiterVars, server, wire>>

(* Types.                                                                   *)
TypeOK ==
    /\ LimiterTypeOK
    /\ server \in {"off", "listening"}
    /\ wire \in [Addresses -> {"away", "queued", "handshake", "open", "former"}]
    /\ \A r \in Requests : pc[r] # "idle" => wire[Address[r]] = "open"
    /\ \A a \in Addresses : wire[a] \in {"queued", "handshake", "open"} => server = "listening"

Init ==
    /\ LimiterInit
    /\ server = "off"
    /\ wire = [a \in Addresses |-> "away"]

----------------------------------------------------------------------------

(* The token has 32 characters, the TLS files parse, the port is free; one  *)
(* of them failing is an error before anything has happened.                *)
StartServer ==
    /\ server = "off"
    /\ server' = "listening"
    /\ buckets' = [a \in Addresses |-> NoBucket]
    /\ passed' = [a \in Addresses |-> <<>>]
    /\ UNCHANGED <<now, holder, pc, wire>>

(* A client connects: the kernel queues it for the listener.                *)
Dial(a) ==
    /\ server = "listening"
    /\ wire[a] = "away"
    /\ wire' = [wire EXCEPT ![a] = "queued"]
    /\ UNCHANGED <<limiterVars, server>>

\* Mutant of Accept: the loop waits for the handshake of its last client.
AcceptInTurn(a) ==
    /\ wire[a] = "queued"
    /\ \A b \in Addresses : wire[b] # "handshake"
    /\ wire' = [wire EXCEPT ![a] = "handshake"]
    /\ UNCHANGED <<limiterVars, server>>

(* accept() and spawn; the loop goes back to accept() at once.              *)
Accept(a) ==
    /\ wire[a] = "queued"
    /\ wire' = [wire EXCEPT ![a] = "handshake"]
    /\ UNCHANGED <<limiterVars, server>>

(* The TLS handshake succeeds.  A client need not go on with it, and no     *)
(* timeout makes it.                                                        *)
Handshake(a) ==
    /\ wire[a] = "handshake"
    /\ wire' = [wire EXCEPT ![a] = "open"]
    /\ UNCHANGED <<limiterVars, server>>

\* No request of address a is in the limiter or behind it.
Quiet(a) == \A r \in Requests : Address[r] = a => pc[r] = "idle"

(* The handshake fails, or the client or an error closes the connection:    *)
(* that task returns, and no other.  Requests in progress are dropped first.*)
Hangup(a) ==
    /\ wire[a] # "away"
    /\ Quiet(a)
    /\ wire' = [wire EXCEPT ![a] = "away"]
    /\ UNCHANGED <<limiterVars, server>>

(* accept() fails and ends the loop.  Clients in the queue are reset; the   *)
(* tasks of the others end with the process, or live on in the menu's.      *)
AcceptFails ==
    /\ server = "listening"
    /\ server' = "off"
    /\ \E mode \in Modes :
          wire' = [a \in Addresses |->
                      IF \/ wire[a] = "former"
                         \/ mode = "menu" /\ wire[a] \in {"handshake", "open"}
                      THEN "former" ELSE "away"]
    /\ pc' = [r \in Requests |-> "idle"]
    /\ holder' = NoRequest
    /\ UNCHANGED <<now, buckets, passed>>

\* A step of the server or of a task for a request, not of a client.
Served(r) == LimiterStep(r) /\ UNCHANGED <<server, wire>>

Next ==
    \/ Tick /\ UNCHANGED <<server, wire>>
    \/ StartServer \/ AcceptFails
    \/ \E a \in Addresses : Dial(a) \/ Accept(a) \/ Handshake(a) \/ Hangup(a)
    \/ \E r \in Requests :
          \/ /\ wire[Address[r]] = "open"
             /\ Arrive(r) \/ Cancel(r)
             /\ UNCHANGED <<server, wire>>
          \/ Served(r)

(* The loop is polled when it can run, and the kernel's queue is first in   *)
(* first out.  Nothing is assumed of the clients.                           *)
Spec == Init /\ [][Next]_vars /\ \A a \in Addresses : WF_vars(Accept(a))

----------------------------------------------------------------------------

(* Whoever is refused has used the limit up within the last window: other   *)
(* addresses, refused requests, purging and servers that have ended never   *)
(* count against it.                                                        *)
RefusalsAreEarned ==
    [][\A r \in Requests : pc[r] = "purged" /\ pc'[r] = "idle" /\ server' = "listening" =>
          LET times == passed[Address[r]] IN
          Cardinality({k \in 1 .. Len(times) : now - times[k] < Window}) >= Limit]_vars

(* When a request is decided the limiter remembers only addresses it has    *)
(* let through within the last two windows: the map does not grow with all  *)
(* the addresses there have ever been.                                      *)
OnlyRecentClientsKept ==
    [][\A r \in Requests : pc[r] = "arrived" /\ pc'[r] = "purged" =>
          \A a \in Addresses : buckets'[a] # NoBucket =>
              \E k \in DOMAIN passed[a] : now - passed[a][k] < 2 * Window]_vars

(* Every client is taken out of the queue, whatever the others do with      *)
(* their handshakes.                                                        *)
EveryClientIsTaken ==
    \A a \in Addresses : wire[a] = "queued" ~> wire[a] # "queued"

(* Whoever holds the mutex is about to decide and give it back: no request  *)
(* that is dropped, refused or slow in its handler keeps it.                *)
MutexIsNotKept ==
    holder # NoRequest => pc[holder] = "purged" /\ wire[Address[holder]] = "open"
=============================================================================
