--------------------------- MODULE NonceRegistry ---------------------------
(***************************************************************************)
(* The nonce registry of src/crypto.rs: a HashSet behind a process-wide     *)
(* async mutex, loaded lazily from an append-only file and extended, one    *)
(* nonce at a time, by register_nonce.  Several encryptions (tasks) run in  *)
(* one process, and several processes may share the file.                   *)
(*                                                                          *)
(* A nonce is 12 bytes in the file.  Only "whole" and "part of it" matter,  *)
(* so a nonce occupies two cells here, <<n, 1>> and <<n, 2>>: the loader    *)
(* cuts the file into pairs of cells as chunks_exact(12) cuts it into       *)
(* twelve bytes, and a pair that is not the two cells of one nonce is a     *)
(* value that is no nonce anybody was given.                                *)
(***************************************************************************)
EXTENDS Integers, Sequences

CONSTANTS
    Procs,      \* operating-system processes that run the program
    Tasks,      \* encryptions in progress: one call of register_nonce at a time
    Home,       \* the process each task belongs to
    Nonces,     \* the values OsRng can draw
    NoTask,     \* nobody holds the mutex
    Faults,     \* which failures occur: subset of {"ioerr", "torn", "readerr"}
    MaxCells    \* bound: the file never grows past this many cells

ASSUME HomeAssumption == Home \in [Tasks -> Procs]
ASSUME NoTaskAssumption == NoTask \notin Tasks
ASSUME FaultsAssumption == Faults \subseteq {"ioerr", "torn", "readerr"}
ASSUME MaxCellsAssumption == MaxCells \in Nat

VARIABLES
    log,        \* content of NONCE_LOG_PATH, a sequence of cells
    synced,     \* length of the prefix that sync_data has made durable
    loaded,     \* per process: the Lazy has been forced
    seen,       \* per process: the HashSet
    holder,     \* per process: the task that holds the mutex, or NoTask
    pc,         \* per task: where its register_nonce call is
    drawn,      \* per task: the nonce it drew
    uses,       \* history: how often each nonce was granted, ever
    lifeUses    \* history: the same, by each process since it started

vars == <<log, synced, loaded, seen, holder, pc, drawn, uses, lifeUses>>

Cells == Nonces \X {1, 2}

(* Types; the durable prefix is a prefix.                                   *)
TypeOK ==
    /\ log \in Seq(Cells)
    /\ synced \in 0 .. Len(log)
    /\ loaded \in [Procs -> BOOLEAN]
    /\ seen \in [Procs -> SUBSET Nonces]
    /\ holder \in [Procs -> Tasks \cup {NoTask}]
    /\ pc \in [Tasks -> {"idle", "drawn", "locked", "written", "durable"}]
    /\ drawn \in [Tasks -> Nonces]
    /\ uses \in [Nonces -> Nat]
    /\ lifeUses \in [Procs -> [Nonces -> Nat]]

\* Nonce n is the k-th pair of cells of the first len cells of file l.
ReadsAt(l, len, n, k) ==
    /\ 2 * k <= len
    /\ l[2 * k - 1] = <<n, 1>>
    /\ l[2 * k] = <<n, 2>>

\* What load_nonces_from_disk finds in the first len cells of file l.
Readable(l, len) == {n \in Nonces : \E k \in 1 .. len : ReadsAt(l, len, n, k)}

Init ==
    /\ log = <<>>
    /\ synced = 0
    /\ loaded = [p \in Procs |-> FALSE]
    /\ seen = [p \in Procs |-> {}]
    /\ holder = [p \in Procs |-> NoTask]
    /\ pc = [t \in Tasks |-> "idle"]
    /\ drawn \in [Tasks -> Nonces]
    /\ uses = [n \in Nonces |-> 0]
    /\ lifeUses = [p \in Procs |-> [n \in Nonces |-> 0]]

----------------------------------------------------------------------------

(* OsRng fills the nonce of a new encryption; nothing prevents two draws    *)
(* from being equal but the registry.                                       *)
Draw(t) ==
    /\ pc[t] = "idle"
    /\ \E n \in Nonces : drawn' = [drawn EXCEPT ![t] = n]
    /\ pc' = [pc EXCEPT ![t] = "drawn"]
    /\ UNCHANGED <<log, synced, loaded, seen, holder, uses, lifeUses>>

\* Mutant of Lock: the Lazy starts from an empty set and never reads the file.
LockWithoutLoading(t) ==
    LET p == Home[t] IN
    /\ pc[t] = "drawn"
    /\ holder[p] = NoTask
    /\ holder' = [holder EXCEPT ![p] = t]
    /\ pc' = [pc EXCEPT ![t] = "locked"]
    /\ loaded' = [loaded EXCEPT ![p] = TRUE]
    /\ UNCHANGED <<log, synced, seen, drawn, uses, lifeUses>>

(* The first lock() of a process forces the Lazy, which reads the file; a   *)
(* read error counts as an empty file (unwrap_or_default).                  *)
Lock(t) ==
    LET p == Home[t] IN
    /\ pc[t] = "drawn"
    /\ holder[p] = NoTask
    /\ holder' = [holder EXCEPT ![p] = t]
    /\ pc' = [pc EXCEPT ![t] = "locked"]
    /\ loaded' = [loaded EXCEPT ![p] = TRUE]
    /\ \/ loaded[p] /\ seen' = seen
       \/ ~loaded[p] /\ seen' = [seen EXCEPT ![p] = Readable(log, Len(log))]
       \/ ~loaded[p] /\ "readerr" \in Faults /\ seen' = [seen EXCEPT ![p] = {}]
    /\ UNCHANGED <<log, synced, drawn, uses, lifeUses>>

\* Leaving register_nonce drops the guard of the mutex.
Return(t) ==
    /\ pc' = [pc EXCEPT ![t] = "idle"]
    /\ holder' = [holder EXCEPT ![Home[t]] = NoTask]

\* Mutant of Collide: the early return leaks the guard.
CollideKeepsMutex(t) ==
    /\ pc[t] = "locked"
    /\ drawn[t] \in seen[Home[t]]
    /\ pc' = [pc EXCEPT ![t] = "idle"]
    /\ UNCHANGED <<log, synced, loaded, seen, holder, drawn, uses, lifeUses>>

(* contains: NonceCollision.                                                *)
Collide(t) ==
    /\ pc[t] = "locked"
    /\ drawn[t] \in seen[Home[t]]
    /\ Return(t)
    /\ UNCHANGED <<log, synced, loaded, seen, drawn, uses, lifeUses>>

\* Mutant of Append12: the file is truncated when it is opened.
AppendTruncates(t) ==
    /\ pc[t] = "locked"
    /\ drawn[t] \notin seen[Home[t]]
    /\ log' = <<<<drawn[t], 1>>, <<drawn[t], 2>>>>
    /\ pc' = [pc EXCEPT ![t] = "written"]
    /\ UNCHANGED <<synced, loaded, seen, holder, drawn, uses, lifeUses>>

(* write_all: one O_APPEND write of the whole nonce.                        *)
Append12(t) ==
    /\ pc[t] = "locked"
    /\ drawn[t] \notin seen[Home[t]]
    /\ Len(log) + 2 <= MaxCells
    /\ log' = log \o <<<<drawn[t], 1>>, <<drawn[t], 2>>>>
    /\ pc' = [pc EXCEPT ![t] = "written"]
    /\ UNCHANGED <<synced, loaded, seen, holder, drawn, uses, lifeUses>>

(* open or write_all fails: nothing, or a part of the nonce, is in the file *)
(* and register_nonce returns Err without undoing it.                       *)
AppendFails(t) ==
    /\ pc[t] = "locked"
    /\ drawn[t] \notin seen[Home[t]]
    /\ \/ "ioerr" \in Faults /\ log' = log
       \/ /\ "torn" \in Faults
          /\ Len(log) + 1 <= MaxCells
          /\ log' = Append(log, <<drawn[t], 1>>)
    /\ Return(t)
    /\ UNCHANGED <<synced, loaded, seen, drawn, uses, lifeUses>>

\* Mutant of SyncData: the append is left to the page cache.
SyncSkipped(t) ==
    /\ pc[t] = "written"
    /\ pc' = [pc EXCEPT ![t] = "durable"]
    /\ UNCHANGED <<log, synced, loaded, seen, holder, drawn, uses, lifeUses>>

(* sync_data: everything written so far, by anyone, becomes durable.        *)
SyncData(t) ==
    /\ pc[t] = "written"
    /\ synced' = Len(log)
    /\ pc' = [pc EXCEPT ![t] = "durable"]
    /\ UNCHANGED <<log, loaded, seen, holder, drawn, uses, lifeUses>>

SyncFails(t) ==
    /\ pc[t] = "written"
    /\ "ioerr" \in Faults
    /\ Return(t)
    /\ UNCHANGED <<log, synced, loaded, seen, drawn, uses, lifeUses>>

\* Mutant of Grant: the insert is forgotten.
GrantWithoutInsert(t) ==
    LET p == Home[t]
        n == drawn[t] IN
    /\ pc[t] = "durable"
    /\ uses' = [uses EXCEPT ![n] = @ + 1]
    /\ lifeUses' = [lifeUses EXCEPT ![p][n] = @ + 1]
    /\ Return(t)
    /\ UNCHANGED <<log, synced, loaded, seen, drawn>>

(* registry.insert and Ok(()): the caller encrypts under this nonce.        *)
Grant(t) ==
    LET p == Home[t]
        n == drawn[t] IN
    /\ pc[t] = "durable"
    /\ seen' = [seen EXCEPT ![p] = @ \cup {n}]
    /\ uses' = [uses EXCEPT ![n] = @ + 1]
    /\ lifeUses' = [lifeUses EXCEPT ![p][n] = @ + 1]
    /\ Return(t)
    /\ UNCHANGED <<log, synced, loaded, drawn>>

\* Memory of the processes in P is gone; the file is not.
Forget(P) ==
    /\ loaded' = [p \in Procs |-> IF p \in P THEN FALSE ELSE loaded[p]]
    /\ seen' = [p \in Procs |-> IF p \in P THEN {} ELSE seen[p]]
    /\ holder' = [p \in Procs |-> IF p \in P THEN NoTask ELSE holder[p]]
    /\ lifeUses' = [p \in Procs |-> IF p \in P THEN [n \in Nonces |-> 0]
                                               ELSE lifeUses[p]]
    /\ pc' = [t \in Tasks |-> IF Home[t] \in P THEN "idle" ELSE pc[t]]
    /\ UNCHANGED <<drawn, uses>>

(* A process ends, between any two steps, and may be started again.         *)
Restart(p) == Forget({p}) /\ UNCHANGED <<log, synced>>

(* The machine stops: every process is gone, and of the file some length    *)
(* between the synced prefix and everything written is left.  Without       *)
(* "torn" the file system keeps an append whole or not at all.              *)
PowerLoss ==
    /\ Forget(Procs)
    /\ \E k \in synced .. Len(log) :
          /\ "torn" \in Faults \/ k % 2 = 0
          /\ log' = SubSeq(log, 1, k)
          /\ synced' = k

TaskStep(t) ==
    \/ Lock(t) \/ Collide(t) \/ Append12(t) \/ AppendFails(t)
    \/ SyncData(t) \/ SyncFails(t) \/ Grant(t)

Next ==
    \/ \E t \in Tasks : Draw(t) \/ TaskStep(t)
    \/ \E p \in Procs : Restart(p)
    \/ PowerLoss

Spec == Init /\ [][Next]_vars

(* A runnable task is polled, and tokio's Mutex queues its waiters first in *)
(* first out, so a task that keeps seeing the mutex free gets it.           *)
FairSpec ==
    /\ Spec
    /\ \A t \in Tasks : SF_vars(Lock(t)) /\ WF_vars(TaskStep(t))

----------------------------------------------------------------------------

(* Within one life of a process no nonce is granted twice, whatever the     *)
(* other processes, the file and its failures do: contains and insert are   *)
(* under one critical section that spans the file append.                   *)
UniqueWithinProcess ==
    \A p \in Procs : \A n \in Nonces : lifeUses[p][n] <= 1

(* register_nonce says Ok only when a restart, or a power loss, at this     *)
(* very moment would find the nonce in the file again.                      *)
GrantsAreDurable ==
    \A n \in Nonces : uses[n] > 0 => n \in Readable(log, synced)

(* No nonce is ever granted twice: "prevents reuse across restarts"         *)
(* (crypto.rs, the comments at the registry and at the head of the file).   *)
NeverReissued == \A n \in Nonces : uses[n] <= 1

(* Every nonce drawn is answered: the mutex is not lost on an error path.   *)
EveryDrawAnswered == \A t \in Tasks : pc[t] = "drawn" ~> pc[t] = "idle"

(* One process that can always read its file implements a source of fresh   *)
(* nonces: each grant is of a nonce never granted before.                   *)
Fresh == INSTANCE FreshNonce WITH issued <- uses
IssuesFreshNonces == Fresh!Spec
=============================================================================
