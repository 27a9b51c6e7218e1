------------------------ MODULE NonceRegistryProofs ------------------------
(***************************************************************************)
(* What NonceRegistry guarantees for every set of processes, tasks and      *)
(* nonces: see the theorems at the end of each section.                     *)
(***************************************************************************)
EXTENDS NonceRegistry, TLAPS

(* Critical: the task is between taking the mutex and giving it back.       *)
Critical(t) == pc[t] \in {"locked", "written", "durable"}

----------------------------------------------------------------------------
(* What the file operations do to a sequence.                               *)

(* An append of two cells keeps what was there and adds the two at the end. *)
LEMMA AppendTwo ==
    ASSUME NEW S, NEW l \in Seq(S), NEW c \in S, NEW d \in S
    PROVE  /\ l \o <<c, d>> \in Seq(S)
           /\ Len(l \o <<c, d>>) = Len(l) + 2
           /\ \A k \in 1 .. Len(l) : (l \o <<c, d>>)[k] = l[k]
           /\ (l \o <<c, d>>)[Len(l) + 1] = c
           /\ (l \o <<c, d>>)[Len(l) + 2] = d
  OBVIOUS

(* A torn append adds one.                                                  *)
LEMMA AppendOne ==
    ASSUME NEW S, NEW l \in Seq(S), NEW c \in S
    PROVE  Append(l, c) \in Seq(S) /\ Len(Append(l, c)) = Len(l) + 1
  OBVIOUS

(* What a power loss leaves is a prefix.                                    *)
LEMMA Prefix ==
    ASSUME NEW S, NEW l \in Seq(S), NEW k \in 0 .. Len(l)
    PROVE  /\ SubSeq(l, 1, k) \in Seq(S)
           /\ Len(SubSeq(l, 1, k)) = k
           /\ \A i \in 1 .. k : SubSeq(l, 1, k)[i] = l[i]
  OBVIOUS

----------------------------------------------------------------------------
(* Types.                                                                   *)

(* Every step keeps the registry's state in its types.                      *)
LEMMA TypeStep == TypeOK /\ [Next]_vars => TypeOK'
<1> SUFFICES ASSUME TypeOK, [Next]_vars PROVE TypeOK'
  OBVIOUS
<1> USE HomeAssumption, NoTaskAssumption, MaxCellsAssumption DEF TypeOK, Cells
<1>1. ASSUME NEW t \in Tasks, Draw(t) PROVE TypeOK'
  BY <1>1 DEF Draw
<1>2. ASSUME NEW t \in Tasks, Lock(t) PROVE TypeOK'
  <2>1. Readable(log, Len(log)) \in SUBSET Nonces
    BY DEF Readable
  <2>2. seen' \in [Procs -> SUBSET Nonces]
    BY <1>2, <2>1 DEF Lock
  <2> HIDE DEF Cells
  <2> QED BY <1>2, <2>2 DEF Lock
<1>3. ASSUME NEW t \in Tasks, Collide(t) PROVE TypeOK'
  BY <1>3 DEF Collide, Return
<1>4. ASSUME NEW t \in Tasks, Append12(t) PROVE TypeOK'
  <2>1. <<drawn[t], 1>> \in Cells /\ <<drawn[t], 2>> \in Cells
    OBVIOUS
  <2> HIDE DEF Cells
  <2>2. log' \in Seq(Cells) /\ Len(log') = Len(log) + 2
    BY <1>4, <2>1, AppendTwo DEF Append12
  <2> QED BY <1>4, <2>2 DEF Append12
<1>5. ASSUME NEW t \in Tasks, AppendFails(t) PROVE TypeOK'
  <2>1. <<drawn[t], 1>> \in Cells
    OBVIOUS
  <2> HIDE DEF Cells
  <2>2. log' = log \/ log' = Append(log, <<drawn[t], 1>>)
    BY <1>5 DEF AppendFails
  <2>3. /\ Append(log, <<drawn[t], 1>>) \in Seq(Cells)
        /\ Len(Append(log, <<drawn[t], 1>>)) = Len(log) + 1
    BY <2>1, AppendOne
  <2>4. log \in Seq(Cells) /\ Len(log) \in Nat
    OBVIOUS
  <2>5. log' \in Seq(Cells) /\ Len(log') >= Len(log)
    BY ONLY <2>2, <2>3, <2>4
  <2> QED BY <1>5, <2>5 DEF AppendFails, Return
<1>6. ASSUME NEW t \in Tasks, SyncData(t) PROVE TypeOK'
  BY <1>6 DEF SyncData
<1>7. ASSUME NEW t \in Tasks, SyncFails(t) PROVE TypeOK'
  BY <1>7 DEF SyncFails, Return
<1>8. ASSUME NEW t \in Tasks, Grant(t) PROVE TypeOK'
  BY <1>8 DEF Grant, Return
<1>9. ASSUME NEW p \in Procs, Restart(p) PROVE TypeOK'
  BY <1>9 DEF Restart, Forget
<1>10. CASE PowerLoss
  <2>1. PICK k \in synced .. Len(log) : log' = SubSeq(log, 1, k) /\ synced' = k
    BY <1>10 DEF PowerLoss
  <2>2. log' \in Seq(Cells) /\ Len(log') = k
    BY <2>1, Prefix
  <2> QED BY <1>10, <2>1, <2>2 DEF PowerLoss, Forget
<1>11. CASE UNCHANGED vars
  BY <1>11 DEF vars
<1> QED
  BY <1>1, <1>2, <1>3, <1>4, <1>5, <1>6, <1>7, <1>8, <1>9, <1>10, <1>11
     DEF Next, TaskStep

(* The registry's state keeps its types: in particular the synced length is *)
(* never beyond the end of the file.                                        *)
THEOREM TypeCorrect == Spec => []TypeOK
<1>1. Init => TypeOK
  BY DEF Init, TypeOK, Cells
<1> QED BY <1>1, TypeStep, PTL DEF Spec

----------------------------------------------------------------------------
(* One critical section per process.                                        *)

(* The task inside the critical section holds the mutex of its process, and *)
(* the set it will consult has been loaded.                                 *)
MutexInv == \A t \in Tasks : Critical(t) => holder[Home[t]] = t /\ loaded[Home[t]]

(* register_nonce keeps the mutex from contains to insert on every path.    *)
LEMMA MutexStep == TypeOK /\ MutexInv /\ [Next]_vars => MutexInv'
<1> SUFFICES ASSUME TypeOK, MutexInv, [Next]_vars PROVE MutexInv'
  OBVIOUS
<1> USE HomeAssumption, NoTaskAssumption DEF TypeOK, MutexInv, Critical
<1>1. ASSUME NEW t \in Tasks, Draw(t) PROVE MutexInv'
  BY <1>1 DEF Draw
<1>2. ASSUME NEW t \in Tasks, Lock(t) PROVE MutexInv'
  BY <1>2 DEF Lock
<1>3. ASSUME NEW t \in Tasks, Collide(t) PROVE MutexInv'
  BY <1>3 DEF Collide, Return
<1>4. ASSUME NEW t \in Tasks, Append12(t) PROVE MutexInv'
  BY <1>4 DEF Append12
<1>5. ASSUME NEW t \in Tasks, AppendFails(t) PROVE MutexInv'
  BY <1>5 DEF AppendFails, Return
<1>6. ASSUME NEW t \in Tasks, SyncData(t) PROVE MutexInv'
  BY <1>6 DEF SyncData
<1>7. ASSUME NEW t \in Tasks, SyncFails(t) PROVE MutexInv'
  BY <1>7 DEF SyncFails, Return
<1>8. ASSUME NEW t \in Tasks, Grant(t) PROVE MutexInv'
  BY <1>8 DEF Grant, Return
<1>9. ASSUME NEW p \in Procs, Restart(p) PROVE MutexInv'
  BY <1>9 DEF Restart, Forget
<1>10. CASE PowerLoss
  BY <1>10 DEF PowerLoss, Forget
<1>11. CASE UNCHANGED vars
  BY <1>11 DEF vars
<1> QED
  BY <1>1, <1>2, <1>3, <1>4, <1>5, <1>6, <1>7, <1>8, <1>9, <1>10, <1>11
     DEF Next, TaskStep

----------------------------------------------------------------------------
(* Within one life of a process.                                            *)

(* What this process granted is in its set; what it is about to grant is    *)
(* not.                                                                     *)
LifeInv ==
    /\ \A p \in Procs : \A n \in Nonces :
          /\ lifeUses[p][n] <= 1
          /\ lifeUses[p][n] > 0 => loaded[p] /\ n \in seen[p]
    /\ \A t \in Tasks : pc[t] \in {"written", "durable"} => drawn[t] \notin seen[Home[t]]

(* Every step keeps the set in agreement with what was granted.             *)
LEMMA LifeStep == TypeOK /\ MutexInv /\ LifeInv /\ [Next]_vars => LifeInv'
<1> SUFFICES ASSUME TypeOK, MutexInv, LifeInv, [Next]_vars PROVE LifeInv'
  OBVIOUS
<1> USE HomeAssumption, NoTaskAssumption DEF TypeOK, LifeInv
<1>1. ASSUME NEW t \in Tasks, Draw(t) PROVE LifeInv'
  BY <1>1 DEF Draw
<1>2. ASSUME NEW t \in Tasks, Lock(t) PROVE LifeInv'
  <2>1. CASE loaded[Home[t]]
    BY <1>2, <2>1 DEF Lock
  <2>2. CASE ~loaded[Home[t]]
    <3>1. \A u \in Tasks : pc[u] \in {"written", "durable"} => Home[u] # Home[t]
      BY <2>2 DEF MutexInv, Critical
    <3>2. \A p \in Procs : p # Home[t] => seen'[p] = seen[p] /\ loaded'[p] = loaded[p]
      BY <1>2 DEF Lock
    <3>3. \A n \in Nonces : lifeUses[Home[t]][n] = 0
      BY <2>2
    <3> QED BY <1>2, <3>1, <3>2, <3>3 DEF Lock
  <2> QED BY <2>1, <2>2
<1>3. ASSUME NEW t \in Tasks, Collide(t) PROVE LifeInv'
  BY <1>3 DEF Collide, Return
<1>4. ASSUME NEW t \in Tasks, Append12(t) PROVE LifeInv'
  BY <1>4 DEF Append12
<1>5. ASSUME NEW t \in Tasks, AppendFails(t) PROVE LifeInv'
  BY <1>5 DEF AppendFails, Return
<1>6. ASSUME NEW t \in Tasks, SyncData(t) PROVE LifeInv'
  BY <1>6 DEF SyncData
<1>7. ASSUME NEW t \in Tasks, SyncFails(t) PROVE LifeInv'
  BY <1>7 DEF SyncFails, Return
<1>8. ASSUME NEW t \in Tasks, Grant(t) PROVE LifeInv'
  <2>1. \A u \in Tasks : u # t /\ pc[u] \in {"written", "durable"} => Home[u] # Home[t]
    BY <1>8 DEF Grant, MutexInv, Critical
  <2>2. loaded[Home[t]] /\ lifeUses[Home[t]][drawn[t]] = 0
    BY <1>8 DEF Grant, MutexInv, Critical
  <2> QED BY <1>8, <2>1, <2>2 DEF Grant, Return
<1>9. ASSUME NEW p \in Procs, Restart(p) PROVE LifeInv'
  BY <1>9 DEF Restart, Forget
<1>10. CASE PowerLoss
  BY <1>10 DEF PowerLoss, Forget
<1>11. CASE UNCHANGED vars
  BY <1>11 DEF vars
<1> QED
  BY <1>1, <1>2, <1>3, <1>4, <1>5, <1>6, <1>7, <1>8, <1>9, <1>10, <1>11
     DEF Next, TaskStep

(* However many tasks and processes there are, and whatever the file does,  *)
(* register_nonce answers Ok at most once per nonce in a process's life.    *)
THEOREM GrantedOncePerLife == Spec => []UniqueWithinProcess
<1>1. Init => TypeOK /\ MutexInv /\ LifeInv
  BY DEF Init, TypeOK, Cells, MutexInv, Critical, LifeInv
<1>2. LifeInv => UniqueWithinProcess
  BY DEF LifeInv, UniqueWithinProcess
<1> QED BY <1>1, <1>2, TypeStep, MutexStep, LifeStep, PTL DEF Spec

----------------------------------------------------------------------------
(* Durability, when an append is kept whole or not at all.                  *)

(* A longer file, and a longer prefix of it, reads back every nonce that a  *)
(* shorter one does.                                                        *)
LEMMA ReadableMonotone ==
    ASSUME NEW l, NEW m, NEW i \in Nat, NEW j \in Nat,
           i <= j,
           \A k \in 1 .. i : m[k] = l[k]
    PROVE  Readable(l, i) \subseteq Readable(m, j)
<1> SUFFICES ASSUME NEW n \in Readable(l, i)
             PROVE  n \in Readable(m, j)
  OBVIOUS
<1>1. PICK k \in 1 .. i : ReadsAt(l, i, n, k)
  BY DEF Readable
<1>2. ReadsAt(m, j, n, k) /\ k \in 1 .. j
  BY <1>1 DEF ReadsAt
<1>3. n \in Nonces
  BY DEF Readable
<1> QED BY <1>2, <1>3 DEF Readable

(* The file is a sequence of whole nonces; what register_nonce wrote is     *)
(* where the loader will look for it, and what it granted is durable.       *)
DurableInv ==
    /\ Len(log) % 2 = 0
    /\ synced % 2 = 0
    /\ \A t \in Tasks : pc[t] = "written" => drawn[t] \in Readable(log, Len(log))
    /\ \A t \in Tasks : pc[t] = "durable" => drawn[t] \in Readable(log, synced)
    /\ GrantsAreDurable

(* Appends of whole nonces keep everything readable, and sync_data comes    *)
(* before the grant.                                                        *)
LEMMA DurableStep ==
    ASSUME "torn" \notin Faults, TypeOK, DurableInv, [Next]_vars
    PROVE  DurableInv'
<1>0. synced \in Nat /\ Len(log) \in Nat /\ synced <= Len(log)
  BY DEF TypeOK
<1> USE HomeAssumption, NoTaskAssumption DEF TypeOK, DurableInv, GrantsAreDurable
<1>1. ASSUME NEW t \in Tasks, Draw(t) PROVE DurableInv'
  BY <1>1 DEF Draw
<1>2. ASSUME NEW t \in Tasks, Lock(t) PROVE DurableInv'
  BY <1>2 DEF Lock
<1>3. ASSUME NEW t \in Tasks, Collide(t) PROVE DurableInv'
  BY <1>3 DEF Collide, Return
<1>4. ASSUME NEW t \in Tasks, Append12(t) PROVE DurableInv'
  <2>1. <<drawn[t], 1>> \in Cells /\ <<drawn[t], 2>> \in Cells
    BY DEF Cells
  <2>3. /\ log' \in Seq(Cells)
        /\ Len(log') = Len(log) + 2
        /\ log'[Len(log) + 1] = <<drawn[t], 1>>
        /\ log'[Len(log) + 2] = <<drawn[t], 2>>
        /\ \A k \in 1 .. Len(log) : log'[k] = log[k]
    BY <1>4, <2>1, AppendTwo DEF Append12
  <2>4. Readable(log, Len(log)) \subseteq Readable(log', Len(log'))
    BY ONLY <1>0, <2>3, ReadableMonotone
  <2>5. Readable(log, synced) \subseteq Readable(log', synced)
    <3>1. \A k \in 1 .. synced : log'[k] = log[k]
      BY ONLY <1>0, <2>3
    <3> QED BY ONLY <1>0, <3>1, ReadableMonotone
  <2>6. drawn[t] \in Readable(log', Len(log'))
    <3>1. PICK k \in Nat : Len(log) = 2 * k
      OBVIOUS
    <3>2. ReadsAt(log', Len(log'), drawn[t], k + 1)
      BY <2>3, <3>1 DEF ReadsAt
    <3> QED BY <2>3, <3>1, <3>2 DEF Readable
  <2>7. Len(log') % 2 = 0
    BY <2>3
  <2> QED BY <1>4, <2>4, <2>5, <2>6, <2>7 DEF Append12
<1>5. ASSUME NEW t \in Tasks, AppendFails(t) PROVE DurableInv'
  BY <1>5 DEF AppendFails, Return
<1>6. ASSUME NEW t \in Tasks, SyncData(t) PROVE DurableInv'
  <2>1. synced' = Len(log) /\ log' = log
    BY <1>6 DEF SyncData
  <2>2. Readable(log, synced) \subseteq Readable(log, Len(log))
    BY ONLY <1>0, ReadableMonotone
  <2> QED BY <1>6, <2>1, <2>2 DEF SyncData
<1>7. ASSUME NEW t \in Tasks, SyncFails(t) PROVE DurableInv'
  BY <1>7 DEF SyncFails, Return
<1>8. ASSUME NEW t \in Tasks, Grant(t) PROVE DurableInv'
  BY <1>8 DEF Grant, Return
<1>9. ASSUME NEW p \in Procs, Restart(p) PROVE DurableInv'
  BY <1>9 DEF Restart, Forget
<1>10. CASE PowerLoss
  <2>1. PICK k \in synced .. Len(log) :
           k % 2 = 0 /\ log' = SubSeq(log, 1, k) /\ synced' = k
    BY <1>10 DEF PowerLoss
  <2>2. Len(log') = k /\ \A i \in 1 .. k : log'[i] = log[i]
    BY <2>1, Prefix
  <2>3. Readable(log, synced) \subseteq Readable(log', k)
    <3>1. \A i \in 1 .. synced : log'[i] = log[i]
      BY ONLY <1>0, <2>1, <2>2
    <3>2. k \in Nat /\ synced <= k
      BY ONLY <1>0
    <3> QED BY ONLY <1>0, <3>1, <3>2, ReadableMonotone
  <2>4. \A t \in Tasks : pc'[t] = "idle"
    BY <1>10 DEF PowerLoss, Forget
  <2>5. uses' = uses
    BY <1>10 DEF PowerLoss, Forget
  <2> QED BY <2>1, <2>2, <2>3, <2>4, <2>5
<1>11. CASE UNCHANGED vars
  BY <1>11 DEF vars
<1> QED
  BY <1>1, <1>2, <1>3, <1>4, <1>5, <1>6, <1>7, <1>8, <1>9, <1>10, <1>11
     DEF Next, TaskStep

(* Unless the file system tears an append, every nonce that was ever        *)
(* granted, by whichever process, is found again by whoever loads the file, *)
(* at every moment and after any number of restarts and power losses.       *)
THEOREM GrantsStayReadable ==
    ASSUME "torn" \notin Faults
    PROVE  Spec => []GrantsAreDurable
<1>1. Init => TypeOK /\ DurableInv
  BY DEF Init, TypeOK, Cells, DurableInv, GrantsAreDurable
<1>2. TypeOK /\ DurableInv /\ [Next]_vars => DurableInv'
  BY DurableStep
<1>3. DurableInv => GrantsAreDurable
  BY DEF DurableInv
<1> QED BY <1>1, <1>2, <1>3, TypeStep, PTL DEF Spec

----------------------------------------------------------------------------
(* A single process that can read its file.                                 *)

(* Whatever was granted, in this life or an earlier one, is in the set.     *)
FreshInv ==
    /\ NeverReissued
    /\ \A p \in Procs : loaded[p] => \A n \in Nonces : uses[n] > 0 => n \in seen[p]

(* The only process grants only what is missing from a set that has         *)
(* everything granted before.                                               *)
LEMMA FreshStep ==
    ASSUME NEW home, Procs = {home}, Faults \subseteq {"ioerr"},
           TypeOK, MutexInv, LifeInv, DurableInv, FreshInv, [Next]_vars
    PROVE  /\ FreshInv'
           /\ [Fresh!Next]_uses
<1> USE HomeAssumption, NoTaskAssumption DEF TypeOK, FreshInv, NeverReissued
<1>1. ASSUME NEW t \in Tasks, Draw(t) PROVE FreshInv' /\ uses' = uses
  BY <1>1 DEF Draw
<1>2. ASSUME NEW t \in Tasks, Lock(t) PROVE FreshInv' /\ uses' = uses
  <2>1. \A n \in Nonces : uses[n] > 0 => n \in Readable(log, Len(log))
    <3>1. Readable(log, synced) \subseteq Readable(log, Len(log))
      BY ReadableMonotone
    <3> QED BY <3>1 DEF DurableInv, GrantsAreDurable
  <2>2. "readerr" \notin Faults
    OBVIOUS
  <2> QED BY <1>2, <2>1, <2>2 DEF Lock
<1>3. ASSUME NEW t \in Tasks, Collide(t) PROVE FreshInv' /\ uses' = uses
  BY <1>3 DEF Collide, Return
<1>4. ASSUME NEW t \in Tasks, Append12(t) PROVE FreshInv' /\ uses' = uses
  BY <1>4 DEF Append12
<1>5. ASSUME NEW t \in Tasks, AppendFails(t) PROVE FreshInv' /\ uses' = uses
  BY <1>5 DEF AppendFails, Return
<1>6. ASSUME NEW t \in Tasks, SyncData(t) PROVE FreshInv' /\ uses' = uses
  BY <1>6 DEF SyncData
<1>7. ASSUME NEW t \in Tasks, SyncFails(t) PROVE FreshInv' /\ uses' = uses
  BY <1>7 DEF SyncFails, Return
<1>8. ASSUME NEW t \in Tasks, Grant(t) PROVE FreshInv' /\ Fresh!Next
  <2>1. Home[t] = home /\ loaded[home] /\ drawn[t] \notin seen[home]
    BY <1>8 DEF Grant, MutexInv, Critical, LifeInv
  <2>2. uses[drawn[t]] = 0
    BY <2>1
  <2>3. uses' = [uses EXCEPT ![drawn[t]] = 1]
    BY <1>8, <2>2 DEF Grant
  <2>4. FreshInv'
    BY <1>8, <2>1, <2>3 DEF Grant
  <2> QED BY <2>2, <2>3, <2>4 DEF Fresh!Next, Fresh!Issue
<1>9. ASSUME NEW p \in Procs, Restart(p) PROVE FreshInv' /\ uses' = uses
  BY <1>9 DEF Restart, Forget
<1>10. CASE PowerLoss
  BY <1>10 DEF PowerLoss, Forget
<1>11. CASE UNCHANGED vars
  BY <1>11 DEF vars
<1> QED
  BY <1>1, <1>2, <1>3, <1>4, <1>5, <1>6, <1>7, <1>8, <1>9, <1>10, <1>11
     DEF Next, TaskStep

(* One process whose file is neither torn nor unreadable is a source of     *)
(* fresh nonces, across I/O errors of the append and of the sync, kills,    *)
(* restarts and power losses.                                               *)
THEOREM SingleProcessIssuesFreshNonces ==
    ASSUME NEW home, Procs = {home}, Faults \subseteq {"ioerr"}
    PROVE  Spec => IssuesFreshNonces /\ []NeverReissued
<1> DEFINE IInv == TypeOK /\ MutexInv /\ LifeInv /\ DurableInv /\ FreshInv
<1>1. Init => IInv /\ Fresh!Init
  BY DEF Init, TypeOK, Cells, MutexInv, Critical, LifeInv, DurableInv,
         GrantsAreDurable, FreshInv, NeverReissued, Fresh!Init
<1>2. "torn" \notin Faults
  OBVIOUS
<1>3. IInv /\ [Next]_vars => IInv' /\ [Fresh!Next]_uses
  BY <1>2, TypeStep, MutexStep, LifeStep, DurableStep, FreshStep
<1>4. IInv => NeverReissued
  BY DEF FreshInv
<1> QED BY <1>1, <1>3, <1>4, PTL DEF Spec, IssuesFreshNonces, Fresh!Spec
=============================================================================
