---------------------------- MODULE AuditReaders ----------------------------
(***************************************************************************)
(* Those who write to the audit log and those who read it: the log and      *)
(* attendance commands (src/audit.rs, src/biometrics.rs, src/cli.rs), the   *)
(* records of the vault calls, and the report, the statistics and the lists *)
(* that the dashboard shows.  Commands and readers take the key from        *)
(* AEGIS_AUDIT_KEY; a record of a vault call is under a key of its own.     *)
(***************************************************************************)
EXTENDS AuditLog, Functions

CONSTANTS
    Readers,
    EnvTexts,    \* values of AEGIS_AUDIT_KEY: bytes in hex, NotHex or Unset
    NotHex, Unset,
    KeyBytes,    \* bytes of a key: 32
    NoKey,
    VaultKeys,   \* audit keys of vaults
    Names,       \* media and users
    DevMode,     \* AEGIS_DEV_MODE=1
    Day,         \* seconds of a day
    Limit        \* records shown: 10 or 50

ASSUME VaultKeysAssumption == VaultKeys \subseteq Keys /\ EnvKey \notin VaultKeys
ASSUME DayAssumption == Day \in Nat \ {0} /\ Limit \in Nat /\ DevMode \in BOOLEAN
ASSUME NamesAssumption == IsFiniteSet(Names) /\ Names # {}
\* EnvKey is the one key that the variable may hold.
ASSUME EnvTextsAssumption ==
    \A text \in EnvTexts :
        text \in {Unset, NotHex, EnvKey} \/ Len(text) # KeyBytes \/ Range(text) = {0}

VARIABLES
    env,     \* AEGIS_AUDIT_KEY
    what,    \* per record started: what it is about, [kind, name]
    rpc,     \* per reader: "idle", "read", "clock" or "counted"
    seen,    \* per reader: read_audit_entries
    t1, t2   \* per reader: the two readings of the clock for today_start

readVars == <<env, what, rpc, seen, t1, t2>>
readersVars == <<logVars, readVars>>

(* Types.                                                                   *)
ReadersTypeOK ==
    /\ LogTypeOK
    /\ env \in EnvTexts
    /\ \A i \in DOMAIN log : log[i] \in Record => log[i].key \in VaultKeys \cup {EnvKey}
    /\ Len(what) = started
    /\ rpc \in [Readers -> {"idle", "read", "clock", "counted"}]
    /\ seen \in [Readers -> Seq(Record)]
    /\ t1 \in [Readers -> 0 .. clock] /\ t2 \in [Readers -> 0 .. clock]

ReadersInit ==
    /\ LogInit
    /\ env \in EnvTexts
    /\ what = <<>>
    /\ rpc = [r \in Readers |-> "idle"]
    /\ seen = [r \in Readers |-> <<>>]
    /\ t1 = [r \in Readers |-> 0] /\ t2 = t1

----------------------------------------------------------------------------

\* Mutant of AuditKey: a key of zeros is accepted.
AuditKeyOrZeros(text) ==
    IF text \in {Unset, NotHex} \/ Len(text) # KeyBytes THEN NoKey ELSE text

\* get_audit_key_from_env, and require_audit_key of the CLI.
AuditKey(text) ==
    IF text \in {Unset, NotHex} \/ Len(text) # KeyBytes \/ Range(text) = {0}
    THEN NoKey ELSE text

\* The record that w now begins is under a key of K and about a name.
Begin(w, K, kind) ==
    /\ StartAppend(w)
    /\ rec'[w][1].key \in K
    /\ \E n \in Names : what' = Append(what, [kind |-> kind, name |-> n])
    /\ UNCHANGED <<env, rpc, seen, t1, t2>>

(* The end of async_encrypt or async_decrypt.                               *)
VaultCall(w) == Begin(w, VaultKeys, "vault")

(* Commands::Log and log_physical_operation: the medium is in the record,   *)
(* client, operator and location only in its hash.                          *)
LogCommand(w) == Begin(w, {AuditKey(env)} \ {NoKey}, "physical")

(* Commands::Attendance and register_attendance: there is no device, so     *)
(* verify_user says Ok in the development mode and Err otherwise.           *)
AttendanceCommand(w) == DevMode /\ Begin(w, {AuditKey(env)} \ {NoKey}, "attendance")

Older(l, i, j) == l[i].time < l[j].time

\* The positions of file l whose records k opens.
Found(l, k) == {i \in DOMAIN l : ReadsAt(l, i, k)}

\* Newest first, and of the same second in the order of the file.
Before(l, i, j) == Older(l, j, i) \/ (i < j /\ ~Older(l, i, j))

\* Mutant of Sorted: in the order of the file.
InFileOrder(l, k) ==
    [n \in 1 .. Cardinality(Found(l, k)) |->
        l[CHOOSE i \in Found(l, k) : Cardinality({j \in Found(l, k) : j < i}) = n - 1]]

\* read_audit_entries: a stable sort; n - 1 entries stand before the n-th.
Sorted(l, k) ==
    [n \in 1 .. Cardinality(Found(l, k)) |->
        l[CHOOSE i \in Found(l, k) :
            Cardinality({j \in Found(l, k) : Before(l, j, i)}) = n - 1]]

(* A reader finds what is readable now.                                     *)
ReadLog(r) ==
    /\ rpc[r] = "idle"
    /\ AuditKey(env) # NoKey
    /\ seen' = [seen EXCEPT ![r] = Sorted(log, AuditKey(env))]
    /\ rpc' = [rpc EXCEPT ![r] = "read"]
    /\ UNCHANGED <<logVars, env, what, t1, t2>>

(* get_audit_statistics: unix_now() once, and once more.                    *)
FirstClock(r) ==
    /\ rpc[r] = "read"
    /\ t1' = [t1 EXCEPT ![r] = clock]
    /\ rpc' = [rpc EXCEPT ![r] = "clock"]
    /\ UNCHANGED <<logVars, env, what, seen, t2>>

SecondClock(r) ==
    /\ rpc[r] = "clock"
    /\ t2' = [t2 EXCEPT ![r] = clock]
    /\ rpc' = [rpc EXCEPT ![r] = "counted"]
    /\ UNCHANGED <<logVars, env, what, seen, t1>>

(* The statistics, a list or a report is answered.                          *)
AnswerReader(r) ==
    /\ rpc[r] \in {"read", "counted"}
    /\ rpc' = [rpc EXCEPT ![r] = "idle"]
    /\ seen' = [seen EXCEPT ![r] = <<>>]
    /\ t1' = [t1 EXCEPT ![r] = 0]
    /\ t2' = [t2 EXCEPT ![r] = 0]
    /\ UNCHANGED <<logVars, env, what>>

ReadersNext ==
    \/ \E w \in Writers :
          \/ VaultCall(w) \/ LogCommand(w) \/ AttendanceCommand(w)
          \/ /\ WriteLine(w) \/ LineFails(w) \/ HandEol(w)
                \/ WriteEol(w) \/ EolFails(w) \/ KillWriter(w)
             /\ UNCHANGED readVars
    \/ Tick /\ UNCHANGED readVars
    \/ \E r \in Readers :
          ReadLog(r) \/ FirstClock(r) \/ SecondClock(r) \/ AnswerReader(r)

ReadersSpec == ReadersInit /\ [][ReadersNext]_readersVars

----------------------------------------------------------------------------

\* Mutant of TodayStart: the two readings are taken in the other order.
TodayStartSwapped(first, second) == second - (first % Day)

\* today_start: unix_now() - unix_now() % 86400.
TodayStart(first, second) == first - (second % Day)

\* get_recent_operations and get_audit_log.
Recent(entries) == [i \in 1 .. (IF Limit < Len(entries) THEN Limit ELSE Len(entries)) |-> entries[i]]

\* Mutant of Report: the last second is left out.
ReportToExclusive(entries, first, last, name) ==
    {i \in DOMAIN entries :
        LET e == entries[i] IN
        first <= e.time /\ e.time < last /\ name \in {"*", what[e.id].name}}

\* generate_client_report, the entries it keeps, by their places: those of
\* the period, with "*" or a part of path or operation.
Report(entries, first, last, name) ==
    {i \in DOMAIN entries :
        LET e == entries[i] IN
        first <= e.time /\ e.time <= last /\ name \in {"*", what[e.id].name}}

\* get_clients: per medium how many records; count_unique_clients, at least 1.
Clients(entries) ==
    [n \in {what[e.id].name : e \in {f \in Range(entries) : what[f.id].kind = "physical"}} |->
        Cardinality({e \in Range(entries) : what[e.id] = [kind |-> "physical", name |-> n]})]

ActiveClients(entries) == LET n == Cardinality(DOMAIN Clients(entries)) IN IF n = 0 THEN 1 ELSE n

----------------------------------------------------------------------------

(* The start of a day.                                                      *)
DayStart(t) == t - (t % Day)

(* Nothing that happened on the day of the answer is left out of            *)
(* today_operations, and what is counted of the time before happened in the *)
(* last seconds before that day, no more of them than pass between the two  *)
(* readings of the clock.                                                   *)
TodayIsToday ==
    \A r \in Readers : rpc[r] = "counted" =>
        \A e \in Range(seen[r]) :
            LET counted == e.time >= TodayStart(t1[r], t2[r]) IN
            /\ e.time >= DayStart(t2[r]) => counted
            /\ counted => e.time >= DayStart(t2[r]) - (t2[r] - t1[r])

(* A list leaves out nothing newer than what it shows; records that came    *)
(* late into the file do not upset that.                                    *)
RecentAreNewest ==
    \A r \in Readers :
        \A e \in Range(Recent(seen[r])), f \in Range(seen[r]) \ Range(Recent(seen[r])) :
            e.time >= f.time

(* The reports of two periods that adjoin, and the records per medium with  *)
(* those of no medium, add up to what was found.                            *)
ListsAddUp ==
    \A r \in Readers : rpc[r] = "read" =>
        LET found == seen[r]
            people == {e \in Range(found) : what[e.id].kind = "attendance"} IN
        /\ \A t \in 0 .. MaxClock :
              Cardinality(Report(found, 0, t, "*"))
                  + Cardinality(Report(found, t + 1, MaxClock, "*")) = Len(found)
        /\ SumFunction(Clients(found)) + Cardinality(people) = Len(found)
        /\ ActiveClients(found) \in 1 .. Cardinality(Names)
=============================================================================
