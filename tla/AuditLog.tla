------------------------------ MODULE AuditLog ------------------------------
(***************************************************************************)
(* The audit log: append_audit of src/crypto.rs and read_audit_entries of   *)
(* src/audit.rs.  An append is two writes to a file opened with O_APPEND,   *)
(* the record and its line end.  A tokio File hands a write to a background *)
(* thread and waits for it only before the next one, so the call is over    *)
(* when the record is in the file and its line end is merely on its way.    *)
(*                                                                          *)
(* The file is a sequence of pieces: records, line ends and cut records.    *)
(* A record is readable if it is alone on its line and was made under the   *)
(* reader's key; the reader skips every other line.                         *)
(***************************************************************************)
EXTENDS Integers, Sequences, FiniteSets

CONSTANTS
    Writers,     \* processes that append, one record at a time
    Keys,        \* audit keys: the environment's and one per vault
    EnvKey,      \* AEGIS_AUDIT_KEY, which every reader uses
    EOL,         \* a line end
    Cut,         \* a part of a record
    WriteFaults, \* failures that occur: subset of {"io", "kill"}
    MaxRecords,  \* bound: records started
    MaxClock     \* bound: the latest second, counting from 1

ASSUME KeysAssumption == EnvKey \in Keys
ASSUME WriteFaultsAssumption == WriteFaults \subseteq {"io", "kill"}
ASSUME BoundsAssumption == MaxRecords \in Nat /\ MaxClock \in Nat \ {0}

VARIABLES
    clock,      \* unix_now()
    log,        \* content of AUDIT_LOG_PATH
    wpc,        \* per writer: "idle", "line" or "eol"
    rec,        \* per writer: the record in hand, <<>> or one
    ending,     \* per writer: line ends on their way
    started,    \* records started so far
    acked,      \* history: records whose append returned Ok
    breaks      \* history: how often an append was cut short or overlapped

logVars == <<clock, log, wpc, rec, ending, started, acked, breaks>>

Record == [id : 1 .. MaxRecords, time : 1 .. MaxClock, key : Keys]

ASSUME PiecesAssumption == EOL # Cut /\ EOL \notin Record /\ Cut \notin Record

(* Types.                                                                   *)
LogTypeOK ==
    /\ clock \in 1 .. MaxClock
    /\ log \in Seq(Record \cup {EOL, Cut})
    /\ wpc \in [Writers -> {"idle", "line", "eol"}]
    /\ rec \in [Writers -> {<<>>} \cup {<<r>> : r \in Record}]
    /\ ending \in [Writers -> Nat]
    /\ started \in 0 .. MaxRecords
    /\ acked \in SUBSET Record
    /\ breaks \in Nat

\* Position i of file l is a record alone on its line, under key k.
ReadsAt(l, i, k) ==
    /\ l[i] \notin {EOL, Cut}
    /\ i = 1 \/ l[i - 1] = EOL
    /\ i = Len(l) \/ l[i + 1] = EOL
    /\ l[i].key = k

\* What read_audit_entries finds in file l.
Readable(l, k) == {l[i] : i \in {j \in 1 .. Len(l) : ReadsAt(l, j, k)}}

LogInit ==
    /\ clock = 1
    /\ log = <<>>
    /\ wpc = [w \in Writers |-> "idle"]
    /\ rec = [w \in Writers |-> <<>>]
    /\ ending = [w \in Writers |-> 0]
    /\ started = 0
    /\ acked = {}
    /\ breaks = 0

----------------------------------------------------------------------------

Tick ==
    /\ clock < MaxClock
    /\ clock' = clock + 1
    /\ UNCHANGED <<log, wpc, rec, ending, started, acked, breaks>>

(* The caller takes the time, the record is encrypted under the vault's     *)
(* audit key (async_encrypt, async_decrypt) or the environment's            *)
(* (log_physical_operation, register_attendance), and the file is opened.   *)
StartAppend(w) ==
    /\ wpc[w] = "idle"
    /\ started < MaxRecords
    /\ started' = started + 1
    /\ \E k \in Keys :
          rec' = [rec EXCEPT ![w] = <<[id |-> started + 1, time |-> clock, key |-> k]>>]
    /\ wpc' = [wpc EXCEPT ![w] = "line"]
    /\ UNCHANGED <<clock, log, ending, acked, breaks>>

\* A line end is due that is not in the file yet.
Pending == \E w \in Writers : wpc[w] = "eol" \/ ending[w] > 0

\* Mutant of WriteLine: the file is opened for writing, not for appending.
WriteLineAtStart(w) ==
    /\ wpc[w] = "line"
    /\ log' = rec[w] \o SubSeq(log, 2, Len(log))
    /\ breaks' = IF Pending THEN breaks + 1 ELSE breaks
    /\ wpc' = [wpc EXCEPT ![w] = "eol"]
    /\ UNCHANGED <<clock, rec, ending, started, acked>>

(* write_all(line): one append, of the whole record, whoever else is        *)
(* between a record and its line end.                                       *)
WriteLine(w) ==
    /\ wpc[w] = "line"
    /\ log' = log \o rec[w]
    /\ breaks' = IF Pending THEN breaks + 1 ELSE breaks
    /\ wpc' = [wpc EXCEPT ![w] = "eol"]
    /\ UNCHANGED <<clock, rec, ending, started, acked>>

\* The append of w is over.
Close(w) ==
    /\ wpc' = [wpc EXCEPT ![w] = "idle"]
    /\ rec' = [rec EXCEPT ![w] = <<>>]

(* Opening fails or the record is not, or not wholly, written; the error is *)
(* reported, at the latest by the second write_all, and nothing is undone.  *)
LineFails(w) ==
    /\ wpc[w] = "line"
    /\ "io" \in WriteFaults
    /\ log' \in {log, Append(log, Cut)}
    /\ breaks' = breaks + 1 + (IF Pending THEN 1 ELSE 0)
    /\ Close(w)
    /\ UNCHANGED <<clock, ending, started, acked>>

\* Mutant of HandEol: the line end is left out.
HandNoEol(w) ==
    /\ wpc[w] = "eol"
    /\ acked' = acked \cup {rec[w][1]}
    /\ Close(w)
    /\ UNCHANGED <<clock, log, ending, started, breaks>>

(* write_all("\n") hands the line end over and append_audit returns Ok.     *)
HandEol(w) ==
    /\ wpc[w] = "eol"
    /\ ending' = [ending EXCEPT ![w] = @ + 1]
    /\ acked' = acked \cup {rec[w][1]}
    /\ Close(w)
    /\ UNCHANGED <<clock, log, started, breaks>>

(* The background thread writes it.                                         *)
WriteEol(w) ==
    /\ ending[w] > 0
    /\ ending' = [ending EXCEPT ![w] = @ - 1]
    /\ log' = Append(log, EOL)
    /\ UNCHANGED <<clock, wpc, rec, started, acked, breaks>>

(* It fails to, and nobody is told.                                         *)
EolFails(w) ==
    /\ ending[w] > 0
    /\ "io" \in WriteFaults
    /\ ending' = [ending EXCEPT ![w] = @ - 1]
    /\ breaks' = breaks + 1
    /\ UNCHANGED <<clock, log, wpc, rec, started, acked>>

(* The process ends between two steps; what it had on its way is lost.      *)
KillWriter(w) ==
    /\ "kill" \in WriteFaults
    /\ wpc[w] # "idle" \/ ending[w] > 0
    /\ Close(w)
    /\ ending' = [ending EXCEPT ![w] = 0]
    /\ breaks' = breaks + ending[w] + (IF wpc[w] = "eol" THEN 1 ELSE 0)
    /\ UNCHANGED <<clock, log, started, acked>>

LogNext ==
    \/ Tick
    \/ \E w \in Writers :
          \/ StartAppend(w) \/ WriteLine(w) \/ LineFails(w) \/ HandEol(w)
          \/ WriteEol(w) \/ EolFails(w) \/ KillWriter(w)

LogSpec == LogInit /\ [][LogNext]_logVars

----------------------------------------------------------------------------

\* Acknowledged records that a reader with their key does not find.
Lost == {r \in acked : r \notin Readable(log, r.key)}

(* An append that says Ok is readable from then on, except for the damage   *)
(* at a break: there, the record before it and the one after it share a     *)
(* line and both are skipped.                                               *)
LossIsBounded == Cardinality(Lost) <= 2 * breaks

\* The records of file l that are followed by their line end.
Settled(l) ==
    {l[i] : i \in {j \in 1 .. Len(l) - 1 : ReadsAt(l, j, EnvKey) /\ l[j + 1] = EOL}}

(* A record that a reader has found on a complete line it will find again,  *)
(* whoever else writes, fails or is killed.                                 *)
SettledStays == [][Settled(log) \subseteq Settled(log')]_log
=============================================================================
