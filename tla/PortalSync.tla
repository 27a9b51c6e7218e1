----------------------------- MODULE PortalSync -----------------------------
(***************************************************************************)
(* sync_audit_to_portal of src/sync.rs, run by several processes beside     *)
(* those that append to the audit log.  The watermark, the latest timestamp *)
(* that was pushed, is in a file of its own that every run loads at its     *)
(* start and replaces at its end; a file that cannot be parsed counts as 0, *)
(* and so does one that cannot be read.                                     *)
(*                                                                          *)
(* The portal is external: a request may be lost or refused, and after the  *)
(* portal has taken the records the answer may be lost or unreadable.       *)
(***************************************************************************)
EXTENDS AuditLog

CONSTANTS
    Syncs,       \* runs of sync_audit_to_portal, one at a time each
    Unparsable,  \* the state file while, or after, it was being rewritten
    SyncFaults   \* failures that occur: subset of {"portal", "io", "kill"}

ASSUME UnparsableAssumption == Unparsable \notin 0 .. MaxClock
ASSUME SyncFaultsAssumption == SyncFaults \subseteq {"portal", "io", "kill"}

VARIABLES
    state,       \* content of SYNC_STATE_PATH: a timestamp or Unparsable
    spc,         \* per run: "idle", "loaded", "pending", "accepted", "saving"
    from,        \* per run: the watermark it loaded
    pend,        \* per run: the records it pushes
    received,    \* records the portal has taken
    confirmed,   \* history: records a run knows the portal has taken
    repeated,    \* history: records pushed although confirmed
    troubled,    \* history: a run was cut short, failed to load the state file
                 \* or to save it, or overlapped another
    covered,     \* history: the latest timestamp any run has read
    overtaken    \* history: records appended when covered was past their time

syncVars == <<state, spc, from, pend, received, confirmed, repeated, troubled, covered, overtaken>>
vars == <<logVars, syncVars>>

(* Types.                                                                   *)
TypeOK ==
    /\ LogTypeOK
    /\ state \in 0 .. MaxClock \cup {Unparsable}
    /\ spc \in [Syncs -> {"idle", "loaded", "pending", "accepted", "saving"}]
    /\ from \in [Syncs -> 0 .. MaxClock]
    /\ pend \in [Syncs -> SUBSET Record]
    /\ \A s \in Syncs : pend[s] # {} <=> spc[s] \in {"pending", "accepted", "saving"}
    /\ received \subseteq Record
    /\ confirmed \subseteq received
    /\ repeated \subseteq confirmed
    /\ covered \in 0 .. MaxClock
    /\ troubled \in BOOLEAN

Init ==
    /\ LogInit
    /\ state = 0
    /\ spc = [s \in Syncs |-> "idle"]
    /\ from = [s \in Syncs |-> 0]
    /\ pend = [s \in Syncs |-> {}]
    /\ received = {}
    /\ confirmed = {}
    /\ repeated = {}
    /\ troubled = FALSE
    /\ covered = 0
    /\ overtaken = {}

----------------------------------------------------------------------------

\* The latest timestamp among records R.
Latest(R) == CHOOSE t \in {r.time : r \in R} : \A r \in R : r.time <= t

\* The run is over, with Ok or Err.
Finish(s) ==
    /\ spc' = [spc EXCEPT ![s] = "idle"]
    /\ from' = [from EXCEPT ![s] = 0]
    /\ pend' = [pend EXCEPT ![s] = {}]

(* load_state: without a file, or with one cut short, the default, 0.       *)
SyncLoad(s) ==
    /\ spc[s] = "idle"
    /\ from' = [from EXCEPT ![s] = IF state = Unparsable THEN 0 ELSE state]
    /\ spc' = [spc EXCEPT ![s] = "loaded"]
    /\ troubled' = (troubled \/ \E t \in Syncs : spc[t] # "idle")
    /\ UNCHANGED <<logVars, state, pend, received, confirmed, repeated, covered, overtaken>>

(* load_state, when the file is there and cannot be read: the error is the  *)
(* default too, and the run goes on from 0.                                 *)
SyncLoadFails(s) ==
    /\ spc[s] = "idle"
    /\ "io" \in SyncFaults
    /\ from' = [from EXCEPT ![s] = 0]
    /\ spc' = [spc EXCEPT ![s] = "loaded"]
    /\ troubled' = TRUE
    /\ UNCHANGED <<logVars, state, pend, received, confirmed, repeated, covered, overtaken>>

\* Mutant of Newer: from the watermark on.
NotOlder(s) == {r \in Readable(log, EnvKey) : r.time >= from[s]}

\* Mutant of Newer: the first second after the watermark is left out.
MuchNewer(s) == {r \in Readable(log, EnvKey) : r.time > from[s] + 1}

\* The records of the log that are newer than the watermark.
Newer(s) == {r \in Readable(log, EnvKey) : r.time > from[s]}

\* Mutant of SyncRead: with nothing to push an empty batch is posted.
SyncReadNoReturn(s) ==
    /\ spc[s] = "loaded"
    /\ pend' = [pend EXCEPT ![s] = Newer(s)]
    /\ spc' = [spc EXCEPT ![s] = "pending"]
    /\ covered' = IF Newer(s) = {} THEN covered ELSE Latest(Newer(s))
    /\ UNCHANGED <<logVars, state, from, received, confirmed, repeated, troubled, overtaken>>

(* read_audit_entries and the filter; with nothing to push, Ok(0).          *)
SyncRead(s) ==
    /\ spc[s] = "loaded"
    /\ \/ /\ Newer(s) # {}
          /\ pend' = [pend EXCEPT ![s] = Newer(s)]
          /\ spc' = [spc EXCEPT ![s] = "pending"]
          /\ covered' = IF Latest(Newer(s)) > covered THEN Latest(Newer(s)) ELSE covered
          /\ UNCHANGED from
       \/ Newer(s) = {} /\ Finish(s) /\ UNCHANGED covered
    /\ UNCHANGED <<logVars, state, received, confirmed, repeated, troubled, overtaken>>

\* The portal takes the records of s.
Deliver(s) ==
    /\ received' = received \cup pend[s]
    /\ repeated' = repeated \cup (pend[s] \cap confirmed)

(* POST, answered with success and a body that parses.                      *)
PushAccepted(s) ==
    /\ spc[s] = "pending"
    /\ Deliver(s)
    /\ confirmed' = confirmed \cup pend[s]
    /\ spc' = [spc EXCEPT ![s] = "accepted"]
    /\ UNCHANGED <<logVars, state, from, pend, troubled, covered, overtaken>>

(* POST, lost or answered with another status; or taken, and the answer is  *)
(* lost or does not parse.  Err, and the watermark stays.                   *)
PushFails(s) ==
    /\ spc[s] = "pending"
    /\ "portal" \in SyncFaults
    /\ \/ Deliver(s)
       \/ UNCHANGED <<received, repeated>>
    /\ Finish(s)
    /\ UNCHANGED <<logVars, state, confirmed, troubled, covered, overtaken>>

(* save_state, first half: fs::write truncates the file.                    *)
SaveTruncates(s) ==
    /\ spc[s] = "accepted"
    /\ state' = Unparsable
    /\ spc' = [spc EXCEPT ![s] = "saving"]
    /\ UNCHANGED <<logVars, from, pend, received, confirmed, repeated, troubled, covered, overtaken>>

\* Mutant of SaveWrites: the time of the save, not of the last record.
SaveWritesNow(s) ==
    /\ spc[s] = "saving"
    /\ state' = clock
    /\ Finish(s)
    /\ UNCHANGED <<logVars, received, confirmed, repeated, troubled, covered, overtaken>>

(* save_state, second half: max_timestamp is written.                       *)
SaveWrites(s) ==
    /\ spc[s] = "saving"
    /\ state' = Latest(pend[s])
    /\ Finish(s)
    /\ UNCHANGED <<logVars, received, confirmed, repeated, troubled, covered, overtaken>>

(* The log cannot be read, or the state not be written: Err.                *)
SyncIoError(s) ==
    /\ spc[s] \in {"loaded", "accepted", "saving"}
    /\ "io" \in SyncFaults
    /\ Finish(s)
    /\ troubled' = TRUE
    /\ UNCHANGED <<logVars, state, received, confirmed, repeated, covered, overtaken>>

(* The process ends between two steps.                                      *)
KillSync(s) ==
    /\ spc[s] # "idle"
    /\ "kill" \in SyncFaults
    /\ Finish(s)
    /\ troubled' = TRUE
    /\ UNCHANGED <<logVars, state, received, confirmed, repeated, covered, overtaken>>

SyncStep(s) ==
    \/ SyncLoad(s) \/ SyncRead(s) \/ PushAccepted(s)
    \/ SaveTruncates(s) \/ SaveWrites(s)

\* A record that is appended now is overtaken if a run has read a later one.
Overtake ==
    overtaken' = overtaken \cup
        {log'[i] : i \in {j \in Len(log) + 1 .. Len(log') :
                             log'[j] \notin {EOL, Cut} /\ log'[j].time <= covered}}

Next ==
    \/ /\ LogNext
       /\ Overtake
       /\ UNCHANGED <<state, spc, from, pend, received, confirmed, repeated, troubled, covered>>
    \/ \E s \in Syncs :
          SyncStep(s) \/ SyncLoadFails(s) \/ PushFails(s) \/ SyncIoError(s) \/ KillSync(s)

Spec == Init /\ [][Next]_vars

(* The operator runs sync again and again, and of these runs again and      *)
(* again one reads the log and one has its request answered: no failure     *)
(* meets every one of them.  Nothing is assumed of the writers.             *)
FairSpec ==
    /\ Spec
    /\ \A s \in Syncs :
          /\ WF_vars(SyncStep(s))
          /\ SF_vars(SyncRead(s))
          /\ SF_vars(PushAccepted(s))

----------------------------------------------------------------------------

(* "re-runs are idempotent and never re-push already-acknowledged entries"  *)
(* (the head of sync.rs), as long as one run at a time is made, none is     *)
(* killed and none fails to read or to write a file: requests and answers   *)
(* that are lost do not count, nor do records that arrive late or share a   *)
(* second.  Without these premises the head's words are not true.           *)
RepeatsOnlyAfterTrouble == repeated # {} => troubled

(* A record that a reader sees and the watermark has passed is at the       *)
(* portal, unless it was appended after some run had read a record of its   *)
(* second or a later one.  No run, interruption or overlap skips another.   *)
SkipsOnlyOvertaken ==
    state # Unparsable =>
        \A r \in Readable(log, EnvKey) :
            r.time <= state => r \in received \/ r \in overtaken

(* Every record on a complete line reaches the portal unless overtaken.     *)
SettledIsPushed ==
    \A r \in [id : 1 .. MaxRecords, time : 1 .. MaxClock, key : {EnvKey}] :
        r \in Settled(log) ~> r \in received \cup overtaken
=============================================================================
