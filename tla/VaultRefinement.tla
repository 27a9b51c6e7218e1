-------------------------- MODULE VaultRefinement --------------------------
(***************************************************************************)
(* Vault implements AtomicVault as long as no two calls use one file at the *)
(* same time.  The locks do not see to that: an encryption truncates the    *)
(* vault, and a decryption the plaintext, before it asks for its lock.      *)
(* Between calls the user may save the file anew.                           *)
(***************************************************************************)
EXTENDS Vault, FiniteSets

CONSTANTS Missing, Damaged  \* no file; a vault that does not open

ASSUME ProcsAssumption == IsFiniteSet(Procs)
ASSUME MissingAssumption == Missing \notin Seq(Blocks \cup {Junk})

VARIABLE clash  \* history: two calls have used one file at the same time

\* Calls that are writing the plaintext, and calls that have it open for that
\* or to read it: an encryption from its open on, not from its lock.
PlainWriters ==
    {p \in Procs : pc[p] \in {"s_wipe", "s_trunc", "s_unlink", "d_dst", "d_chunk", "d_clean"}}
PlainUsers ==
    {p \in Procs : pc[p] \notin {"idle", "e_keyed", "e_done", "d_open", "d_header", "d_keyed", "d_done"}}

\* Calls that have truncated or locked the vault, to their end: an encryption
\* that finds the vault locked has truncated it all the same.
VaultUsers ==
    {p \in Procs : pc[p] \notin {"idle", "e_keyed", "e_src", "e_locked", "d_open"}}

(* While no call is in progress the user saves the file, or a new one.      *)
Save ==
    /\ \A p \in Procs : pc[p] = "idle"
    /\ \E i \in Inodes, c \in Contents :
          /\ plainAt \in {i, None}
          /\ plainAt' = i
          /\ data' = [data EXCEPT ![i] = c]
    /\ UNCHANGED <<vexists, hdr, body, locks, pc, locals, used, history>>

SharedInit == Init /\ clash = FALSE

SharedNext ==
    /\ Next \/ Save
    /\ clash' = \/ clash
                \/ PlainWriters' # {} /\ Cardinality(PlainUsers') > 1
                \/ Cardinality(VaultUsers') > 1

SharedSpec ==
    /\ SharedInit /\ [][SharedNext]_<<vars, clash>>
    /\ \A p \in Procs : WF_vars(Step(p))

----------------------------------------------------------------------------

\* The call that is replacing the vault, and the one replacing the plaintext.
Sealing == {p \in Procs : pc[p] \in {"e_dst", "e_first", "e_chunk", "e_flush"}}
Opening == {p \in Procs : pc[p] \in {"d_dst", "d_chunk"}}
Shredding == {p \in Procs : pc[p] \in {"s_trunc", "s_unlink"}}

\* The vault has its new content from the moment it is truncated.
VaultNow ==
    IF ~vexists \/ clash THEN Missing
    ELSE IF Sealing # {} THEN data[fd[CHOOSE p \in Sealing : TRUE]]
    ELSE IF hdr # NoSalt /\ VaultHolds(hdr) THEN book[hdr] ELSE Damaged

\* So has the plaintext; a shredded one is gone from the first pass on.
FileNow ==
    IF plainAt = None \/ Shredding # {} \/ clash THEN Missing
    ELSE IF Opening # {} THEN book[key[CHOOSE p \in Opening : TRUE]]
    ELSE data[plainAt]

Atomic == INSTANCE AtomicVault WITH file <- FileNow, vault <- VaultNow

(* Encryption, shredding and decryption are atomic and a file is shredded   *)
(* only when the vault opens to it, in every interleaving of calls in which *)
(* no two of them use one file at the same time.                            *)
CallsAreAtomic == Atomic!Spec
=============================================================================
