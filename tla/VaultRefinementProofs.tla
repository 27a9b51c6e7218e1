----------------------- MODULE VaultRefinementProofs -----------------------
(***************************************************************************)
(* That an encryption's flush leaves a whole vault, and that calls which do *)
(* not use one file at a time are atomic: Vault implements AtomicVault for  *)
(* every number of processes and inodes and every content.                  *)
(***************************************************************************)
EXTENDS VaultRefinement, VaultProofs, FiniteSetTheorems

(* Steps at which the call holds the plaintext's lock.                      *)
HoldsPlain == {"e_locked", "e_dst", "e_first", "e_chunk", "e_flush",
               "s_wipe", "s_trunc", "d_chunk", "d_clean", "d_done"}

(* Steps at which an encryption has the vault open and not yet flushed.     *)
Build == {"e_dst", "e_first", "e_chunk", "e_flush"}

----------------------------------------------------------------------------
(* Who has which lock.                                                      *)

PlainMutex == \A p \in Procs : pc[p] \in HoldsPlain => plainLock[fd[p]] = p

PlainOwner ==
    \A p \in Procs, i \in Inodes : plainLock[i] = p => pc[p] \in HoldsPlain /\ fd[p] = i

VaultOwner == \A p \in Procs : vaultLock = p => pc[p] \in HoldsVault

LockInv == PlainMutex /\ PlainOwner /\ VaultOwner

(* Until a plaintext is unlinked there is but one.                          *)
OnePlain == ~unlinked => plainAt # None /\ \A p \in Procs : fd[p] \in {None, plainAt}

(* A lock on a plaintext is given to one call, and only it returns it.        *)
LEMMA PlainMutexStep ==
    ASSUME TypeOK, HandleInv, PlainMutex, [Next]_vars \/ Save
    PROVE  PlainMutex'
<1> USE NoneAssumption DEF TypeOK, FilesOK, LocksOK, LocalsOK,
        HistoryOK, HandleInv, Open, PlainMutex, HoldsPlain,
        files, locks, locals, history, vars
<1>1. ASSUME NEW p \in Procs, EncStart(p) PROVE PlainMutex'
  BY <1>1 DEF EncStart, Goto
<1>2. ASSUME NEW p \in Procs, NotFound(p) PROVE PlainMutex'
  BY <1>2 DEF NotFound
<1>3. ASSUME NEW p \in Procs, EncAbort(p) PROVE PlainMutex'
  BY <1>3 DEF EncAbort, Fail, Return
<1>4. ASSUME NEW p \in Procs, EncOpenSrc(p) PROVE PlainMutex'
  BY <1>4 DEF EncOpenSrc, Goto, Fail, Return
<1>5. ASSUME NEW p \in Procs, EncLockSrc(p) PROVE PlainMutex'
  BY <1>5 DEF EncLockSrc, TryLockPlain, Goto, Fail, Return
<1>6. ASSUME NEW p \in Procs, EncOpenDst(p) PROVE PlainMutex'
  BY <1>6 DEF EncOpenDst, Goto
<1>7. ASSUME NEW p \in Procs, EncLockDst(p) PROVE PlainMutex'
  BY <1>7 DEF EncLockDst, TryLockVault, Goto, Fail, Return
<1>8. ASSUME NEW p \in Procs, EncFirstRead(p) PROVE PlainMutex'
  BY <1>8 DEF EncFirstRead, Goto
<1>9. ASSUME NEW p \in Procs, EncChunk(p) PROVE PlainMutex'
  BY <1>9 DEF EncChunk, Goto
<1>10. ASSUME NEW p \in Procs, EncIoError(p) PROVE PlainMutex'
  BY <1>10 DEF EncIoError, Return
<1>11. ASSUME NEW p \in Procs, EncFlush(p) PROVE PlainMutex'
  BY <1>11 DEF EncFlush, Goto
<1>12. ASSUME NEW p \in Procs, EncReturn(p) PROVE PlainMutex'
  BY <1>12 DEF EncReturn, Fail, Return
<1>13. ASSUME NEW p \in Procs, ShredOpen(p) PROVE PlainMutex'
  BY <1>13 DEF ShredOpen, Goto, Fail, Return
<1>14. ASSUME NEW p \in Procs, ShredLock(p) PROVE PlainMutex'
  BY <1>14 DEF ShredLock, TryLockPlain, Goto
<1>15. ASSUME NEW p \in Procs, ShredWipe(p) PROVE PlainMutex'
  BY <1>15 DEF ShredWipe, Goto
<1>16. ASSUME NEW p \in Procs, ShredTruncate(p) PROVE PlainMutex'
  BY <1>16 DEF ShredTruncate, Goto
<1>17. ASSUME NEW p \in Procs, ShredIoError(p) PROVE PlainMutex'
  BY <1>17 DEF ShredIoError, Return
<1>18. ASSUME NEW p \in Procs, ShredUnlink(p) PROVE PlainMutex'
  BY <1>18 DEF ShredUnlink, Unlink, Goto, Fail, Return
<1>19. ASSUME NEW p \in Procs, DecStart(p) PROVE PlainMutex'
  BY <1>19 DEF DecStart, Goto
<1>20. ASSUME NEW p \in Procs, DecLockSrc(p) PROVE PlainMutex'
  BY <1>20 DEF DecLockSrc, TryLockVault, Goto, Fail, Return
<1>21. ASSUME NEW p \in Procs, DecHeader(p) PROVE PlainMutex'
  BY <1>21 DEF DecHeader, Goto, Fail, Return
<1>22. ASSUME NEW p \in Procs, DecReject(p) PROVE PlainMutex'
  BY <1>22 DEF DecReject, Fail, Return
<1>23. ASSUME NEW p \in Procs, DecOpenDst(p) PROVE PlainMutex'
  BY <1>23 DEF DecOpenDst, Goto
<1>24. ASSUME NEW p \in Procs, DecLockDst(p) PROVE PlainMutex'
  BY <1>24 DEF DecLockDst, TryLockPlain, Goto, Fail, Return
<1>25. ASSUME NEW p \in Procs, DecChunk(p) PROVE PlainMutex'
  BY <1>25 DEF DecChunk, Goto
<1>26. ASSUME NEW p \in Procs, DecFlush(p) PROVE PlainMutex'
  BY <1>26 DEF DecFlush, Goto
<1>27. ASSUME NEW p \in Procs, DecIoError(p) PROVE PlainMutex'
  BY <1>27 DEF DecIoError, Goto
<1>28. ASSUME NEW p \in Procs, DecCleanup(p) PROVE PlainMutex'
  BY <1>28 DEF DecCleanup, Unlink, Return
<1>29. ASSUME NEW p \in Procs, DecReturn(p) PROVE PlainMutex'
  BY <1>29 DEF DecReturn, Fail, Return
<1>30. ASSUME NEW p \in Procs, Kill(p) PROVE PlainMutex'
  BY <1>30 DEF Kill, Return
<1>31. CASE Rot
  BY <1>31 DEF Rot
<1>32. CASE UNCHANGED vars
  BY <1>32
<1>33. CASE Save
  BY <1>33 DEF Save
<1> QED
  BY <1>1, <1>2, <1>3, <1>4, <1>5, <1>6, <1>7, <1>8, <1>9, <1>10, <1>11,
     <1>12, <1>13, <1>14, <1>15, <1>16, <1>17, <1>18, <1>19, <1>20, <1>21, <1>22,
     <1>23, <1>24, <1>25, <1>26, <1>27, <1>28, <1>29, <1>30, <1>31, <1>32, <1>33
     DEF Next, Step

(* Nobody else is left with a lock on a plaintext.                           *)
LEMMA PlainOwnerStep ==
    ASSUME TypeOK, HandleInv, PlainOwner, [Next]_vars \/ Save
    PROVE  PlainOwner'
<1> USE NoneAssumption DEF TypeOK, FilesOK, LocksOK, LocalsOK,
        HistoryOK, HandleInv, Open, PlainOwner, HoldsPlain,
        files, locks, locals, history, vars
<1>0. \A p \in Procs : Fail(p) => PlainOwner'
  BY DEF Fail, Return
<1>1. ASSUME NEW p \in Procs, EncStart(p) PROVE PlainOwner'
  BY <1>1 DEF EncStart, Goto
<1>2. ASSUME NEW p \in Procs, NotFound(p) PROVE PlainOwner'
  BY <1>2 DEF NotFound
<1>3. ASSUME NEW p \in Procs, EncAbort(p) PROVE PlainOwner'
  BY <1>3 DEF EncAbort, Fail, Return
<1>4. ASSUME NEW p \in Procs, EncOpenSrc(p) PROVE PlainOwner'
  <2>1. CASE ~Fail(p)
    <3>1. /\ pc[p] = "e_keyed" /\ pc' = [pc EXCEPT ![p] = "e_src"]
          /\ UNCHANGED plainLock
          /\ \A q \in Procs : q # p => fd'[q] = fd[q]
      BY <1>4, <2>1 DEF EncOpenSrc, Goto
    <3>2. \A i \in Inodes : plainLock[i] # p
      BY <3>1
    <3> QED BY <3>1, <3>2
  <2>2. CASE Fail(p)
    BY <2>2, <1>0
  <2> QED BY <2>1, <2>2
<1>5. ASSUME NEW p \in Procs, EncLockSrc(p) PROVE PlainOwner'
  BY <1>5 DEF EncLockSrc, TryLockPlain, Goto, Fail, Return
<1>6. ASSUME NEW p \in Procs, EncOpenDst(p) PROVE PlainOwner'
  BY <1>6 DEF EncOpenDst, Goto
<1>7. ASSUME NEW p \in Procs, EncLockDst(p) PROVE PlainOwner'
  <2>1. CASE ~Fail(p)
    BY <1>7, <2>1 DEF EncLockDst, TryLockVault, Goto
  <2>2. CASE Fail(p)
    BY <2>2, <1>0
  <2> QED BY <2>1, <2>2
<1>8. ASSUME NEW p \in Procs, EncFirstRead(p) PROVE PlainOwner'
  BY <1>8 DEF EncFirstRead, Goto
<1>9. ASSUME NEW p \in Procs, EncChunk(p) PROVE PlainOwner'
  BY <1>9 DEF EncChunk, Goto
<1>10. ASSUME NEW p \in Procs, EncIoError(p) PROVE PlainOwner'
  BY <1>10 DEF EncIoError, Return
<1>11. ASSUME NEW p \in Procs, EncFlush(p) PROVE PlainOwner'
  BY <1>11 DEF EncFlush, Goto
<1>12. ASSUME NEW p \in Procs, EncReturn(p) PROVE PlainOwner'
  BY <1>12 DEF EncReturn, Fail, Return
<1>13. ASSUME NEW p \in Procs, ShredOpen(p) PROVE PlainOwner'
  <2>1. CASE ~Fail(p)
    <3>1. /\ pc[p] = "s_open" /\ pc' = [pc EXCEPT ![p] = "s_lock"]
          /\ UNCHANGED plainLock
          /\ \A q \in Procs : q # p => fd'[q] = fd[q]
      BY <1>13, <2>1 DEF ShredOpen, Goto
    <3>2. \A i \in Inodes : plainLock[i] # p
      BY <3>1
    <3> QED BY <3>1, <3>2
  <2>2. CASE Fail(p)
    BY <2>2, <1>0
  <2> QED BY <2>1, <2>2
<1>14. ASSUME NEW p \in Procs, ShredLock(p) PROVE PlainOwner'
  BY <1>14 DEF ShredLock, TryLockPlain, Goto
<1>15. ASSUME NEW p \in Procs, ShredWipe(p) PROVE PlainOwner'
  BY <1>15 DEF ShredWipe, Goto
<1>16. ASSUME NEW p \in Procs, ShredTruncate(p) PROVE PlainOwner'
  BY <1>16 DEF ShredTruncate, Goto
<1>17. ASSUME NEW p \in Procs, ShredIoError(p) PROVE PlainOwner'
  BY <1>17 DEF ShredIoError, Return
<1>18. ASSUME NEW p \in Procs, ShredUnlink(p) PROVE PlainOwner'
  <2>1. CASE ~Fail(p)
    <3>1. /\ pc[p] = "s_unlink" /\ pc' = [pc EXCEPT ![p] = "e_done"]
          /\ UNCHANGED plainLock
          /\ fd' = fd
      BY <1>18, <2>1 DEF ShredUnlink, Unlink, Goto
    <3>2. \A i \in Inodes : plainLock[i] # p
      BY <3>1
    <3> QED BY <3>1, <3>2
  <2>2. CASE Fail(p)
    BY <2>2, <1>0
  <2> QED BY <2>1, <2>2
<1>19. ASSUME NEW p \in Procs, DecStart(p) PROVE PlainOwner'
  BY <1>19 DEF DecStart, Goto
<1>20. ASSUME NEW p \in Procs, DecLockSrc(p) PROVE PlainOwner'
  BY <1>20 DEF DecLockSrc, TryLockVault, Goto, Fail, Return
<1>21. ASSUME NEW p \in Procs, DecHeader(p) PROVE PlainOwner'
  BY <1>21 DEF DecHeader, Goto, Fail, Return
<1>22. ASSUME NEW p \in Procs, DecReject(p) PROVE PlainOwner'
  BY <1>22 DEF DecReject, Fail, Return
<1>23. ASSUME NEW p \in Procs, DecOpenDst(p) PROVE PlainOwner'
  BY <1>23 DEF DecOpenDst, Goto
<1>24. ASSUME NEW p \in Procs, DecLockDst(p) PROVE PlainOwner'
  BY <1>24 DEF DecLockDst, TryLockPlain, Goto, Fail, Return
<1>25. ASSUME NEW p \in Procs, DecChunk(p) PROVE PlainOwner'
  BY <1>25 DEF DecChunk, Goto
<1>26. ASSUME NEW p \in Procs, DecFlush(p) PROVE PlainOwner'
  BY <1>26 DEF DecFlush, Goto
<1>27. ASSUME NEW p \in Procs, DecIoError(p) PROVE PlainOwner'
  BY <1>27 DEF DecIoError, Goto
<1>28. ASSUME NEW p \in Procs, DecCleanup(p) PROVE PlainOwner'
  BY <1>28 DEF DecCleanup, Unlink, Return
<1>29. ASSUME NEW p \in Procs, DecReturn(p) PROVE PlainOwner'
  BY <1>29 DEF DecReturn, Fail, Return
<1>30. ASSUME NEW p \in Procs, Kill(p) PROVE PlainOwner'
  BY <1>30 DEF Kill, Return
<1>31. CASE Rot
  BY <1>31 DEF Rot
<1>32. CASE UNCHANGED vars
  BY <1>32
<1>33. CASE Save
  BY <1>33 DEF Save
<1> QED
  BY <1>1, <1>2, <1>3, <1>4, <1>5, <1>6, <1>7, <1>8, <1>9, <1>10, <1>11,
     <1>12, <1>13, <1>14, <1>15, <1>16, <1>17, <1>18, <1>19, <1>20, <1>21, <1>22,
     <1>23, <1>24, <1>25, <1>26, <1>27, <1>28, <1>29, <1>30, <1>31, <1>32, <1>33
     DEF Next, Step

(* Nor with the lock on the vault.                                           *)
LEMMA VaultOwnerStep ==
    ASSUME TypeOK, VaultOwner, [Next]_vars \/ Save
    PROVE  VaultOwner'
<1> USE NoneAssumption DEF TypeOK, FilesOK, LocksOK, LocalsOK,
        HistoryOK, VaultOwner, HoldsVault,
        files, locks, locals, history, vars
<1>1. ASSUME NEW p \in Procs, EncStart(p) PROVE VaultOwner'
  BY <1>1 DEF EncStart, Goto
<1>2. ASSUME NEW p \in Procs, NotFound(p) PROVE VaultOwner'
  BY <1>2 DEF NotFound
<1>3. ASSUME NEW p \in Procs, EncAbort(p) PROVE VaultOwner'
  BY <1>3 DEF EncAbort, Fail, Return
<1>4. ASSUME NEW p \in Procs, EncOpenSrc(p) PROVE VaultOwner'
  BY <1>4 DEF EncOpenSrc, Goto, Fail, Return
<1>5. ASSUME NEW p \in Procs, EncLockSrc(p) PROVE VaultOwner'
  BY <1>5 DEF EncLockSrc, TryLockPlain, Goto, Fail, Return
<1>6. ASSUME NEW p \in Procs, EncOpenDst(p) PROVE VaultOwner'
  BY <1>6 DEF EncOpenDst, Goto
<1>7. ASSUME NEW p \in Procs, EncLockDst(p) PROVE VaultOwner'
  BY <1>7 DEF EncLockDst, TryLockVault, Goto, Fail, Return
<1>8. ASSUME NEW p \in Procs, EncFirstRead(p) PROVE VaultOwner'
  BY <1>8 DEF EncFirstRead, Goto
<1>9. ASSUME NEW p \in Procs, EncChunk(p) PROVE VaultOwner'
  BY <1>9 DEF EncChunk, Goto
<1>10. ASSUME NEW p \in Procs, EncIoError(p) PROVE VaultOwner'
  BY <1>10 DEF EncIoError, Return
<1>11. ASSUME NEW p \in Procs, EncFlush(p) PROVE VaultOwner'
  BY <1>11 DEF EncFlush, Goto
<1>12. ASSUME NEW p \in Procs, EncReturn(p) PROVE VaultOwner'
  BY <1>12 DEF EncReturn, Fail, Return
<1>13. ASSUME NEW p \in Procs, ShredOpen(p) PROVE VaultOwner'
  BY <1>13 DEF ShredOpen, Goto, Fail, Return
<1>14. ASSUME NEW p \in Procs, ShredLock(p) PROVE VaultOwner'
  BY <1>14 DEF ShredLock, TryLockPlain, Goto
<1>15. ASSUME NEW p \in Procs, ShredWipe(p) PROVE VaultOwner'
  BY <1>15 DEF ShredWipe, Goto
<1>16. ASSUME NEW p \in Procs, ShredTruncate(p) PROVE VaultOwner'
  BY <1>16 DEF ShredTruncate, Goto
<1>17. ASSUME NEW p \in Procs, ShredIoError(p) PROVE VaultOwner'
  BY <1>17 DEF ShredIoError, Return
<1>18. ASSUME NEW p \in Procs, ShredUnlink(p) PROVE VaultOwner'
  BY <1>18 DEF ShredUnlink, Unlink, Goto, Fail, Return
<1>19. ASSUME NEW p \in Procs, DecStart(p) PROVE VaultOwner'
  BY <1>19 DEF DecStart, Goto
<1>20. ASSUME NEW p \in Procs, DecLockSrc(p) PROVE VaultOwner'
  BY <1>20 DEF DecLockSrc, TryLockVault, Goto, Fail, Return
<1>21. ASSUME NEW p \in Procs, DecHeader(p) PROVE VaultOwner'
  BY <1>21 DEF DecHeader, Goto, Fail, Return
<1>22. ASSUME NEW p \in Procs, DecReject(p) PROVE VaultOwner'
  BY <1>22 DEF DecReject, Fail, Return
<1>23. ASSUME NEW p \in Procs, DecOpenDst(p) PROVE VaultOwner'
  BY <1>23 DEF DecOpenDst, Goto
<1>24. ASSUME NEW p \in Procs, DecLockDst(p) PROVE VaultOwner'
  BY <1>24 DEF DecLockDst, TryLockPlain, Goto, Fail, Return
<1>25. ASSUME NEW p \in Procs, DecChunk(p) PROVE VaultOwner'
  BY <1>25 DEF DecChunk, Goto
<1>26. ASSUME NEW p \in Procs, DecFlush(p) PROVE VaultOwner'
  BY <1>26 DEF DecFlush, Goto
<1>27. ASSUME NEW p \in Procs, DecIoError(p) PROVE VaultOwner'
  BY <1>27 DEF DecIoError, Goto
<1>28. ASSUME NEW p \in Procs, DecCleanup(p) PROVE VaultOwner'
  BY <1>28 DEF DecCleanup, Unlink, Return
<1>29. ASSUME NEW p \in Procs, DecReturn(p) PROVE VaultOwner'
  BY <1>29 DEF DecReturn, Fail, Return
<1>30. ASSUME NEW p \in Procs, Kill(p) PROVE VaultOwner'
  BY <1>30 DEF Kill, Return
<1>31. CASE Rot
  BY <1>31 DEF Rot
<1>32. CASE UNCHANGED vars
  BY <1>32
<1>33. CASE Save
  BY <1>33 DEF Save
<1> QED
  BY <1>1, <1>2, <1>3, <1>4, <1>5, <1>6, <1>7, <1>8, <1>9, <1>10, <1>11,
     <1>12, <1>13, <1>14, <1>15, <1>16, <1>17, <1>18, <1>19, <1>20, <1>21, <1>22,
     <1>23, <1>24, <1>25, <1>26, <1>27, <1>28, <1>29, <1>30, <1>31, <1>32, <1>33
     DEF Next, Step

(* Only an unlinked plaintext is followed by another.                        *)
LEMMA OnePlainStep ==
    ASSUME TypeOK, HandleInv, OnePlain, [Next]_vars \/ Save
    PROVE  OnePlain'
<1> USE NoneAssumption DEF TypeOK, FilesOK, LocksOK, LocalsOK,
        HistoryOK, HandleInv, Open, Output, OnePlain,
        files, locks, locals, history, vars
<1>1. ASSUME NEW p \in Procs, EncStart(p) PROVE OnePlain'
  BY <1>1 DEF EncStart, Goto
<1>2. ASSUME NEW p \in Procs, NotFound(p) PROVE OnePlain'
  BY <1>2 DEF NotFound
<1>3. ASSUME NEW p \in Procs, EncAbort(p) PROVE OnePlain'
  BY <1>3 DEF EncAbort, Fail, Return
<1>4. ASSUME NEW p \in Procs, EncOpenSrc(p) PROVE OnePlain'
  BY <1>4 DEF EncOpenSrc, Goto, Fail, Return
<1>5. ASSUME NEW p \in Procs, EncLockSrc(p) PROVE OnePlain'
  BY <1>5 DEF EncLockSrc, TryLockPlain, Goto, Fail, Return
<1>6. ASSUME NEW p \in Procs, EncOpenDst(p) PROVE OnePlain'
  BY <1>6 DEF EncOpenDst, Goto
<1>7. ASSUME NEW p \in Procs, EncLockDst(p) PROVE OnePlain'
  BY <1>7 DEF EncLockDst, TryLockVault, Goto, Fail, Return
<1>8. ASSUME NEW p \in Procs, EncFirstRead(p) PROVE OnePlain'
  BY <1>8 DEF EncFirstRead, Goto
<1>9. ASSUME NEW p \in Procs, EncChunk(p) PROVE OnePlain'
  BY <1>9 DEF EncChunk, Goto
<1>10. ASSUME NEW p \in Procs, EncIoError(p) PROVE OnePlain'
  BY <1>10 DEF EncIoError, Return
<1>11. ASSUME NEW p \in Procs, EncFlush(p) PROVE OnePlain'
  BY <1>11 DEF EncFlush, Goto
<1>12. ASSUME NEW p \in Procs, EncReturn(p) PROVE OnePlain'
  BY <1>12 DEF EncReturn, Fail, Return
<1>13. ASSUME NEW p \in Procs, ShredOpen(p) PROVE OnePlain'
  BY <1>13 DEF ShredOpen, Goto, Fail, Return
<1>14. ASSUME NEW p \in Procs, ShredLock(p) PROVE OnePlain'
  BY <1>14 DEF ShredLock, TryLockPlain, Goto
<1>15. ASSUME NEW p \in Procs, ShredWipe(p) PROVE OnePlain'
  BY <1>15 DEF ShredWipe, Goto
<1>16. ASSUME NEW p \in Procs, ShredTruncate(p) PROVE OnePlain'
  BY <1>16 DEF ShredTruncate, Goto
<1>17. ASSUME NEW p \in Procs, ShredIoError(p) PROVE OnePlain'
  BY <1>17 DEF ShredIoError, Return
<1>18. ASSUME NEW p \in Procs, ShredUnlink(p) PROVE OnePlain'
  BY <1>18 DEF ShredUnlink, Unlink, Goto, Fail, Return
<1>19. ASSUME NEW p \in Procs, DecStart(p) PROVE OnePlain'
  BY <1>19 DEF DecStart, Goto
<1>20. ASSUME NEW p \in Procs, DecLockSrc(p) PROVE OnePlain'
  BY <1>20 DEF DecLockSrc, TryLockVault, Goto, Fail, Return
<1>21. ASSUME NEW p \in Procs, DecHeader(p) PROVE OnePlain'
  BY <1>21 DEF DecHeader, Goto, Fail, Return
<1>22. ASSUME NEW p \in Procs, DecReject(p) PROVE OnePlain'
  BY <1>22 DEF DecReject, Fail, Return
<1>23. ASSUME NEW p \in Procs, DecOpenDst(p) PROVE OnePlain'
  BY <1>23 DEF DecOpenDst, Goto
<1>24. ASSUME NEW p \in Procs, DecLockDst(p) PROVE OnePlain'
  BY <1>24 DEF DecLockDst, TryLockPlain, Goto, Fail, Return
<1>25. ASSUME NEW p \in Procs, DecChunk(p) PROVE OnePlain'
  BY <1>25 DEF DecChunk, Goto
<1>26. ASSUME NEW p \in Procs, DecFlush(p) PROVE OnePlain'
  BY <1>26 DEF DecFlush, Goto
<1>27. ASSUME NEW p \in Procs, DecIoError(p) PROVE OnePlain'
  BY <1>27 DEF DecIoError, Goto
<1>28. ASSUME NEW p \in Procs, DecCleanup(p) PROVE OnePlain'
  BY <1>28 DEF DecCleanup, Unlink, Return
<1>29. ASSUME NEW p \in Procs, DecReturn(p) PROVE OnePlain'
  BY <1>29 DEF DecReturn, Fail, Return
<1>30. ASSUME NEW p \in Procs, Kill(p) PROVE OnePlain'
  BY <1>30 DEF Kill, Return
<1>31. CASE Rot
  BY <1>31 DEF Rot
<1>32. CASE UNCHANGED vars
  BY <1>32
<1>33. CASE Save
  BY <1>33 DEF Save
<1> QED
  BY <1>1, <1>2, <1>3, <1>4, <1>5, <1>6, <1>7, <1>8, <1>9, <1>10, <1>11,
     <1>12, <1>13, <1>14, <1>15, <1>16, <1>17, <1>18, <1>19, <1>20, <1>21, <1>22,
     <1>23, <1>24, <1>25, <1>26, <1>27, <1>28, <1>29, <1>30, <1>31, <1>32, <1>33
     DEF Next, Step

----------------------------------------------------------------------------
(* The vault that an encryption builds.                                     *)

(* The first n chunks that were sealed under salt s.                        *)
ChunksOf(s, n) ==
    [i \in 1 .. n |-> [salt |-> s, idx |-> i, piece |-> Piece(book[s], i), last |-> FALSE]]

BuildingOf(p) ==
    /\ pc[p] \in {"e_dst", "e_first"} => hdr = NoSalt /\ body = <<>>
    /\ pc[p] = "e_chunk" =>
          /\ done[p] > 0 => hdr = key[p]
          /\ body = ChunksOf(key[p], done[p])
    /\ pc[p] = "e_flush" => VaultHolds(key[p])

BuildingInv == ~unlinked => \A p \in Procs : BuildingOf(p)

(* Saving a file between calls keeps what every state of Vault has.         *)
LEMMA SaveStep ==
    ASSUME IInv, Save
    PROVE  IInv'
<1> USE DEF IInv, BasicInv, files, locks, locals, history
<1>1. PICK i \in Inodes, c \in Contents : plainAt' = i /\ data' = [data EXCEPT ![i] = c]
  BY DEF Save
<1>2. /\ \A p \in Procs : pc[p] = "idle"
      /\ UNCHANGED <<vexists, hdr, body, locks, pc, locals, used, history>>
  BY DEF Save
<1>3. c \in Content
  BY ContentsAssumption DEF Content
<1>4. FilesOK'
  BY <1>1, <1>2, <1>3 DEF TypeOK, FilesOK
<1>5. LocksOK' /\ LocalsOK' /\ HistoryOK'
  BY <1>2 DEF TypeOK, LocksOK, LocalsOK, HistoryOK
<1>6. HandleInv'
  BY <1>2 DEF HandleInv
<1>7. VaultMutex' /\ KeyInv'
  BY <1>2 DEF VaultMutex, KeyInv
<1>8. SourceInv'
  BY <1>2 DEF SourceInv
<1>9. GenuineInv'
  BY <1>2 DEF GenuineInv
<1>10. OutputInv'
  <2>1. \A p \in Procs : pc'[p] = "idle"
    BY <1>2
  <2> QED BY <2>1 DEF OutputInv, OutputOf, Finished, Output
<1> QED BY <1>4, <1>5, <1>6, <1>7, <1>8, <1>9, <1>10 DEF TypeOK

(* At most one encryption has the vault open.                               *)
OneBuild == \A p, q \in Procs : pc[p] \in Build /\ pc[q] \in Build => p = q

(* The step leaves the vault and what p is to put into it.                  *)
BuildKept(p) ==
    pc'[p] \in Build =>
        /\ pc'[p] = pc[p] \/ (pc[p] = "e_dst" /\ pc'[p] = "e_first")
        /\ key'[p] = key[p] /\ done'[p] = done[p]
        /\ UNCHANGED <<hdr, body, book, sealed>>

(* Such a step leaves p's part of the vault as it is to be.                 *)
LEMMA BuildFrame ==
    ASSUME NEW p \in Procs, BuildingOf(p), BuildKept(p)
    PROVE  BuildingOf(p)'
<1>1. CASE pc'[p] \in Build
  BY <1>1 DEF BuildKept, BuildingOf, Build, ChunksOf, VaultHolds, Piece
<1>2. CASE pc'[p] \notin Build
  BY <1>2 DEF BuildingOf, Build
<1> QED BY <1>1, <1>2

(* Between calls there is nothing to be built.                              *)
LEMMA BuildSave ==
    ASSUME Save, NEW p \in Procs
    PROVE  BuildingOf(p)'
<1>1. pc'[p] = "idle"
  BY DEF Save
<1> QED BY <1>1 DEF BuildingOf

(* A turn of the loop adds the next chunk, and the last one completes the   *)
(* vault.                                                                   *)
LEMMA ChunkBuilt ==
    ASSUME TypeOK, HandleInv, KeyInv, SourceInv, NEW p \in Procs,
           BuildingOf(p), EncChunk(p)
    PROVE  BuildingOf(p)'
<1> DEFINE s == key[p]
           c == data[fd[p]]
           d == done[p]
           i == d + 1
           last == Piece(c, i + 1) = <<>>
           x == [salt |-> s, idx |-> i, piece |-> cur[p], last |-> last]
<1>1. /\ s \in Salts /\ c \in Content /\ d \in Nat /\ i \in Nat /\ i >= 1
      /\ book[s] \in Content /\ body \in Seq(Chunk)
  BY DEF EncChunk, TypeOK, FilesOK, LocalsOK, HistoryOK, HandleInv, Open, SealingSteps
<1>2. /\ body' = Put(body, i, x)
      /\ book' = [book EXCEPT ![s] = @ \o cur[p]]
      /\ cur[p] \in Content
      /\ sealed' = IF last THEN sealed \cup {s} ELSE sealed
      /\ last => book'[s] = c
      /\ x.piece = Piece(book'[s], i)
      /\ last => i = ChunkCount(c)
  BY SealStep
<1>3. /\ pc[p] = "e_chunk" /\ key' = key
      /\ hdr' = IF i = 1 THEN s ELSE hdr
      /\ pc'[p] = (IF last THEN "e_flush" ELSE "e_chunk")
      /\ done'[p] = i
  BY <1>1 DEF EncChunk, Goto, TypeOK, LocalsOK
<1>4. hdr' = s /\ body = ChunksOf(s, d)
  <2>1. body = ChunksOf(s, d) /\ (d > 0 => hdr = s)
    BY <1>3 DEF BuildingOf
  <2> QED BY <1>1, <1>3, <2>1
<1>5. Len(book[s]) = d
  BY <1>3 DEF SourceInv, SourceOf
<1>6. cur[p] = Piece(book'[s], i) /\ book'[s] = book[s] \o cur[p]
  BY <1>1, <1>2 DEF TypeOK, HistoryOK
<1> HIDE DEF c, last
<1>7. \A j \in 1 .. d : Piece(book'[s], j) = Piece(book[s], j)
  <2> SUFFICES ASSUME NEW j \in 1 .. d PROVE Piece(book'[s], j) = Piece(book[s], j)
    OBVIOUS
  <2>1. j \in Nat /\ j >= 1 /\ j <= Len(book[s])
    BY <1>1, <1>5
  <2> QED BY <1>1, <1>2, <1>6, <2>1, PieceStable
<1> DEFINE new == [j \in 1 .. i |-> [salt |-> s, idx |-> j, piece |-> Piece(book'[s], j),
                                     last |-> IF j = i THEN last ELSE FALSE]]
<1>8. body' = new
  <2>1. Len(body) = d /\ \A j \in 1 .. d : body[j] =
          [salt |-> s, idx |-> j, piece |-> Piece(book[s], j), last |-> FALSE]
    BY <1>1, <1>4 DEF ChunksOf
  <2>2. Put(body, i, x) = [j \in 1 .. i |-> IF j = i THEN x ELSE body[j]]
    <3>1. (IF i > Len(body) THEN i ELSE Len(body)) = i
      BY <1>1, <2>1
    <3>2. \A j \in 1 .. i : (IF j = i THEN x ELSE IF j <= Len(body) THEN body[j] ELSE Torn)
                            = IF j = i THEN x ELSE body[j]
      BY <1>1, <2>1
    <3> HIDE DEF x, i
    <3> QED BY <3>1, <3>2 DEF Put
  <2>3. \A j \in 1 .. i : (IF j = i THEN x ELSE body[j]) = new[j]
    <3> SUFFICES ASSUME NEW j \in 1 .. i PROVE (IF j = i THEN x ELSE body[j]) = new[j]
      OBVIOUS
    <3>1. CASE j = i
      BY <1>6, <3>1
    <3>2. CASE j # i
      <4>1. j \in 1 .. d
        BY <1>1, <3>2
      <4> QED BY <1>7, <2>1, <3>2, <4>1
    <3> QED BY <3>1, <3>2
  <2> QED BY <1>2, <2>2, <2>3
<1>9. CASE ~last
  <2>0. last = FALSE
    BY <1>9 DEF last
  <2>1. \A j \in 1 .. i : new[j] = [salt |-> s, idx |-> j, piece |-> Piece(book'[s], j), last |-> FALSE]
    BY <2>0
  <2>2. body' = ChunksOf(key[p], done[p])'
    BY <1>8, <1>3, <2>1 DEF ChunksOf
  <2>3. pc'[p] = "e_chunk"
    BY <1>3, <1>9
  <2> QED BY <1>3, <1>4, <2>2, <2>3 DEF BuildingOf
<1>10. CASE last
  <2>1. i = ChunkCount(book'[s])
    BY <1>2, <1>10
  <2>2. \A j \in 1 .. i : new[j] = [salt |-> s, idx |-> j, piece |-> Piece(book'[s], j), last |-> j = i]
    BY <1>10
  <2>3. s \in sealed' /\ pc'[p] = "e_flush" /\ key'[p] = s
    BY <1>2, <1>3, <1>10
  <2>4. VaultHolds(s)'
    BY <1>3, <1>4, <1>8, <2>1, <2>2, <2>3 DEF VaultHolds
  <2> QED BY <1>3, <2>3, <2>4 DEF BuildingOf
<1> QED BY <1>9, <1>10

(* The vault grows by whole chunks and has all of them at the flush, unless  *)
(* another encryption has it open or it is damaged.                         *)
LEMMA BuildingStep ==
    ASSUME TypeOK, HandleInv, KeyInv, SourceInv, OneBuild, OneBuild',
           "rot" \notin Faults, [Next]_vars, NEW p \in Procs, BuildingOf(p)
    PROVE  BuildingOf(p)'
<1> USE NoneAssumption, NoSaltAssumption DEF TypeOK, FilesOK, LocksOK,
        LocalsOK, HistoryOK, Build, files, locks, locals, history, vars
<1>0. \A q \in Procs : Fail(q) => BuildKept(p)
  BY DEF Fail, Return, BuildKept
<1>1. ASSUME NEW q \in Procs, EncStart(q) PROVE BuildKept(p)
  BY <1>1 DEF BuildKept, EncStart, Goto
<1>2. ASSUME NEW q \in Procs, NotFound(q) PROVE BuildKept(p)
  BY <1>2 DEF BuildKept, NotFound
<1>3. ASSUME NEW q \in Procs, EncAbort(q) PROVE BuildKept(p)
  BY <1>3, <1>0 DEF EncAbort
<1>4. ASSUME NEW q \in Procs, EncOpenSrc(q) PROVE BuildKept(p)
  <2>1. CASE ~Fail(q)
    BY <1>4, <2>1 DEF BuildKept, EncOpenSrc, Goto
  <2>2. CASE Fail(q)
    BY <2>2, <1>0
  <2> QED BY <2>1, <2>2
<1>5. ASSUME NEW q \in Procs, EncLockSrc(q) PROVE BuildKept(p)
  <2>1. CASE ~Fail(q)
    BY <1>5, <2>1 DEF BuildKept, EncLockSrc, TryLockPlain, Goto
  <2>2. CASE Fail(q)
    BY <2>2, <1>0
  <2> QED BY <2>1, <2>2
<1>6. ASSUME NEW q \in Procs, EncOpenDst(q) PROVE BuildingOf(p)'
  <2>1. /\ pc[q] = "e_locked" /\ pc' = [pc EXCEPT ![q] = "e_dst"]
        /\ hdr' = NoSalt /\ body' = <<>>
    BY <1>6 DEF EncOpenDst, Goto
  <2>2. q # p => pc'[p] \notin Build
    BY <2>1 DEF OneBuild
  <2>3. pc'[p] \in Build => pc'[p] = "e_dst"
    BY <2>1, <2>2
  <2> QED BY <2>1, <2>3 DEF BuildingOf
<1>7. ASSUME NEW q \in Procs, EncLockDst(q) PROVE BuildKept(p)
  <2>1. CASE ~Fail(q)
    BY <1>7, <2>1 DEF BuildKept, EncLockDst, TryLockVault, Goto
  <2>2. CASE Fail(q)
    BY <2>2, <1>0
  <2> QED BY <2>1, <2>2
<1>8. ASSUME NEW q \in Procs, EncFirstRead(q) PROVE BuildingOf(p)'
  <2>1. /\ pc[q] = "e_first" /\ pc' = [pc EXCEPT ![q] = "e_chunk"]
        /\ UNCHANGED <<hdr, body, book, key, done>>
    BY <1>8 DEF EncFirstRead, Goto
  <2>2. q # p => pc'[p] \notin Build
    BY <2>1 DEF OneBuild
  <2>3. pc[p] = "e_first" => done[p] = 0 /\ body = <<>>
    BY DEF KeyInv, NotStarted, Unsealed, BuildingOf
  <2>4. ChunksOf(key[p], 0) = <<>>
    BY DEF ChunksOf
  <2>5. ChunksOf(key[p], 0)' = <<>>
    BY DEF ChunksOf
  <2>6. CASE q = p
    <3>1. pc'[p] = "e_chunk" /\ done'[p] = 0 /\ body' = <<>>
      BY <2>1, <2>3, <2>6
    <3>2. ChunksOf(key[p], done[p])' = <<>>
      BY <3>1 DEF ChunksOf
    <3> QED BY <3>1, <3>2 DEF BuildingOf
  <2>7. CASE q # p
    BY <2>2, <2>7 DEF BuildingOf
  <2> QED BY <2>6, <2>7
<1>9. ASSUME NEW q \in Procs, EncChunk(q) PROVE BuildingOf(p)'
  <2>1. pc[q] = "e_chunk" /\ pc'[q] \in {"e_chunk", "e_flush"}
    BY <1>9 DEF EncChunk, Goto
  <2>2. CASE q # p
    <3>1. pc'[p] \notin Build
      BY <2>1, <2>2 DEF OneBuild
    <3> QED BY <3>1 DEF BuildingOf
  <2>3. CASE q = p
    BY <1>9, <2>3, ChunkBuilt
  <2> QED BY <2>2, <2>3
<1>10. ASSUME NEW q \in Procs, EncIoError(q) PROVE BuildKept(p)
  <2>1. pc' = [pc EXCEPT ![q] = "idle"] /\ key' = [key EXCEPT ![q] = NoSalt]
        /\ done' = [done EXCEPT ![q] = 0] /\ UNCHANGED <<book, sealed>>
    BY <1>10 DEF EncIoError, Return
  <2>2. CASE UNCHANGED <<hdr, body>>
    BY <2>1, <2>2 DEF BuildKept
  <2>3. CASE pc[q] \in {"e_chunk", "e_flush"}
    <3>1. pc'[p] \notin Build
      BY <2>1, <2>3 DEF OneBuild
    <3> QED BY <3>1 DEF BuildKept
  <2> QED BY <1>10, <2>2, <2>3 DEF EncIoError, Interrupted
<1>11. ASSUME NEW q \in Procs, EncFlush(q) PROVE BuildKept(p)
  BY <1>11 DEF BuildKept, EncFlush, Goto
<1>12. ASSUME NEW q \in Procs, EncReturn(q) PROVE BuildKept(p)
  BY <1>12, <1>0 DEF EncReturn
<1>13. ASSUME NEW q \in Procs, ShredOpen(q) PROVE BuildKept(p)
  <2>1. CASE ~Fail(q)
    BY <1>13, <2>1 DEF BuildKept, ShredOpen, Goto
  <2>2. CASE Fail(q)
    BY <2>2, <1>0
  <2> QED BY <2>1, <2>2
<1>14. ASSUME NEW q \in Procs, ShredLock(q) PROVE BuildKept(p)
  BY <1>14 DEF BuildKept, ShredLock, TryLockPlain, Goto
<1>15. ASSUME NEW q \in Procs, ShredWipe(q) PROVE BuildKept(p)
  BY <1>15 DEF BuildKept, ShredWipe, Goto
<1>16. ASSUME NEW q \in Procs, ShredTruncate(q) PROVE BuildKept(p)
  BY <1>16 DEF BuildKept, ShredTruncate, Goto
<1>17. ASSUME NEW q \in Procs, ShredIoError(q) PROVE BuildKept(p)
  BY <1>17 DEF BuildKept, ShredIoError, Return
<1>18. ASSUME NEW q \in Procs, ShredUnlink(q) PROVE BuildKept(p)
  <2>1. CASE ~Fail(q)
    BY <1>18, <2>1 DEF BuildKept, ShredUnlink, Unlink, Goto
  <2>2. CASE Fail(q)
    BY <2>2, <1>0
  <2> QED BY <2>1, <2>2
<1>19. ASSUME NEW q \in Procs, DecStart(q) PROVE BuildKept(p)
  BY <1>19 DEF BuildKept, DecStart, Goto
<1>20. ASSUME NEW q \in Procs, DecLockSrc(q) PROVE BuildKept(p)
  <2>1. CASE ~Fail(q)
    BY <1>20, <2>1 DEF BuildKept, DecLockSrc, TryLockVault, Goto
  <2>2. CASE Fail(q)
    BY <2>2, <1>0
  <2> QED BY <2>1, <2>2
<1>21. ASSUME NEW q \in Procs, DecHeader(q) PROVE BuildKept(p)
  <2>1. CASE ~Fail(q)
    BY <1>21, <2>1 DEF BuildKept, DecHeader, Goto
  <2>2. CASE Fail(q)
    BY <2>2, <1>0
  <2> QED BY <2>1, <2>2
<1>22. ASSUME NEW q \in Procs, DecReject(q) PROVE BuildKept(p)
  BY <1>22, <1>0 DEF DecReject
<1>23. ASSUME NEW q \in Procs, DecOpenDst(q) PROVE BuildKept(p)
  BY <1>23 DEF BuildKept, DecOpenDst, Goto
<1>24. ASSUME NEW q \in Procs, DecLockDst(q) PROVE BuildKept(p)
  <2>1. CASE ~Fail(q)
    BY <1>24, <2>1 DEF BuildKept, DecLockDst, TryLockPlain, Goto
  <2>2. CASE Fail(q)
    BY <2>2, <1>0
  <2> QED BY <2>1, <2>2
<1>25. ASSUME NEW q \in Procs, DecChunk(q) PROVE BuildKept(p)
  BY <1>25 DEF BuildKept, DecChunk, Goto
<1>26. ASSUME NEW q \in Procs, DecFlush(q) PROVE BuildKept(p)
  BY <1>26 DEF BuildKept, DecFlush, Goto
<1>27. ASSUME NEW q \in Procs, DecIoError(q) PROVE BuildKept(p)
  BY <1>27 DEF BuildKept, DecIoError, Goto
<1>28. ASSUME NEW q \in Procs, DecCleanup(q) PROVE BuildKept(p)
  BY <1>28 DEF BuildKept, DecCleanup, Unlink, Return
<1>29. ASSUME NEW q \in Procs, DecReturn(q) PROVE BuildKept(p)
  BY <1>29, <1>0 DEF DecReturn
<1>30. ASSUME NEW q \in Procs, Kill(q) PROVE BuildKept(p)
  <2>1. pc' = [pc EXCEPT ![q] = "idle"] /\ key' = [key EXCEPT ![q] = NoSalt]
        /\ done' = [done EXCEPT ![q] = 0] /\ UNCHANGED <<book, sealed>>
    BY <1>30 DEF Kill, Return
  <2>2. CASE UNCHANGED <<hdr, body>>
    BY <2>1, <2>2 DEF BuildKept
  <2>3. CASE pc[q] \in {"e_chunk", "e_flush"}
    <3>1. pc'[p] \notin Build
      BY <2>1, <2>3 DEF OneBuild
    <3> QED BY <3>1 DEF BuildKept
  <2> QED BY <1>30, <2>2, <2>3 DEF Kill, Interrupted
<1>31. ASSUME Rot PROVE BuildKept(p)
  BY <1>31 DEF BuildKept, Rot
<1>32. ASSUME UNCHANGED vars PROVE BuildKept(p)
  BY <1>32 DEF BuildKept
<1> QED
  BY BuildFrame, <1>1, <1>2, <1>3, <1>4, <1>5, <1>6, <1>7, <1>8, <1>9, <1>10, <1>11,
     <1>12, <1>13, <1>14, <1>15, <1>16, <1>17, <1>18, <1>19, <1>20, <1>21, <1>22,
     <1>23, <1>24, <1>25, <1>26, <1>27, <1>28, <1>29, <1>30, <1>31, <1>32
     DEF Next, Step

(* A file once unlinked remains unlinked.                                   *)
LEMMA UnlinkedStays ==
    ASSUME [Next]_vars \/ Save, unlinked
    PROVE  unlinked'
<1>1. \A p \in Procs : Fail(p) => unlinked' = unlinked
  BY DEF Fail, history
<1>2. Unlink => unlinked'
  BY DEF Unlink
<1> QED
  BY <1>1, <1>2, ZenonT(60)
     DEF vars, history, Save, Next, Step, EncStart, DecStart, NotFound, Kill, Rot,
         EncAbort, EncOpenSrc, EncLockSrc, EncOpenDst, EncLockDst,
         EncFirstRead, EncChunk, EncIoError, EncFlush, EncReturn, ShredOpen,
         ShredLock, ShredWipe, ShredTruncate, ShredIoError, ShredUnlink,
         DecLockSrc, DecHeader, DecReject, DecOpenDst, DecLockDst, DecChunk,
         DecFlush, DecIoError, DecCleanup, DecReturn, TryLockPlain,
         TryLockVault

(* What every state has, the user's saves included.                         *)
SharedInv == IInv /\ LockInv /\ OnePlain

(* Encryptions of one and the same plaintext exclude each other by its lock.*)
LEMMA OneBuildOfOne == SharedInv /\ ~unlinked => OneBuild
<1> SUFFICES ASSUME HandleInv, LockInv, OnePlain, ~unlinked,
                    NEW p \in Procs, NEW q \in Procs, pc[p] \in Build, pc[q] \in Build
             PROVE  p = q
  BY DEF OneBuild, SharedInv, IInv, BasicInv
<1>1. fd[p] \in Inodes /\ fd[q] \in Inodes
  BY DEF HandleInv, Build, Open
<1>2. fd[p] = plainAt /\ fd[q] = plainAt
  BY <1>1, NoneAssumption DEF OnePlain
<1>3. plainLock[fd[p]] = p /\ plainLock[fd[q]] = q
  BY DEF LockInv, PlainMutex, Build, HoldsPlain
<1> QED BY <1>2, <1>3

(* It holds at first.                                                       *)
LEMMA SharedInvInit == Init => SharedInv
<1> SUFFICES ASSUME Init PROVE LockInv /\ OnePlain
  BY IInvInit DEF SharedInv
<1>1. LockInv
  BY NoneAssumption DEF Init, LockInv, PlainMutex, PlainOwner, VaultOwner, HoldsPlain, HoldsVault
<1>2. OnePlain
  BY NoneAssumption DEF Init, OnePlain
<1> QED BY <1>1, <1>2

(* Every step and every save keeps it.                                      *)
LEMMA SharedInvStep ==
    ASSUME SharedInv, [Next]_vars \/ Save
    PROVE  SharedInv'
<1>1. TypeOK /\ HandleInv
  BY DEF SharedInv, IInv, BasicInv
<1>2. IInv'
  BY IInvStep, SaveStep DEF SharedInv
<1>3. LockInv'
  BY <1>1, PlainMutexStep, PlainOwnerStep, VaultOwnerStep DEF SharedInv, LockInv
<1>4. OnePlain'
  BY <1>1, OnePlainStep DEF SharedInv
<1> QED BY <1>2, <1>3, <1>4 DEF SharedInv

(* As long as no plaintext was unlinked, encryptions build whole vaults.    *)
LEMMA BuildingInvStep ==
    ASSUME SharedInv, BuildingInv, "rot" \notin Faults, [Next]_vars \/ Save
    PROVE  BuildingInv'
<1> SUFFICES ASSUME ~unlinked', NEW p \in Procs PROVE BuildingOf(p)'
  BY DEF BuildingInv
<1>1. ~unlinked
  BY UnlinkedStays
<1>2. BuildingOf(p)
  BY <1>1 DEF BuildingInv
<1>3. TypeOK /\ HandleInv /\ KeyInv /\ SourceInv
  BY DEF SharedInv, IInv, BasicInv
<1>4. OneBuild
  BY <1>1, OneBuildOfOne
<1>5. SharedInv'
  BY SharedInvStep
<1>6. OneBuild'
  BY <1>5, OneBuildOfOne, PTL
<1> QED BY <1>2, <1>3, <1>4, <1>6, BuildingStep, BuildSave

(* The steps of SharedSpec.                                                 *)
LEMMA SharedStep == [SharedNext]_<<vars, clash>> => [Next]_vars \/ Save
  BY DEF SharedNext

(* Every state of SharedSpec has it.                                        *)
THEOREM SharedInductive == SharedSpec => []SharedInv
<1>1. SharedInit => SharedInv
  BY SharedInvInit DEF SharedInit
<1>2. SharedInv /\ [SharedNext]_<<vars, clash>> => SharedInv'
  BY SharedInvStep, SharedStep
<1> QED BY <1>1, <1>2, PTL DEF SharedSpec

(* An encryption that reaches its flush has written the whole vault, unless *)
(* a plaintext was unlinked meanwhile or the stored bytes are damaged.      *)
(* async_encrypt truncates the vault before it asks for its lock; what      *)
(* keeps other calls from doing so meanwhile is the plaintext's lock, also  *)
(* when calls fail or are killed.                                           *)
THEOREM EncryptionCompletesTheVault ==
    ASSUME "rot" \notin Faults
    PROVE  SharedSpec => []FlushedVaultIsComplete
<1>1. SharedInit => SharedInv /\ BuildingInv
  BY SharedInvInit DEF SharedInit, Init, BuildingInv, BuildingOf
<1>2. /\ SharedInv /\ BuildingInv
      /\ [SharedNext]_<<vars, clash>>
      => (SharedInv /\ BuildingInv)'
  BY SharedInvStep, SharedStep, BuildingInvStep
<1>3. BuildingInv => FlushedVaultIsComplete
  BY DEF BuildingInv, BuildingOf, FlushedVaultIsComplete
<1> QED BY <1>1, <1>2, <1>3, PTL DEF SharedSpec

----------------------------------------------------------------------------
(* While no two calls have used one file at a time.                         *)

(* Steps at which a call has the plaintext open and may still use it.       *)
PlainSteps == {"e_src", "e_locked", "e_dst", "e_first", "e_chunk", "e_flush",
               "s_lock", "s_wipe", "s_trunc", "d_dst", "d_chunk"}

(* Steps of VaultUsers, of PlainUsers and of PlainWriters.                  *)
VaultSteps == HoldsVault \cup {"e_dst"}
UseSteps == PlainSteps \cup {"s_open", "s_unlink", "d_clean"}
WriteSteps == {"s_wipe", "s_trunc", "s_unlink", "d_dst", "d_chunk", "d_clean"}

(* Calls have the vault to themselves, and the plaintext if they write it.  *)
OneUser ==
    \A p, q \in Procs :
        /\ pc[p] \in VaultSteps /\ pc[q] \in VaultSteps => p = q
        /\ pc[p] \in WriteSteps /\ pc[q] \in UseSteps => p = q

(* The vault is whole unless it is being replaced.                          *)
VaultWhole == vexists /\ Sealing = {} => hdr \in Salts /\ VaultHolds(hdr)

(* A call has open what the plaintext path names.                           *)
PathKept ==
    \A p \in Procs :
        /\ pc[p] \in PlainSteps => fd[p] = plainAt
        /\ pc[p] = "s_open" => plainAt # None

(* A file is shredded when the vault holds its content.                     *)
ShredSafe ==
    \A p \in Procs : pc[p] \in {"s_open", "s_lock", "s_wipe"} =>
        VaultHolds(key[p]) /\ data[plainAt] = book[key[p]]

(* Steps of a decryption that has yet to read chunks.                       *)
ToOpen == {"d_keyed", "d_dst", "d_chunk"}

(* Steps that do not say that the vault exists.                             *)
Outside == {"idle", "e_keyed", "e_src", "e_locked"}

(* A decryption opens the whole of the vault that is there.                 *)
OpenSafeOf(p) ==
    /\ pc[p] \in ToOpen =>
          /\ VaultHolds(key[p])
          /\ total[p] = Len(body)
          /\ buf[p] \in {<<>>, body}
    /\ pc[p] # "d_clean"
    /\ pc[p] \notin Outside => vexists

OpenSafe == \A p \in Procs : OpenSafeOf(p)

(* What holds as long as no two calls have used one file at a time.         *)
AloneInv ==
    /\ \A p \in Procs : BuildingOf(p)
    /\ VaultWhole /\ PathKept /\ ShredSafe /\ OpenSafe

(* A finite set that has not two elements.                                  *)
LEMMA AtMostOne ==
    ASSUME NEW S, IsFiniteSet(S), ~(Cardinality(S) > 1), NEW p \in S, NEW q \in S
    PROVE  p = q
<1>1. IsFiniteSet(S \ {p}) /\ Cardinality(S \ {p}) = Cardinality(S) - 1
  BY FS_RemoveElement
<1>2. Cardinality(S \ {p}) \in Nat /\ Cardinality(S) \in Nat
  BY <1>1, FS_CardinalityType
<1>3. Cardinality(S \ {p}) = 0
  BY <1>1, <1>2
<1>4. S \ {p} = {}
  BY <1>1, <1>3, FS_EmptySet
<1> QED BY <1>4

(* Where no clash is recorded, there was none.                              *)
LEMMA OneUserStep ==
    ASSUME SharedNext, ~clash'
    PROVE  OneUser'
<1>1. IsFiniteSet(VaultUsers') /\ IsFiniteSet(PlainUsers')
  BY ProcsAssumption, FS_Subset DEF VaultUsers, PlainUsers
<1>2. /\ PlainWriters' = {} \/ ~(Cardinality(PlainUsers') > 1)
      /\ ~(Cardinality(VaultUsers') > 1)
  BY DEF SharedNext
<1>3. PlainWriters' \subseteq PlainUsers'
  BY DEF PlainWriters, PlainUsers
<1> SUFFICES ASSUME NEW p \in Procs, NEW q \in Procs
             PROVE  /\ pc'[p] \in VaultSteps /\ pc'[q] \in VaultSteps => p = q
                    /\ pc'[p] \in WriteSteps /\ pc'[q] \in UseSteps => p = q
  BY DEF OneUser
<1>4. ASSUME pc'[p] \in VaultSteps, pc'[q] \in VaultSteps PROVE p = q
  <2>1. p \in VaultUsers' /\ q \in VaultUsers'
    BY <1>4 DEF VaultUsers, VaultSteps, HoldsVault
  <2> QED BY <1>1, <1>2, <2>1, AtMostOne
<1>5. ASSUME pc'[p] \in WriteSteps, pc'[q] \in UseSteps PROVE p = q
  <2>1. p \in PlainWriters' /\ q \in PlainUsers'
    BY <1>5 DEF PlainWriters, PlainUsers, WriteSteps, UseSteps, PlainSteps
  <2> QED BY <1>1, <1>2, <1>3, <2>1, AtMostOne
<1> QED BY <1>4, <1>5

(* The step does not touch the vault, nor does it end its replacement.      *)
WholeKept ==
    /\ UNCHANGED <<vexists, hdr, body, book, sealed>>
    /\ \A q \in Procs : pc[q] \in Build => pc'[q] \in Build

(* Such a step leaves a whole vault whole.                                  *)
LEMMA WholeFrame ==
    ASSUME VaultWhole, WholeKept PROVE VaultWhole'
  BY DEF VaultWhole, WholeKept, VaultHolds, Sealing, Build

(* Only an encryption makes the vault less than whole, and it completes it  *)
(* before it gives it up.                                                   *)
LEMMA VaultWholeStep ==
    ASSUME TypeOK, HandleInv, LockInv, OneUser, VaultWhole,
           \A p \in Procs : BuildingOf(p), OpenSafe, Faults = {}, [Next]_vars \/ Save
    PROVE  VaultWhole'
<1> USE NoneAssumption DEF TypeOK, FilesOK, LocksOK, LocalsOK,
        HistoryOK, Build, files, locks, locals, history, vars
<1>0. \A p \in Procs : Fail(p) /\ pc[p] \notin Build => WholeKept
  BY DEF Fail, Return, WholeKept
<1>1. ASSUME NEW p \in Procs, EncStart(p) PROVE WholeKept
  BY <1>1 DEF WholeKept, EncStart, Goto
<1>2. ASSUME NEW p \in Procs, NotFound(p) PROVE WholeKept
  BY <1>2 DEF WholeKept, NotFound
<1>3. ASSUME NEW p \in Procs, EncAbort(p) PROVE WholeKept
  BY <1>3 DEF EncAbort
<1>4. ASSUME NEW p \in Procs, EncOpenSrc(p) PROVE WholeKept
  <2>1. CASE ~Fail(p)
    BY <1>4, <2>1 DEF WholeKept, EncOpenSrc, Goto
  <2>2. CASE Fail(p)
    BY <1>4, <2>2, <1>0 DEF EncOpenSrc
  <2> QED BY <2>1, <2>2
<1>5. ASSUME NEW p \in Procs, EncLockSrc(p) PROVE WholeKept
  <2>1. CASE ~Fail(p)
    BY <1>5, <2>1 DEF WholeKept, EncLockSrc, TryLockPlain, Goto
  <2>2. CASE Fail(p)
    BY <1>5, <2>2, <1>0 DEF EncLockSrc
  <2> QED BY <2>1, <2>2
<1>6. ASSUME NEW p \in Procs, EncOpenDst(p) PROVE VaultWhole'
  <2>1. pc'[p] = "e_dst"
    BY <1>6 DEF EncOpenDst, Goto
  <2> QED BY <2>1 DEF VaultWhole, Sealing
<1>7. ASSUME NEW p \in Procs, EncLockDst(p) PROVE WholeKept
  <2>1. pc[p] = "e_dst" /\ vaultLock = None
    <3>1. pc[p] = "e_dst"
      BY <1>7 DEF EncLockDst
    <3>2. \A q \in Procs : pc[q] \in HoldsVault => q = p
      BY <3>1 DEF OneUser, VaultSteps, HoldsVault
    <3> QED BY <3>1, <3>2 DEF LockInv, VaultOwner, HoldsVault
  <2> QED BY <1>7, <2>1 DEF WholeKept, EncLockDst, TryLockVault, Goto
<1>8. ASSUME NEW p \in Procs, EncFirstRead(p) PROVE WholeKept
  BY <1>8 DEF WholeKept, EncFirstRead, Goto
<1>9. ASSUME NEW p \in Procs, EncChunk(p) PROVE VaultWhole'
  <2>1. pc'[p] \in {"e_chunk", "e_flush"}
    BY <1>9 DEF EncChunk, Goto
  <2> QED BY <2>1 DEF VaultWhole, Sealing
<1>10. ASSUME NEW p \in Procs, EncIoError(p) PROVE WholeKept
  BY <1>10 DEF EncIoError
<1>11. ASSUME NEW p \in Procs, EncFlush(p) PROVE VaultWhole'
  <2>1. /\ pc[p] = "e_flush" /\ key[p] \in Salts
        /\ UNCHANGED <<vexists, hdr, body, book, sealed>>
    BY <1>11 DEF EncFlush, HandleInv
  <2>2. VaultHolds(key[p]) /\ hdr = key[p]
    BY <2>1 DEF BuildingOf, VaultHolds
  <2>3. VaultHolds(hdr)'
    BY <2>1, <2>2 DEF VaultHolds
  <2> QED BY <2>1, <2>2, <2>3 DEF VaultWhole
<1>12. ASSUME NEW p \in Procs, EncReturn(p) PROVE WholeKept
  BY <1>12, <1>0 DEF EncReturn
<1>13. ASSUME NEW p \in Procs, ShredOpen(p) PROVE WholeKept
  <2>1. CASE ~Fail(p)
    BY <1>13, <2>1 DEF WholeKept, ShredOpen, Goto
  <2>2. CASE Fail(p)
    BY <1>13, <2>2, <1>0 DEF ShredOpen
  <2> QED BY <2>1, <2>2
<1>14. ASSUME NEW p \in Procs, ShredLock(p) PROVE WholeKept
  BY <1>14 DEF WholeKept, ShredLock, TryLockPlain, Goto
<1>15. ASSUME NEW p \in Procs, ShredWipe(p) PROVE WholeKept
  BY <1>15 DEF WholeKept, ShredWipe, Goto
<1>16. ASSUME NEW p \in Procs, ShredTruncate(p) PROVE WholeKept
  BY <1>16 DEF WholeKept, ShredTruncate, Goto
<1>17. ASSUME NEW p \in Procs, ShredIoError(p) PROVE WholeKept
  BY <1>17 DEF ShredIoError
<1>18. ASSUME NEW p \in Procs, ShredUnlink(p) PROVE WholeKept
  <2>1. CASE ~Fail(p)
    BY <1>18, <2>1 DEF WholeKept, ShredUnlink, Unlink, Goto
  <2>2. CASE Fail(p)
    BY <1>18, <2>2, <1>0 DEF ShredUnlink
  <2> QED BY <2>1, <2>2
<1>19. ASSUME NEW p \in Procs, DecStart(p) PROVE WholeKept
  BY <1>19 DEF WholeKept, DecStart, Goto
<1>20. ASSUME NEW p \in Procs, DecLockSrc(p) PROVE WholeKept
  <2>1. CASE ~Fail(p)
    BY <1>20, <2>1 DEF WholeKept, DecLockSrc, TryLockVault, Goto
  <2>2. CASE Fail(p)
    BY <1>20, <2>2, <1>0 DEF DecLockSrc
  <2> QED BY <2>1, <2>2
<1>21. ASSUME NEW p \in Procs, DecHeader(p) PROVE WholeKept
  <2>1. CASE ~Fail(p)
    BY <1>21, <2>1 DEF WholeKept, DecHeader, Goto
  <2>2. CASE Fail(p)
    BY <1>21, <2>2, <1>0 DEF DecHeader
  <2> QED BY <2>1, <2>2
<1>22. ASSUME NEW p \in Procs, DecReject(p) PROVE WholeKept
  BY <1>22, <1>0 DEF DecReject
<1>23. ASSUME NEW p \in Procs, DecOpenDst(p) PROVE WholeKept
  BY <1>23 DEF WholeKept, DecOpenDst, Goto
<1>24. ASSUME NEW p \in Procs, DecLockDst(p) PROVE WholeKept
  <2>1. CASE ~Fail(p)
    BY <1>24, <2>1 DEF WholeKept, DecLockDst, TryLockPlain, Goto
  <2>2. CASE Fail(p)
    BY <1>24, <2>2, <1>0 DEF DecLockDst
  <2> QED BY <2>1, <2>2
<1>25. ASSUME NEW p \in Procs, DecChunk(p) PROVE WholeKept
  BY <1>25 DEF WholeKept, DecChunk, Goto
<1>26. ASSUME NEW p \in Procs, DecFlush(p) PROVE WholeKept
  BY <1>26 DEF WholeKept, DecFlush, Goto
<1>27. ASSUME NEW p \in Procs, DecIoError(p) PROVE WholeKept
  BY <1>27 DEF DecIoError
<1>28. ASSUME NEW p \in Procs, DecCleanup(p) PROVE WholeKept
  BY <1>28 DEF WholeKept, DecCleanup, Unlink, Return
<1>29. ASSUME NEW p \in Procs, DecReturn(p) PROVE WholeKept
  BY <1>29, <1>0 DEF DecReturn
<1>30. ASSUME NEW p \in Procs, Kill(p) PROVE WholeKept
  BY <1>30 DEF Kill
<1>31. ASSUME Rot PROVE WholeKept
  BY <1>31 DEF Rot
<1>32. ASSUME UNCHANGED vars PROVE WholeKept
  BY <1>32 DEF WholeKept
<1>33. ASSUME Save PROVE WholeKept
  BY <1>33 DEF Save, WholeKept
<1> QED
  BY WholeFrame, <1>1, <1>2, <1>3, <1>4, <1>5, <1>6, <1>7, <1>8, <1>9, <1>10, <1>11,
     <1>12, <1>13, <1>14, <1>15, <1>16, <1>17, <1>18, <1>19, <1>20, <1>21, <1>22,
     <1>23, <1>24, <1>25, <1>26, <1>27, <1>28, <1>29, <1>30, <1>31, <1>32, <1>33
     DEF Next, Step

(* The plaintext path, and the handles on it, are as before.                *)
PathStays ==
    /\ plainAt' = plainAt
    /\ \A q \in Procs :
          /\ pc'[q] \in PlainSteps => pc[q] \in PlainSteps /\ fd'[q] = fd[q]
          /\ pc'[q] = "s_open" => pc[q] = "s_open"

(* Such a step keeps the handles on what the path names.                    *)
LEMMA PathFrame ==
    ASSUME PathKept, PathStays PROVE PathKept'
  BY DEF PathKept, PathStays

(* Who moves the plaintext path has the plaintext to itself.                *)
LEMMA PathKeptStep ==
    ASSUME TypeOK, HandleInv, OneUser, OneUser', PathKept, OpenSafe,
           Faults = {}, [Next]_vars \/ Save
    PROVE  PathKept'
<1> USE NoneAssumption DEF TypeOK, FilesOK, LocksOK, LocalsOK,
        HistoryOK, PlainSteps, files, locks, locals, history, vars
<1>0. \A p \in Procs : Fail(p) => PathStays
  BY DEF Fail, Return, PathStays
<1>1. ASSUME NEW p \in Procs, EncStart(p) PROVE PathStays
  BY <1>1 DEF PathStays, EncStart, Goto
<1>2. ASSUME NEW p \in Procs, NotFound(p) PROVE PathStays
  BY <1>2 DEF PathStays, NotFound
<1>3. ASSUME NEW p \in Procs, EncAbort(p) PROVE PathStays
  BY <1>3 DEF EncAbort
<1>4. ASSUME NEW p \in Procs, EncOpenSrc(p) PROVE PathKept'
  <2>1. CASE ~Fail(p)
    <3>1. plainAt' = plainAt /\ pc' = [pc EXCEPT ![p] = "e_src"] /\ fd' = [fd EXCEPT ![p] = plainAt]
      BY <1>4, <2>1 DEF EncOpenSrc, Goto
    <3> QED BY <3>1 DEF PathKept
  <2>2. CASE Fail(p)
    BY <2>2, <1>0, PathFrame
  <2> QED BY <2>1, <2>2
<1>5. ASSUME NEW p \in Procs, EncLockSrc(p) PROVE PathStays
  <2>1. CASE ~Fail(p)
    BY <1>5, <2>1 DEF PathStays, EncLockSrc, TryLockPlain, Goto
  <2>2. CASE Fail(p)
    BY <1>5, <2>2, <1>0
  <2> QED BY <2>1, <2>2
<1>6. ASSUME NEW p \in Procs, EncOpenDst(p) PROVE PathStays
  BY <1>6 DEF PathStays, EncOpenDst, Goto
<1>7. ASSUME NEW p \in Procs, EncLockDst(p) PROVE PathStays
  <2>1. CASE ~Fail(p)
    BY <1>7, <2>1 DEF PathStays, EncLockDst, TryLockVault, Goto
  <2>2. CASE Fail(p)
    BY <1>7, <2>2, <1>0
  <2> QED BY <2>1, <2>2
<1>8. ASSUME NEW p \in Procs, EncFirstRead(p) PROVE PathStays
  BY <1>8 DEF PathStays, EncFirstRead, Goto
<1>9. ASSUME NEW p \in Procs, EncChunk(p) PROVE PathStays
  BY <1>9 DEF PathStays, EncChunk, Goto
<1>10. ASSUME NEW p \in Procs, EncIoError(p) PROVE PathStays
  BY <1>10 DEF EncIoError
<1>11. ASSUME NEW p \in Procs, EncFlush(p) PROVE PathKept'
  <2>1. /\ pc[p] = "e_flush" /\ plainAt' = plainAt /\ fd' = [fd EXCEPT ![p] = None]
        /\ pc' \in {[pc EXCEPT ![p] = "e_done"], [pc EXCEPT ![p] = "s_open"]}
    BY <1>11 DEF EncFlush, Goto
  <2>2. plainAt # None
    BY <2>1 DEF PathKept, HandleInv, Open
  <2> QED BY <2>1, <2>2 DEF PathKept
<1>12. ASSUME NEW p \in Procs, EncReturn(p) PROVE PathStays
  BY <1>12, <1>0 DEF EncReturn
<1>13. ASSUME NEW p \in Procs, ShredOpen(p) PROVE PathKept'
  <2>1. CASE ~Fail(p)
    <3>1. plainAt' = plainAt /\ pc' = [pc EXCEPT ![p] = "s_lock"] /\ fd' = [fd EXCEPT ![p] = plainAt]
      BY <1>13, <2>1 DEF ShredOpen, Goto
    <3> QED BY <3>1 DEF PathKept
  <2>2. CASE Fail(p)
    BY <2>2, <1>0, PathFrame
  <2> QED BY <2>1, <2>2
<1>14. ASSUME NEW p \in Procs, ShredLock(p) PROVE PathStays
  BY <1>14 DEF PathStays, ShredLock, TryLockPlain, Goto
<1>15. ASSUME NEW p \in Procs, ShredWipe(p) PROVE PathStays
  BY <1>15 DEF PathStays, ShredWipe, Goto
<1>16. ASSUME NEW p \in Procs, ShredTruncate(p) PROVE PathStays
  BY <1>16 DEF PathStays, ShredTruncate, Goto
<1>17. ASSUME NEW p \in Procs, ShredIoError(p) PROVE PathStays
  BY <1>17 DEF ShredIoError
<1>18. ASSUME NEW p \in Procs, ShredUnlink(p) PROVE PathKept'
  <2>1. CASE ~Fail(p)
    <3>1. pc[p] = "s_unlink" /\ pc' = [pc EXCEPT ![p] = "e_done"]
      BY <1>18, <2>1 DEF ShredUnlink, Goto
    <3>2. \A q \in Procs : pc[q] \in PlainSteps \cup {"s_open"} => q = p
      BY <3>1 DEF OneUser, WriteSteps, UseSteps
    <3>3. \A q \in Procs : pc'[q] \notin PlainSteps \cup {"s_open"}
      BY <3>1, <3>2
    <3> QED BY <3>3 DEF PathKept
  <2>2. CASE Fail(p)
    BY <2>2, <1>0, PathFrame
  <2> QED BY <2>1, <2>2
<1>19. ASSUME NEW p \in Procs, DecStart(p) PROVE PathStays
  BY <1>19 DEF PathStays, DecStart, Goto
<1>20. ASSUME NEW p \in Procs, DecLockSrc(p) PROVE PathStays
  <2>1. CASE ~Fail(p)
    BY <1>20, <2>1 DEF PathStays, DecLockSrc, TryLockVault, Goto
  <2>2. CASE Fail(p)
    BY <1>20, <2>2, <1>0
  <2> QED BY <2>1, <2>2
<1>21. ASSUME NEW p \in Procs, DecHeader(p) PROVE PathStays
  <2>1. CASE ~Fail(p)
    BY <1>21, <2>1 DEF PathStays, DecHeader, Goto
  <2>2. CASE Fail(p)
    BY <1>21, <2>2, <1>0
  <2> QED BY <2>1, <2>2
<1>22. ASSUME NEW p \in Procs, DecReject(p) PROVE PathStays
  BY <1>22, <1>0 DEF DecReject
<1>23. ASSUME NEW p \in Procs, DecOpenDst(p) PROVE PathKept'
  <2>1. PICK i \in Inodes : plainAt' = i /\ fd' = [fd EXCEPT ![p] = i]
    BY <1>23 DEF DecOpenDst
  <2>2. pc' = [pc EXCEPT ![p] = "d_dst"]
    BY <1>23 DEF DecOpenDst, Goto
  <2>3. \A q \in Procs : pc'[q] \in PlainSteps \cup {"s_open"} => q = p
    BY <2>2 DEF OneUser, WriteSteps, UseSteps
  <2> QED BY <2>1, <2>2, <2>3 DEF PathKept
<1>24. ASSUME NEW p \in Procs, DecLockDst(p) PROVE PathStays
  <2>1. CASE ~Fail(p)
    BY <1>24, <2>1 DEF PathStays, DecLockDst, TryLockPlain, Goto
  <2>2. CASE Fail(p)
    BY <1>24, <2>2, <1>0
  <2> QED BY <2>1, <2>2
<1>25. ASSUME NEW p \in Procs, DecChunk(p) PROVE PathStays
  BY <1>25 DEF PathStays, DecChunk, Goto
<1>26. ASSUME NEW p \in Procs, DecFlush(p) PROVE PathStays
  BY <1>26 DEF PathStays, DecFlush, Goto
<1>27. ASSUME NEW p \in Procs, DecIoError(p) PROVE PathStays
  BY <1>27 DEF DecIoError
<1>28. ASSUME NEW p \in Procs, DecCleanup(p) PROVE PathStays
  BY <1>28 DEF DecCleanup, OpenSafe, OpenSafeOf
<1>29. ASSUME NEW p \in Procs, DecReturn(p) PROVE PathStays
  BY <1>29, <1>0 DEF DecReturn
<1>30. ASSUME NEW p \in Procs, Kill(p) PROVE PathStays
  BY <1>30 DEF Kill
<1>31. ASSUME Rot PROVE PathStays
  BY <1>31 DEF Rot
<1>32. ASSUME UNCHANGED vars PROVE PathStays
  BY <1>32 DEF PathStays
<1>33. ASSUME Save PROVE PathKept'
  <2>1. \A p \in Procs : pc'[p] = "idle"
    BY <1>33 DEF Save
  <2> QED BY <2>1 DEF PathKept
<1> QED
  BY PathFrame, <1>1, <1>2, <1>3, <1>4, <1>5, <1>6, <1>7, <1>8, <1>9, <1>10, <1>11,
     <1>12, <1>13, <1>14, <1>15, <1>16, <1>17, <1>18, <1>19, <1>20, <1>21, <1>22,
     <1>23, <1>24, <1>25, <1>26, <1>27, <1>28, <1>29, <1>30, <1>31, <1>32, <1>33
     DEF Next, Step

(* Steps of a call that is going to shred the plaintext.                    *)
ToShred == {"s_open", "s_lock", "s_wipe"}

(* The step leaves the file that p is about to shred, and its vault.        *)
ShredKept(p) ==
    pc'[p] \in ToShred =>
        /\ pc[p] \in ToShred /\ key'[p] = key[p]
        /\ UNCHANGED <<plainAt, data, hdr, body, book, sealed>>

(* A call shreds what it has just encrypted, and the vault still holds it.  *)
LEMMA ShredSafeStep ==
    ASSUME TypeOK, HandleInv, SourceInv, OneUser', ShredSafe, PathKept, OpenSafe,
           \A p \in Procs : BuildingOf(p), Faults = {}, [Next]_vars \/ Save
    PROVE  ShredSafe'
<1> SUFFICES ASSUME NEW p \in Procs PROVE pc'[p] \in ToShred => VaultHolds(key[p])' /\ data'[plainAt'] = book'[key'[p]]
  BY DEF ShredSafe, ToShred
<1> USE NoneAssumption DEF TypeOK, FilesOK, LocksOK, LocalsOK,
        HistoryOK, ToShred, files, locks, locals, history, vars
<1>0. \A q \in Procs : Fail(q) => ShredKept(p)
  BY DEF Fail, Return, ShredKept
<1>1. ASSUME NEW q \in Procs, EncStart(q) PROVE ShredKept(p)
  BY <1>1 DEF ShredKept, EncStart, Goto
<1>2. ASSUME NEW q \in Procs, NotFound(q) PROVE ShredKept(p)
  BY <1>2 DEF ShredKept, NotFound
<1>3. ASSUME NEW q \in Procs, EncAbort(q) PROVE ShredKept(p)
  BY <1>3 DEF EncAbort
<1>4. ASSUME NEW q \in Procs, EncOpenSrc(q) PROVE ShredKept(p)
  <2>1. CASE ~Fail(q)
    BY <1>4, <2>1 DEF ShredKept, EncOpenSrc, Goto
  <2>2. CASE Fail(q)
    BY <1>4, <2>2, <1>0
  <2> QED BY <2>1, <2>2
<1>5. ASSUME NEW q \in Procs, EncLockSrc(q) PROVE ShredKept(p)
  <2>1. CASE ~Fail(q)
    BY <1>5, <2>1 DEF ShredKept, EncLockSrc, TryLockPlain, Goto
  <2>2. CASE Fail(q)
    BY <1>5, <2>2, <1>0
  <2> QED BY <2>1, <2>2
<1>6. ASSUME NEW q \in Procs, EncOpenDst(q) PROVE ShredKept(p)
  <2>1. pc'[q] \in {"e_dst"}
    BY <1>6 DEF EncOpenDst, Goto
  <2>2. pc'[p] \notin ToShred
    BY <2>1 DEF OneUser, VaultSteps, HoldsVault
  <2> QED BY <2>2 DEF ShredKept
<1>7. ASSUME NEW q \in Procs, EncLockDst(q) PROVE ShredKept(p)
  <2>1. CASE ~Fail(q)
    BY <1>7, <2>1 DEF ShredKept, EncLockDst, TryLockVault, Goto
  <2>2. CASE Fail(q)
    BY <1>7, <2>2, <1>0
  <2> QED BY <2>1, <2>2
<1>8. ASSUME NEW q \in Procs, EncFirstRead(q) PROVE ShredKept(p)
  BY <1>8 DEF ShredKept, EncFirstRead, Goto
<1>9. ASSUME NEW q \in Procs, EncChunk(q) PROVE ShredKept(p)
  <2>1. pc'[q] \in {"e_chunk", "e_flush"}
    BY <1>9 DEF EncChunk, Goto
  <2>2. pc'[p] \notin ToShred
    BY <2>1 DEF OneUser, VaultSteps, HoldsVault
  <2> QED BY <2>2 DEF ShredKept
<1>10. ASSUME NEW q \in Procs, EncIoError(q) PROVE ShredKept(p)
  BY <1>10 DEF EncIoError
<1>11. ASSUME NEW q \in Procs, EncFlush(q) PROVE pc'[p] \in ToShred => VaultHolds(key[p])' /\ data'[plainAt'] = book'[key'[p]]
  <2>1. /\ pc[q] = "e_flush" /\ key' = key
        /\ pc' \in {[pc EXCEPT ![q] = "e_done"], [pc EXCEPT ![q] = "s_open"]}
        /\ UNCHANGED <<plainAt, data, hdr, body, book, sealed>>
    BY <1>11 DEF EncFlush, Goto
  <2>2. VaultHolds(key[q]) /\ data[plainAt] = book[key[q]]
    BY <2>1 DEF BuildingOf, SourceInv, SourceOf, PathKept, PlainSteps
  <2>3. CASE p = q
    BY <2>1, <2>2, <2>3 DEF VaultHolds
  <2>4. CASE p # q
    <3>1. pc'[p] = pc[p]
      BY <2>1, <2>4
    <3> QED BY <2>1, <3>1 DEF ShredSafe, VaultHolds
  <2> QED BY <2>3, <2>4
<1>12. ASSUME NEW q \in Procs, EncReturn(q) PROVE ShredKept(p)
  BY <1>12, <1>0 DEF EncReturn
<1>13. ASSUME NEW q \in Procs, ShredOpen(q) PROVE ShredKept(p)
  <2>1. CASE ~Fail(q)
    BY <1>13, <2>1 DEF ShredKept, ShredOpen, Goto
  <2>2. CASE Fail(q)
    BY <1>13, <2>2, <1>0
  <2> QED BY <2>1, <2>2
<1>14. ASSUME NEW q \in Procs, ShredLock(q) PROVE ShredKept(p)
  BY <1>14 DEF ShredKept, ShredLock, TryLockPlain, Goto
<1>15. ASSUME NEW q \in Procs, ShredWipe(q) PROVE ShredKept(p)
  <2>1. pc'[q] \in {"s_trunc"}
    BY <1>15 DEF ShredWipe, Goto
  <2>2. pc'[p] \notin ToShred
    BY <2>1 DEF OneUser, VaultSteps, HoldsVault
  <2> QED BY <2>2 DEF ShredKept
<1>16. ASSUME NEW q \in Procs, ShredTruncate(q) PROVE ShredKept(p)
  <2>1. pc'[q] \in {"s_unlink"}
    BY <1>16 DEF ShredTruncate, Goto
  <2>2. pc'[p] \notin ToShred
    BY <2>1 DEF OneUser, VaultSteps, HoldsVault
  <2> QED BY <2>2 DEF ShredKept
<1>17. ASSUME NEW q \in Procs, ShredIoError(q) PROVE ShredKept(p)
  BY <1>17 DEF ShredIoError
<1>18. ASSUME NEW q \in Procs, ShredUnlink(q) PROVE ShredKept(p)
  <2>1. CASE ~Fail(q)
    <3>1. pc'[q] = "e_done"
      BY <1>18, <2>1 DEF ShredUnlink, Goto
    <3>2. pc'[p] \notin ToShred
      BY <3>1 DEF OneUser, VaultSteps, HoldsVault
    <3> QED BY <3>2 DEF ShredKept
  <2>2. CASE Fail(q)
    BY <2>2, <1>0
  <2> QED BY <2>1, <2>2
<1>19. ASSUME NEW q \in Procs, DecStart(q) PROVE ShredKept(p)
  BY <1>19 DEF ShredKept, DecStart, Goto
<1>20. ASSUME NEW q \in Procs, DecLockSrc(q) PROVE ShredKept(p)
  <2>1. CASE ~Fail(q)
    BY <1>20, <2>1 DEF ShredKept, DecLockSrc, TryLockVault, Goto
  <2>2. CASE Fail(q)
    BY <1>20, <2>2, <1>0
  <2> QED BY <2>1, <2>2
<1>21. ASSUME NEW q \in Procs, DecHeader(q) PROVE ShredKept(p)
  <2>1. CASE ~Fail(q)
    BY <1>21, <2>1 DEF ShredKept, DecHeader, Goto
  <2>2. CASE Fail(q)
    BY <1>21, <2>2, <1>0
  <2> QED BY <2>1, <2>2
<1>22. ASSUME NEW q \in Procs, DecReject(q) PROVE ShredKept(p)
  BY <1>22, <1>0 DEF DecReject
<1>23. ASSUME NEW q \in Procs, DecOpenDst(q) PROVE ShredKept(p)
  <2>1. pc'[q] \in {"d_dst"}
    BY <1>23 DEF DecOpenDst, Goto
  <2>2. pc'[p] \notin ToShred
    BY <2>1 DEF OneUser, VaultSteps, HoldsVault
  <2> QED BY <2>2 DEF ShredKept
<1>24. ASSUME NEW q \in Procs, DecLockDst(q) PROVE ShredKept(p)
  <2>1. CASE ~Fail(q)
    BY <1>24, <2>1 DEF ShredKept, DecLockDst, TryLockPlain, Goto
  <2>2. CASE Fail(q)
    BY <1>24, <2>2, <1>0
  <2> QED BY <2>1, <2>2
<1>25. ASSUME NEW q \in Procs, DecChunk(q) PROVE ShredKept(p)
  <2>1. pc'[q] \in {"d_chunk", "d_clean"}
    BY <1>25 DEF DecChunk, Goto
  <2>2. pc'[p] \notin ToShred
    BY <2>1 DEF OneUser, VaultSteps, HoldsVault
  <2> QED BY <2>2 DEF ShredKept
<1>26. ASSUME NEW q \in Procs, DecFlush(q) PROVE ShredKept(p)
  BY <1>26 DEF ShredKept, DecFlush, Goto
<1>27. ASSUME NEW q \in Procs, DecIoError(q) PROVE ShredKept(p)
  BY <1>27 DEF DecIoError
<1>28. ASSUME NEW q \in Procs, DecCleanup(q) PROVE ShredKept(p)
  BY <1>28 DEF DecCleanup, OpenSafe, OpenSafeOf
<1>29. ASSUME NEW q \in Procs, DecReturn(q) PROVE ShredKept(p)
  BY <1>29, <1>0 DEF DecReturn
<1>30. ASSUME NEW q \in Procs, Kill(q) PROVE ShredKept(p)
  BY <1>30 DEF Kill
<1>31. ASSUME Rot PROVE ShredKept(p)
  BY <1>31 DEF Rot
<1>32. ASSUME UNCHANGED vars PROVE ShredKept(p)
  BY <1>32 DEF ShredKept
<1>33. ASSUME Save PROVE ShredKept(p)
  BY <1>33 DEF Save, ShredKept
<1>34. ASSUME ShredKept(p) PROVE pc'[p] \in ToShred => VaultHolds(key[p])' /\ data'[plainAt'] = book'[key'[p]]
  BY <1>34 DEF ShredSafe, ShredKept, ToShred, VaultHolds
<1> QED
  BY <1>34, <1>1, <1>2, <1>3, <1>4, <1>5, <1>6, <1>7, <1>8, <1>9, <1>10, <1>11,
     <1>12, <1>13, <1>14, <1>15, <1>16, <1>17, <1>18, <1>19, <1>20, <1>21, <1>22,
     <1>23, <1>24, <1>25, <1>26, <1>27, <1>28, <1>29, <1>30, <1>31, <1>32, <1>33
     DEF Next, Step

(* The step leaves the vault that p is reading.                             *)
OpenKept(p) ==
    /\ pc'[p] # "d_clean"
    /\ pc'[p] \notin Outside => vexists'
    /\ pc'[p] \in ToOpen =>
          /\ pc[p] \in ToOpen
          /\ key'[p] = key[p] /\ total'[p] = total[p] /\ buf'[p] = buf[p]
          /\ UNCHANGED <<hdr, body, book, sealed>>

(* A decryption of a whole vault accepts every chunk.                       *)
LEMMA WholeAccepts ==
    ASSUME TypeOK, HandleInv, NEW p \in Procs, pc[p] = "d_chunk",
           done[p] < total[p], OpenSafeOf(p)
    PROVE  Accepts(p)
<1> DEFINE s == key[p]
           n == ChunkCount(book[s])
           i == done[p] + 1
<1>1. s \in Salts /\ done[p] \in Nat /\ book[s] \in Content
  BY DEF TypeOK, LocalsOK, HistoryOK, HandleInv, Output
<1>2. n \in Nat
  BY <1>1 DEF ChunkCount, Content
<1>3. /\ body = [j \in 1 .. n |-> [salt |-> s, idx |-> j, piece |-> Piece(book[s], j), last |-> j = n]]
      /\ total[p] = Len(body)
      /\ buf[p] \in {<<>>, body}
  BY DEF OpenSafeOf, ToOpen, VaultHolds
<1> HIDE DEF n
<1>4. Len(body) = n /\ i \in 1 .. n
  BY <1>1, <1>2, <1>3
<1>5. (IF buf[p] # <<>> THEN buf[p] ELSE body) = body
  BY <1>3
<1>6. body[i].salt = s /\ body[i].idx = i /\ body[i].last = (i = n)
  BY <1>3, <1>4
<1>7. total[p] = n /\ i <= Len(body) /\ i = done[p] + 1
  BY <1>2, <1>3, <1>4
<1> DEFINE src == IF buf[p] # <<>> THEN buf[p] ELSE body
<1>8. src = body
  BY <1>5
<1> HIDE DEF src, i
<1>9. /\ i <= Len(src)
      /\ src[i].salt = key[p]
      /\ src[i].idx = i
      /\ src[i].last = (i = total[p])
  BY <1>6, <1>7, <1>8
<1> QED BY <1>7, <1>9 DEF Accepts, src, i

(* A call that opens the vault has it to itself, and it was whole.          *)
LEMMA OpenSafeStep ==
    ASSUME TypeOK, HandleInv, OneUser, OneUser', OpenSafe, VaultWhole,
           Faults = {}, [Next]_vars \/ Save
    PROVE  OpenSafe'
<1> SUFFICES ASSUME NEW p \in Procs PROVE OpenSafeOf(p)'
  BY DEF OpenSafe
<1> USE NoneAssumption, NoSaltAssumption DEF TypeOK, FilesOK, LocksOK, LocalsOK,
        HistoryOK, files, locks, locals, history, vars
<1>34. ASSUME OpenKept(p) PROVE OpenSafeOf(p)'
  BY <1>34 DEF OpenSafe, OpenKept, OpenSafeOf, VaultHolds
<1>0. \A q \in Procs : Fail(q) => OpenKept(p)
  BY DEF Fail, Return, OpenKept, OpenSafe, OpenSafeOf, Outside, ToOpen
<1>1. ASSUME NEW q \in Procs, EncStart(q) PROVE OpenKept(p)
  BY <1>1 DEF OpenKept, OpenSafe, OpenSafeOf, Outside, ToOpen, EncStart, Goto
<1>2. ASSUME NEW q \in Procs, NotFound(q) PROVE OpenKept(p)
  BY <1>2 DEF OpenKept, OpenSafe, OpenSafeOf, Outside, ToOpen, NotFound
<1>3. ASSUME NEW q \in Procs, EncAbort(q) PROVE OpenKept(p)
  BY <1>3 DEF EncAbort
<1>4. ASSUME NEW q \in Procs, EncOpenSrc(q) PROVE OpenKept(p)
  <2>1. CASE ~Fail(q)
    BY <1>4, <2>1 DEF OpenKept, OpenSafe, OpenSafeOf, Outside, ToOpen, EncOpenSrc, Goto
  <2>2. CASE Fail(q)
    BY <1>4, <2>2, <1>0
  <2> QED BY <2>1, <2>2
<1>5. ASSUME NEW q \in Procs, EncLockSrc(q) PROVE OpenKept(p)
  <2>1. CASE ~Fail(q)
    BY <1>5, <2>1 DEF OpenKept, OpenSafe, OpenSafeOf, Outside, ToOpen, EncLockSrc, TryLockPlain, Goto
  <2>2. CASE Fail(q)
    BY <1>5, <2>2, <1>0
  <2> QED BY <2>1, <2>2
<1>6. ASSUME NEW q \in Procs, EncOpenDst(q) PROVE OpenKept(p)
  <2>1. pc'[q] \in {"e_dst"} /\ vexists'
    BY <1>6 DEF EncOpenDst, Goto, OpenSafe, OpenSafeOf, Outside
  <2>2. pc'[p] \notin ToOpen /\ pc'[p] # "d_clean"
    BY <2>1 DEF OneUser, VaultSteps, HoldsVault, ToOpen
  <2> QED BY <2>1, <2>2 DEF OpenKept, OpenSafe, OpenSafeOf
<1>7. ASSUME NEW q \in Procs, EncLockDst(q) PROVE OpenKept(p)
  <2>1. CASE ~Fail(q)
    BY <1>7, <2>1 DEF OpenKept, OpenSafe, OpenSafeOf, Outside, ToOpen, EncLockDst, TryLockVault, Goto
  <2>2. CASE Fail(q)
    BY <1>7, <2>2, <1>0
  <2> QED BY <2>1, <2>2
<1>8. ASSUME NEW q \in Procs, EncFirstRead(q) PROVE OpenKept(p)
  BY <1>8 DEF OpenKept, OpenSafe, OpenSafeOf, Outside, ToOpen, EncFirstRead, Goto
<1>9. ASSUME NEW q \in Procs, EncChunk(q) PROVE OpenKept(p)
  <2>1. pc'[q] \in {"e_chunk", "e_flush"} /\ vexists'
    BY <1>9 DEF EncChunk, Goto, OpenSafe, OpenSafeOf, Outside
  <2>2. pc'[p] \notin ToOpen /\ pc'[p] # "d_clean"
    BY <2>1 DEF OneUser, VaultSteps, HoldsVault, ToOpen
  <2> QED BY <2>1, <2>2 DEF OpenKept, OpenSafe, OpenSafeOf
<1>10. ASSUME NEW q \in Procs, EncIoError(q) PROVE OpenKept(p)
  BY <1>10 DEF EncIoError
<1>11. ASSUME NEW q \in Procs, EncFlush(q) PROVE OpenKept(p)
  BY <1>11 DEF OpenKept, OpenSafe, OpenSafeOf, Outside, ToOpen, EncFlush, Goto
<1>12. ASSUME NEW q \in Procs, EncReturn(q) PROVE OpenKept(p)
  BY <1>12, <1>0 DEF EncReturn
<1>13. ASSUME NEW q \in Procs, ShredOpen(q) PROVE OpenKept(p)
  <2>1. CASE ~Fail(q)
    BY <1>13, <2>1 DEF OpenKept, OpenSafe, OpenSafeOf, Outside, ToOpen, ShredOpen, Goto
  <2>2. CASE Fail(q)
    BY <1>13, <2>2, <1>0
  <2> QED BY <2>1, <2>2
<1>14. ASSUME NEW q \in Procs, ShredLock(q) PROVE OpenKept(p)
  BY <1>14 DEF OpenKept, OpenSafe, OpenSafeOf, Outside, ToOpen, ShredLock, TryLockPlain, Goto
<1>15. ASSUME NEW q \in Procs, ShredWipe(q) PROVE OpenKept(p)
  BY <1>15 DEF OpenKept, OpenSafe, OpenSafeOf, Outside, ToOpen, ShredWipe, Goto
<1>16. ASSUME NEW q \in Procs, ShredTruncate(q) PROVE OpenKept(p)
  BY <1>16 DEF OpenKept, OpenSafe, OpenSafeOf, Outside, ToOpen, ShredTruncate, Goto
<1>17. ASSUME NEW q \in Procs, ShredIoError(q) PROVE OpenKept(p)
  BY <1>17 DEF ShredIoError
<1>18. ASSUME NEW q \in Procs, ShredUnlink(q) PROVE OpenKept(p)
  <2>1. CASE ~Fail(q)
    BY <1>18, <2>1 DEF OpenKept, OpenSafe, OpenSafeOf, Outside, ToOpen, ShredUnlink, Unlink, Goto
  <2>2. CASE Fail(q)
    BY <1>18, <2>2, <1>0
  <2> QED BY <2>1, <2>2
<1>19. ASSUME NEW q \in Procs, DecStart(q) PROVE OpenKept(p)
  BY <1>19 DEF OpenKept, OpenSafe, OpenSafeOf, Outside, ToOpen, DecStart, Goto
<1>20. ASSUME NEW q \in Procs, DecLockSrc(q) PROVE OpenKept(p)
  <2>1. CASE ~Fail(q)
    BY <1>20, <2>1 DEF OpenKept, OpenSafe, OpenSafeOf, Outside, ToOpen, DecLockSrc, TryLockVault, Goto
  <2>2. CASE Fail(q)
    BY <1>20, <2>2, <1>0
  <2> QED BY <2>1, <2>2
<1>21. ASSUME NEW q \in Procs, DecHeader(q) PROVE OpenSafeOf(p)'
  <2>1. CASE ~Fail(q)
    <3>1. /\ pc[q] = "d_header" /\ pc' = [pc EXCEPT ![q] = "d_keyed"]
          /\ key' = [key EXCEPT ![q] = hdr]
          /\ total' = [total EXCEPT ![q] = Len(body)]
          /\ buf' \in {[buf EXCEPT ![q] = <<>>], [buf EXCEPT ![q] = body]}
          /\ UNCHANGED <<vexists, hdr, body, book, sealed>>
      BY <1>21, <2>1 DEF DecHeader, Goto
    <3>2. vexists
      BY <3>1 DEF OpenSafe, OpenSafeOf, Outside
    <3>3. \A r \in Procs : pc[r] \notin Build
      BY <3>1 DEF OneUser, VaultSteps, HoldsVault, Build
    <3>4. VaultHolds(hdr)
      BY <3>2, <3>3 DEF VaultWhole, Sealing, Build
    <3>5. CASE p = q
      BY <3>1, <3>2, <3>4, <3>5 DEF OpenSafeOf, VaultHolds, ToOpen
    <3>6. CASE p # q
      <4>1. pc'[p] = pc[p] /\ OpenSafeOf(p)
        BY <3>1, <3>6 DEF OpenSafe
      <4> QED BY <3>1, <3>6, <4>1 DEF OpenSafeOf, VaultHolds
    <3> QED BY <3>5, <3>6
  <2>2. CASE Fail(q)
    BY <2>2, <1>0, <1>34
  <2> QED BY <2>1, <2>2
<1>22. ASSUME NEW q \in Procs, DecReject(q) PROVE OpenKept(p)
  BY <1>22, <1>0 DEF DecReject
<1>23. ASSUME NEW q \in Procs, DecOpenDst(q) PROVE OpenKept(p)
  BY <1>23 DEF OpenKept, OpenSafe, OpenSafeOf, Outside, ToOpen, DecOpenDst, Goto
<1>24. ASSUME NEW q \in Procs, DecLockDst(q) PROVE OpenKept(p)
  <2>1. CASE ~Fail(q)
    BY <1>24, <2>1 DEF OpenKept, OpenSafe, OpenSafeOf, Outside, ToOpen, DecLockDst, TryLockPlain, Goto
  <2>2. CASE Fail(q)
    BY <1>24, <2>2, <1>0
  <2> QED BY <2>1, <2>2
<1>25. ASSUME NEW q \in Procs, DecChunk(q) PROVE OpenKept(p)
  <2>1. pc[q] = "d_chunk" /\ done[q] < total[q]
    BY <1>25 DEF DecChunk
  <2>2. Accepts(q)
    BY <2>1, WholeAccepts DEF OpenSafe, ToOpen
  <2>3. /\ pc' = pc
        /\ UNCHANGED <<vexists, hdr, body, key, total, buf, book, sealed>>
    BY <1>25, <2>2 DEF DecChunk
  <2> QED BY <2>3 DEF OpenKept, OpenSafe, OpenSafeOf
<1>26. ASSUME NEW q \in Procs, DecFlush(q) PROVE OpenKept(p)
  BY <1>26 DEF OpenKept, OpenSafe, OpenSafeOf, Outside, ToOpen, DecFlush, Goto
<1>27. ASSUME NEW q \in Procs, DecIoError(q) PROVE OpenKept(p)
  BY <1>27 DEF DecIoError
<1>28. ASSUME NEW q \in Procs, DecCleanup(q) PROVE OpenKept(p)
  BY <1>28 DEF DecCleanup, OpenSafe, OpenSafeOf
<1>29. ASSUME NEW q \in Procs, DecReturn(q) PROVE OpenKept(p)
  BY <1>29, <1>0 DEF DecReturn
<1>30. ASSUME NEW q \in Procs, Kill(q) PROVE OpenKept(p)
  BY <1>30 DEF Kill
<1>31. ASSUME Rot PROVE OpenKept(p)
  BY <1>31 DEF Rot
<1>32. ASSUME UNCHANGED vars PROVE OpenKept(p)
  BY <1>32 DEF OpenKept, OpenSafe, OpenSafeOf
<1>33. ASSUME Save PROVE OpenKept(p)
  BY <1>33 DEF Save, OpenKept, Outside, ToOpen
<1> QED
  BY <1>34, <1>1, <1>2, <1>3, <1>4, <1>5, <1>6, <1>7, <1>8, <1>9, <1>10, <1>11,
     <1>12, <1>13, <1>14, <1>15, <1>16, <1>17, <1>18, <1>19, <1>20, <1>21, <1>22,
     <1>23, <1>24, <1>25, <1>26, <1>27, <1>28, <1>29, <1>30, <1>31, <1>32, <1>33
     DEF Next, Step

(* With calls alone, what was true of the path, the handles and the vault   *)
(* stays so.                                                                *)
LEMMA AloneStep ==
    ASSUME SharedInv, AloneInv, OneUser, OneUser', Faults = {},
           [Next]_vars \/ Save
    PROVE  AloneInv'
<1>1. TypeOK /\ HandleInv /\ KeyInv /\ SourceInv /\ LockInv
  BY DEF SharedInv, IInv, BasicInv
<1>2. VaultWhole /\ PathKept /\ ShredSafe /\ OpenSafe /\ \A p \in Procs : BuildingOf(p)
  BY DEF AloneInv
<1>3. OneBuild /\ OneBuild'
  BY DEF OneUser, OneBuild, Build, VaultSteps, HoldsVault
<1>4. \A p \in Procs : BuildingOf(p)'
  <2> SUFFICES ASSUME NEW p \in Procs PROVE BuildingOf(p)'
    OBVIOUS
  <2>1. BuildingOf(p) /\ "rot" \notin Faults
    BY <1>2
  <2> QED BY <1>1, <1>3, <2>1, BuildingStep, BuildSave
<1>5. VaultWhole'
  BY <1>1, <1>2, VaultWholeStep
<1>6. PathKept'
  BY <1>1, <1>2, PathKeptStep
<1>7. ShredSafe'
  BY <1>1, <1>2, ShredSafeStep
<1>8. OpenSafe'
  BY <1>1, <1>2, OpenSafeStep
<1> QED BY <1>4, <1>5, <1>6, <1>7, <1>8 DEF AloneInv

----------------------------------------------------------------------------
(* The file and the vault that a user sees.                                 *)

(* Steps after a shred has begun, and of a decryption that fills the file.  *)
Gone == {"s_trunc", "s_unlink"}
Fill == {"d_dst", "d_chunk"}

(* The vault has the file's content while it is being replaced.             *)
TheVault ==
    IF ~vexists THEN Missing
    ELSE IF \E p \in Procs : pc[p] \in Build THEN data[plainAt]
    ELSE book[hdr]

(* The file has the vault's content while it is being replaced.             *)
TheFile ==
    IF plainAt = None \/ \E p \in Procs : pc[p] \in Gone THEN Missing
    ELSE IF \E p \in Procs : pc[p] \in Fill THEN book[hdr]
    ELSE data[plainAt]

(* While no two calls have used one file, this is what the refinement takes *)
(* the file and the vault to be.                                            *)
LEMMA Seen ==
    SharedInv /\ AloneInv /\ OneUser /\ ~clash => VaultNow = TheVault /\ FileNow = TheFile
<1> SUFFICES ASSUME HandleInv, AloneInv, OneUser, ~clash
             PROVE  VaultNow = TheVault /\ FileNow = TheFile
  BY DEF SharedInv, IInv, BasicInv
<1>1. VaultNow = TheVault
  <2>1. CASE ~vexists
    BY <2>1 DEF VaultNow, TheVault
  <2>2. CASE vexists /\ Sealing # {}
    <3>1. (CHOOSE p \in Sealing : TRUE) \in Sealing
      BY <2>2
    <3>2. \A p \in Sealing : fd[p] = plainAt
      BY DEF AloneInv, PathKept, PlainSteps, Sealing
    <3>3. \E p \in Procs : pc[p] \in Build
      BY <2>2 DEF Sealing, Build
    <3> QED BY <2>2, <3>1, <3>2, <3>3 DEF VaultNow, TheVault
  <2>3. CASE vexists /\ Sealing = {}
    <3>1. hdr \in Salts /\ VaultHolds(hdr)
      BY <2>3 DEF AloneInv, VaultWhole
    <3>2. ~ \E p \in Procs : pc[p] \in Build
      BY <2>3 DEF Sealing, Build
    <3> QED BY <2>3, <3>1, <3>2, NoSaltAssumption DEF VaultNow, TheVault
  <2> QED BY <2>1, <2>2, <2>3
<1>2. FileNow = TheFile
  <2>1. Shredding # {} <=> \E p \in Procs : pc[p] \in Gone
    BY DEF Shredding, Gone
  <2>2. Opening # {} <=> \E p \in Procs : pc[p] \in Fill
    BY DEF Opening, Fill
  <2>3. ASSUME Opening # {} PROVE book[key[CHOOSE p \in Opening : TRUE]] = book[hdr]
    <3>1. (CHOOSE p \in Opening : TRUE) \in Opening
      BY <2>3
    <3>2. \A p \in Opening : key[p] = hdr
      BY DEF AloneInv, OpenSafe, OpenSafeOf, ToOpen, VaultHolds, Opening
    <3> QED BY <3>1, <3>2
  <2> QED BY <2>1, <2>2, <2>3 DEF FileNow, TheFile
<1> QED BY <1>1, <1>2

(* One of the moves of AtomicVault, or none.                                *)
Moves ==
    \/ TheFile' = TheFile /\ TheVault' = TheVault
    \/ TheFile' \in Contents /\ TheVault' = TheVault
    \/ TheFile # Missing /\ TheVault' = TheFile /\ TheFile' = TheFile
    \/ TheFile # Missing /\ TheVault = TheFile /\ TheFile' = Missing /\ TheVault' = TheVault
    \/ TheVault # Missing /\ TheFile' = TheVault /\ TheVault' = TheVault

(* The step changes neither file and begins or ends no replacement.         *)
Stutters ==
    /\ UNCHANGED <<plainAt, vexists, data, hdr, book>>
    /\ \A q \in Procs :
          /\ pc'[q] \in Build <=> pc[q] \in Build
          /\ pc'[q] \in Gone <=> pc[q] \in Gone
          /\ pc'[q] \in Fill <=> pc[q] \in Fill

(* Nobody sees such a step.                                                 *)
LEMMA StutterFrame ==
    ASSUME Stutters PROVE Moves
<1>1. /\ UNCHANGED <<plainAt, vexists, data, hdr, book>>
      /\ (\E q \in Procs : pc'[q] \in Build) <=> (\E q \in Procs : pc[q] \in Build)
      /\ (\E q \in Procs : pc'[q] \in Gone) <=> (\E q \in Procs : pc[q] \in Gone)
      /\ (\E q \in Procs : pc'[q] \in Fill) <=> (\E q \in Procs : pc[q] \in Fill)
  BY DEF Stutters
<1> QED BY <1>1 DEF Moves, TheFile, TheVault

(* Every step of a call is a move of the user's files, or nobody sees it:   *)
(* encryption takes effect when the vault is truncated, shredding with the  *)
(* first pass and decryption when the output is truncated.                  *)
LEMMA MovesStep ==
    ASSUME SharedInv, AloneInv, OneUser, AloneInv', OneUser', Faults = {},
           [Next]_vars \/ Save
    PROVE  Moves
<1> USE NoneAssumption, NoSaltAssumption DEF TypeOK, FilesOK, LocksOK, LocalsOK,
        HistoryOK, Build, Gone, Fill,
        files, locks, locals, history, vars
<1>a. /\ TypeOK /\ HandleInv /\ SourceInv /\ OutputInv /\ LockInv
      /\ PathKept /\ ShredSafe /\ OpenSafe /\ OpenSafe'
      /\ \A p \in Procs : BuildingOf(p)
  BY DEF SharedInv, IInv, BasicInv, AloneInv
<1> USE <1>a
<1>0. \A p \in Procs : Fail(p) /\ pc[p] \notin Build \cup Gone \cup Fill => Stutters
  BY DEF Fail, Return, Stutters
<1>1. ASSUME NEW p \in Procs, EncStart(p) PROVE Stutters
  BY <1>1 DEF Stutters, EncStart, Goto
<1>2. ASSUME NEW p \in Procs, NotFound(p) PROVE Stutters
  BY <1>2 DEF Stutters, NotFound
<1>3. ASSUME NEW p \in Procs, EncAbort(p) PROVE Stutters
  BY <1>3 DEF EncAbort
<1>4. ASSUME NEW p \in Procs, EncOpenSrc(p) PROVE Stutters
  <2>1. CASE ~Fail(p)
    <3>1. /\ pc[p] = "e_keyed" /\ pc' = [pc EXCEPT ![p] = "e_src"]
          /\ UNCHANGED <<plainAt, vexists, data, hdr, book>>
      BY <1>4, <2>1 DEF EncOpenSrc, Goto
    <3> QED BY <3>1 DEF Stutters
  <2>2. CASE Fail(p)
    BY <1>4, <2>2, <1>0 DEF EncOpenSrc
  <2> QED BY <2>1, <2>2
<1>5. ASSUME NEW p \in Procs, EncLockSrc(p) PROVE Stutters
  <2>1. CASE ~Fail(p)
    <3>1. /\ pc[p] = "e_src" /\ pc' = [pc EXCEPT ![p] = "e_locked"]
          /\ UNCHANGED <<plainAt, vexists, data, hdr, book>>
      BY <1>5, <2>1 DEF EncLockSrc, TryLockPlain, Goto
    <3> QED BY <3>1 DEF Stutters
  <2>2. CASE Fail(p)
    BY <1>5, <2>2, <1>0 DEF EncLockSrc
  <2> QED BY <2>1, <2>2
<1>6. ASSUME NEW p \in Procs, EncOpenDst(p) PROVE Moves
  <2>1. /\ pc[p] = "e_locked" /\ pc' = [pc EXCEPT ![p] = "e_dst"]
        /\ vexists' /\ UNCHANGED <<plainAt, data, book>>
    BY <1>6 DEF EncOpenDst, Goto
  <2>2. plainAt # None /\ data[plainAt] # Missing
    BY <2>1, MissingAssumption DEF HandleInv, Open, PathKept, PlainSteps, Content
  <2>3. \A q \in Procs : pc'[q] \in VaultSteps => q = p
    BY <2>1 DEF OneUser, VaultSteps
  <2>4. \A q \in Procs : pc[q] \notin Gone \cup Fill /\ pc'[q] \notin Gone \cup Fill
    BY <2>1, <2>3 DEF VaultSteps, HoldsVault
  <2>5. TheFile = data[plainAt] /\ TheFile' = data[plainAt]
    BY <2>1, <2>2, <2>4 DEF TheFile
  <2>6. TheVault' = data[plainAt]
    BY <2>1 DEF TheVault
  <2> QED BY <2>2, <2>5, <2>6 DEF Moves
<1>7. ASSUME NEW p \in Procs, EncLockDst(p) PROVE Stutters
  <2>1. pc[p] = "e_dst" /\ vaultLock = None
    <3>1. pc[p] = "e_dst"
      BY <1>7 DEF EncLockDst
    <3>2. \A q \in Procs : pc[q] \in HoldsVault => q = p
      BY <3>1 DEF OneUser, VaultSteps
    <3> QED BY <3>1, <3>2 DEF LockInv, VaultOwner, HoldsVault
  <2> QED BY <1>7, <2>1 DEF Stutters, EncLockDst, TryLockVault, Goto
<1>8. ASSUME NEW p \in Procs, EncFirstRead(p) PROVE Stutters
  BY <1>8 DEF Stutters, EncFirstRead, Goto
<1>9. ASSUME NEW p \in Procs, EncChunk(p) PROVE Moves
  <2>1. /\ pc[p] = "e_chunk" /\ pc'[p] \in {"e_chunk", "e_flush"}
        /\ \A q \in Procs : q # p => pc'[q] = pc[q]
        /\ UNCHANGED <<plainAt, data, vexists>>
    BY <1>9 DEF EncChunk, Goto
  <2>2. \A q \in Procs : pc[q] \in VaultSteps => q = p
    BY <2>1 DEF OneUser, VaultSteps, HoldsVault
  <2>3. \A q \in Procs : pc[q] \notin Gone \cup Fill /\ pc'[q] \notin Gone \cup Fill
    BY <2>1, <2>2 DEF VaultSteps, HoldsVault
  <2>4. TheFile' = TheFile
    BY <2>1, <2>3 DEF TheFile
  <2>5. TheVault' = TheVault
    BY <2>1 DEF TheVault
  <2> QED BY <2>4, <2>5 DEF Moves
<1>10. ASSUME NEW p \in Procs, EncIoError(p) PROVE Stutters
  BY <1>10 DEF EncIoError
<1>11. ASSUME NEW p \in Procs, EncFlush(p) PROVE Moves
  <2>1. /\ pc[p] = "e_flush" /\ fd[p] \in Inodes
        /\ pc' \in {[pc EXCEPT ![p] = "e_done"], [pc EXCEPT ![p] = "s_open"]}
        /\ UNCHANGED <<plainAt, data, vexists, hdr, book>>
    BY <1>11 DEF EncFlush, Goto, HandleInv, Open
  <2>2. \A q \in Procs : pc[q] \in VaultSteps => q = p
    BY <2>1 DEF OneUser, VaultSteps, HoldsVault
  <2>3. /\ \A q \in Procs : pc'[q] \notin Build
        /\ \A q \in Procs : pc[q] \notin Gone \cup Fill /\ pc'[q] \notin Gone \cup Fill
    BY <2>1, <2>2, ZenonT(60) DEF VaultSteps, HoldsVault
  <2>4. VaultHolds(key[p]) /\ book[key[p]] = data[fd[p]] /\ fd[p] = plainAt
    BY <2>1 DEF BuildingOf, SourceInv, SourceOf, PathKept, PlainSteps
  <2>5. book[hdr] = data[plainAt]
    BY <2>4 DEF VaultHolds
  <2>6. TheFile' = TheFile
    BY <2>1, <2>3 DEF TheFile
  <2>7. TheVault' = TheVault
    BY <2>1, <2>3, <2>5 DEF TheVault
  <2> QED BY <2>6, <2>7 DEF Moves
<1>12. ASSUME NEW p \in Procs, EncReturn(p) PROVE Stutters
  BY <1>12, <1>0 DEF EncReturn
<1>13. ASSUME NEW p \in Procs, ShredOpen(p) PROVE Stutters
  <2>1. CASE ~Fail(p)
    <3>1. /\ pc[p] = "s_open" /\ pc' = [pc EXCEPT ![p] = "s_lock"]
          /\ UNCHANGED <<plainAt, vexists, data, hdr, book>>
      BY <1>13, <2>1 DEF ShredOpen, Goto
    <3> QED BY <3>1 DEF Stutters
  <2>2. CASE Fail(p)
    BY <1>13, <2>2, <1>0 DEF ShredOpen
  <2> QED BY <2>1, <2>2
<1>14. ASSUME NEW p \in Procs, ShredLock(p) PROVE Stutters
  BY <1>14 DEF Stutters, ShredLock, TryLockPlain, Goto
<1>15. ASSUME NEW p \in Procs, ShredWipe(p) PROVE Moves
  <2>1. /\ pc[p] = "s_wipe" /\ fd[p] \in Inodes /\ fd[p] = plainAt
        /\ pc' = [pc EXCEPT ![p] = "s_trunc"]
        /\ UNCHANGED <<plainAt, vexists, hdr, book>>
    BY <1>15 DEF ShredWipe, Goto, HandleInv, Open, PathKept, PlainSteps
  <2>2. \A q \in Procs : pc[q] \in VaultSteps => q = p
    BY <2>1 DEF OneUser, VaultSteps, HoldsVault
  <2>3. /\ \A q \in Procs : pc[q] \notin Build /\ pc'[q] \notin Build
        /\ \A q \in Procs : pc[q] \notin Gone \cup Fill
    BY <2>1, <2>2 DEF VaultSteps, HoldsVault
  <2>4. plainAt # None /\ data[plainAt] # Missing
    BY <2>1, MissingAssumption DEF Content
  <2>5. vexists /\ hdr = key[p] /\ data[plainAt] = book[key[p]]
    BY <2>1 DEF ShredSafe, VaultHolds, OpenSafe, OpenSafeOf, Outside
  <2>6. TheFile = data[plainAt] /\ TheFile' = Missing
    BY <2>1, <2>3, <2>4 DEF TheFile
  <2>7. TheVault = data[plainAt] /\ TheVault' = TheVault
    BY <2>1, <2>3, <2>5 DEF TheVault
  <2> QED BY <2>4, <2>6, <2>7 DEF Moves
<1>16. ASSUME NEW p \in Procs, ShredTruncate(p) PROVE Moves
  <2>1. /\ pc[p] = "s_trunc" /\ pc' = [pc EXCEPT ![p] = "s_unlink"]
        /\ UNCHANGED <<plainAt, vexists, hdr, book>>
    BY <1>16 DEF ShredTruncate, Goto
  <2>2. \A q \in Procs : pc[q] \in VaultSteps => q = p
    BY <2>1 DEF OneUser, VaultSteps, HoldsVault
  <2>3. \A q \in Procs : pc[q] \notin Build /\ pc'[q] \notin Build
    BY <2>1, <2>2 DEF VaultSteps, HoldsVault
  <2>4. TheFile = Missing /\ TheFile' = Missing
    BY <2>1 DEF TheFile
  <2>5. TheVault' = TheVault
    BY <2>1, <2>3 DEF TheVault
  <2> QED BY <2>4, <2>5 DEF Moves
<1>17. ASSUME NEW p \in Procs, ShredIoError(p) PROVE Stutters
  BY <1>17 DEF ShredIoError
<1>18. ASSUME NEW p \in Procs, ShredUnlink(p) PROVE Moves
  <2>1. /\ pc[p] = "s_unlink" /\ plainAt' = None
        /\ pc' \in {[pc EXCEPT ![p] = "e_done"], [pc EXCEPT ![p] = "idle"]}
        /\ UNCHANGED <<vexists, hdr, book>>
    BY <1>18 DEF ShredUnlink, Unlink, Goto, Fail, Return
  <2>2. \A q \in Procs : pc[q] \in VaultSteps => q = p
    BY <2>1 DEF OneUser, VaultSteps, HoldsVault
  <2>3. \A q \in Procs : pc[q] \notin Build /\ pc'[q] \notin Build
    BY <2>1, <2>2, ZenonT(60) DEF VaultSteps, HoldsVault
  <2>4. TheFile = Missing /\ TheFile' = Missing
    BY <2>1 DEF TheFile
  <2>5. TheVault' = TheVault
    BY <2>1, <2>3 DEF TheVault
  <2> QED BY <2>4, <2>5 DEF Moves
<1>19. ASSUME NEW p \in Procs, DecStart(p) PROVE Stutters
  BY <1>19 DEF Stutters, DecStart, Goto
<1>20. ASSUME NEW p \in Procs, DecLockSrc(p) PROVE Stutters
  <2>1. CASE ~Fail(p)
    <3>1. /\ pc[p] = "d_open" /\ pc' = [pc EXCEPT ![p] = "d_header"]
          /\ UNCHANGED <<plainAt, vexists, data, hdr, book>>
      BY <1>20, <2>1 DEF DecLockSrc, TryLockVault, Goto
    <3> QED BY <3>1 DEF Stutters
  <2>2. CASE Fail(p)
    BY <1>20, <2>2, <1>0 DEF DecLockSrc
  <2> QED BY <2>1, <2>2
<1>21. ASSUME NEW p \in Procs, DecHeader(p) PROVE Stutters
  <2>1. CASE ~Fail(p)
    <3>1. /\ pc[p] = "d_header" /\ pc' = [pc EXCEPT ![p] = "d_keyed"]
          /\ UNCHANGED <<plainAt, vexists, data, hdr, book>>
      BY <1>21, <2>1 DEF DecHeader, Goto
    <3> QED BY <3>1 DEF Stutters
  <2>2. CASE Fail(p)
    BY <1>21, <2>2, <1>0 DEF DecHeader
  <2> QED BY <2>1, <2>2
<1>22. ASSUME NEW p \in Procs, DecReject(p) PROVE Stutters
  BY <1>22, <1>0 DEF DecReject
<1>23. ASSUME NEW p \in Procs, DecOpenDst(p) PROVE Moves
  <2>1. /\ pc[p] = "d_keyed" /\ pc' = [pc EXCEPT ![p] = "d_dst"]
        /\ plainAt' \in Inodes
        /\ UNCHANGED <<vexists, hdr, book>>
    BY <1>23 DEF DecOpenDst, Goto
  <2>2. \A q \in Procs : pc[q] \in VaultSteps => q = p
    BY <2>1 DEF OneUser, VaultSteps, HoldsVault
  <2>3. /\ \A q \in Procs : pc[q] \notin Build /\ pc'[q] \notin Build
        /\ \A q \in Procs : pc'[q] \notin Gone
    BY <2>1, <2>2 DEF VaultSteps, HoldsVault
  <2>4. vexists /\ hdr = key[p] /\ key[p] \in Salts
    BY <2>1 DEF OpenSafe, OpenSafeOf, Outside, ToOpen, VaultHolds, HandleInv
  <2>5. book[hdr] # Missing
    BY <2>4, MissingAssumption DEF Content
  <2>6. TheFile' = book[hdr]
    BY <2>1, <2>3 DEF TheFile
  <2>7. TheVault = book[hdr] /\ TheVault' = book[hdr]
    BY <2>1, <2>3, <2>4 DEF TheVault
  <2> QED BY <2>5, <2>6, <2>7 DEF Moves
<1>24. ASSUME NEW p \in Procs, DecLockDst(p) PROVE Stutters
  <2>1. pc[p] = "d_dst" /\ fd[p] \in Inodes
    BY <1>24 DEF DecLockDst, HandleInv, Open
  <2>2. plainLock[fd[p]] = None
    <3>1. \A q \in Procs : pc[q] \in HoldsPlain => q = p
      BY <2>1 DEF OneUser, VaultSteps, HoldsVault, WriteSteps, UseSteps, PlainSteps, HoldsPlain
    <3> QED BY <2>1, <3>1 DEF LockInv, PlainOwner, HoldsPlain
  <2> QED BY <1>24, <2>1, <2>2 DEF Stutters, DecLockDst, TryLockPlain, Goto
<1>25. ASSUME NEW p \in Procs, DecChunk(p) PROVE Moves
  <2>1. /\ pc[p] = "d_chunk" /\ pc'[p] \in {"d_chunk", "d_clean"}
        /\ \A q \in Procs : q # p => pc'[q] = pc[q]
        /\ UNCHANGED <<plainAt, vexists, hdr, book>>
    BY <1>25 DEF DecChunk, Goto
  <2>2. \A q \in Procs : pc[q] \in VaultSteps => q = p
    BY <2>1 DEF OneUser, VaultSteps, HoldsVault
  <2>3. /\ \A q \in Procs : pc[q] \notin Build /\ pc'[q] \notin Build
        /\ \A q \in Procs : pc[q] \notin Gone /\ pc'[q] \notin Gone
    BY <2>1, <2>2 DEF VaultSteps, HoldsVault
  <2>4. pc'[p] = "d_chunk"
    BY <2>1 DEF OpenSafe, OpenSafeOf
  <2>5. TheFile' = TheFile
    BY <2>1, <2>3, <2>4 DEF TheFile
  <2>6. TheVault' = TheVault
    BY <2>1, <2>3 DEF TheVault
  <2> QED BY <2>5, <2>6 DEF Moves
<1>26. ASSUME NEW p \in Procs, DecFlush(p) PROVE Moves
  <2>1. /\ pc[p] = "d_chunk" /\ done[p] = total[p]
        /\ pc' = [pc EXCEPT ![p] = "d_done"] /\ key[p] \in Salts
        /\ UNCHANGED <<plainAt, data, vexists, hdr, book>>
    BY <1>26 DEF DecFlush, Goto, HandleInv, Output
  <2>2. \A q \in Procs : pc[q] \in VaultSteps => q = p
    BY <2>1 DEF OneUser, VaultSteps, HoldsVault
  <2>3. /\ \A q \in Procs : pc[q] \notin Build /\ pc'[q] \notin Build
        /\ \A q \in Procs : pc[q] \notin Gone /\ pc'[q] \notin Gone
        /\ \A q \in Procs : pc'[q] \notin Fill
    BY <2>1, <2>2 DEF VaultSteps, HoldsVault
  <2>4. /\ hdr = key[p]
        /\ Len(body) = ChunkCount(book[key[p]])
        /\ total[p] = Len(body)
    <3>1. ChunkCount(book[key[p]]) \in Nat
      BY <2>1 DEF ChunkCount, Content
    <3> QED BY <2>1, <3>1 DEF OpenSafe, OpenSafeOf, ToOpen, VaultHolds
  <2>5. total[p] > 0
    <3>1. book[key[p]] \in Content
      BY <2>1
    <3>2. ChunkCount(book[key[p]]) > 0
      BY <3>1 DEF ChunkCount, Content
    <3> QED BY <2>4, <3>2
  <2>6. data[plainAt] = book[hdr] /\ plainAt = fd[p]
    BY <2>1, <2>4, <2>5 DEF OutputInv, OutputOf, Finished, Output
  <2>7. TheFile' = TheFile
    BY <2>1, <2>3, <2>6 DEF TheFile
  <2>8. TheVault' = TheVault
    BY <2>1, <2>3 DEF TheVault
  <2> QED BY <2>7, <2>8 DEF Moves
<1>27. ASSUME NEW p \in Procs, DecIoError(p) PROVE Stutters
  BY <1>27 DEF DecIoError
<1>28. ASSUME NEW p \in Procs, DecCleanup(p) PROVE Stutters
  BY <1>28 DEF DecCleanup, OpenSafe, OpenSafeOf
<1>29. ASSUME NEW p \in Procs, DecReturn(p) PROVE Stutters
  BY <1>29, <1>0 DEF DecReturn
<1>30. ASSUME NEW p \in Procs, Kill(p) PROVE Stutters
  BY <1>30 DEF Kill
<1>31. ASSUME Rot PROVE Stutters
  BY <1>31 DEF Rot
<1>32. ASSUME UNCHANGED vars PROVE Stutters
  BY <1>32 DEF Stutters
<1>33. ASSUME Save PROVE Moves
  <2>1. PICK i \in Inodes, c \in Contents : plainAt' = i /\ data' = [data EXCEPT ![i] = c]
    BY <1>33 DEF Save
  <2>2. (\A p \in Procs : pc'[p] = "idle" /\ pc[p] = "idle") /\ UNCHANGED <<vexists, hdr, book>>
    BY <1>33 DEF Save
  <2>3. \A p \in Procs : pc[p] \notin Build \cup Gone \cup Fill /\ pc'[p] \notin Build \cup Gone \cup Fill
    BY <2>2
  <2>4. TheFile' = c
    BY <2>1, <2>3 DEF TheFile
  <2>5. TheVault' = TheVault
    BY <2>2, <2>3 DEF TheVault
  <2> QED BY <2>4, <2>5 DEF Moves
<1> QED
  BY StutterFrame, <1>1, <1>2, <1>3, <1>4, <1>5, <1>6, <1>7, <1>8, <1>9, <1>10, <1>11,
     <1>12, <1>13, <1>14, <1>15, <1>16, <1>17, <1>18, <1>19, <1>20, <1>21, <1>22,
     <1>23, <1>24, <1>25, <1>26, <1>27, <1>28, <1>29, <1>30, <1>31, <1>32, <1>33
     DEF Next, Step

(* Until two calls have used one file at the same time.                     *)
UntilClash ==
    /\ clash \in BOOLEAN
    /\ ~clash => OneUser /\ AloneInv

(* It holds at first and every step keeps it.                               *)
LEMMA UntilClashInit == SharedInit => UntilClash
<1> SUFFICES ASSUME Init PROVE OneUser /\ AloneInv
  BY DEF SharedInit, UntilClash
<1>1. vexists = FALSE /\ \A p \in Procs : pc[p] = "idle"
  BY DEF Init
<1>2. OneUser
  BY <1>1 DEF OneUser, VaultSteps, HoldsVault, WriteSteps
<1>3. \A p \in Procs : BuildingOf(p)
  BY <1>1 DEF BuildingOf
<1>4. VaultWhole /\ PathKept /\ ShredSafe
  BY <1>1 DEF VaultWhole, PathKept, PlainSteps, ShredSafe
<1>5. OpenSafe
  BY <1>1 DEF OpenSafe, OpenSafeOf, ToOpen, Outside
<1> QED BY <1>2, <1>3, <1>4, <1>5 DEF AloneInv

(* Where a step makes no clash, its calls were alone before it too.         *)
LEMMA UntilClashStep ==
    ASSUME SharedInv, UntilClash, Faults = {}, [SharedNext]_<<vars, clash>>
    PROVE  UntilClash'
<1>1. CASE SharedNext
  <2>0. clash' \in BOOLEAN
    BY <1>1 DEF SharedNext
  <2> SUFFICES ASSUME ~clash' PROVE OneUser' /\ AloneInv'
    BY <2>0 DEF UntilClash
  <2>1. ~clash
    BY <1>1 DEF SharedNext
  <2>2. OneUser'
    BY <1>1, OneUserStep
  <2> QED BY <2>1, <2>2, AloneStep, SharedStep DEF UntilClash
<1>2. CASE UNCHANGED <<vars, clash>>
  <2> SUFFICES ASSUME ~clash, OneUser PROVE OneUser' /\ AloneInv'
    BY <1>2 DEF UntilClash, vars, OneUser
  <2>1. OneUser'
    BY <1>2 DEF vars, OneUser
  <2> QED BY <1>2, <2>1, AloneStep DEF UntilClash
<1> QED BY <1>1, <1>2

(* Encryption, shredding and decryption are atomic for a user, for every    *)
(* number of processes and every content: as long as no two calls use one   *)
(* file at the same time, a file is only gone when the vault opens to it,   *)
(* and decryption puts back the vault's content (async_encrypt,             *)
(* secure_delete, async_decrypt, run to their ends: a call that fails or is *)
(* killed may leave a vault that opens to nothing).                         *)
THEOREM VaultImplementsAtomicVault ==
    ASSUME Faults = {}
    PROVE  SharedSpec => CallsAreAtomic
<1>1. SharedInit => SharedInv /\ UntilClash
  BY SharedInvInit, UntilClashInit DEF SharedInit
<1>2. /\ SharedInv /\ UntilClash
      /\ [SharedNext]_<<vars, clash>>
      => (SharedInv /\ UntilClash)'
  BY SharedInvStep, SharedStep, UntilClashStep
<1>3. SharedInit => Atomic!Init
  <2> SUFFICES ASSUME SharedInit PROVE Atomic!Init
    OBVIOUS
  <2>1. clash = FALSE /\ vexists = FALSE /\ \A p \in Procs : pc[p] = "idle"
    BY DEF SharedInit, Init
  <2>2. plainAt \in Inodes /\ data[plainAt] \in Contents
    BY DEF SharedInit, Init
  <2>3. Shredding = {} /\ Opening = {}
    BY <2>1 DEF Shredding, Opening
  <2>4. FileNow \in Contents
    BY <2>1, <2>2, <2>3, NoneAssumption DEF FileNow
  <2>5. VaultNow = Missing
    BY <2>1 DEF VaultNow
  <2> QED BY <2>1, <2>4, <2>5 DEF Atomic!Init
<1>4. /\ SharedInv /\ UntilClash
      /\ (SharedInv /\ UntilClash)'
      /\ [SharedNext]_<<vars, clash>>
      => [Atomic!Next]_<<FileNow, VaultNow, clash>>
  <2> SUFFICES ASSUME SharedInv, UntilClash, SharedInv', UntilClash', SharedNext \/ UNCHANGED <<vars, clash>>
               PROVE  Atomic!Next \/ UNCHANGED <<FileNow, VaultNow, clash>>
    OBVIOUS
  <2>1. CASE UNCHANGED <<vars, clash>>
    BY <2>1 DEF vars, files, locks, locals, history, FileNow, VaultNow,
       Shredding, Opening, Sealing, VaultHolds
  <2>2. CASE SharedNext /\ clash'
    <3>1. clash' = TRUE
      BY <2>2 DEF SharedNext
    <3> QED BY <3>1 DEF Atomic!Next, Atomic!Clash
  <2>3. CASE SharedNext /\ ~clash'
    <3>0. ~clash /\ clash \in BOOLEAN /\ clash' \in BOOLEAN
      BY <2>3 DEF SharedNext, UntilClash
    <3>1. ~clash /\ clash' = clash
      BY <2>3, <3>0
    <3>2. OneUser /\ AloneInv /\ OneUser' /\ AloneInv'
      BY <2>3, <3>1 DEF UntilClash
    <3>3. VaultNow = TheVault /\ FileNow = TheFile
      BY <3>1, <3>2, Seen
    <3>4. (VaultNow = TheVault /\ FileNow = TheFile)'
      <4>1. (SharedInv /\ AloneInv /\ OneUser /\ ~clash)'
        BY <2>3, <3>2
      <4> QED BY <4>1, Seen, PTL
    <3>5. Moves
      BY <2>3, <3>2, MovesStep, SharedStep
    <3> QED BY <3>1, <3>3, <3>4, <3>5
            DEF Moves, Atomic!Next, Atomic!Save, Atomic!Encrypt, Atomic!Shred, Atomic!Decrypt
  <2> QED BY <2>1, <2>2, <2>3
<1> QED BY <1>1, <1>2, <1>3, <1>4, PTL DEF SharedSpec, CallsAreAtomic, Atomic!Spec
=============================================================================
