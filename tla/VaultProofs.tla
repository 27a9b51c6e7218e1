----------------------------- MODULE VaultProofs -----------------------------
(***************************************************************************)
(* What Vault guarantees for every number of processes and inodes, every    *)
(* content, every kind of call and every failure it models.  The vault's    *)
(* lock does the work: every step that reads or writes the vault's chunks   *)
(* or changes the plaintext is taken by its holder, except one, the         *)
(* truncation of the vault by an encryption that has yet to lock it.        *)
(*                                                                          *)
(* First types, handles and locks; then what an encryption seals and what a *)
(* decryption leaves.  There every step is put into one of two classes: it  *)
(* keeps what an invariant speaks of (the ...Kept definitions and their     *)
(* ...Frame lemmas), or it is one of the few that build it up, which get a  *)
(* proof of their own.                                                      *)
(***************************************************************************)
EXTENDS Vault, TLAPS

(* Steps at which the call has a plaintext inode open.                      *)
Open == {"e_src", "e_locked", "e_dst", "e_first", "e_chunk", "e_flush",
         "s_lock", "s_wipe", "s_trunc", "d_dst", "d_chunk", "d_clean",
        "d_done"}

(* Steps of a decryption that has opened its output.                        *)
Output == {"d_dst", "d_chunk", "d_clean", "d_done"}

(* Steps at which the call holds the vault's lock.                          *)
HoldsVault == {"e_first", "e_chunk", "e_flush", "s_open", "s_lock", "s_wipe",
               "s_trunc", "s_unlink", "e_done", "d_header", "d_keyed", "d_dst",
               "d_chunk", "d_clean", "d_done"}

(* Steps of an encryption that has drawn its salt and not sealed a chunk.   *)
Unsealed == {"e_keyed", "e_src", "e_locked", "e_dst", "e_first"}

(* Steps of an encryption whose salt nobody else may be using.              *)
SealingSteps == Unsealed \cup {"e_chunk"}

(* Steps before the first chunk is sealed or accepted.                      *)
NotStarted == {"idle", "d_open", "d_header", "d_keyed", "d_dst"} \cup Unsealed

----------------------------------------------------------------------------
(* Sequences.                                                               *)

(* What one read returns is content.                                        *)
LEMMA PieceType ==
    ASSUME NEW c \in Content, NEW i \in Nat
    PROVE  Piece(c, i) \in Content
<1>1. CASE i \in 1 .. Len(c)
  <2>1. c[i] \in Blocks \cup {Junk}
    BY <1>1 DEF Content
  <2>2. <<c[i]>> \in Seq(Blocks \cup {Junk})
    BY <2>1
  <2> QED BY <1>1, <2>2 DEF Piece, Content
<1>2. CASE i \notin 1 .. Len(c)
  BY <1>2 DEF Piece, Content
<1> QED BY <1>1, <1>2

(* Writing a chunk leaves a sequence of chunks.                             *)
LEMMA PutType ==
    ASSUME NEW s \in Seq(Chunk), NEW i \in Nat, i >= 1, NEW x \in Chunk
    PROVE  /\ Put(s, i, x) \in Seq(Chunk)
           /\ \A j \in 1 .. Len(Put(s, i, x)) :
                 \/ Put(s, i, x)[j] = x
                 \/ Put(s, i, x)[j] = Torn
                 \/ j \in 1 .. Len(s) /\ Put(s, i, x)[j] = s[j]
<1> DEFINE n == IF i > Len(s) THEN i ELSE Len(s)
<1>1. n \in Nat
  OBVIOUS
<1>2. Torn \in Chunk
  BY DEF Torn, Chunk
<1>3. \A j \in 1 .. n : Put(s, i, x)[j] \in Chunk
  BY <1>2 DEF Put
<1>4. Put(s, i, x) \in [1 .. n -> Chunk]
  BY <1>3 DEF Put
<1>5. Put(s, i, x) \in Seq(Chunk) /\ Len(Put(s, i, x)) = n
  BY <1>1, <1>4
<1> QED BY <1>5 DEF Put

(* A wiped file is a file.                                                  *)
LEMMA OverwriteType ==
    ASSUME NEW c \in Content, NEW n \in Nat
    PROVE  Overwrite(c, n) \in Content
<1> DEFINE m == IF n > Len(c) THEN n ELSE Len(c)
<1>1. m \in Nat
  BY DEF Content
<1>2. Overwrite(c, n) \in [1 .. m -> Blocks \cup {Junk}]
  BY DEF Overwrite, Content
<1> QED BY <1>1, <1>2 DEF Content

(* Damage to a vault leaves a sequence of chunks, each of which was there   *)
(* or is no intact chunk.                                                   *)
LEMMA DamageType ==
    ASSUME NEW s \in Seq(Chunk), NEW i \in 1 .. Len(s)
    PROVE  /\ [s EXCEPT ![i] = Torn] \in Seq(Chunk)
           /\ SubSeq(s, 1, i - 1) \in Seq(Chunk)
           /\ Append(SubSeq(s, 1, i - 1), Torn) \in Seq(Chunk)
<1>1. Torn \in Chunk
  BY DEF Torn, Chunk
<1>2. SubSeq(s, 1, i - 1) \in Seq(Chunk)
  OBVIOUS
<1> QED BY <1>1, <1>2

(* An append of a cut chunk.                                                *)
LEMMA TornType ==
    ASSUME NEW s \in Seq(Chunk)
    PROVE  Append(s, Torn) \in Seq(Chunk)
<1>1. Torn \in Chunk
  BY DEF Torn, Chunk
<1> QED BY <1>1

(* Nothing is content, and no chunks are a sequence of chunks.              *)
LEMMA EmptyType == <<>> \in Content /\ <<>> \in Seq(Chunk)
  BY DEF Content

----------------------------------------------------------------------------
(* Types.                                                                   *)

(* Handles are open, and keys derived, when a step uses them.               *)
HandleInv ==
    \A p \in Procs :
        /\ pc[p] \in Open => fd[p] \in Inodes
        /\ pc[p] \in SealingSteps \cup {"e_flush"} => key[p] \in Salts
        /\ pc[p] \in {"d_keyed"} \cup Output => key[p] \in Salts

(* Returning keeps the types of the locks and of the call's variables.      *)
LEMMA ReturnType ==
    ASSUME LocksOK, LocalsOK, NEW p \in Procs, Return(p)
    PROVE  LocksOK' /\ LocalsOK'
<1>1. LocksOK'
  BY DEF Return, LocksOK
<1>2. LocalsOK'
  BY EmptyType DEF Return, LocalsOK
<1> QED BY <1>1, <1>2

(* An early return keeps the types.                                         *)
LEMMA FailType ==
    ASSUME TypeOK, NEW p \in Procs, Fail(p)
    PROVE  TypeOK'
<1>1. FilesOK' /\ HistoryOK'
  BY DEF TypeOK, Fail, FilesOK, HistoryOK, files, history
<1>2. LocksOK' /\ LocalsOK'
  BY ReturnType DEF TypeOK, Fail
<1> QED BY <1>1, <1>2 DEF TypeOK

(* Taking a lock keeps the types.                                           *)
LEMMA LockType ==
    ASSUME TypeOK, NEW p \in Procs, NEW step \in Steps,
           TryLockPlain(p, step) \/ TryLockVault(p, step)
    PROVE  TypeOK'
<1>1. FilesOK' /\ HistoryOK'
  BY DEF TypeOK, TryLockPlain, TryLockVault, FilesOK, HistoryOK, files, history
<1>2. LocksOK'
  BY DEF TypeOK, TryLockPlain, TryLockVault, LocksOK
<1>3. LocalsOK'
  BY DEF TypeOK, TryLockPlain, TryLockVault, Goto, LocalsOK, locals
<1> QED BY <1>1, <1>2, <1>3 DEF TypeOK

(* What an interrupted writer leaves has the right types.                   *)
LEMMA InterruptedType ==
    ASSUME TypeOK, HandleInv, NEW p \in Procs, Interrupted(p)
    PROVE  hdr' \in Salts \cup {NoSalt} /\ body' \in Seq(Chunk)
<1> USE DEF TypeOK, FilesOK, LocksOK, LocalsOK, HistoryOK
<1>1. CASE UNCHANGED <<hdr, body>>
  BY <1>1
<1>2. CASE /\ pc[p] = "e_chunk"
           /\ hdr' = IF done[p] = 0 THEN key[p] ELSE hdr
           /\ body' \in {body, Append(body, Torn)}
  BY <1>2, TornType DEF HandleInv, SealingSteps
<1>3. CASE /\ pc[p] = "e_flush"
           /\ body # <<>>
           /\ LET front == SubSeq(body, 1, Len(body) - 1) IN
              body' \in {front, Append(front, Torn)}
           /\ hdr' \in IF body' = <<>> THEN {hdr, NoSalt} ELSE {hdr}
  <2>1. Len(body) \in 1 .. Len(body)
    BY <1>3
  <2>2. body' \in Seq(Chunk)
    BY <1>3, <2>1, DamageType
  <2> QED BY <1>3, <2>2
<1> QED BY <1>1, <1>2, <1>3 DEF Interrupted

(* A plaintext whose writer stops is a file.                                *)
LEMMA PlainCutType ==
    ASSUME TypeOK, HandleInv, NEW p \in Procs, PlainCut(p)
    PROVE  data' \in [Inodes -> Content]
<1> USE DEF TypeOK, FilesOK, LocksOK, LocalsOK, HistoryOK
<1>1. CASE UNCHANGED data
  BY <1>1
<1>2. ASSUME pc[p] = "s_wipe", NEW n \in 0 .. total[p],
             data' = [data EXCEPT ![fd[p]] = Overwrite(@, n)]
      PROVE  data' \in [Inodes -> Content]
  <2>1. fd[p] \in Inodes /\ n \in Nat
    BY <1>2 DEF HandleInv, Open
  <2>2. Overwrite(data[fd[p]], n) \in Content
    BY <2>1, OverwriteType
  <2> QED BY <1>2, <2>1, <2>2
<1>3. CASE /\ pc[p] = "d_chunk"
           /\ data[fd[p]] # <<>>
           /\ LET front == SubSeq(data[fd[p]], 1, Len(data[fd[p]]) - 1) IN
              \E c \in {front, Append(front, Junk)} :
                 data' = [data EXCEPT ![fd[p]] = c]
  <2> DEFINE whole == data[fd[p]]
             front == SubSeq(whole, 1, Len(whole) - 1)
  <2>1. fd[p] \in Inodes
    BY <1>3 DEF HandleInv, Open
  <2>2. front \in Content /\ Append(front, Junk) \in Content
    <3>1. whole \in Seq(Blocks \cup {Junk})
      BY <2>1 DEF Content
    <3> HIDE DEF whole
    <3>2. front \in Seq(Blocks \cup {Junk})
      BY <3>1
    <3> QED BY <3>2 DEF Content
  <2>3. \E c \in {front, Append(front, Junk)} : data' = [data EXCEPT ![fd[p]] = c]
    BY <1>3
  <2> HIDE DEF front
  <2> QED BY <2>1, <2>2, <2>3
<1> QED BY <1>1, <1>2, <1>3 DEF PlainCut

(* Every step keeps the types.                                              *)
LEMMA TypeStep ==
    ASSUME TypeOK, HandleInv, [Next]_vars
    PROVE  TypeOK'
<1> USE NoneAssumption, NoSaltAssumption DEF vars
<1>1. ASSUME NEW p \in Procs, EncStart(p) PROVE TypeOK'
  <2>a. FilesOK'
    BY <1>1 DEF TypeOK, EncStart, FilesOK, files
  <2>b. LocksOK'
    BY <1>1 DEF TypeOK, EncStart, LocksOK, locks
  <2>c. LocalsOK'
    BY <1>1 DEF TypeOK, EncStart, Goto, LocalsOK, locals, Steps
  <2>d. HistoryOK'
    BY <1>1 DEF TypeOK, EncStart, HistoryOK, history
  <2> QED BY <2>a, <2>b, <2>c, <2>d DEF TypeOK
<1>2. ASSUME NEW p \in Procs, NotFound(p) PROVE TypeOK'
  BY <1>2 DEF TypeOK, NotFound, vars, files, locks, locals, history, FilesOK,
        LocksOK, LocalsOK, HistoryOK
<1>3. ASSUME NEW p \in Procs, EncAbort(p) PROVE TypeOK'
  BY <1>3, FailType DEF EncAbort
<1>4. ASSUME NEW p \in Procs, EncOpenSrc(p) PROVE TypeOK'
  <2>1. CASE ~Fail(p)
    <3>a. FilesOK'
      BY <1>4, <2>1 DEF TypeOK, EncOpenSrc, FilesOK, files
    <3>b. LocksOK'
      BY <1>4, <2>1 DEF TypeOK, EncOpenSrc, LocksOK, locks
    <3>c. LocalsOK'
      BY <1>4, <2>1, ZenonT(60) DEF TypeOK, FilesOK, EncOpenSrc, Goto, LocalsOK, locals,
        Steps
    <3>d. HistoryOK'
      BY <1>4, <2>1 DEF TypeOK, EncOpenSrc, HistoryOK, history
    <3> QED BY <3>a, <3>b, <3>c, <3>d DEF TypeOK
  <2>2. CASE Fail(p)
    BY <2>2, FailType
  <2> QED BY <2>1, <2>2
<1>5. ASSUME NEW p \in Procs, EncLockSrc(p) PROVE TypeOK'
  BY <1>5, FailType, LockType DEF EncLockSrc, Steps
<1>6. ASSUME NEW p \in Procs, EncOpenDst(p) PROVE TypeOK'
  <2>a. FilesOK'
    BY <1>6 DEF TypeOK, EncOpenDst, FilesOK, files
  <2>b. LocksOK'
    BY <1>6 DEF TypeOK, EncOpenDst, LocksOK, locks
  <2>c. LocalsOK'
    BY <1>6 DEF TypeOK, EncOpenDst, Goto, LocalsOK, locals, Steps
  <2>d. HistoryOK'
    BY <1>6 DEF TypeOK, EncOpenDst, HistoryOK, history
  <2> QED BY <2>a, <2>b, <2>c, <2>d DEF TypeOK
<1>7. ASSUME NEW p \in Procs, EncLockDst(p) PROVE TypeOK'
  BY <1>7, FailType, LockType DEF EncLockDst, Steps
<1>8. ASSUME NEW p \in Procs, EncFirstRead(p) PROVE TypeOK'
  <2>1. Piece(data[fd[p]], 1) \in Content
    BY <1>8, PieceType DEF EncFirstRead, TypeOK, FilesOK, LocksOK, LocalsOK,
        HistoryOK, HandleInv, Open
  <2>a. FilesOK'
    BY <1>8 DEF TypeOK, EncFirstRead, FilesOK, files
  <2>b. LocksOK'
    BY <1>8 DEF TypeOK, EncFirstRead, LocksOK, locks
  <2>c. LocalsOK'
    BY <1>8, <2>1 DEF TypeOK, EncFirstRead, Goto, LocalsOK, locals, Steps
  <2>d. HistoryOK'
    BY <1>8 DEF TypeOK, EncFirstRead, HistoryOK, history
  <2> QED BY <2>a, <2>b, <2>c, <2>d DEF TypeOK
<1>9. ASSUME NEW p \in Procs, EncChunk(p) PROVE TypeOK'
  <2> DEFINE i == done[p] + 1
             last == Piece(data[fd[p]], i + 1) = <<>>
             x == [salt |-> key[p], idx |-> i, piece |-> cur[p], last |-> last]
  <2>1. /\ key[p] \in Salts
        /\ fd[p] \in Inodes
        /\ i \in Nat /\ i >= 1
        /\ cur[p] \in Content
    BY <1>9 DEF EncChunk, TypeOK, FilesOK, LocksOK, LocalsOK, HistoryOK,
        HandleInv, Open, SealingSteps
  <2>2. x \in Chunk
    BY <2>1 DEF Chunk, Content
  <2>3. body' \in Seq(Chunk)
    <3>1. body' = Put(body, i, x)
      BY <1>9 DEF EncChunk
    <3>2. body \in Seq(Chunk)
      BY DEF TypeOK, FilesOK, LocksOK, LocalsOK, HistoryOK
    <3> HIDE DEF x, i
    <3> QED BY <2>1, <2>2, <3>1, <3>2, PutType
  <2>4. book[key[p]] \o cur[p] \in Content
    BY <2>1 DEF TypeOK, FilesOK, LocksOK, LocalsOK, HistoryOK, Content
  <2>5. Piece(data[fd[p]], i + 1) \in Content
    BY <2>1, PieceType DEF TypeOK, FilesOK, LocksOK, LocalsOK, HistoryOK
  <2> HIDE DEF i, last, x
  <2>a. FilesOK'
    BY <1>9, <2>1, <2>3 DEF TypeOK, EncChunk, FilesOK
  <2>b. LocksOK'
    BY <1>9 DEF TypeOK, EncChunk, LocksOK, locks
  <2>c. LocalsOK'
    BY <1>9, <2>1, <2>5 DEF TypeOK, EncChunk, Goto, LocalsOK, Steps, i
  <2>d. HistoryOK'
    BY <1>9, <2>1, <2>4 DEF TypeOK, EncChunk, HistoryOK
  <2> QED BY <2>a, <2>b, <2>c, <2>d DEF TypeOK
<1>10. ASSUME NEW p \in Procs, EncIoError(p) PROVE TypeOK'
  <2>1. hdr' \in Salts \cup {NoSalt} /\ body' \in Seq(Chunk)
    BY <1>10, InterruptedType DEF EncIoError
  <2>a. FilesOK'
    BY <1>10, <2>1 DEF TypeOK, EncIoError, FilesOK
  <2>b. LocksOK'
    BY <1>10, ReturnType DEF TypeOK, EncIoError
  <2>c. LocalsOK'
    BY <1>10, ReturnType DEF TypeOK, EncIoError
  <2>d. HistoryOK'
    BY <1>10 DEF TypeOK, EncIoError, HistoryOK, history
  <2> QED BY <2>a, <2>b, <2>c, <2>d DEF TypeOK
<1>11. ASSUME NEW p \in Procs, EncFlush(p) PROVE TypeOK'
  <2>a. FilesOK'
    BY <1>11 DEF TypeOK, EncFlush, FilesOK, files
  <2>b. LocksOK'
    BY <1>11 DEF TypeOK, EncFlush, LocksOK, locks
  <2>c. LocalsOK'
    BY <1>11 DEF TypeOK, EncFlush, Goto, LocalsOK, locals, Steps
  <2>d. HistoryOK'
    BY <1>11 DEF TypeOK, EncFlush, HistoryOK, history
  <2> QED BY <2>a, <2>b, <2>c, <2>d DEF TypeOK
<1>12. ASSUME NEW p \in Procs, EncReturn(p) PROVE TypeOK'
  BY <1>12, FailType DEF EncReturn
<1>13. ASSUME NEW p \in Procs, ShredOpen(p) PROVE TypeOK'
  <2>1. CASE ~Fail(p)
    <3>0. plainAt \in Inodes /\ Len(data[plainAt]) \in Nat
      BY <1>13, <2>1 DEF ShredOpen, TypeOK, FilesOK, LocksOK, LocalsOK,
        HistoryOK, Content
    <3>5. PICK n \in Nat : total' = [total EXCEPT ![p] = n]
      BY <1>13, <2>1, <3>0 DEF ShredOpen
    <3>6. total' \in [Procs -> Nat]
      BY <3>5 DEF TypeOK, LocalsOK
    <3>a. FilesOK'
      BY <1>13, <2>1 DEF TypeOK, ShredOpen, FilesOK, files
    <3>b. LocksOK'
      BY <1>13, <2>1 DEF TypeOK, ShredOpen, LocksOK, locks
    <3>c. LocalsOK'
      BY <1>13, <2>1, <3>0, <3>6, ZenonT(60) DEF TypeOK, FilesOK, ShredOpen, Goto,
        LocalsOK, Steps
    <3>d. HistoryOK'
      BY <1>13, <2>1 DEF TypeOK, ShredOpen, HistoryOK, history
    <3> QED BY <3>a, <3>b, <3>c, <3>d DEF TypeOK
  <2>2. CASE Fail(p)
    BY <2>2, FailType
  <2> QED BY <2>1, <2>2
<1>14. ASSUME NEW p \in Procs, ShredLock(p) PROVE TypeOK'
  BY <1>14, LockType DEF ShredLock, Steps
<1>15. ASSUME NEW p \in Procs, ShredWipe(p) PROVE TypeOK'
  <2>1. fd[p] \in Inodes /\ total[p] \in Nat
    BY <1>15 DEF ShredWipe, TypeOK, FilesOK, LocksOK, LocalsOK, HistoryOK,
        HandleInv, Open
  <2>2. Overwrite(data[fd[p]], total[p]) \in Content
    BY <2>1, OverwriteType DEF TypeOK, FilesOK, LocksOK, LocalsOK, HistoryOK
  <2>a. FilesOK'
    BY <1>15, <2>1, <2>2 DEF TypeOK, ShredWipe, FilesOK
  <2>b. LocksOK'
    BY <1>15 DEF TypeOK, ShredWipe, LocksOK, locks
  <2>c. LocalsOK'
    BY <1>15 DEF TypeOK, ShredWipe, Goto, LocalsOK, locals, Steps
  <2>d. HistoryOK'
    BY <1>15 DEF TypeOK, ShredWipe, HistoryOK, history
  <2> QED BY <2>a, <2>b, <2>c, <2>d DEF TypeOK
<1>16. ASSUME NEW p \in Procs, ShredTruncate(p) PROVE TypeOK'
  <2>a. FilesOK'
    BY <1>16, EmptyType DEF TypeOK, ShredTruncate, FilesOK
  <2>b. LocksOK'
    BY <1>16 DEF TypeOK, ShredTruncate, LocksOK, locks
  <2>c. LocalsOK'
    BY <1>16 DEF TypeOK, ShredTruncate, Goto, LocalsOK, locals, Steps
  <2>d. HistoryOK'
    BY <1>16 DEF TypeOK, ShredTruncate, HistoryOK, history
  <2> QED BY <2>a, <2>b, <2>c, <2>d DEF TypeOK
<1>17. ASSUME NEW p \in Procs, ShredIoError(p) PROVE TypeOK'
  <2>1. data' \in [Inodes -> Content]
    BY <1>17, PlainCutType DEF ShredIoError
  <2>a. FilesOK'
    BY <1>17, <2>1 DEF TypeOK, ShredIoError, FilesOK
  <2>b. LocksOK'
    BY <1>17, ReturnType DEF TypeOK, ShredIoError
  <2>c. LocalsOK'
    BY <1>17, ReturnType DEF TypeOK, ShredIoError
  <2>d. HistoryOK'
    BY <1>17 DEF TypeOK, ShredIoError, HistoryOK, history
  <2> QED BY <2>a, <2>b, <2>c, <2>d DEF TypeOK
<1>18. ASSUME NEW p \in Procs, ShredUnlink(p) PROVE TypeOK'
  <2>1. CASE ~Fail(p)
    <3>a. FilesOK'
      BY <1>18, <2>1 DEF TypeOK, ShredUnlink, Unlink, FilesOK
    <3>b. LocksOK'
      BY <1>18, <2>1 DEF TypeOK, ShredUnlink, LocksOK, locks
    <3>c. LocalsOK'
      BY <1>18, <2>1 DEF TypeOK, ShredUnlink, Goto, LocalsOK, locals, Steps
    <3>d. HistoryOK'
      BY <1>18, <2>1 DEF TypeOK, ShredUnlink, Unlink, HistoryOK
    <3> QED BY <3>a, <3>b, <3>c, <3>d DEF TypeOK
  <2>2. CASE Fail(p)
    BY <2>2, FailType
  <2> QED BY <2>1, <2>2
<1>19. ASSUME NEW p \in Procs, DecStart(p) PROVE TypeOK'
  <2>a. FilesOK'
    BY <1>19 DEF TypeOK, DecStart, FilesOK, files
  <2>b. LocksOK'
    BY <1>19 DEF TypeOK, DecStart, LocksOK, locks
  <2>c. LocalsOK'
    BY <1>19 DEF TypeOK, DecStart, Goto, LocalsOK, locals, Steps
  <2>d. HistoryOK'
    BY <1>19 DEF TypeOK, DecStart, HistoryOK, history
  <2> QED BY <2>a, <2>b, <2>c, <2>d DEF TypeOK
<1>20. ASSUME NEW p \in Procs, DecLockSrc(p) PROVE TypeOK'
  BY <1>20, FailType, LockType DEF DecLockSrc, Steps
<1>21. ASSUME NEW p \in Procs, DecHeader(p) PROVE TypeOK'
  <2>1. CASE ~Fail(p)
    <3>0. body \in Seq(Chunk) /\ Len(body) \in Nat /\ hdr \in Salts \cup {NoSalt}
      BY DEF TypeOK, FilesOK, LocksOK, LocalsOK, HistoryOK
    <3>9. PICK b \in Seq(Chunk) : buf' = [buf EXCEPT ![p] = b]
      BY <1>21, <2>1, <3>0, EmptyType DEF DecHeader
    <3>6. PICK n \in Nat : total' = [total EXCEPT ![p] = n]
      BY <1>21, <2>1, <3>0 DEF DecHeader
    <3>7. buf' \in [Procs -> Seq(Chunk)]
      BY <3>9 DEF TypeOK, LocalsOK
    <3>8. total' \in [Procs -> Nat]
      BY <3>6 DEF TypeOK, LocalsOK
    <3>10. key' \in [Procs -> Salts \cup {NoSalt}]
      BY <1>21, <2>1, <3>0 DEF DecHeader, TypeOK, LocalsOK
    <3>a. FilesOK'
      BY <1>21, <2>1 DEF TypeOK, DecHeader, FilesOK, files
    <3>b. LocksOK'
      BY <1>21, <2>1 DEF TypeOK, DecHeader, LocksOK, locks
    <3>c. LocalsOK'
      BY <1>21, <2>1, <3>7, <3>8, <3>10 DEF TypeOK, DecHeader, Goto,
        LocalsOK, Steps
    <3>d. HistoryOK'
      BY <1>21, <2>1 DEF TypeOK, DecHeader, HistoryOK, history
    <3> QED BY <3>a, <3>b, <3>c, <3>d DEF TypeOK
  <2>2. CASE Fail(p)
    BY <2>2, FailType
  <2> QED BY <2>1, <2>2
<1>22. ASSUME NEW p \in Procs, DecReject(p) PROVE TypeOK'
  BY <1>22, FailType DEF DecReject
<1>23. ASSUME NEW p \in Procs, DecOpenDst(p) PROVE TypeOK'
  <2>a. FilesOK'
    BY <1>23, EmptyType DEF TypeOK, DecOpenDst, FilesOK
  <2>b. LocksOK'
    BY <1>23 DEF TypeOK, DecOpenDst, LocksOK, locks
  <2>c. LocalsOK'
    BY <1>23 DEF TypeOK, DecOpenDst, Goto, LocalsOK, locals, Steps
  <2>d. HistoryOK'
    BY <1>23 DEF TypeOK, DecOpenDst, HistoryOK, history
  <2> QED BY <2>a, <2>b, <2>c, <2>d DEF TypeOK
<1>24. ASSUME NEW p \in Procs, DecLockDst(p) PROVE TypeOK'
  BY <1>24, FailType, LockType DEF DecLockDst, Steps
<1>25. ASSUME NEW p \in Procs, DecChunk(p) PROVE TypeOK'
  <2>1. CASE ~Accepts(p)
    BY <1>25, <2>1 DEF DecChunk, Goto, TypeOK, FilesOK, LocksOK, LocalsOK,
        HistoryOK, locks, history, Steps
  <2> SUFFICES ASSUME Accepts(p) PROVE TypeOK'
    BY <2>1
  <2>2. fd[p] \in Inodes /\ data[fd[p]] \in Content /\ done[p] \in Nat
    BY <1>25 DEF DecChunk, TypeOK, FilesOK, LocksOK, LocalsOK, HistoryOK,
        HandleInv, Open
  <2>3. Opened(p) \in Content
    <3>1. \A s \in Seq(Chunk) : done[p] + 1 <= Len(s) => s[done[p] + 1].piece \in Content
      <4>1. \A s \in Seq(Chunk) : done[p] + 1 <= Len(s) => s[done[p] + 1] \in Chunk
        BY <2>2
      <4> QED BY <4>1 DEF Chunk, Content
    <3> QED BY <3>1 DEF Accepts, Opened, TypeOK, FilesOK, LocksOK, LocalsOK,
        HistoryOK
  <2>4. data[fd[p]] \o Opened(p) \in Content
    BY <2>2, <2>3 DEF Content
  <2>5. pc' = pc /\ done' = [done EXCEPT ![p] = done[p] + 1]
    BY <1>25 DEF DecChunk
  <2>a. FilesOK'
    BY <1>25, <2>2, <2>4 DEF TypeOK, DecChunk, FilesOK
  <2>b. LocksOK'
    BY <1>25 DEF TypeOK, DecChunk, LocksOK, locks
  <2>c. LocalsOK'
    BY <1>25, <2>2, <2>5 DEF TypeOK, DecChunk, LocalsOK
  <2>d. HistoryOK'
    BY <1>25 DEF TypeOK, DecChunk, HistoryOK, history
  <2> QED BY <2>a, <2>b, <2>c, <2>d DEF TypeOK
<1>26. ASSUME NEW p \in Procs, DecFlush(p) PROVE TypeOK'
  <2>a. FilesOK'
    BY <1>26 DEF TypeOK, DecFlush, FilesOK, files
  <2>b. LocksOK'
    BY <1>26 DEF TypeOK, DecFlush, LocksOK, locks
  <2>c. LocalsOK'
    BY <1>26 DEF TypeOK, DecFlush, Goto, LocalsOK, locals, Steps
  <2>d. HistoryOK'
    BY <1>26 DEF TypeOK, DecFlush, HistoryOK, history
  <2> QED BY <2>a, <2>b, <2>c, <2>d DEF TypeOK
<1>27. ASSUME NEW p \in Procs, DecIoError(p) PROVE TypeOK'
  <2>a. FilesOK'
    BY <1>27 DEF TypeOK, DecIoError, FilesOK, files
  <2>b. LocksOK'
    BY <1>27 DEF TypeOK, DecIoError, LocksOK, locks
  <2>c. LocalsOK'
    BY <1>27 DEF TypeOK, DecIoError, Goto, LocalsOK, locals, Steps
  <2>d. HistoryOK'
    BY <1>27 DEF TypeOK, DecIoError, HistoryOK, history
  <2> QED BY <2>a, <2>b, <2>c, <2>d DEF TypeOK
<1>28. ASSUME NEW p \in Procs, DecCleanup(p) PROVE TypeOK'
  <2>a. FilesOK'
    BY <1>28 DEF TypeOK, DecCleanup, Unlink, FilesOK, files
  <2>b. LocksOK'
    BY <1>28, ReturnType DEF TypeOK, DecCleanup
  <2>c. LocalsOK'
    BY <1>28, ReturnType DEF TypeOK, DecCleanup
  <2>d. HistoryOK'
    BY <1>28 DEF TypeOK, DecCleanup, Unlink, HistoryOK, history
  <2> QED BY <2>a, <2>b, <2>c, <2>d DEF TypeOK
<1>29. ASSUME NEW p \in Procs, DecReturn(p) PROVE TypeOK'
  BY <1>29, FailType DEF DecReturn
<1>30. ASSUME NEW p \in Procs, Kill(p) PROVE TypeOK'
  <2>1. hdr' \in Salts \cup {NoSalt} /\ body' \in Seq(Chunk)
    BY <1>30, InterruptedType DEF Kill
  <2>2. data' \in [Inodes -> Content]
    BY <1>30, PlainCutType DEF Kill
  <2>a. FilesOK'
    BY <1>30, <2>1, <2>2 DEF TypeOK, Kill, FilesOK
  <2>b. LocksOK'
    BY <1>30, ReturnType DEF TypeOK, Kill
  <2>c. LocalsOK'
    BY <1>30, ReturnType DEF TypeOK, Kill
  <2>d. HistoryOK'
    BY <1>30 DEF TypeOK, Kill, HistoryOK, history
  <2> QED BY <2>a, <2>b, <2>c, <2>d DEF TypeOK
<1>31. CASE Rot
  <2>1. body' \in Seq(Chunk)
    <3>1. body \in Seq(Chunk)
      BY DEF TypeOK, FilesOK
    <3>2. CASE body' = body
      BY <3>1, <3>2
    <3>3. CASE body' # body
      <4>1. PICK i \in 1 .. Len(body) :
               body' = [body EXCEPT ![i] = Torn] \/ body' = SubSeq(body, 1,
        i - 1)
        BY <1>31, <3>3 DEF Rot
      <4> QED BY <3>1, <4>1, DamageType
    <3> QED BY <3>2, <3>3
  <2>2. hdr' \in Salts \cup {NoSalt}
    BY <1>31 DEF Rot, TypeOK, FilesOK, LocksOK, LocalsOK, HistoryOK
  <2>a. FilesOK'
    BY <1>31, <2>1, <2>2 DEF TypeOK, FilesOK, Rot
  <2>b. LocksOK'
    BY <1>31 DEF TypeOK, Rot, LocksOK, locks
  <2>c. LocalsOK'
    BY <1>31 DEF TypeOK, Rot, LocalsOK, locals
  <2>d. HistoryOK'
    BY <1>31 DEF TypeOK, Rot, HistoryOK, history
  <2> QED BY <2>a, <2>b, <2>c, <2>d DEF TypeOK
<1>32. CASE UNCHANGED vars
  BY <1>32 DEF TypeOK, FilesOK, LocksOK, LocalsOK, HistoryOK, files, locks,
        locals, history
<1> QED
  BY <1>1, <1>2, <1>3, <1>4, <1>5, <1>6, <1>7, <1>8, <1>9, <1>10, <1>11,
     <1>12, <1>13, <1>14, <1>15, <1>16, <1>17, <1>18, <1>19, <1>20, <1>21,
     <1>22, <1>23, <1>24, <1>25, <1>26, <1>27, <1>28, <1>29, <1>30, <1>31,
     <1>32
     DEF Next, Step

(* Every step keeps the handles.                                            *)
LEMMA HandleStep ==
    ASSUME TypeOK, HandleInv, [Next]_vars
    PROVE  HandleInv'
<1> USE NoneAssumption, NoSaltAssumption DEF TypeOK, FilesOK, LocksOK,
        LocalsOK, HistoryOK, HandleInv, Open, SealingSteps, Unsealed, Output,
        Steps, files, locks, locals, history, vars
<1>1. ASSUME NEW p \in Procs, EncStart(p) PROVE HandleInv'
  BY <1>1 DEF EncStart, Goto
<1>2. ASSUME NEW p \in Procs, NotFound(p) PROVE HandleInv'
  BY <1>2 DEF NotFound
<1>3. ASSUME NEW p \in Procs, EncAbort(p) PROVE HandleInv'
  BY <1>3 DEF EncAbort, Fail, Return
<1>4. ASSUME NEW p \in Procs, EncOpenSrc(p) PROVE HandleInv'
  BY <1>4 DEF EncOpenSrc, Goto, Fail, Return
<1>5. ASSUME NEW p \in Procs, EncLockSrc(p) PROVE HandleInv'
  BY <1>5 DEF EncLockSrc, TryLockPlain, Goto, Fail, Return
<1>6. ASSUME NEW p \in Procs, EncOpenDst(p) PROVE HandleInv'
  BY <1>6 DEF EncOpenDst, Goto
<1>7. ASSUME NEW p \in Procs, EncLockDst(p) PROVE HandleInv'
  BY <1>7 DEF EncLockDst, TryLockVault, Goto, Fail, Return
<1>8. ASSUME NEW p \in Procs, EncFirstRead(p) PROVE HandleInv'
  BY <1>8 DEF EncFirstRead, Goto
<1>9. ASSUME NEW p \in Procs, EncChunk(p) PROVE HandleInv'
  BY <1>9 DEF EncChunk, Goto
<1>10. ASSUME NEW p \in Procs, EncIoError(p) PROVE HandleInv'
  BY <1>10 DEF EncIoError, Return
<1>11. ASSUME NEW p \in Procs, EncFlush(p) PROVE HandleInv'
  BY <1>11 DEF EncFlush, Goto
<1>12. ASSUME NEW p \in Procs, EncReturn(p) PROVE HandleInv'
  BY <1>12 DEF EncReturn, Fail, Return
<1>13. ASSUME NEW p \in Procs, ShredOpen(p) PROVE HandleInv'
  BY <1>13 DEF ShredOpen, Goto, Fail, Return
<1>14. ASSUME NEW p \in Procs, ShredLock(p) PROVE HandleInv'
  BY <1>14 DEF ShredLock, TryLockPlain, Goto
<1>15. ASSUME NEW p \in Procs, ShredWipe(p) PROVE HandleInv'
  BY <1>15 DEF ShredWipe, Goto
<1>16. ASSUME NEW p \in Procs, ShredTruncate(p) PROVE HandleInv'
  BY <1>16 DEF ShredTruncate, Goto
<1>17. ASSUME NEW p \in Procs, ShredIoError(p) PROVE HandleInv'
  BY <1>17 DEF ShredIoError, Return
<1>18. ASSUME NEW p \in Procs, ShredUnlink(p) PROVE HandleInv'
  BY <1>18 DEF ShredUnlink, Unlink, Goto, Fail, Return
<1>19. ASSUME NEW p \in Procs, DecStart(p) PROVE HandleInv'
  BY <1>19 DEF DecStart, Goto
<1>20. ASSUME NEW p \in Procs, DecLockSrc(p) PROVE HandleInv'
  BY <1>20 DEF DecLockSrc, TryLockVault, Goto, Fail, Return
<1>21. ASSUME NEW p \in Procs, DecHeader(p) PROVE HandleInv'
  BY <1>21 DEF DecHeader, Goto, Fail, Return
<1>22. ASSUME NEW p \in Procs, DecReject(p) PROVE HandleInv'
  BY <1>22 DEF DecReject, Fail, Return
<1>23. ASSUME NEW p \in Procs, DecOpenDst(p) PROVE HandleInv'
  BY <1>23 DEF DecOpenDst, Goto
<1>24. ASSUME NEW p \in Procs, DecLockDst(p) PROVE HandleInv'
  BY <1>24 DEF DecLockDst, TryLockPlain, Goto, Fail, Return
<1>25. ASSUME NEW p \in Procs, DecChunk(p) PROVE HandleInv'
  BY <1>25 DEF DecChunk, Goto
<1>26. ASSUME NEW p \in Procs, DecFlush(p) PROVE HandleInv'
  BY <1>26 DEF DecFlush, Goto
<1>27. ASSUME NEW p \in Procs, DecIoError(p) PROVE HandleInv'
  BY <1>27 DEF DecIoError, Goto
<1>28. ASSUME NEW p \in Procs, DecCleanup(p) PROVE HandleInv'
  BY <1>28 DEF DecCleanup, Unlink, Return
<1>29. ASSUME NEW p \in Procs, DecReturn(p) PROVE HandleInv'
  BY <1>29 DEF DecReturn, Fail, Return
<1>30. ASSUME NEW p \in Procs, Kill(p) PROVE HandleInv'
  BY <1>30 DEF Kill, Return
<1>31. CASE Rot
  BY <1>31 DEF Rot
<1>32. CASE UNCHANGED vars
  BY <1>32
<1> QED
  BY <1>1, <1>2, <1>3, <1>4, <1>5, <1>6, <1>7, <1>8, <1>9, <1>10, <1>11,
     <1>12, <1>13, <1>14, <1>15, <1>16, <1>17, <1>18, <1>19, <1>20, <1>21,
     <1>22, <1>23, <1>24, <1>25, <1>26, <1>27, <1>28, <1>29, <1>30, <1>31,
     <1>32
     DEF Next, Step

(* Holding the vault's lock.                                                *)
VaultMutex == \A p \in Procs : pc[p] \in HoldsVault => vaultLock = p

(* try_lock_exclusive gives the lock to one, and only its holder returns it.*)
LEMMA MutexStep ==
    ASSUME TypeOK, VaultMutex, [Next]_vars
    PROVE  VaultMutex'
<1> USE NoneAssumption DEF TypeOK, FilesOK, LocksOK, LocalsOK, HistoryOK,
        VaultMutex, HoldsVault, files, locks, locals, history, vars
<1>1. ASSUME NEW p \in Procs, EncStart(p) PROVE VaultMutex'
  BY <1>1 DEF EncStart, Goto
<1>2. ASSUME NEW p \in Procs, NotFound(p) PROVE VaultMutex'
  BY <1>2 DEF NotFound
<1>3. ASSUME NEW p \in Procs, EncAbort(p) PROVE VaultMutex'
  BY <1>3 DEF EncAbort, Fail, Return
<1>4. ASSUME NEW p \in Procs, EncOpenSrc(p) PROVE VaultMutex'
  BY <1>4 DEF EncOpenSrc, Goto, Fail, Return
<1>5. ASSUME NEW p \in Procs, EncLockSrc(p) PROVE VaultMutex'
  BY <1>5 DEF EncLockSrc, TryLockPlain, Goto, Fail, Return
<1>6. ASSUME NEW p \in Procs, EncOpenDst(p) PROVE VaultMutex'
  BY <1>6 DEF EncOpenDst, Goto
<1>7. ASSUME NEW p \in Procs, EncLockDst(p) PROVE VaultMutex'
  BY <1>7 DEF EncLockDst, TryLockVault, Goto, Fail, Return
<1>8. ASSUME NEW p \in Procs, EncFirstRead(p) PROVE VaultMutex'
  BY <1>8 DEF EncFirstRead, Goto
<1>9. ASSUME NEW p \in Procs, EncChunk(p) PROVE VaultMutex'
  BY <1>9 DEF EncChunk, Goto
<1>10. ASSUME NEW p \in Procs, EncIoError(p) PROVE VaultMutex'
  BY <1>10 DEF EncIoError, Return
<1>11. ASSUME NEW p \in Procs, EncFlush(p) PROVE VaultMutex'
  BY <1>11 DEF EncFlush, Goto
<1>12. ASSUME NEW p \in Procs, EncReturn(p) PROVE VaultMutex'
  BY <1>12 DEF EncReturn, Fail, Return
<1>13. ASSUME NEW p \in Procs, ShredOpen(p) PROVE VaultMutex'
  BY <1>13 DEF ShredOpen, Goto, Fail, Return
<1>14. ASSUME NEW p \in Procs, ShredLock(p) PROVE VaultMutex'
  BY <1>14 DEF ShredLock, TryLockPlain, Goto
<1>15. ASSUME NEW p \in Procs, ShredWipe(p) PROVE VaultMutex'
  BY <1>15 DEF ShredWipe, Goto
<1>16. ASSUME NEW p \in Procs, ShredTruncate(p) PROVE VaultMutex'
  BY <1>16 DEF ShredTruncate, Goto
<1>17. ASSUME NEW p \in Procs, ShredIoError(p) PROVE VaultMutex'
  BY <1>17 DEF ShredIoError, Return
<1>18. ASSUME NEW p \in Procs, ShredUnlink(p) PROVE VaultMutex'
  BY <1>18 DEF ShredUnlink, Unlink, Goto, Fail, Return
<1>19. ASSUME NEW p \in Procs, DecStart(p) PROVE VaultMutex'
  BY <1>19 DEF DecStart, Goto
<1>20. ASSUME NEW p \in Procs, DecLockSrc(p) PROVE VaultMutex'
  BY <1>20 DEF DecLockSrc, TryLockVault, Goto, Fail, Return
<1>21. ASSUME NEW p \in Procs, DecHeader(p) PROVE VaultMutex'
  BY <1>21 DEF DecHeader, Goto, Fail, Return
<1>22. ASSUME NEW p \in Procs, DecReject(p) PROVE VaultMutex'
  BY <1>22 DEF DecReject, Fail, Return
<1>23. ASSUME NEW p \in Procs, DecOpenDst(p) PROVE VaultMutex'
  BY <1>23 DEF DecOpenDst, Goto
<1>24. ASSUME NEW p \in Procs, DecLockDst(p) PROVE VaultMutex'
  BY <1>24 DEF DecLockDst, TryLockPlain, Goto, Fail, Return
<1>25. ASSUME NEW p \in Procs, DecChunk(p) PROVE VaultMutex'
  BY <1>25 DEF DecChunk, Goto
<1>26. ASSUME NEW p \in Procs, DecFlush(p) PROVE VaultMutex'
  BY <1>26 DEF DecFlush, Goto
<1>27. ASSUME NEW p \in Procs, DecIoError(p) PROVE VaultMutex'
  BY <1>27 DEF DecIoError, Goto
<1>28. ASSUME NEW p \in Procs, DecCleanup(p) PROVE VaultMutex'
  BY <1>28 DEF DecCleanup, Unlink, Return
<1>29. ASSUME NEW p \in Procs, DecReturn(p) PROVE VaultMutex'
  BY <1>29 DEF DecReturn, Fail, Return
<1>30. ASSUME NEW p \in Procs, Kill(p) PROVE VaultMutex'
  BY <1>30 DEF Kill, Return
<1>31. CASE Rot
  BY <1>31 DEF Rot
<1>32. CASE UNCHANGED vars
  BY <1>32
<1> QED
  BY <1>1, <1>2, <1>3, <1>4, <1>5, <1>6, <1>7, <1>8, <1>9, <1>10, <1>11,
     <1>12, <1>13, <1>14, <1>15, <1>16, <1>17, <1>18, <1>19, <1>20, <1>21,
     <1>22, <1>23, <1>24, <1>25, <1>26, <1>27, <1>28, <1>29, <1>30, <1>31,
     <1>32
     DEF Next, Step

----------------------------------------------------------------------------
(* Salts and what was sealed under them.                                    *)

(* An encryption that can still seal a chunk has its salt to itself, and    *)
(* nothing is sealed under a salt before its encryption starts.             *)
KeyInv ==
    /\ sealed \subseteq used
    /\ \A s \in Salts \ used : book[s] = <<>>
    /\ \A p \in Procs : pc[p] \in SealingSteps =>
          /\ key[p] \in used \ sealed
          /\ \A q \in Procs : q # p /\ pc[q] \in SealingSteps => key[q] # key[p]
    /\ \A p \in Procs : pc[p] \in Unsealed => book[key[p]] = <<>>
    /\ \A p \in Procs : pc[p] \in NotStarted => done[p] = 0

(* A salt is drawn once, and only its encryption seals under it.            *)
LEMMA KeyStep ==
    ASSUME TypeOK, HandleInv, KeyInv, [Next]_vars
    PROVE  KeyInv'
<1> USE NoneAssumption, NoSaltAssumption DEF TypeOK, FilesOK, LocksOK,
        LocalsOK, HistoryOK, HandleInv, KeyInv, NotStarted, SealingSteps,
        Unsealed, files, locks, locals, history, vars
<1>0. \A p \in Procs : Fail(p) => KeyInv'
  BY DEF Fail, Return
<1>1. ASSUME NEW p \in Procs, EncStart(p) PROVE KeyInv'
  BY <1>1 DEF EncStart, Goto
<1>2. ASSUME NEW p \in Procs, NotFound(p) PROVE KeyInv'
  BY <1>2 DEF NotFound
<1>3. ASSUME NEW p \in Procs, EncAbort(p) PROVE KeyInv'
  BY <1>3, <1>0 DEF EncAbort
<1>4. ASSUME NEW p \in Procs, EncOpenSrc(p) PROVE KeyInv'
  BY <1>4, <1>0 DEF EncOpenSrc, Goto
<1>5. ASSUME NEW p \in Procs, EncLockSrc(p) PROVE KeyInv'
  BY <1>5, <1>0 DEF EncLockSrc, TryLockPlain, Goto
<1>6. ASSUME NEW p \in Procs, EncOpenDst(p) PROVE KeyInv'
  BY <1>6 DEF EncOpenDst, Goto
<1>7. ASSUME NEW p \in Procs, EncLockDst(p) PROVE KeyInv'
  BY <1>7, <1>0 DEF EncLockDst, TryLockVault, Goto
<1>8. ASSUME NEW p \in Procs, EncFirstRead(p) PROVE KeyInv'
  BY <1>8 DEF EncFirstRead, Goto
<1>9. ASSUME NEW p \in Procs, EncChunk(p) PROVE KeyInv'
  BY <1>9 DEF EncChunk, Goto
<1>10. ASSUME NEW p \in Procs, EncIoError(p) PROVE KeyInv'
  BY <1>10 DEF EncIoError, Return
<1>11. ASSUME NEW p \in Procs, EncFlush(p) PROVE KeyInv'
  BY <1>11, SMTT(30) DEF EncFlush, Goto
<1>12. ASSUME NEW p \in Procs, EncReturn(p) PROVE KeyInv'
  BY <1>12, <1>0 DEF EncReturn
<1>13. ASSUME NEW p \in Procs, ShredOpen(p) PROVE KeyInv'
  BY <1>13, <1>0, SMTT(30) DEF ShredOpen, Goto
<1>14. ASSUME NEW p \in Procs, ShredLock(p) PROVE KeyInv'
  BY <1>14 DEF ShredLock, TryLockPlain, Goto
<1>15. ASSUME NEW p \in Procs, ShredWipe(p) PROVE KeyInv'
  BY <1>15 DEF ShredWipe, Goto
<1>16. ASSUME NEW p \in Procs, ShredTruncate(p) PROVE KeyInv'
  BY <1>16 DEF ShredTruncate, Goto
<1>17. ASSUME NEW p \in Procs, ShredIoError(p) PROVE KeyInv'
  BY <1>17 DEF ShredIoError, Return
<1>18. ASSUME NEW p \in Procs, ShredUnlink(p) PROVE KeyInv'
  BY <1>18, <1>0, SMTT(30) DEF ShredUnlink, Unlink, Goto
<1>19. ASSUME NEW p \in Procs, DecStart(p) PROVE KeyInv'
  BY <1>19 DEF DecStart, Goto
<1>20. ASSUME NEW p \in Procs, DecLockSrc(p) PROVE KeyInv'
  BY <1>20, <1>0 DEF DecLockSrc, TryLockVault, Goto
<1>21. ASSUME NEW p \in Procs, DecHeader(p) PROVE KeyInv'
  <2>1. CASE ~Fail(p)
    <3>1. /\ key' = [key EXCEPT ![p] = hdr]
          /\ pc' = [pc EXCEPT ![p] = "d_keyed"]
          /\ UNCHANGED <<files, locks, fd, cur, done, used, history>>
      BY <1>21, <2>1 DEF DecHeader, Goto
    <3> QED BY <1>21, <3>1 DEF DecHeader
  <2>2. CASE Fail(p)
    BY <2>2, <1>0
  <2> QED BY <2>1, <2>2
<1>22. ASSUME NEW p \in Procs, DecReject(p) PROVE KeyInv'
  BY <1>22, <1>0 DEF DecReject
<1>23. ASSUME NEW p \in Procs, DecOpenDst(p) PROVE KeyInv'
  BY <1>23 DEF DecOpenDst, Goto
<1>24. ASSUME NEW p \in Procs, DecLockDst(p) PROVE KeyInv'
  BY <1>24, <1>0 DEF DecLockDst, TryLockPlain, Goto
<1>25. ASSUME NEW p \in Procs, DecChunk(p) PROVE KeyInv'
  BY <1>25, SMTT(30) DEF DecChunk, Goto
<1>26. ASSUME NEW p \in Procs, DecFlush(p) PROVE KeyInv'
  BY <1>26 DEF DecFlush, Goto
<1>27. ASSUME NEW p \in Procs, DecIoError(p) PROVE KeyInv'
  BY <1>27 DEF DecIoError, Goto
<1>28. ASSUME NEW p \in Procs, DecCleanup(p) PROVE KeyInv'
  BY <1>28 DEF DecCleanup, Unlink, Return
<1>29. ASSUME NEW p \in Procs, DecReturn(p) PROVE KeyInv'
  BY <1>29, <1>0 DEF DecReturn
<1>30. ASSUME NEW p \in Procs, Kill(p) PROVE KeyInv'
  BY <1>30 DEF Kill, Return
<1>31. CASE Rot
  BY <1>31 DEF Rot
<1>32. CASE UNCHANGED vars
  BY <1>32
<1> QED
  BY <1>1, <1>2, <1>3, <1>4, <1>5, <1>6, <1>7, <1>8, <1>9, <1>10, <1>11,
     <1>12, <1>13, <1>14, <1>15, <1>16, <1>17, <1>18, <1>19, <1>20, <1>21,
     <1>22, <1>23, <1>24, <1>25, <1>26, <1>27, <1>28, <1>29, <1>30, <1>31,
     <1>32
     DEF Next, Step

(* One step at a time is under the vault's lock.                            *)
LEMMA VaultAlone ==
    ASSUME VaultMutex, NEW p \in Procs, pc[p] \in HoldsVault,
           NEW q \in Procs, q # p
    PROVE  pc[q] \notin HoldsVault
  BY DEF VaultMutex

----------------------------------------------------------------------------
(* The basic invariant, and the first theorem.                              *)

(* What every state has: types, open handles, one holder of the vault's     *)
(* lock, one encryption per salt.                                           *)
BasicInv == TypeOK /\ HandleInv /\ VaultMutex /\ KeyInv

(* It holds at first.                                                       *)
LEMMA BasicInit == Init => BasicInv
<1> SUFFICES ASSUME Init PROVE BasicInv
  OBVIOUS
<1>1. data \in [Inodes -> Content]
  BY ContentsAssumption, EmptyType DEF Init, Content
<1>2. TypeOK
  BY <1>1, EmptyType DEF Init, TypeOK, FilesOK, LocksOK, LocalsOK, HistoryOK
<1>3. HandleInv
  BY DEF Init, HandleInv, Open, SealingSteps, Unsealed, Output
<1>4. VaultMutex
  BY DEF Init, VaultMutex, HoldsVault
<1>5. KeyInv
  BY DEF Init, KeyInv, SealingSteps, Unsealed, NotStarted
<1> QED BY <1>2, <1>3, <1>4, <1>5 DEF BasicInv

(* Every step keeps it.                                                     *)
LEMMA BasicStep == BasicInv /\ [Next]_vars => BasicInv'
  BY TypeStep, HandleStep, MutexStep, KeyStep DEF BasicInv

(* Every variable keeps to its type through every call, failure, kill and   *)
(* damage: sequences have no gaps, positions do not go below zero.          *)
THEOREM TypeCorrect == Spec => []TypeOK
<1>1. BasicInv => TypeOK
  BY DEF BasicInv
<1> QED BY <1>1, BasicInit, BasicStep, PTL DEF Spec

----------------------------------------------------------------------------
(* The encryption's reads.                                                  *)

(* What is sealed so far, b, is the beginning of the file c, d blocks of    *)
(* it; the block in hand, x, is the next one, and there is one unless the   *)
(* file is empty.                                                           *)
SourceOf(c, b, d, x, step) ==
    /\ step = "e_chunk" =>
          /\ Len(b) = d
          /\ \A i \in 1 .. d : b[i] = c[i]
          /\ d <= Len(c)
          /\ d > 0 => d < Len(c)
          /\ x = Piece(c, d + 1)
    /\ step = "e_flush" => b = c

(* So it is for every encryption that holds both locks.                     *)
SourceInv ==
    \A p \in Procs : pc[p] \in {"e_chunk", "e_flush"} =>
        SourceOf(data[fd[p]], book[key[p]], done[p], cur[p], pc[p])


(* A read within a file gives one block, and none beyond its end.           *)
LEMMA PieceCases ==
    ASSUME NEW c \in Content, NEW i \in Nat, i >= 1
    PROVE  /\ i <= Len(c) => Piece(c, i) = <<c[i]>> /\ Piece(c, i) # <<>>
           /\ i > Len(c) => Piece(c, i) = <<>>
  BY DEF Piece, Content

(* Appending one block.                                                     *)
LEMMA AppendBlock ==
    ASSUME NEW b \in Content, NEW x \in Blocks \cup {Junk}
    PROVE  /\ b \o <<x>> \in Content
           /\ Len(b \o <<x>>) = Len(b) + 1
           /\ \A j \in 1 .. Len(b) : (b \o <<x>>)[j] = b[j]
           /\ (b \o <<x>>)[Len(b) + 1] = x
           /\ b \o <<x>> # <<>>
  BY DEF Content

(* Two contents with the same length and blocks are the same.               *)
LEMMA ContentEqual ==
    ASSUME NEW b \in Content, NEW c \in Content, Len(b) = Len(c),
           \A j \in 1 .. Len(c) : b[j] = c[j]
    PROVE  b = c
  BY DEF Content

(* One turn of the encryption loop: what it seals is the next block of the  *)
(* source and, with the last chunk, the whole source.                       *)
LEMMA SealStep ==
    ASSUME TypeOK, HandleInv, KeyInv, SourceInv, NEW p \in Procs, EncChunk(p)
    PROVE  LET s == key[p]
               c == data[fd[p]]
               i == done[p] + 1
               last == Piece(c, i + 1) = <<>>
               x == [salt |-> s, idx |-> i, piece |-> cur[p], last |-> last] IN
           /\ x \in Chunk
           /\ body' = Put(body, i, x)
           /\ book' = [book EXCEPT ![s] = @ \o cur[p]]
           /\ cur[p] \in Content
           /\ sealed' = IF last THEN sealed \cup {s} ELSE sealed
           /\ ~last => /\ Len(book'[s]) = i
                       /\ \A j \in 1 .. i : book'[s][j] = c[j]
                       /\ i < Len(c)
           /\ last => book'[s] = c
           /\ x.piece = Piece(book'[s], i)
           /\ last => i = ChunkCount(c)
<1> DEFINE s == key[p]
           c == data[fd[p]]
           i == done[p] + 1
           last == Piece(c, i + 1) = <<>>
           x == [salt |-> s, idx |-> i, piece |-> cur[p], last |-> last]
<1>1. /\ s \in Salts /\ fd[p] \in Inodes
      /\ c \in Content /\ book[s] \in Content /\ cur[p] \in Content
      /\ done[p] \in Nat /\ i \in Nat /\ i >= 1
  BY DEF EncChunk, TypeOK, FilesOK, LocalsOK, HistoryOK, HandleInv, Open, SealingSteps
<1>2. x \in Chunk
  BY <1>1 DEF Chunk, Content
<1>3. /\ body' = Put(body, i, x)
      /\ book' = [book EXCEPT ![s] = @ \o cur[p]]
      /\ sealed' = IF last THEN sealed \cup {s} ELSE sealed
  BY DEF EncChunk
<1>4. book'[s] = book[s] \o cur[p]
  BY <1>1, <1>3 DEF TypeOK, HistoryOK
<1>5. /\ Len(book[s]) = done[p]
      /\ \A j \in 1 .. done[p] : book[s][j] = c[j]
      /\ done[p] <= Len(c)
      /\ done[p] > 0 => done[p] < Len(c)
      /\ cur[p] = Piece(c, i)
  BY DEF EncChunk, SourceInv, SourceOf
<1> HIDE DEF s, c, i, x
<1>6. CASE i <= Len(c)
  <2>1. cur[p] = <<c[i]>> /\ c[i] \in Blocks \cup {Junk}
    BY <1>1, <1>5, <1>6, PieceCases DEF Content
  <2>2. /\ book'[s] \in Content
        /\ Len(book'[s]) = i
        /\ \A j \in 1 .. i : book'[s][j] = c[j]
        /\ book'[s] # <<>>
    <3>1. Len(book[s]) + 1 = i
      BY <1>5 DEF i
    <3>2. \A j \in 1 .. i : j \in 1 .. Len(book[s]) \/ j = Len(book[s]) + 1
      BY <1>1, <3>1
    <3>3. /\ book'[s] \in Content
          /\ Len(book'[s]) = i
          /\ \A j \in 1 .. Len(book[s]) : book'[s][j] = book[s][j]
          /\ book'[s][i] = c[i]
          /\ book'[s] # <<>>
      BY <1>1, <1>4, <2>1, <3>1, AppendBlock
    <3>4. \A j \in 1 .. Len(book[s]) : book[s][j] = c[j]
      BY <1>5
    <3> QED BY <3>1, <3>2, <3>3, <3>4
  <2>3. Piece(book'[s], i) = <<c[i]>>
    BY <1>1, <2>2, PieceCases
  <2>4. last => Len(c) = i
    BY <1>1, <1>6, PieceCases DEF Content
  <2>5. ~last => i < Len(c)
    <3>1. i + 1 \in Nat /\ i + 1 >= 1 /\ Len(c) \in Nat
      BY <1>1 DEF Content
    <3>2. i + 1 > Len(c) => last
      BY <1>1, <3>1, PieceCases
    <3> QED BY <1>1, <3>1, <3>2
  <2>6. last => book'[s] = c
    BY <1>1, <2>2, <2>4, ContentEqual
  <2>7. last => ChunkCount(c) = i
    BY <2>2, <2>4, <2>6 DEF ChunkCount
  <2> QED
    BY <1>1, <1>2, <1>3, <1>5, <2>1, <2>2, <2>3, <2>5, <2>6, <2>7 DEF s, c, i, x
<1>7. CASE i > Len(c)
  <2>1. done[p] = 0 /\ Len(c) = 0 /\ c = <<>>
    BY <1>1, <1>5, <1>7 DEF i, Content
  <2>2. cur[p] = <<>> /\ book[s] = <<>> /\ book'[s] = <<>>
    <3>1. cur[p] = <<>>
      BY <1>1, <1>5, <1>7, PieceCases
    <3>2. book[s] = <<>>
      BY <1>1, <1>5, <2>1 DEF Content
    <3> QED BY <1>4, <3>1, <3>2
  <2>3. last
    BY <2>1 DEF Piece, i
  <2>4. Piece(<<>>, i) = <<>> /\ ChunkCount(<<>>) = 1 /\ i = 1
    BY <2>1 DEF Piece, ChunkCount, i
  <2> QED
    BY <1>1, <1>2, <1>3, <2>1, <2>2, <2>3, <2>4 DEF s, c, i, x
<1>8. Len(c) \in Nat
  BY <1>1 DEF Content
<1>9. i <= Len(c) \/ i > Len(c)
  BY ONLY <1>1, <1>8
<1> QED BY <1>6, <1>7, <1>9

(* Files and what is sealed are as before, and so is every process that the *)
(* step leaves between its first read and its flush.                        *)
SourceKept ==
    /\ data' = data /\ book' = book
    /\ \A q \in Procs : pc'[q] \in {"e_chunk", "e_flush"} =>
          /\ pc'[q] = pc[q] /\ fd'[q] = fd[q] /\ key'[q] = key[q]
          /\ done'[q] = done[q] /\ cur'[q] = cur[q]

(* Such a step changes nothing the invariant speaks of.                     *)
LEMMA SourceFrame ==
    ASSUME SourceInv, SourceKept PROVE SourceInv'
  BY DEF SourceInv, SourceKept

(* Nobody but the holder of the vault's lock changes a plaintext.           *)
LEMMA SourceStep ==
    ASSUME TypeOK, HandleInv, VaultMutex, KeyInv, SourceInv, [Next]_vars
    PROVE  SourceInv'
<1> USE NoneAssumption, NoSaltAssumption DEF TypeOK, FilesOK, LocksOK,
        LocalsOK, HistoryOK, files, locks, locals, history, vars
<1>0. \A p \in Procs : Fail(p) => SourceKept
  BY DEF Fail, Return, SourceKept
<1>1. ASSUME NEW p \in Procs, EncStart(p) PROVE SourceKept
  BY <1>1 DEF SourceKept, EncStart, Goto
<1>2. ASSUME NEW p \in Procs, NotFound(p) PROVE SourceKept
  BY <1>2 DEF SourceKept, NotFound
<1>3. ASSUME NEW p \in Procs, EncAbort(p) PROVE SourceKept
  BY <1>3, <1>0 DEF EncAbort
<1>4. ASSUME NEW p \in Procs, EncOpenSrc(p) PROVE SourceKept
  <2>1. CASE ~Fail(p)
    BY <1>4, <2>1 DEF SourceKept, EncOpenSrc, Goto
  <2>2. CASE Fail(p)
    BY <2>2, <1>0
  <2> QED BY <2>1, <2>2
<1>5. ASSUME NEW p \in Procs, EncLockSrc(p) PROVE SourceKept
  <2>1. CASE ~Fail(p)
    BY <1>5, <2>1 DEF SourceKept, EncLockSrc, TryLockPlain, Goto
  <2>2. CASE Fail(p)
    BY <2>2, <1>0
  <2> QED BY <2>1, <2>2
<1>6. ASSUME NEW p \in Procs, EncOpenDst(p) PROVE SourceKept
  BY <1>6 DEF SourceKept, EncOpenDst, Goto
<1>7. ASSUME NEW p \in Procs, EncLockDst(p) PROVE SourceKept
  <2>1. CASE ~Fail(p)
    BY <1>7, <2>1 DEF SourceKept, EncLockDst, TryLockVault, Goto
  <2>2. CASE Fail(p)
    BY <2>2, <1>0
  <2> QED BY <2>1, <2>2
<1>8. ASSUME NEW p \in Procs, EncFirstRead(p) PROVE SourceInv'
  <2>1. fd[p] \in Inodes /\ key[p] \in Salts /\ done[p] = 0 /\ book[key[p]] = <<>>
    BY <1>8 DEF EncFirstRead, HandleInv, KeyInv, Open, SealingSteps, Unsealed, NotStarted
  <2>2. Len(data[fd[p]]) \in Nat
    BY <2>1 DEF Content
  <2> QED BY <1>8, <2>1, <2>2 DEF EncFirstRead, Goto, SourceInv, SourceOf
<1>9. ASSUME NEW p \in Procs, EncChunk(p) PROVE SourceInv'
  <2> DEFINE s == key[p]
             c == data[fd[p]]
             i == done[p] + 1
             last == Piece(c, i + 1) = <<>>
  <2>1. pc[p] = "e_chunk" /\ fd[p] \in Inodes /\ s \in Salts /\ i \in Nat /\ i >= 1
    BY <1>9 DEF EncChunk, HandleInv, Open, SealingSteps
  <2>2. /\ ~last => /\ Len(book'[s]) = i
                    /\ \A j \in 1 .. i : book'[s][j] = c[j]
                    /\ i < Len(c)
        /\ last => book'[s] = c
    BY <1>9, SealStep
  <2>3. /\ data' = data /\ fd' = fd /\ key' = key
        /\ pc' = [pc EXCEPT ![p] = IF last THEN "e_flush" ELSE "e_chunk"]
        /\ done' = [done EXCEPT ![p] = i]
        /\ cur' = [cur EXCEPT ![p] = Piece(c, i + 1)]
    BY <1>9 DEF EncChunk, Goto
  <2>4. \A q \in Procs : q # p => pc'[q] \notin {"e_chunk", "e_flush"}
    BY <2>1, <2>3, VaultAlone DEF HoldsVault
  <2>5. /\ pc'[p] = (IF last THEN "e_flush" ELSE "e_chunk")
        /\ done'[p] = i /\ cur'[p] = Piece(c, i + 1)
    BY <2>3
  <2>6. Len(c) \in Nat
    BY <2>1 DEF Content
  <2> HIDE DEF last, i, c, s
  <2>7. data'[fd'[p]] = c /\ book'[key'[p]] = book'[s]
    BY <2>3 DEF c, s
  <2>8. SourceOf(c, book'[s], i, Piece(c, i + 1), pc'[p])
    <3>1. CASE last
      BY ONLY <2>2, <2>5, <3>1 DEF SourceOf
    <3>2. CASE ~last
      <4>1. i <= Len(c) /\ i < Len(c)
        BY ONLY <2>1, <2>2, <2>6, <3>2
      <4> QED BY ONLY <2>2, <2>5, <3>2, <4>1 DEF SourceOf
    <3> QED BY <3>1, <3>2
  <2> QED BY <2>4, <2>5, <2>7, <2>8 DEF SourceInv
<1>10. ASSUME NEW p \in Procs, EncIoError(p) PROVE SourceKept
  BY <1>10 DEF SourceKept, EncIoError, Return
<1>11. ASSUME NEW p \in Procs, EncFlush(p) PROVE SourceKept
  BY <1>11 DEF SourceKept, EncFlush, Goto
<1>12. ASSUME NEW p \in Procs, EncReturn(p) PROVE SourceKept
  BY <1>12, <1>0 DEF EncReturn
<1>13. ASSUME NEW p \in Procs, ShredOpen(p) PROVE SourceKept
  <2>1. CASE ~Fail(p)
    BY <1>13, <2>1 DEF SourceKept, ShredOpen, Goto
  <2>2. CASE Fail(p)
    BY <2>2, <1>0
  <2> QED BY <2>1, <2>2
<1>14. ASSUME NEW p \in Procs, ShredLock(p) PROVE SourceKept
  BY <1>14 DEF SourceKept, ShredLock, TryLockPlain, Goto
<1>15. ASSUME NEW p \in Procs, ShredWipe(p) PROVE SourceInv'
  <2>1. \A q \in Procs : pc'[q] \in {"e_chunk", "e_flush"} => FALSE
    BY <1>15, VaultAlone DEF ShredWipe, Goto, HoldsVault
  <2> QED BY <2>1 DEF SourceInv
<1>16. ASSUME NEW p \in Procs, ShredTruncate(p) PROVE SourceInv'
  <2>1. \A q \in Procs : pc'[q] \in {"e_chunk", "e_flush"} => FALSE
    BY <1>16, VaultAlone DEF ShredTruncate, Goto, HoldsVault
  <2> QED BY <2>1 DEF SourceInv
<1>17. ASSUME NEW p \in Procs, ShredIoError(p) PROVE SourceInv'
  <2>1. \A q \in Procs : pc'[q] \in {"e_chunk", "e_flush"} => FALSE
    BY <1>17, VaultAlone DEF ShredIoError, Return, HoldsVault
  <2> QED BY <2>1 DEF SourceInv
<1>18. ASSUME NEW p \in Procs, ShredUnlink(p) PROVE SourceKept
  <2>1. CASE ~Fail(p)
    BY <1>18, <2>1 DEF SourceKept, ShredUnlink, Unlink, Goto
  <2>2. CASE Fail(p)
    BY <2>2, <1>0
  <2> QED BY <2>1, <2>2
<1>19. ASSUME NEW p \in Procs, DecStart(p) PROVE SourceKept
  BY <1>19 DEF SourceKept, DecStart, Goto
<1>20. ASSUME NEW p \in Procs, DecLockSrc(p) PROVE SourceKept
  <2>1. CASE ~Fail(p)
    BY <1>20, <2>1 DEF SourceKept, DecLockSrc, TryLockVault, Goto
  <2>2. CASE Fail(p)
    BY <2>2, <1>0
  <2> QED BY <2>1, <2>2
<1>21. ASSUME NEW p \in Procs, DecHeader(p) PROVE SourceKept
  <2>1. CASE ~Fail(p)
    <3>1. /\ key' = [key EXCEPT ![p] = hdr]
          /\ pc' = [pc EXCEPT ![p] = "d_keyed"]
          /\ UNCHANGED <<files, locks, fd, cur, done, used, history>>
      BY <1>21, <2>1 DEF DecHeader, Goto
    <3> QED BY <3>1 DEF SourceKept
  <2>2. CASE Fail(p)
    BY <2>2, <1>0
  <2> QED BY <2>1, <2>2
<1>22. ASSUME NEW p \in Procs, DecReject(p) PROVE SourceKept
  BY <1>22, <1>0 DEF DecReject
<1>23. ASSUME NEW p \in Procs, DecOpenDst(p) PROVE SourceInv'
  <2>1. \A q \in Procs : pc'[q] \in {"e_chunk", "e_flush"} => FALSE
    BY <1>23, VaultAlone DEF DecOpenDst, Goto, HoldsVault
  <2> QED BY <2>1 DEF SourceInv
<1>24. ASSUME NEW p \in Procs, DecLockDst(p) PROVE SourceKept
  <2>1. CASE ~Fail(p)
    BY <1>24, <2>1 DEF SourceKept, DecLockDst, TryLockPlain, Goto
  <2>2. CASE Fail(p)
    BY <2>2, <1>0
  <2> QED BY <2>1, <2>2
<1>25. ASSUME NEW p \in Procs, DecChunk(p) PROVE SourceInv'
  <2>1. pc[p] = "d_chunk" /\ (pc' = pc \/ pc' = [pc EXCEPT ![p] = "d_clean"])
    BY <1>25 DEF DecChunk, Goto
  <2>2. \A q \in Procs : pc'[q] \in {"e_chunk", "e_flush"} => FALSE
    BY <2>1, VaultAlone DEF HoldsVault
  <2> QED BY <2>2 DEF SourceInv
<1>26. ASSUME NEW p \in Procs, DecFlush(p) PROVE SourceKept
  BY <1>26 DEF SourceKept, DecFlush, Goto
<1>27. ASSUME NEW p \in Procs, DecIoError(p) PROVE SourceKept
  BY <1>27 DEF SourceKept, DecIoError, Goto
<1>28. ASSUME NEW p \in Procs, DecCleanup(p) PROVE SourceKept
  BY <1>28 DEF SourceKept, DecCleanup, Unlink, Return
<1>29. ASSUME NEW p \in Procs, DecReturn(p) PROVE SourceKept
  BY <1>29, <1>0 DEF DecReturn
<1>30. ASSUME NEW p \in Procs, Kill(p) PROVE SourceInv'
  <2>1. CASE UNCHANGED data
    BY <1>30, <2>1, SourceFrame DEF SourceKept, Kill, Return
  <2>2. CASE pc[p] \in {"s_wipe", "d_chunk"}
    <3>1. \A q \in Procs : pc'[q] \in {"e_chunk", "e_flush"} => FALSE
      BY <1>30, <2>2, VaultAlone DEF Kill, Return, HoldsVault
    <3> QED BY <3>1 DEF SourceInv
  <2> QED BY <1>30, <2>1, <2>2 DEF Kill, PlainCut
<1>31. ASSUME Rot PROVE SourceKept
  BY <1>31 DEF SourceKept, Rot
<1>32. ASSUME UNCHANGED vars PROVE SourceKept
  BY <1>32 DEF SourceKept
<1> QED
  BY SourceFrame, <1>1, <1>2, <1>3, <1>4, <1>5, <1>6, <1>7, <1>8, <1>9,
     <1>10, <1>11, <1>12, <1>13, <1>14, <1>15, <1>16, <1>17, <1>18, <1>19,
     <1>20, <1>21, <1>22, <1>23, <1>24, <1>25, <1>26, <1>27, <1>28, <1>29,
     <1>30, <1>31, <1>32
     DEF Next, Step

----------------------------------------------------------------------------
(* The chunks of the vault.                                                 *)

(* Chunk c is damaged, or it is what its encryption sealed at its position, *)
(* and the one with the last flag is the last of a finished encryption.     *)
Genuine(c, bk, sl) ==
    c.salt # NoSalt =>
        /\ c.idx >= 1
        /\ c.piece = Piece(bk[c.salt], c.idx)
        /\ c.last => /\ c.salt \in sl
                     /\ c.idx = ChunkCount(bk[c.salt])
        /\ ~c.last => c.idx <= Len(bk[c.salt])

(* Every chunk in the file, or in a reader's buffer, is genuine.            *)
GenuineInv ==
    /\ \A i \in 1 .. Len(body) : Genuine(body[i], book, sealed)
    /\ \A p \in Procs : \A i \in 1 .. Len(buf[p]) : Genuine(buf[p][i], book, sealed)


(* The front of a vault, and the front with a cut chunk.                    *)
LEMMA FrontChunks ==
    ASSUME NEW s \in Seq(Chunk), NEW k \in 0 .. Len(s)
    PROVE  /\ \A i \in 1 .. Len(SubSeq(s, 1, k)) :
                 i \in 1 .. Len(s) /\ SubSeq(s, 1, k)[i] = s[i]
           /\ \A i \in 1 .. Len(Append(SubSeq(s, 1, k), Torn)) :
                 LET t == Append(SubSeq(s, 1, k), Torn) IN
                 t[i] = Torn \/ (i \in 1 .. Len(s) /\ t[i] = s[i])
<1>1. Torn \in Chunk
  BY DEF Torn, Chunk
<1>2. SubSeq(s, 1, k) \in Seq(Chunk) /\ Len(SubSeq(s, 1, k)) = k
  OBVIOUS
<1> QED BY <1>1, <1>2

(* Chunks are what they were or torn, and a reader takes over at most the   *)
(* chunks of the file.                                                      *)
FromBody(t) ==
    \A i \in 1 .. Len(t) :
        t[i] = Torn \/ (i \in 1 .. Len(body) /\ t[i] = body[i])

GenuineKept ==
    /\ book' = book /\ sealed' = sealed
    /\ FromBody(body')
    /\ \A q \in Procs : buf'[q] \in {buf[q], <<>>, body}

(* Nothing that comes of this is passed off as a chunk it is not.           *)
LEMMA GenuineFrame ==
    ASSUME GenuineInv, GenuineKept PROVE GenuineInv'
<1>1. Genuine(Torn, book, sealed)
  BY DEF Genuine, Torn
<1>2. \A i \in 1 .. Len(body') : Genuine(body'[i], book, sealed)
  BY <1>1 DEF GenuineInv, GenuineKept, FromBody
<1>3. \A q \in Procs : \A i \in 1 .. Len(buf'[q]) : Genuine(buf'[q][i], book, sealed)
  <2> SUFFICES ASSUME NEW q \in Procs, NEW i \in 1 .. Len(buf'[q])
               PROVE  Genuine(buf'[q][i], book, sealed)
    OBVIOUS
  <2>1. CASE buf'[q] = buf[q]
    BY <2>1 DEF GenuineInv
  <2>2. CASE buf'[q] = <<>>
    BY <2>2
  <2>3. CASE buf'[q] = body
    BY <2>3 DEF GenuineInv
  <2> QED BY <2>1, <2>2, <2>3 DEF GenuineKept
<1> QED BY <1>2, <1>3 DEF GenuineInv, GenuineKept

(* Blocks sealed later do not change what was sealed at earlier positions.  *)
LEMMA PieceStable ==
    ASSUME NEW b \in Content, NEW x \in Content, NEW j \in Nat, j >= 1, j <= Len(b)
    PROVE  Piece(b \o x, j) = Piece(b, j) /\ j <= Len(b \o x)
<1>1. b \o x \in Content /\ Len(b \o x) = Len(b) + Len(x) /\ Len(x) \in Nat /\ Len(b) \in Nat
  BY DEF Content
<1>2. j <= Len(b \o x)
  BY <1>1
<1>3. (b \o x)[j] = b[j]
  BY DEF Content
<1>4. Piece(b, j) = <<b[j]>> /\ Piece(b \o x, j) = <<(b \o x)[j]>>
  BY <1>1, <1>2, PieceCases
<1> QED BY <1>2, <1>3, <1>4

(* A genuine chunk stays genuine while its encryption goes on.              *)
LEMMA GenuineStable ==
    ASSUME TypeOK, KeyInv, NEW p \in Procs, pc[p] \in SealingSteps, key[p] \in Salts,
           NEW x \in Content,
           book' = [book EXCEPT ![key[p]] = @ \o x],
           sealed' \in {sealed, sealed \cup {key[p]}},
           NEW c \in Chunk, Genuine(c, book, sealed)
    PROVE  Genuine(c, book', sealed')
<1>1. key[p] \notin sealed
  BY DEF KeyInv
<1>2. CASE c.salt = NoSalt
  BY <1>2 DEF Genuine
<1>3. CASE c.salt # NoSalt /\ c.salt # key[p]
  <2>1. book'[c.salt] = book[c.salt] /\ (c.salt \in sealed => c.salt \in sealed')
    BY <1>3 DEF Chunk, TypeOK, HistoryOK
  <2> QED BY <1>3, <2>1 DEF Genuine
<1>4. CASE c.salt = key[p] /\ key[p] # NoSalt
  <2>1. ~c.last /\ c.idx >= 1 /\ c.idx <= Len(book[key[p]])
        /\ c.piece = Piece(book[key[p]], c.idx) /\ c.idx \in Nat
    BY <1>1, <1>4 DEF Genuine, Chunk
  <2>2. book'[key[p]] = book[key[p]] \o x /\ book[key[p]] \in Content
    BY DEF TypeOK, HistoryOK
  <2>3. Piece(book'[key[p]], c.idx) = Piece(book[key[p]], c.idx) /\ c.idx <= Len(book'[key[p]])
    BY <2>1, <2>2, PieceStable
  <2> QED BY <1>4, <2>1, <2>3 DEF Genuine
<1> QED BY <1>2, <1>3, <1>4

(* What an interrupted writer leaves of the vault comes from the vault.     *)
LEMMA InterruptedBody ==
    ASSUME TypeOK, NEW p \in Procs, Interrupted(p)
    PROVE  FromBody(body')
<1> DEFINE n == Len(body)
<1>1. body \in Seq(Chunk) /\ n \in Nat
  BY DEF TypeOK, FilesOK
<1>2. CASE body' = body
  BY <1>2 DEF FromBody
<1>3. CASE body' = Append(body, Torn)
  <2>1. SubSeq(body, 1, n) = body
    BY <1>1
  <2> QED BY <1>1, <1>3, <2>1, FrontChunks DEF FromBody
<1>4. ASSUME body # <<>>, body' \in {SubSeq(body, 1, n - 1), Append(SubSeq(body, 1, n - 1), Torn)}
      PROVE FromBody(body')
  <2>1. n - 1 \in 0 .. n
    BY <1>1, <1>4
  <2> HIDE DEF n
  <2>2. n = Len(body)
    BY DEF n
  <2> QED BY <1>1, <1>4, <2>1, <2>2, FrontChunks DEF FromBody
<1> QED BY <1>2, <1>3, <1>4 DEF Interrupted

(* Only the encryption loop writes chunks that authenticate.                *)
LEMMA GenuineStep ==
    ASSUME TypeOK, HandleInv, KeyInv, SourceInv, GenuineInv, [Next]_vars
    PROVE  GenuineInv'
<1> USE NoneAssumption, NoSaltAssumption DEF TypeOK, FilesOK, LocksOK,
        LocalsOK, HistoryOK, files, locks, locals, history, vars
<1>0. \A p \in Procs : Fail(p) => GenuineKept
  BY DEF Fail, Return, GenuineKept, FromBody
<1>1. ASSUME NEW p \in Procs, EncStart(p) PROVE GenuineKept
  BY <1>1 DEF GenuineKept, FromBody, EncStart, Goto
<1>2. ASSUME NEW p \in Procs, NotFound(p) PROVE GenuineKept
  BY <1>2 DEF GenuineKept, FromBody, NotFound
<1>3. ASSUME NEW p \in Procs, EncAbort(p) PROVE GenuineKept
  BY <1>3, <1>0 DEF EncAbort
<1>4. ASSUME NEW p \in Procs, EncOpenSrc(p) PROVE GenuineKept
  <2>1. CASE ~Fail(p)
    BY <1>4, <2>1 DEF GenuineKept, FromBody, EncOpenSrc, Goto
  <2>2. CASE Fail(p)
    BY <2>2, <1>0
  <2> QED BY <2>1, <2>2
<1>5. ASSUME NEW p \in Procs, EncLockSrc(p) PROVE GenuineKept
  <2>1. CASE ~Fail(p)
    BY <1>5, <2>1 DEF GenuineKept, FromBody, EncLockSrc, TryLockPlain, Goto
  <2>2. CASE Fail(p)
    BY <2>2, <1>0
  <2> QED BY <2>1, <2>2
<1>6. ASSUME NEW p \in Procs, EncOpenDst(p) PROVE GenuineKept
  BY <1>6 DEF GenuineKept, FromBody, EncOpenDst, Goto
<1>7. ASSUME NEW p \in Procs, EncLockDst(p) PROVE GenuineKept
  <2>1. CASE ~Fail(p)
    BY <1>7, <2>1 DEF GenuineKept, FromBody, EncLockDst, TryLockVault, Goto
  <2>2. CASE Fail(p)
    BY <2>2, <1>0
  <2> QED BY <2>1, <2>2
<1>8. ASSUME NEW p \in Procs, EncFirstRead(p) PROVE GenuineKept
  BY <1>8 DEF GenuineKept, FromBody, EncFirstRead, Goto
<1>9. ASSUME NEW p \in Procs, EncChunk(p) PROVE GenuineInv'
  <2> DEFINE s == key[p]
             c == data[fd[p]]
             i == done[p] + 1
             last == Piece(c, i + 1) = <<>>
             x == [salt |-> s, idx |-> i, piece |-> cur[p], last |-> last]
  <2>1. /\ pc[p] \in SealingSteps /\ s \in Salts /\ i \in Nat /\ i >= 1 /\ c \in Content
        /\ buf' = buf /\ body \in Seq(Chunk) /\ book \in [Salts -> Content]
    BY <1>9 DEF EncChunk, HandleInv, Open, SealingSteps
  <2>2. /\ x \in Chunk
        /\ body' = Put(body, i, x)
        /\ book' = [book EXCEPT ![s] = @ \o cur[p]]
        /\ cur[p] \in Content
        /\ sealed' = IF last THEN sealed \cup {s} ELSE sealed
        /\ ~last => Len(book'[s]) = i
        /\ last => book'[s] = c
        /\ x.piece = Piece(book'[s], i)
        /\ last => i = ChunkCount(c)
    BY <1>9, SealStep
  <2>3. Genuine(x, book', sealed')
    <3>1. x.salt = s /\ x.idx = i /\ x.last = last
      OBVIOUS
    <3>2. last => s \in sealed' /\ i = ChunkCount(book'[s])
      BY <2>2
    <3>3. ~last => i <= Len(book'[s])
      BY <2>1, <2>2
    <3> HIDE DEF x, last
    <3> QED BY <2>1, <2>2, <3>1, <3>2, <3>3 DEF Genuine
  <2>4. \A g \in Chunk : Genuine(g, book, sealed) => Genuine(g, book', sealed')
    <3>1. sealed' \in {sealed, sealed \cup {s}}
      BY <2>2
    <3> QED BY <2>1, <2>2, <3>1, GenuineStable
  <2>5. Genuine(Torn, book', sealed')
    BY DEF Genuine, Torn
  <2> HIDE DEF x, last, i, c, s
  <2>6. \A j \in 1 .. Len(body') : Genuine(body'[j], book', sealed')
    <3> SUFFICES ASSUME NEW j \in 1 .. Len(body') PROVE Genuine(body'[j], book', sealed')
      OBVIOUS
    <3>1. body'[j] = x \/ body'[j] = Torn \/ (j \in 1 .. Len(body) /\ body'[j] = body[j])
      <4>1. i \in Nat /\ i >= 1 /\ body \in Seq(Chunk) /\ x \in Chunk
        BY ONLY <2>1, <2>2
      <4>2. \A k \in 1 .. Len(Put(body, i, x)) :
               \/ Put(body, i, x)[k] = x
               \/ Put(body, i, x)[k] = Torn
               \/ k \in 1 .. Len(body) /\ Put(body, i, x)[k] = body[k]
        BY ONLY <4>1, PutType
      <4>3. body' = Put(body, i, x)
        BY ONLY <2>2
      <4>4. j \in 1 .. Len(Put(body, i, x))
        BY ONLY <4>3, j \in 1 .. Len(body')
      <4> QED BY ONLY <4>2, <4>3, <4>4
    <3>2. ASSUME j \in 1 .. Len(body) PROVE Genuine(body[j], book', sealed')
      <4>1. body[j] \in Chunk
        BY <2>1, <3>2
      <4> QED BY <2>4, <3>2, <4>1 DEF GenuineInv
    <3> QED BY <2>3, <2>5, <3>1, <3>2
  <2>7. \A q \in Procs : \A j \in 1 .. Len(buf[q]) : Genuine(buf[q][j], book', sealed')
    <3> SUFFICES ASSUME NEW q \in Procs, NEW j \in 1 .. Len(buf[q])
                 PROVE  Genuine(buf[q][j], book', sealed')
      OBVIOUS
    <3>1. buf[q] \in Seq(Chunk)
      OBVIOUS
    <3>2. buf[q][j] \in Chunk
      BY <3>1
    <3> QED BY <2>4, <3>2 DEF GenuineInv
  <2> QED BY <2>1, <2>6, <2>7 DEF GenuineInv
<1>10. ASSUME NEW p \in Procs, EncIoError(p) PROVE GenuineKept
  <2>1. FromBody(body')
    BY <1>10, InterruptedBody DEF EncIoError
  <2>2. UNCHANGED <<book, sealed>> /\ buf' = [buf EXCEPT ![p] = <<>>]
    BY <1>10 DEF EncIoError, Return
  <2> QED BY <2>1, <2>2 DEF GenuineKept
<1>11. ASSUME NEW p \in Procs, EncFlush(p) PROVE GenuineKept
  BY <1>11 DEF GenuineKept, FromBody, EncFlush, Goto
<1>12. ASSUME NEW p \in Procs, EncReturn(p) PROVE GenuineKept
  BY <1>12, <1>0 DEF EncReturn
<1>13. ASSUME NEW p \in Procs, ShredOpen(p) PROVE GenuineKept
  <2>1. CASE ~Fail(p)
    BY <1>13, <2>1 DEF GenuineKept, FromBody, ShredOpen, Goto
  <2>2. CASE Fail(p)
    BY <2>2, <1>0
  <2> QED BY <2>1, <2>2
<1>14. ASSUME NEW p \in Procs, ShredLock(p) PROVE GenuineKept
  BY <1>14 DEF GenuineKept, FromBody, ShredLock, TryLockPlain, Goto
<1>15. ASSUME NEW p \in Procs, ShredWipe(p) PROVE GenuineKept
  BY <1>15 DEF GenuineKept, FromBody, ShredWipe, Goto
<1>16. ASSUME NEW p \in Procs, ShredTruncate(p) PROVE GenuineKept
  BY <1>16 DEF GenuineKept, FromBody, ShredTruncate, Goto
<1>17. ASSUME NEW p \in Procs, ShredIoError(p) PROVE GenuineKept
  BY <1>17 DEF GenuineKept, FromBody, ShredIoError, Return
<1>18. ASSUME NEW p \in Procs, ShredUnlink(p) PROVE GenuineKept
  <2>1. CASE ~Fail(p)
    BY <1>18, <2>1 DEF GenuineKept, FromBody, ShredUnlink, Unlink, Goto
  <2>2. CASE Fail(p)
    BY <2>2, <1>0
  <2> QED BY <2>1, <2>2
<1>19. ASSUME NEW p \in Procs, DecStart(p) PROVE GenuineKept
  BY <1>19 DEF GenuineKept, FromBody, DecStart, Goto
<1>20. ASSUME NEW p \in Procs, DecLockSrc(p) PROVE GenuineKept
  <2>1. CASE ~Fail(p)
    BY <1>20, <2>1 DEF GenuineKept, FromBody, DecLockSrc, TryLockVault, Goto
  <2>2. CASE Fail(p)
    BY <2>2, <1>0
  <2> QED BY <2>1, <2>2
<1>21. ASSUME NEW p \in Procs, DecHeader(p) PROVE GenuineKept
  <2>1. CASE ~Fail(p)
    <3>1. /\ buf' \in {[buf EXCEPT ![p] = <<>>], [buf EXCEPT ![p] = body]}
          /\ UNCHANGED <<body, book, sealed>>
      BY <1>21, <2>1 DEF DecHeader
    <3> QED BY <3>1 DEF GenuineKept, FromBody
  <2>2. CASE Fail(p)
    BY <2>2, <1>0
  <2> QED BY <2>1, <2>2
<1>22. ASSUME NEW p \in Procs, DecReject(p) PROVE GenuineKept
  BY <1>22, <1>0 DEF DecReject
<1>23. ASSUME NEW p \in Procs, DecOpenDst(p) PROVE GenuineKept
  BY <1>23 DEF GenuineKept, FromBody, DecOpenDst, Goto
<1>24. ASSUME NEW p \in Procs, DecLockDst(p) PROVE GenuineKept
  <2>1. CASE ~Fail(p)
    BY <1>24, <2>1 DEF GenuineKept, FromBody, DecLockDst, TryLockPlain, Goto
  <2>2. CASE Fail(p)
    BY <2>2, <1>0
  <2> QED BY <2>1, <2>2
<1>25. ASSUME NEW p \in Procs, DecChunk(p) PROVE GenuineKept
  BY <1>25 DEF GenuineKept, FromBody, DecChunk, Goto
<1>26. ASSUME NEW p \in Procs, DecFlush(p) PROVE GenuineKept
  BY <1>26 DEF GenuineKept, FromBody, DecFlush, Goto
<1>27. ASSUME NEW p \in Procs, DecIoError(p) PROVE GenuineKept
  BY <1>27 DEF GenuineKept, FromBody, DecIoError, Goto
<1>28. ASSUME NEW p \in Procs, DecCleanup(p) PROVE GenuineKept
  BY <1>28 DEF GenuineKept, FromBody, DecCleanup, Unlink, Return
<1>29. ASSUME NEW p \in Procs, DecReturn(p) PROVE GenuineKept
  BY <1>29, <1>0 DEF DecReturn
<1>30. ASSUME NEW p \in Procs, Kill(p) PROVE GenuineKept
  <2>1. FromBody(body')
    BY <1>30, InterruptedBody DEF Kill
  <2>2. UNCHANGED <<book, sealed>> /\ buf' = [buf EXCEPT ![p] = <<>>]
    BY <1>30 DEF Kill, Return
  <2> QED BY <2>1, <2>2 DEF GenuineKept
<1>31. ASSUME Rot PROVE GenuineKept
  <2>1. UNCHANGED <<book, sealed, buf>>
    BY <1>31 DEF Rot
  <2>2. CASE UNCHANGED body
    BY <2>1, <2>2 DEF GenuineKept, FromBody
  <2>3. CASE \E i \in 1 .. Len(body) :
                body' = [body EXCEPT ![i] = Torn] \/ body' = SubSeq(body, 1, i - 1)
    <3>1. PICK i \in 1 .. Len(body) :
                body' = [body EXCEPT ![i] = Torn] \/ body' = SubSeq(body, 1, i - 1)
      BY <2>3
    <3>2. body \in Seq(Chunk) /\ i - 1 \in 0 .. Len(body)
      OBVIOUS
    <3>3. CASE body' = SubSeq(body, 1, i - 1)
      BY <2>1, <3>2, <3>3, FrontChunks DEF GenuineKept, FromBody
    <3>4. CASE body' = [body EXCEPT ![i] = Torn]
      BY <2>1, <3>2, <3>4 DEF GenuineKept, FromBody
    <3> QED BY <3>1, <3>3, <3>4
  <2> QED BY <1>31, <2>2, <2>3 DEF Rot
<1>32. ASSUME UNCHANGED vars PROVE GenuineKept
  BY <1>32 DEF GenuineKept, FromBody
<1> QED
  BY GenuineFrame, <1>1, <1>2, <1>3, <1>4, <1>5, <1>6, <1>7, <1>8, <1>9,
     <1>10, <1>11, <1>12, <1>13, <1>14, <1>15, <1>16, <1>17, <1>18, <1>19,
     <1>20, <1>21, <1>22, <1>23, <1>24, <1>25, <1>26, <1>27, <1>28, <1>29,
     <1>30, <1>31, <1>32
     DEF Next, Step

----------------------------------------------------------------------------
(* The decryption's output.                                                 *)

\* Every chunk has been accepted.
Finished(p) == pc[p] = "d_done" \/ (pc[p] = "d_chunk" /\ done[p] = total[p])

(* The output file is at the plaintext path and contains the blocks of the  *)
(* chunks accepted so far; once the last chunk is accepted, everything.     *)
OutputOf(p) ==
    LET c == data[fd[p]]
        b == book[key[p]]
        d == done[p] IN
    /\ pc[p] \in Output => plainAt = fd[p]
    /\ pc[p] = "d_dst" => c = <<>>
    /\ pc[p] = "d_chunk" =>
          /\ d <= total[p]
          /\ d < total[p] => /\ Len(c) = d
                             /\ d <= Len(b)
                             /\ \A i \in 1 .. d : c[i] = b[i]
    /\ total[p] > 0 /\ Finished(p) => key[p] \in sealed /\ c = b

OutputInv == \A p \in Procs : OutputOf(p)

(* The next block of b after the d that c has.                              *)
LEMMA AcceptStep ==
    ASSUME NEW b \in Content, NEW c \in Content, NEW d \in Nat,
           Len(c) = d, d <= Len(b), \A i \in 1 .. d : c[i] = b[i]
    PROVE  /\ d + 1 <= Len(b) =>
                 /\ Len(c \o Piece(b, d + 1)) = d + 1
                 /\ \A i \in 1 .. d + 1 : (c \o Piece(b, d + 1))[i] = b[i]
           /\ d + 1 = ChunkCount(b) => c \o Piece(b, d + 1) = b
<1>1. Len(b) \in Nat
  BY DEF Content
<1>2. ASSUME d + 1 <= Len(b)
      PROVE  /\ Len(c \o Piece(b, d + 1)) = d + 1
             /\ c \o Piece(b, d + 1) \in Content
             /\ \A i \in 1 .. d + 1 : (c \o Piece(b, d + 1))[i] = b[i]
  <2>1. Piece(b, d + 1) = <<b[d + 1]>> /\ b[d + 1] \in Blocks \cup {Junk}
    BY <1>1, <1>2, PieceCases DEF Content
  <2> DEFINE e == c \o Piece(b, d + 1)
  <2>2. /\ e \in Content
        /\ Len(e) = d + 1
        /\ \A i \in 1 .. d : e[i] = c[i]
        /\ e[d + 1] = b[d + 1]
    <3>1. e = c \o <<b[d + 1]>>
      BY <2>1
    <3> HIDE DEF e
    <3>2. /\ e \in Content
          /\ Len(e) = Len(c) + 1
          /\ \A j \in 1 .. Len(c) : e[j] = c[j]
          /\ e[Len(c) + 1] = b[d + 1]
      BY ONLY <2>1, <3>1, c \in Content, AppendBlock
    <3> QED BY ONLY <3>2, Len(c) = d
  <2> HIDE DEF e
  <2>3. \A i \in 1 .. d + 1 : i \in 1 .. d \/ i = d + 1
    OBVIOUS
  <2>4. \A i \in 1 .. d + 1 : e[i] = b[i]
    BY <2>2, <2>3
  <2> QED BY <2>2, <2>4 DEF e
<1>3. ASSUME d + 1 = ChunkCount(b) PROVE c \o Piece(b, d + 1) = b
  <2>1. CASE b = <<>>
    <3>1. d = 0 /\ c = <<>> /\ Piece(b, d + 1) = <<>>
      BY <2>1 DEF Piece, Content
    <3> QED BY <2>1, <3>1
  <2>2. CASE b # <<>>
    <3>1. d + 1 = Len(b)
      BY <1>3, <2>2 DEF ChunkCount
    <3>2. d + 1 <= Len(b)
      BY <3>1, <1>1
    <3> DEFINE e == c \o Piece(b, d + 1)
    <3>3. e \in Content /\ Len(e) = Len(b) /\ \A i \in 1 .. Len(b) : e[i] = b[i]
      BY <1>2, <3>1, <3>2
    <3> HIDE DEF e
    <3>4. e = b
      BY ONLY <3>3, b \in Content, ContentEqual
    <3> QED BY <3>4 DEF e
  <2> QED BY <2>1, <2>2
<1> QED BY <1>2, <1>3

(* What a decryption accepts is the next block of what its salt's           *)
(* encryption sealed, and the last block if it is accepted as such.         *)
LEMMA AcceptedPiece ==
    ASSUME TypeOK, HandleInv, GenuineInv, NEW p \in Procs, pc[p] = "d_chunk", Accepts(p)
    PROVE  LET b == book[key[p]]
               i == done[p] + 1 IN
           /\ Opened(p) = Piece(b, i)
           /\ i = total[p] => key[p] \in sealed /\ i = ChunkCount(b)
           /\ i # total[p] => i <= Len(b)
<1> DEFINE src == IF buf[p] # <<>> THEN buf[p] ELSE body
           i == done[p] + 1
<1>1. key[p] \in Salts /\ key[p] # NoSalt /\ done[p] \in Nat
  BY NoSaltAssumption DEF HandleInv, Output, TypeOK, LocalsOK
<1>2. src \in Seq(Chunk) /\ i \in 1 .. Len(src)
  BY <1>1 DEF Accepts, TypeOK, FilesOK, LocalsOK
<1>3. Genuine(src[i], book, sealed)
  BY <1>2 DEF GenuineInv
<1>4. src[i].salt = key[p] /\ src[i].idx = i /\ src[i].last = (i = total[p])
  BY DEF Accepts
<1>5. Opened(p) = src[i].piece
  BY DEF Opened
<1> HIDE DEF src
<1> QED BY <1>1, <1>3, <1>4, <1>5 DEF Genuine

(* The step leaves every output as it is, and what it should be.            *)
OutputKept ==
    \A q \in Procs : pc'[q] \in Output =>
        /\ pc'[q] = pc[q] \/ (pc'[q] = "d_clean" /\ pc[q] \in Output)
        /\ fd'[q] = fd[q] /\ key'[q] = key[q]
        /\ done'[q] = done[q] /\ total'[q] = total[q]
        /\ plainAt' = plainAt /\ data' = data /\ book' = book /\ sealed' = sealed

(* Such a step keeps the invariant of the outputs.                          *)
LEMMA OutputFrame ==
    ASSUME OutputInv, OutputKept PROVE OutputInv'
<1> SUFFICES ASSUME NEW q \in Procs PROVE OutputOf(q)'
  BY DEF OutputInv
<1>1. OutputOf(q)
  BY DEF OutputInv
<1>2. CASE pc'[q] \in Output
  BY <1>1, <1>2 DEF OutputKept, OutputOf, Finished, Output
<1>3. CASE pc'[q] \notin Output
  BY <1>3 DEF OutputOf, Finished, Output
<1> QED BY <1>2, <1>3

(* The vault's lock keeps a decryption's output from everybody else.        *)
LEMMA OutputStep ==
    ASSUME TypeOK, HandleInv, VaultMutex, KeyInv, GenuineInv, OutputInv,
           [Next]_vars
    PROVE  OutputInv'
<1> USE NoneAssumption, NoSaltAssumption DEF TypeOK, FilesOK, LocksOK,
        LocalsOK, HistoryOK, files, locks, locals, history, vars
<1>0. \A p \in Procs : Fail(p) => OutputKept
  BY DEF Fail, Return, OutputKept, Output
<1>1. ASSUME NEW p \in Procs, EncStart(p) PROVE OutputKept
  BY <1>1 DEF OutputKept, Output, EncStart, Goto
<1>2. ASSUME NEW p \in Procs, NotFound(p) PROVE OutputKept
  BY <1>2 DEF OutputKept, Output, NotFound
<1>3. ASSUME NEW p \in Procs, EncAbort(p) PROVE OutputKept
  BY <1>3, <1>0 DEF EncAbort
<1>4. ASSUME NEW p \in Procs, EncOpenSrc(p) PROVE OutputKept
  <2>1. CASE ~Fail(p)
    BY <1>4, <2>1 DEF OutputKept, Output, EncOpenSrc, Goto
  <2>2. CASE Fail(p)
    BY <2>2, <1>0
  <2> QED BY <2>1, <2>2
<1>5. ASSUME NEW p \in Procs, EncLockSrc(p) PROVE OutputKept
  <2>1. CASE ~Fail(p)
    BY <1>5, <2>1 DEF OutputKept, Output, EncLockSrc, TryLockPlain, Goto
  <2>2. CASE Fail(p)
    BY <2>2, <1>0
  <2> QED BY <2>1, <2>2
<1>6. ASSUME NEW p \in Procs, EncOpenDst(p) PROVE OutputKept
  BY <1>6 DEF OutputKept, Output, EncOpenDst, Goto
<1>7. ASSUME NEW p \in Procs, EncLockDst(p) PROVE OutputKept
  <2>1. CASE ~Fail(p)
    BY <1>7, <2>1 DEF OutputKept, Output, EncLockDst, TryLockVault, Goto
  <2>2. CASE Fail(p)
    BY <2>2, <1>0
  <2> QED BY <2>1, <2>2
<1>8. ASSUME NEW p \in Procs, EncFirstRead(p) PROVE OutputKept
  BY <1>8, VaultAlone DEF OutputKept, Output, EncFirstRead, Goto, HoldsVault
<1>9. ASSUME NEW p \in Procs, EncChunk(p) PROVE OutputKept
  <2>1. \A q \in Procs : pc'[q] \notin Output
    BY <1>9, VaultAlone DEF EncChunk, Goto, HoldsVault, Output
  <2> QED BY <2>1 DEF OutputKept
<1>10. ASSUME NEW p \in Procs, EncIoError(p) PROVE OutputKept
  BY <1>10 DEF OutputKept, Output, EncIoError, Return
<1>11. ASSUME NEW p \in Procs, EncFlush(p) PROVE OutputKept
  BY <1>11 DEF OutputKept, Output, EncFlush, Goto
<1>12. ASSUME NEW p \in Procs, EncReturn(p) PROVE OutputKept
  BY <1>12, <1>0 DEF EncReturn
<1>13. ASSUME NEW p \in Procs, ShredOpen(p) PROVE OutputKept
  <2>1. CASE ~Fail(p)
    BY <1>13, <2>1 DEF OutputKept, Output, ShredOpen, Goto
  <2>2. CASE Fail(p)
    BY <2>2, <1>0
  <2> QED BY <2>1, <2>2
<1>14. ASSUME NEW p \in Procs, ShredLock(p) PROVE OutputKept
  BY <1>14 DEF OutputKept, Output, ShredLock, TryLockPlain, Goto
<1>15. ASSUME NEW p \in Procs, ShredWipe(p) PROVE OutputKept
  <2>1. \A q \in Procs : pc'[q] \notin Output
    BY <1>15, VaultAlone DEF ShredWipe, Goto, HoldsVault, Output
  <2> QED BY <2>1 DEF OutputKept
<1>16. ASSUME NEW p \in Procs, ShredTruncate(p) PROVE OutputKept
  <2>1. \A q \in Procs : pc'[q] \notin Output
    BY <1>16, VaultAlone DEF ShredTruncate, Goto, HoldsVault, Output
  <2> QED BY <2>1 DEF OutputKept
<1>17. ASSUME NEW p \in Procs, ShredIoError(p) PROVE OutputKept
  <2>1. \A q \in Procs : pc'[q] \notin Output
    BY <1>17, VaultAlone DEF ShredIoError, Return, HoldsVault, Output
  <2> QED BY <2>1 DEF OutputKept
<1>18. ASSUME NEW p \in Procs, ShredUnlink(p) PROVE OutputKept
  <2>1. CASE ~Fail(p)
    <3>1. \A q \in Procs : pc'[q] \notin Output
      BY <1>18, <2>1, VaultAlone, ZenonT(60) DEF ShredUnlink, Unlink, Goto, HoldsVault, Output
    <3> QED BY <3>1 DEF OutputKept
  <2>2. CASE Fail(p)
    BY <2>2, <1>0
  <2> QED BY <2>1, <2>2
<1>19. ASSUME NEW p \in Procs, DecStart(p) PROVE OutputKept
  BY <1>19 DEF OutputKept, Output, DecStart, Goto
<1>20. ASSUME NEW p \in Procs, DecLockSrc(p) PROVE OutputKept
  <2>1. CASE ~Fail(p)
    BY <1>20, <2>1 DEF OutputKept, Output, DecLockSrc, TryLockVault, Goto
  <2>2. CASE Fail(p)
    BY <2>2, <1>0
  <2> QED BY <2>1, <2>2
<1>21. ASSUME NEW p \in Procs, DecHeader(p) PROVE OutputKept
  <2>1. CASE ~Fail(p)
    <3>1. /\ key' = [key EXCEPT ![p] = hdr]
          /\ pc' = [pc EXCEPT ![p] = "d_keyed"]
          /\ \E n \in Nat : total' = [total EXCEPT ![p] = n]
          /\ UNCHANGED <<files, locks, fd, cur, done, used, history>>
      <4>1. Len(body) \in Nat
        OBVIOUS
      <4> QED BY <1>21, <2>1, <4>1 DEF DecHeader, Goto
    <3> QED BY <3>1 DEF OutputKept, Output
  <2>2. CASE Fail(p)
    BY <2>2, <1>0
  <2> QED BY <2>1, <2>2
<1>22. ASSUME NEW p \in Procs, DecReject(p) PROVE OutputKept
  BY <1>22, <1>0 DEF DecReject
<1>23. ASSUME NEW p \in Procs, DecOpenDst(p) PROVE OutputInv'
  <2>1. PICK i \in Inodes :
            /\ plainAt' = i
            /\ data' = [data EXCEPT ![i] = <<>>]
            /\ fd' = [fd EXCEPT ![p] = i]
    BY <1>23 DEF DecOpenDst
  <2>2. pc[p] = "d_keyed" /\ pc' = [pc EXCEPT ![p] = "d_dst"]
    BY <1>23 DEF DecOpenDst, Goto
  <2>3. \A q \in Procs : q # p => pc'[q] \notin Output
    BY <2>2, VaultAlone DEF HoldsVault, Output
  <2>4. pc'[p] = "d_dst" /\ fd'[p] = i /\ data'[i] = <<>>
    BY <2>1, <2>2
  <2> QED BY <2>1, <2>3, <2>4 DEF OutputInv, OutputOf, Finished, Output
<1>24. ASSUME NEW p \in Procs, DecLockDst(p) PROVE OutputInv'
  <2>1. CASE ~Fail(p)
    <3>1. /\ pc[p] = "d_dst" /\ pc' = [pc EXCEPT ![p] = "d_chunk"]
          /\ UNCHANGED <<files, locals, history>>
      BY <1>24, <2>1 DEF DecLockDst, TryLockPlain, Goto
    <3>2. \A q \in Procs : q # p => pc'[q] \notin Output
      BY <3>1, VaultAlone DEF HoldsVault, Output
    <3>3. done[p] = 0 /\ total[p] \in Nat /\ key[p] \in Salts
      BY <3>1 DEF KeyInv, NotStarted, HandleInv, Output
    <3>4. plainAt = fd[p] /\ data[fd[p]] = <<>>
      BY <3>1 DEF OutputInv, OutputOf, Output
    <3>5. Len(book[key[p]]) \in Nat
      BY <3>3 DEF Content
    <3>6. OutputOf(p)'
      BY <3>1, <3>3, <3>4, <3>5 DEF OutputOf, Finished, Output
    <3> QED BY <3>2, <3>6 DEF OutputInv, OutputOf, Finished, Output
  <2>2. CASE Fail(p)
    BY <2>2, <1>0, OutputFrame
  <2> QED BY <2>1, <2>2
<1>25. ASSUME NEW p \in Procs, DecChunk(p) PROVE OutputInv'
  <2>1. /\ pc[p] = "d_chunk" /\ done[p] < total[p]
        /\ UNCHANGED <<plainAt, fd, key, total, book, sealed>>
    BY <1>25 DEF DecChunk
  <2>2. \A q \in Procs : q # p => pc'[q] \notin Output
    BY <1>25, <2>1, VaultAlone DEF DecChunk, Goto, HoldsVault, Output
  <2>3. CASE pc'[p] = "d_clean"
    <3>1. OutputOf(p)'
      BY <2>1, <2>3 DEF OutputInv, OutputOf, Finished, Output
    <3> QED BY <2>2, <3>1 DEF OutputInv, OutputOf, Finished, Output
  <2>4. CASE pc'[p] # "d_clean"
    <3> DEFINE c == data[fd[p]]
               b == book[key[p]]
               d == done[p]
    <3>1. /\ Accepts(p) /\ pc' = pc
          /\ data' = [data EXCEPT ![fd[p]] = @ \o Opened(p)]
          /\ done' = [done EXCEPT ![p] = @ + 1]
      BY <1>25, <2>4 DEF DecChunk, Goto
    <3>2. /\ fd[p] \in Inodes /\ key[p] \in Salts
          /\ b \in Content /\ c \in Content /\ d \in Nat /\ total[p] \in Nat
      BY <2>1 DEF HandleInv, Open, Output
    <3>3. /\ Opened(p) = Piece(b, d + 1)
          /\ d + 1 = total[p] => key[p] \in sealed /\ d + 1 = ChunkCount(b)
          /\ d + 1 # total[p] => d + 1 <= Len(b)
      BY <2>1, <3>1, AcceptedPiece
    <3>4. Len(c) = d /\ d <= Len(b) /\ \A i \in 1 .. d : c[i] = b[i]
      BY <2>1 DEF OutputInv, OutputOf
    <3>5. data'[fd'[p]] = c \o Piece(b, d + 1) /\ done'[p] = d + 1
      BY <2>1, <3>1, <3>2, <3>3
    <3>6. plainAt' = fd'[p]
      BY <2>1 DEF OutputInv, OutputOf, Output
    <3>7. /\ book'[key'[p]] = b /\ key'[p] = key[p] /\ sealed' = sealed
          /\ total'[p] = total[p] /\ pc'[p] = "d_chunk"
      BY <2>1, <3>1
    <3> HIDE DEF c, b, d
    <3>8. /\ d + 1 <= Len(b) =>
                 /\ Len(c \o Piece(b, d + 1)) = d + 1
                 /\ \A i \in 1 .. d + 1 : (c \o Piece(b, d + 1))[i] = b[i]
          /\ d + 1 = ChunkCount(b) => c \o Piece(b, d + 1) = b
      BY ONLY <3>2, <3>4, AcceptStep
    <3>9. d + 1 <= total[p] /\ (d + 1 < total[p] => d + 1 # total[p])
      BY <2>1, <3>2 DEF d
    <3>10. OutputOf(p)'
      BY ONLY <3>3, <3>5, <3>6, <3>7, <3>8, <3>9 DEF OutputOf, Finished
    <3> QED BY <2>2, <3>10 DEF OutputInv, OutputOf, Finished, Output
  <2> QED BY <2>3, <2>4
<1>26. ASSUME NEW p \in Procs, DecFlush(p) PROVE OutputInv'
  <2>1. /\ pc[p] = "d_chunk" /\ done[p] = total[p]
        /\ pc' = [pc EXCEPT ![p] = "d_done"]
        /\ UNCHANGED <<files, locals, history>>
    BY <1>26 DEF DecFlush, Goto
  <2>2. \A q \in Procs : q # p => pc'[q] \notin Output
    BY <2>1, VaultAlone DEF HoldsVault, Output
  <2>3. OutputOf(p)'
    BY <2>1 DEF OutputInv, OutputOf, Finished, Output
  <2> QED BY <2>2, <2>3 DEF OutputInv, OutputOf, Finished, Output
<1>27. ASSUME NEW p \in Procs, DecIoError(p) PROVE OutputKept
  BY <1>27 DEF OutputKept, Output, DecIoError, Goto
<1>28. ASSUME NEW p \in Procs, DecCleanup(p) PROVE OutputKept
  <2>1. \A q \in Procs : pc'[q] \notin Output
    BY <1>28, VaultAlone DEF DecCleanup, Unlink, Return, HoldsVault, Output
  <2> QED BY <2>1 DEF OutputKept
<1>29. ASSUME NEW p \in Procs, DecReturn(p) PROVE OutputKept
  BY <1>29, <1>0 DEF DecReturn
<1>30. ASSUME NEW p \in Procs, Kill(p) PROVE OutputKept
  <2>1. CASE UNCHANGED data
    BY <1>30, <2>1 DEF OutputKept, Output, Kill, Return
  <2>2. CASE pc[p] \in {"s_wipe", "d_chunk"}
    <3>1. \A q \in Procs : pc'[q] \notin Output
      BY <1>30, <2>2, VaultAlone DEF Kill, Return, HoldsVault, Output
    <3> QED BY <3>1 DEF OutputKept
  <2> QED BY <1>30, <2>1, <2>2 DEF Kill, PlainCut
<1>31. ASSUME Rot PROVE OutputKept
  BY <1>31 DEF OutputKept, Output, Rot
<1>32. ASSUME UNCHANGED vars PROVE OutputKept
  BY <1>32 DEF OutputKept
<1> QED
  BY OutputFrame, <1>1, <1>2, <1>3, <1>4, <1>5, <1>6, <1>7, <1>8, <1>9,
     <1>10, <1>11, <1>12, <1>13, <1>14, <1>15, <1>16, <1>17, <1>18, <1>19,
     <1>20, <1>21, <1>22, <1>23, <1>24, <1>25, <1>26, <1>27, <1>28, <1>29,
     <1>30, <1>31, <1>32
     DEF Next, Step

----------------------------------------------------------------------------
(* The theorems about contents.                                             *)

(* The inductive invariant: the basic one, what encryptions have sealed,    *)
(* that every intact chunk is from the book, and what decryptions have      *)
(* written.                                                                 *)
IInv == BasicInv /\ SourceInv /\ GenuineInv /\ OutputInv

(* It holds at first.                                                       *)
LEMMA IInvInit == Init => IInv
<1> SUFFICES ASSUME Init PROVE SourceInv /\ GenuineInv /\ OutputInv
  BY BasicInit DEF IInv
<1>1. SourceInv
  BY DEF Init, SourceInv
<1>2. GenuineInv
  BY DEF Init, GenuineInv
<1>3. OutputInv
  BY DEF Init, OutputInv, OutputOf, Finished, Output
<1> QED BY <1>1, <1>2, <1>3

(* Every step keeps it.                                                     *)
LEMMA IInvStep == IInv /\ [Next]_vars => IInv'
<1> SUFFICES ASSUME IInv, [Next]_vars PROVE IInv'
  OBVIOUS
<1>1. TypeOK /\ HandleInv /\ VaultMutex /\ KeyInv
  BY DEF IInv, BasicInv
<1>2. BasicInv'
  BY BasicStep DEF IInv
<1>3. SourceInv'
  BY <1>1, SourceStep DEF IInv
<1>4. GenuineInv'
  BY <1>1, GenuineStep DEF IInv
<1>5. OutputInv'
  BY <1>1, OutputStep DEF IInv
<1> QED BY <1>2, <1>3, <1>4, <1>5 DEF IInv

(* It holds of every state of Vault, whatever the calls, failures, kills    *)
(* and damage.                                                              *)
THEOREM Inductive == Spec => []IInv
  BY IInvInit, IInvStep, PTL DEF Spec

(* Every encryption seals exactly what its source contains when it flushes, *)
(* with any number of concurrent calls: async_encrypt reads the file block  *)
(* by block, and async_decrypt may empty and write the same file.           *)
THEOREM EncryptionSealsItsSource == Spec => []SealedIsSource
<1>1. IInv => SealedIsSource
  BY DEF IInv, SourceInv, SourceOf, SealedIsSource
<1> QED BY <1>1, Inductive, PTL

(* A decryption that says Ok for a vault with a chunk leaves exactly what   *)
(* the encryption named by the header sealed, although the vault may have   *)
(* been cut, damaged or left unfinished (async_decrypt's last-chunk rule).  *)
THEOREM DecryptionOpensWhatWasSealed == Spec => []OpenedIsSealed
<1>1. IInv => OpenedIsSealed
  BY DEF IInv, OutputInv, OutputOf, Finished, Output, OpenedIsSealed
<1> QED BY <1>1, Inductive, PTL
=============================================================================
