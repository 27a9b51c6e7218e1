-------------------------------- MODULE Vault --------------------------------
(***************************************************************************)
(* async_encrypt, secure_delete and async_decrypt of src/crypto.rs, run by  *)
(* several processes on one plaintext path "x" and its vault "x.aegis".     *)
(*                                                                          *)
(* Files are inodes: a handle keeps naming the inode it opened when the     *)
(* path is unlinked and created again, and locks belong to inodes.  Only    *)
(* the plaintext is ever unlinked, so the vault is a single inode.          *)
(*                                                                          *)
(* The file content is a sequence of 512 KiB blocks.  An encryption is      *)
(* named by its salt, which stands for the nonce and every key derived from *)
(* salt and password: a chunk is accepted under salt s at position i only   *)
(* if that encryption sealed it there (EncryptorBE32 binds the position and *)
(* the last flag into the nonce of each chunk).                             *)
(***************************************************************************)
EXTENDS Integers, Sequences

CONSTANTS
    Procs,      \* calls in progress: each process runs one at a time
    Inodes,     \* inodes the plaintext path may name; one more than are open
    Salts,      \* bound: one per encryption that is started
    Blocks,     \* block contents
    Contents,   \* contents the plaintext may have at first
    Kinds,      \* calls made: subset of {"encrypt", "shred", "decrypt"}
    Faults,     \* failures that occur: subset of {"io", "kill", "rot"}
    None,       \* no inode, or no lock holder
    NoSalt,     \* no intact header, or no intact chunk
    Junk        \* an overwritten or cut block

ASSUME NoneAssumption == None \notin Inodes /\ None \notin Procs
ASSUME NoSaltAssumption == NoSalt \notin Salts
ASSUME ContentsAssumption == Contents \subseteq Seq(Blocks)
ASSUME KindsAssumption == Kinds \subseteq {"encrypt", "shred", "decrypt"}
ASSUME FaultsAssumption == Faults \subseteq {"io", "kill", "rot"}

VARIABLES
    plainAt,    \* the inode the plaintext path names, or None
    data,       \* per inode: its content
    plainLock,  \* per inode: who holds its exclusive lock
    vexists,    \* the vault path exists
    hdr,        \* the salt in the vault's header; NoSalt if not a full header
    body,       \* the chunks after the header
    vaultLock,  \* who holds the vault's exclusive lock
    pc,         \* per process: the next step of its call
    fd,         \* per process: the plaintext inode it has open
    key,        \* per process: the salt its keys are derived from
    cur,        \* per process: the block read and not yet sealed, <<>> or one
    buf,        \* per process: chunks its BufReader took along with the header
    total,      \* per process: number of chunks, or blocks to overwrite
    done,       \* per process: chunks sealed, or chunks accepted
    used,       \* salts drawn so far
    book,       \* history, per salt: the blocks sealed under it
    sealed,     \* history: salts whose last chunk was sealed
    unlinked    \* history: a plaintext inode has been unlinked

files == <<plainAt, data, vexists, hdr, body>>
locks == <<plainLock, vaultLock>>
locals == <<fd, key, cur, buf, total, done>>
history == <<book, sealed, unlinked>>
vars == <<files, locks, pc, locals, used, history>>

Content == Seq(Blocks \cup {Junk})

Chunk == [salt : Salts \cup {NoSalt}, idx : Nat,
          piece : Seq(Blocks \cup {Junk}), last : BOOLEAN]

Torn == [salt |-> NoSalt, idx |-> 0, piece |-> <<>>, last |-> FALSE]

\* The i-th block of content c, or nothing beyond its end: what read returns.
Piece(c, i) == IF i \in 1 .. Len(c) THEN <<c[i]>> ELSE <<>>

\* Write x at position i of s; a gap reads as zeros.
Put(s, i, x) ==
    [j \in 1 .. (IF i > Len(s) THEN i ELSE Len(s)) |->
        IF j = i THEN x ELSE IF j <= Len(s) THEN s[j] ELSE Torn]

\* The first n blocks of c are gone over with a pattern.
Overwrite(c, n) ==
    [j \in 1 .. (IF n > Len(c) THEN n ELSE Len(c)) |->
        IF j <= n THEN Junk ELSE c[j]]

Steps == {"e_keyed", "e_src", "e_locked", "e_dst", "e_first", "e_chunk",
          "e_flush", "s_open", "s_lock", "s_wipe", "s_trunc", "s_unlink",
          "e_done", "d_open", "d_header", "d_keyed", "d_dst", "d_chunk",
          "d_clean", "d_done"}

(* Types.                                                                   *)
FilesOK ==
    /\ plainAt \in Inodes \cup {None}
    /\ data \in [Inodes -> Content]
    /\ vexists \in BOOLEAN
    /\ hdr \in Salts \cup {NoSalt}
    /\ body \in Seq(Chunk)

LocksOK ==
    /\ plainLock \in [Inodes -> Procs \cup {None}]
    /\ vaultLock \in Procs \cup {None}

LocalsOK ==
    /\ pc \in [Procs -> Steps \cup {"idle"}]
    /\ fd \in [Procs -> Inodes \cup {None}]
    /\ key \in [Procs -> Salts \cup {NoSalt}]
    /\ cur \in [Procs -> Content]
    /\ buf \in [Procs -> Seq(Chunk)]
    /\ total \in [Procs -> Nat]
    /\ done \in [Procs -> Nat]

HistoryOK ==
    /\ used \in SUBSET Salts
    /\ book \in [Salts -> Content]
    /\ sealed \in SUBSET Salts
    /\ unlinked \in BOOLEAN

TypeOK == FilesOK /\ LocksOK /\ LocalsOK /\ HistoryOK

Init ==
    /\ plainAt \in Inodes
    /\ \E c \in Contents : data = [i \in Inodes |-> IF i = plainAt THEN c ELSE <<>>]
    /\ plainLock = [i \in Inodes |-> None]
    /\ vexists = FALSE
    /\ hdr = NoSalt
    /\ body = <<>>
    /\ vaultLock = None
    /\ pc = [p \in Procs |-> "idle"]
    /\ fd = [p \in Procs |-> None]
    /\ key = [p \in Procs |-> NoSalt]
    /\ cur = [p \in Procs |-> <<>>]
    /\ buf = [p \in Procs |-> <<>>]
    /\ total = [p \in Procs |-> 0]
    /\ done = [p \in Procs |-> 0]
    /\ used = {}
    /\ book = [s \in Salts |-> <<>>]
    /\ sealed = {}
    /\ unlinked = FALSE

----------------------------------------------------------------------------
(* Parts of steps.                                                          *)

Goto(p, step) == pc' = [pc EXCEPT ![p] = step]

\* The handles of p are closed, its locks go with them, and its call is over.
Return(p) ==
    /\ pc' = [pc EXCEPT ![p] = "idle"]
    /\ plainLock' = [i \in Inodes |-> IF plainLock[i] = p THEN None ELSE plainLock[i]]
    /\ vaultLock' = IF vaultLock = p THEN None ELSE vaultLock
    /\ fd' = [fd EXCEPT ![p] = None]
    /\ key' = [key EXCEPT ![p] = NoSalt]
    /\ cur' = [cur EXCEPT ![p] = <<>>]
    /\ buf' = [buf EXCEPT ![p] = <<>>]
    /\ total' = [total EXCEPT ![p] = 0]
    /\ done' = [done EXCEPT ![p] = 0]

\* Err(...) with nothing else touched.
Fail(p) == Return(p) /\ UNCHANGED <<files, used, history>>

TryLockPlain(p, step) ==
    /\ plainLock[fd[p]] = None
    /\ plainLock' = [plainLock EXCEPT ![fd[p]] = p]
    /\ Goto(p, step)
    /\ UNCHANGED <<files, vaultLock, locals, used, history>>

TryLockVault(p, step) ==
    /\ vaultLock = None
    /\ vaultLock' = p
    /\ Goto(p, step)
    /\ UNCHANGED <<files, plainLock, locals, used, history>>

\* Remove whatever the plaintext path names.
Unlink ==
    /\ plainAt' = None
    /\ unlinked' = (unlinked \/ plainAt # None)
    /\ UNCHANGED <<data, vexists, hdr, body, book, sealed>>

----------------------------------------------------------------------------
(* async_encrypt.                                                           *)

(* exists, size, hash; fresh salt and nonce, registered; keys, recovery     *)
(* shares and header are computed.  No handle is open yet.                  *)
EncStart(p) ==
    /\ pc[p] = "idle"
    /\ Kinds \cap {"encrypt", "shred"} # {}
    /\ plainAt # None
    /\ \E s \in Salts \ used :
          /\ key' = [key EXCEPT ![p] = s]
          /\ used' = used \cup {s}
    /\ Goto(p, "e_keyed")
    /\ UNCHANGED <<files, locks, fd, cur, buf, total, done, history>>

(* "File not found", "Vault not found": Err, at once.                       *)
NotFound(p) ==
    /\ pc[p] = "idle"
    /\ plainAt = None \/ ~vexists
    /\ UNCHANGED vars

(* TooLarge, a nonce collision or a registry, KDF or share failure.         *)
EncAbort(p) == pc[p] = "e_keyed" /\ "io" \in Faults /\ Fail(p)

EncOpenSrc(p) ==
    /\ pc[p] = "e_keyed"
    /\ \/ /\ plainAt # None
          /\ fd' = [fd EXCEPT ![p] = plainAt]
          /\ Goto(p, "e_src")
          /\ UNCHANGED <<files, locks, key, cur, buf, total, done, used, history>>
       \/ plainAt = None /\ Fail(p)

\* Mutant of EncLockSrc: the result of try_lock_exclusive is ignored.
EncIgnoresLockSrc(p) ==
    /\ pc[p] = "e_src"
    /\ plainLock' = [plainLock EXCEPT ![fd[p]] = IF @ = None THEN p ELSE @]
    /\ Goto(p, "e_locked")
    /\ UNCHANGED <<files, vaultLock, locals, used, history>>

EncLockSrc(p) ==
    /\ pc[p] = "e_src"
    /\ \/ TryLockPlain(p, "e_locked")
       \/ plainLock[fd[p]] # None /\ Fail(p)

(* create(true).truncate(true): the vault is emptied, whoever has it locked. *)
EncOpenDst(p) ==
    /\ pc[p] = "e_locked"
    /\ vexists' = TRUE
    /\ hdr' = NoSalt
    /\ body' = <<>>
    /\ Goto(p, "e_dst")
    /\ UNCHANGED <<plainAt, data, locks, locals, used, history>>

EncLockDst(p) ==
    /\ pc[p] = "e_dst"
    /\ \/ TryLockVault(p, "e_first")
       \/ vaultLock # None /\ Fail(p)

(* The header goes to the BufWriter, which holds it back until the first    *)
(* chunk; the first block is read.                                          *)
EncFirstRead(p) ==
    /\ pc[p] = "e_first"
    /\ cur' = [cur EXCEPT ![p] = Piece(data[fd[p]], 1)]
    /\ Goto(p, "e_chunk")
    /\ UNCHANGED <<files, locks, fd, key, buf, total, done, used, history>>

(* One turn of the loop: look one block ahead, seal the block in hand as    *)
(* the last chunk if there is none, write it.                               *)
EncChunk(p) ==
    LET s == key[p]
        i == done[p] + 1
        next == Piece(data[fd[p]], i + 1)
        last == next = <<>> IN
    /\ pc[p] = "e_chunk"
    /\ hdr' = IF i = 1 THEN s ELSE hdr
    /\ body' = Put(body, i, [salt |-> s, idx |-> i, piece |-> cur[p], last |-> last])
    /\ book' = [book EXCEPT ![s] = @ \o cur[p]]
    /\ sealed' = IF last THEN sealed \cup {s} ELSE sealed
    /\ cur' = [cur EXCEPT ![p] = next]
    /\ done' = [done EXCEPT ![p] = i]
    /\ Goto(p, IF last THEN "e_flush" ELSE "e_chunk")
    /\ UNCHANGED <<plainAt, data, vexists, locks, fd, key, buf, total, used, unlinked>>

(* What the file system has of a vault whose writer stops before the flush: *)
(* the chunk being written may be missing or cut, and the header with it.   *)
Interrupted(p) ==
    \/ UNCHANGED <<hdr, body>>
    \/ /\ pc[p] = "e_chunk"
       /\ hdr' = IF done[p] = 0 THEN key[p] ELSE hdr
       /\ body' \in {body, Append(body, Torn)}
    \/ /\ pc[p] = "e_flush"
       /\ body # <<>>
       /\ LET front == SubSeq(body, 1, Len(body) - 1) IN
          body' \in {front, Append(front, Torn)}
       /\ hdr' \in IF body' = <<>> THEN {hdr, NoSalt} ELSE {hdr}

(* The vault cannot be created, or a read, write or flush fails; nothing    *)
(* removes the partial vault.                                               *)
EncIoError(p) ==
    /\ pc[p] \in {"e_locked", "e_first", "e_chunk", "e_flush"}
    /\ "io" \in Faults
    /\ Interrupted(p)
    /\ Return(p)
    /\ UNCHANGED <<plainAt, data, vexists, used, history>>

\* Mutant of EncFlush: the reader is not dropped before secure_delete.
EncKeepsReader(p) ==
    /\ pc[p] = "e_flush"
    /\ \/ "encrypt" \in Kinds /\ Goto(p, "e_done")
       \/ "shred" \in Kinds /\ Goto(p, "s_open")
    /\ UNCHANGED <<files, locks, locals, used, history>>

(* flush, then drop(reader), which gives up the lock on the plaintext; the  *)
(* writer, and with it the lock on the vault, lives until the call returns. *)
EncFlush(p) ==
    /\ pc[p] = "e_flush"
    /\ plainLock' = [plainLock EXCEPT ![fd[p]] = None]
    /\ fd' = [fd EXCEPT ![p] = None]
    /\ \/ "encrypt" \in Kinds /\ Goto(p, "e_done")
       \/ "shred" \in Kinds /\ Goto(p, "s_open")
    /\ UNCHANGED <<files, vaultLock, key, cur, buf, total, done, used, history>>

(* The audit record (its failure is ignored) and Ok.                        *)
EncReturn(p) == pc[p] = "e_done" /\ Fail(p)

----------------------------------------------------------------------------
(* secure_delete.                                                           *)

(* metadata and open, both by path.                                         *)
ShredOpen(p) ==
    /\ pc[p] = "s_open"
    /\ \/ /\ plainAt # None
          /\ fd' = [fd EXCEPT ![p] = plainAt]
          /\ total' = [total EXCEPT ![p] = Len(data[plainAt])]
          /\ Goto(p, "s_lock")
          /\ UNCHANGED <<files, locks, key, cur, buf, done, used, history>>
       \/ plainAt = None /\ Fail(p)

(* lock_exclusive waits; async_encrypt still holds the vault's lock.        *)
ShredLock(p) == pc[p] = "s_lock" /\ TryLockPlain(p, "s_wipe")

(* What the file system has of a plaintext whose writer stops: a part of it *)
(* gone over, or a decryption without its latest block or with that cut.    *)
PlainCut(p) ==
    \/ UNCHANGED data
    \/ /\ pc[p] = "s_wipe"
       /\ \E n \in 0 .. total[p] :
             data' = [data EXCEPT ![fd[p]] = Overwrite(@, n)]
    \/ /\ pc[p] = "d_chunk"
       /\ data[fd[p]] # <<>>
       /\ LET front == SubSeq(data[fd[p]], 1, Len(data[fd[p]]) - 1) IN
          \E c \in {front, Append(front, Junk)} :
             data' = [data EXCEPT ![fd[p]] = c]

(* The seven passes.                                                        *)
ShredWipe(p) ==
    /\ pc[p] = "s_wipe"
    /\ data' = [data EXCEPT ![fd[p]] = Overwrite(@, total[p])]
    /\ Goto(p, "s_trunc")
    /\ UNCHANGED <<plainAt, vexists, hdr, body, locks, locals, used, history>>

(* set_len(0), and the handle is dropped with its lock.                     *)
ShredTruncate(p) ==
    /\ pc[p] = "s_trunc"
    /\ data' = [data EXCEPT ![fd[p]] = <<>>]
    /\ plainLock' = [plainLock EXCEPT ![fd[p]] = None]
    /\ fd' = [fd EXCEPT ![p] = None]
    /\ Goto(p, "s_unlink")
    /\ UNCHANGED <<plainAt, vexists, hdr, body, vaultLock, key, cur, buf, total, done, used, history>>

(* Any of its steps fails: "?" returns from async_encrypt too.              *)
ShredIoError(p) ==
    /\ pc[p] \in {"s_open", "s_lock", "s_wipe", "s_trunc", "s_unlink"}
    /\ "io" \in Faults
    /\ PlainCut(p)
    /\ Return(p)
    /\ UNCHANGED <<plainAt, vexists, hdr, body, used, history>>

(* remove_file, by path; on success on to the audit record.                 *)
ShredUnlink(p) ==
    /\ pc[p] = "s_unlink"
    /\ \/ /\ plainAt # None
          /\ Unlink
          /\ Goto(p, "e_done")
          /\ UNCHANGED <<locks, locals, used>>
       \/ plainAt = None /\ Fail(p)

----------------------------------------------------------------------------
(* async_decrypt.                                                           *)

DecStart(p) ==
    /\ pc[p] = "idle"
    /\ "decrypt" \in Kinds
    /\ vexists
    /\ Goto(p, "d_open")
    /\ UNCHANGED <<files, locks, locals, used, history>>

\* Mutant of DecLockSrc: the vault is read without its lock.
DecIgnoresLockSrc(p) ==
    /\ pc[p] = "d_open"
    /\ vaultLock' = IF vaultLock = None THEN p ELSE vaultLock
    /\ Goto(p, "d_header")
    /\ UNCHANGED <<files, plainLock, locals, used, history>>

DecLockSrc(p) ==
    /\ pc[p] = "d_open"
    /\ \/ TryLockVault(p, "d_header")
       \/ vaultLock # None /\ Fail(p)

\* Mutant of DecHeader: one chunk too few is expected, unguarded at zero.
DecHeaderUnderflows(p) ==
    /\ pc[p] = "d_header"
    /\ hdr # NoSalt
    /\ key' = [key EXCEPT ![p] = hdr]
    /\ total' = [total EXCEPT ![p] = Len(body) - 1]
    /\ Goto(p, "d_keyed")
    /\ UNCHANGED <<files, locks, fd, cur, buf, done, used, history>>

(* File size and header; the BufReader (8 KiB) may already take all chunks  *)
(* of a small vault along.  Bad magic or version, or a short file, ends it. *)
DecHeader(p) ==
    /\ pc[p] = "d_header"
    /\ \/ /\ hdr # NoSalt
          /\ key' = [key EXCEPT ![p] = hdr]
          /\ total' = [total EXCEPT ![p] = Len(body)]
          /\ \E b \in {<<>>, body} :
                /\ Len(b) <= 1
                /\ buf' = [buf EXCEPT ![p] = b]
          /\ Goto(p, "d_keyed")
          /\ UNCHANGED <<files, locks, fd, cur, done, used, history>>
       \/ hdr = NoSalt /\ Fail(p)

(* KDF limits or failure, wrong password (Auth), header MAC (Tamper).       *)
DecReject(p) == pc[p] = "d_keyed" /\ Fail(p)

\* Mutant of DecOpenDst: without truncate(true).
DecOpenDstKept(p) ==
    /\ pc[p] = "d_keyed"
    /\ \E i \in Inodes :
          /\ \/ i = plainAt
             \/ plainAt = None /\ \A q \in Procs : fd[q] # i
          /\ plainAt' = i
          /\ data' = IF plainAt = None THEN [data EXCEPT ![i] = <<>>] ELSE data
          /\ fd' = [fd EXCEPT ![p] = i]
    /\ Goto(p, "d_dst")
    /\ UNCHANGED <<vexists, hdr, body, locks, key, cur, buf, total, done, used, history>>

(* create(true).truncate(true) on the plaintext path, before its lock.      *)
DecOpenDst(p) ==
    /\ pc[p] = "d_keyed"
    /\ \E i \in Inodes :
          /\ \/ i = plainAt
             \/ plainAt = None /\ \A q \in Procs : fd[q] # i
          /\ plainAt' = i
          /\ data' = [data EXCEPT ![i] = <<>>]
          /\ fd' = [fd EXCEPT ![p] = i]
    /\ Goto(p, "d_dst")
    /\ UNCHANGED <<vexists, hdr, body, locks, key, cur, buf, total, done, used, history>>

(* "lock output" failing returns without undoing the truncation.            *)
DecLockDst(p) ==
    /\ pc[p] = "d_dst"
    /\ \/ TryLockPlain(p, "d_chunk")
       \/ plainLock[fd[p]] # None /\ Fail(p)

\* Mutant of Accepts: decrypt_next for every chunk, so a cut tail goes unseen.
AcceptsWithoutLast(p) ==
    LET src == IF buf[p] # <<>> THEN buf[p] ELSE body
        i == done[p] + 1 IN
    i <= Len(src) /\ src[i].salt = key[p] /\ src[i].idx = i

(* The next chunk is there and authenticates at this position, with the     *)
(* last flag exactly when nothing remains of the size read at the start.    *)
Accepts(p) ==
    LET src == IF buf[p] # <<>> THEN buf[p] ELSE body
        i == done[p] + 1 IN
    /\ i <= Len(src)
    /\ src[i].salt = key[p]
    /\ src[i].idx = i
    /\ src[i].last = (i = total[p])

\* The plaintext of that chunk.
Opened(p) == (IF buf[p] # <<>> THEN buf[p] ELSE body)[done[p] + 1].piece

DecChunk(p) ==
    /\ pc[p] = "d_chunk"
    /\ done[p] < total[p]
    /\ \/ /\ Accepts(p)
          /\ data' = [data EXCEPT ![fd[p]] = @ \o Opened(p)]
          /\ done' = [done EXCEPT ![p] = @ + 1]
          /\ UNCHANGED pc
       \/ ~Accepts(p) /\ Goto(p, "d_clean") /\ UNCHANGED <<data, done>>
    /\ UNCHANGED <<plainAt, vexists, hdr, body, locks, fd, key, cur, buf, total, used, history>>

(* to_read = 0 leaves the loop; flush.                                      *)
DecFlush(p) ==
    /\ pc[p] = "d_chunk"
    /\ done[p] = total[p]
    /\ Goto(p, "d_done")
    /\ UNCHANGED <<files, locks, locals, used, history>>

DecIoError(p) ==
    /\ pc[p] = "d_chunk"
    /\ "io" \in Faults
    /\ Goto(p, "d_clean")
    /\ UNCHANGED <<files, locks, locals, used, history>>

(* The output path is removed, with the handles still open, or that fails   *)
(* and is ignored; Err.                                                     *)
DecCleanup(p) ==
    /\ pc[p] = "d_clean"
    /\ \/ Unlink
       \/ "io" \in Faults /\ UNCHANGED <<files, history>>
    /\ Return(p)
    /\ UNCHANGED used

(* Hash of the output, audit record (its failure is ignored) and Ok.        *)
DecReturn(p) == pc[p] = "d_done" /\ Fail(p)

----------------------------------------------------------------------------
(* The environment.                                                         *)

(* A process ends between any two of its steps.                             *)
Kill(p) ==
    /\ pc[p] # "idle"
    /\ "kill" \in Faults
    /\ Interrupted(p)
    /\ PlainCut(p)
    /\ Return(p)
    /\ UNCHANGED <<plainAt, vexists, used, history>>

(* The stored vault is damaged: a chunk, the tail or the header.            *)
Rot ==
    /\ "rot" \in Faults
    /\ \/ /\ \E i \in 1 .. Len(body) :
                body' = [body EXCEPT ![i] = Torn] \/ body' = SubSeq(body, 1, i - 1)
          /\ UNCHANGED hdr
       \/ hdr' = NoSalt /\ UNCHANGED body
    /\ UNCHANGED <<plainAt, data, vexists, locks, pc, locals, used, history>>

Step(p) ==
    \/ EncAbort(p) \/ EncOpenSrc(p) \/ EncLockSrc(p) \/ EncOpenDst(p)
    \/ EncLockDst(p) \/ EncFirstRead(p) \/ EncChunk(p) \/ EncIoError(p)
    \/ EncFlush(p) \/ EncReturn(p)
    \/ ShredOpen(p) \/ ShredLock(p) \/ ShredWipe(p) \/ ShredTruncate(p)
    \/ ShredIoError(p) \/ ShredUnlink(p)
    \/ DecLockSrc(p) \/ DecHeader(p) \/ DecReject(p) \/ DecOpenDst(p)
    \/ DecLockDst(p) \/ DecChunk(p) \/ DecFlush(p) \/ DecIoError(p)
    \/ DecCleanup(p) \/ DecReturn(p)

Next ==
    \/ \E p \in Procs :
          EncStart(p) \/ DecStart(p) \/ NotFound(p) \/ Step(p) \/ Kill(p)
    \/ Rot

Spec == Init /\ [][Next]_vars

(* A call that can take a step is scheduled; nothing forces a call to be    *)
(* made.                                                                    *)
FairSpec == Spec /\ \A p \in Procs : WF_vars(Step(p))

----------------------------------------------------------------------------
(* Properties.                                                              *)

\* Number of chunks an encryption of content c has: an empty file has one.
ChunkCount(c) == IF c = <<>> THEN 1 ELSE Len(c)

\* The vault is the whole output of the encryption with salt s.
VaultHolds(s) ==
    /\ s \in sealed
    /\ hdr = s
    /\ body = [i \in 1 .. ChunkCount(book[s]) |->
                  [salt |-> s, idx |-> i, piece |-> Piece(book[s], i),
                   last |-> i = ChunkCount(book[s])]]

(* What an encryption has sealed when it flushes is what the file it has    *)
(* open contains then, although the reads were spread over the whole loop   *)
(* and decryptions write the same file.                                     *)
SealedIsSource ==
    \A p \in Procs : pc[p] = "e_flush" => book[key[p]] = data[fd[p]]

(* An encryption that reaches its flush has produced a complete vault, as   *)
(* long as no plaintext was ever unlinked: every call truncates the vault   *)
(* only with the plaintext locked, so none can have cut it meanwhile, even  *)
(* though it does so before it asks for the vault's lock.                   *)
FlushedVaultIsComplete ==
    ~unlinked => \A p \in Procs : pc[p] = "e_flush" => VaultHolds(key[p])

(* A decryption that says Ok for a vault with at least one chunk leaves, at *)
(* the plaintext path, exactly what the encryption named by the header      *)
(* sealed: no chunk missing, repeated, moved or from another run.           *)
OpenedIsSealed ==
    \A p \in Procs : pc[p] = "d_done" /\ total[p] > 0 =>
        /\ plainAt = fd[p]
        /\ key[p] \in sealed
        /\ data[fd[p]] = book[key[p]]

(* The same without the exception for a header with nothing after it:       *)
(* "tampered ciphertext must be detected" (integration_test.rs, README).    *)
OkMeansSealed ==
    \A p \in Procs : pc[p] = "d_done" =>
        key[p] \in sealed /\ data[fd[p]] = book[key[p]]

(* Every call returns: encryption locks plaintext then vault, decryption    *)
(* vault then plaintext, and secure_delete waits for the plaintext with the *)
(* vault locked.                                                            *)
EveryCallReturns == \A p \in Procs : pc[p] # "idle" ~> pc[p] = "idle"
=============================================================================
