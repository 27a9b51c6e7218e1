# Aegis vault: specifications and proofs

TLA+ specifications of the Fulcrum Aegis vault, the TLC configurations that
check them, and proofs that TLAPS checks.

Every definition is read off the Rust source; `PROJECT.json` maps each one to
its lines. Line numbers below are those of the files under `src/`.

## 1. The system

Aegis encrypts a file `x` into a vault `x.aegis`, decrypts it again, keeps an
encrypted audit log of what it did, pushes that log to a portal and shows it on
an HTTPS dashboard. There is no server for the vault itself: each command is a
process, several may run at a time on the same files, and each may end at any
moment. What they share are files and `flock` locks. Inside one process
(dashboard, tests, library users) several tokio tasks run interleaved.

| Component | State it keeps | Operations | Talks to |
|---|---|---|---|
| Nonce registry, `crypto.rs:96-136` | set in memory behind an async mutex, append-only file | `register_nonce` (load, contains, append, sync, insert) | called by encryption |
| Vault files, `crypto.rs:438-489, 503-837` | plaintext file, vault file, one lock each | `async_encrypt`, `secure_delete`, `async_decrypt` | registry, audit log |
| Key derivation and header, `crypto.rs:183-255` | none (keys in memory) | `derive`, `audit_identifier`, `compute_header_mac` | called by both |
| Recovery shares, `crypto.rs:261-330` | none | `generate_recovery_shares`, `recover_key_from_shares` | called by encryption |
| Audit log, `crypto.rs:336-412`, `audit.rs:41-136` | append-only file of one encrypted record per line | `append_audit`, `log_physical_operation`, `read_audit_entries` | encryption, decryption, attendance; read by reports, dashboard, sync |
| Portal sync, `sync.rs` | watermark file | `sync_audit_to_portal` | reads the log, posts to the portal |
| Reports and statistics, `audit.rs:65-184` | none | report, recent operations, statistics | read the log |
| Rate limiter, `dashboard.rs:54-116` | one bucket per client address, async mutex | `rate_limit` (purge, allow or refuse) | around `require_auth` and the handlers |
| Dashboard server, `dashboard.rs:353-445` | listener, connections | accept loop, one task per connection | limiter, readers of the log |
| LTO tape, `lto.rs` | the tape, a temporary vault | `write_encrypted`, `read_encrypted` | encryption, decryption, `mt`, `tar` |
| Biometrics, `biometrics.rs` | none | `register_attendance`, `verify_user` (no device) | appends to the audit log |
| Command line, menu, `cli.rs`, `main.rs` | none | parse, prompt, print | all of the above |
| Audit key, `lib.rs` | `AEGIS_AUDIT_KEY` | `get_audit_key_from_env` | commands on the log, dashboard |

### What is hard, and what makes each component correct

*Nonce registry.* Tasks share a mutex across a file append; processes share the
file but not the set; the process may end between append and insert; a failing
append may leave part of a nonce. Correct means: no nonce is granted twice,
what was granted is found again after a restart, and the mutex is free again on
every path.

*Vault files.* Both calls truncate the file they are going to write before they
ask for its lock, and they take the two locks in opposite orders. The encryption
gives up the plaintext's lock before `secure_delete` takes it again, and that
second lock waits. The vault is written in place, nothing syncs it, and a read may
return less than a block. Correct means: what is sealed is one content of the
source; a vault that is flushed is whole; a decryption that says Ok has produced
exactly what was sealed; a user who makes one call at a time sees them as atomic;
the plaintext is destroyed, on the disk, only when the vault holds it; every call
returns.

*Recovery shares.* Whichever three shares the user keeps recover the key, two
tell next to nothing of it, and the user has been given them.

*Tape.* The head stands where the operator, a failed `mt` or an earlier `tar`
has left it, and the name under which `tar` extracts need not be the one that is
decrypted next. Correct means: no archive is written over, a read opens what is
on the tape, and a vault is only removed beside its plaintext.

*Audit log and its readers.* A record and its line end are two appends, and the
second is done by a background thread after `append_audit` has returned; records
arrive in another order than their seconds; the statistics read the clock twice.
Correct means: an acknowledged record can be read, a record once on a complete
line stays, damage does not spread, and the lists and counts are of what is there.

*Portal sync.* Request, answer, crash and save may fall in any order; the
watermark is a second, and the log is not written in the order of its seconds.
Correct means: every record reaches the portal, none is skipped, none is pushed
twice.

*Dashboard.* A fixed window per client, buckets of all clients purged by every
request, one mutex for all, requests that are dropped with their connection,
clients that never finish their handshake. Correct means: no client exceeds the
rate by more than the window's border allows, none is refused or kept waiting for
what others do, and none is remembered for ever.

`PROJECT.json` lists these hazards one by one at the line where they bite, with
the property that covers each, or the reason why none does.

## 2. Modules

| Module | Models |
|---|---|
| `NonceRegistry` | the registry: tasks, processes, file, restarts, power loss |
| `FreshNonce` | what `register_nonce` promises; `NonceRegistry` refines it |
| `Vault` | encryption, shredding, decryption on one path and its vault, several calls at a time |
| `AtomicVault`, `VaultRefinement` | what a user is promised of these calls, and that `Vault` keeps it while no two of them use one file at a time |
| `VaultStream` | the same code for one call at a time, cell by cell: short reads, syncs, power failures |
| `RecoveryShares` | dealing and recovering over a small field (functions only) |
| `LtoTape` | the tape commands on files, `mt`, `tar` and the tape |
| `Commands` | extends `LtoTape` and `RecoveryShares`: the file commands of the CLI and the menu |
| `AuditLog` | appends by several processes, and what a reader finds |
| `AuditReaders` | extends `AuditLog`: who writes, under which key, and the reports, lists and statistics |
| `PortalSync` | extends `AuditLog` with runs of the sync command and the portal |
| `RateLimiter` | the middleware with several requests in progress |
| `Dashboard` | extends `RateLimiter` with the accept loop and the connections |
| `MC...` | values of the constants for TLC, symmetry |
| `NonceRegistryProofs` | theorems of `NonceRegistry` and its refinement of `FreshNonce` |
| `VaultProofs`, `VaultRefinementProofs` | theorems of `Vault`, and its refinement of `AtomicVault`, the second on top of the first |
| `VaultStreamProofs`, `CommandsProofs`, `DashboardProofs` | theorems of `VaultStream`, of `Commands` with `LtoTape` and `RecoveryShares`, of `Dashboard` with `RateLimiter` |
| `RecoveryProofs` | the algebra of `RecoveryShares`: interpolation over a prime field; `CommandsProofs` extends it |
| `AuditProofs` | theorems of `AuditLog` by itself, then of `PortalSync` and of `AuditReaders` |

Components compose by extension: the next-state relation of `PortalSync`,
`AuditReaders`, `Commands` and `Dashboard` is a step of the component below or a
step of their own, over the same log, tape, files or limiter. `LtoTape` and
`Commands` take a vault call as one step, which `CallsAreAtomic` justifies for
calls made one at a time.

### NonceRegistry

A task's call goes through `drawn` (OsRng has filled the nonce), `locked`
(`NONCE_REGISTRY.lock()`, the first of which in a process forces the `Lazy` and
reads the file), `written` (`write_all`), `durable` (`sync_data`) and back to
`idle` (`insert`, Ok). `Collide`, `AppendFails` and `SyncFails` are the early
returns. The set lives in the process and goes with it (`Restart`), the file
keeps at least what was synced (`PowerLoss`). Twelve bytes become two cells: the
loader cuts the file into pairs from its start, as `chunks_exact(12)` does, so a
torn append misaligns everything after it as in the code. A read error is an
empty set (`unwrap_or_default`).

### Vault

Files are inodes, since a handle and a lock outlive the path they were opened
by: `remove_file` and `create(true)` by another call give the path a new inode.
Only the plaintext is ever unlinked, so the vault is a single inode. A content
is a sequence of 512 KiB blocks and a vault is a header, named by the
encryption's salt, and a sequence of chunks `[salt, idx, piece, last]`. A chunk is
accepted only at its position, under its salt and with its last flag: that is
what the STREAM construction (`EncryptorBE32`) authenticates, and all that is
assumed of the cryptography. `Torn` is a chunk that is cut or damaged.

One action per await that touches something shared:

| Action | Code |
|---|---|
| `EncStart`, `NotFound`, `EncAbort` | 508-566: exists, hash, nonce, keys, header; early returns |
| `EncOpenSrc`, `EncLockSrc`, `EncOpenDst`, `EncLockDst` | 568-582, in this order, the truncation before the lock |
| `EncFirstRead`, `EncChunk` | 584-634: one block ahead; the last chunk is the one after which nothing is read |
| `EncFlush` | 635-643: flush, `drop(reader)` with the plaintext's lock |
| `ShredOpen`, `ShredLock`, `ShredWipe`, `ShredTruncate`, `ShredUnlink` | 438-489; the seven passes are one step, as each of them leaves junk |
| `EncReturn` | 645-664: the audit record, whose failure is ignored; the locks go with the handles |
| `DecStart`, `DecLockSrc`, `DecHeader`, `DecReject` | 671-749: size and header under the vault's lock; wrong password, MAC |
| `DecOpenDst`, `DecLockDst` | 751-759: the plaintext is truncated, then locked |
| `DecChunk`, `DecFlush`, `DecCleanup`, `DecReturn` | 772-837: chunks by the size read at the start; on an error the path is removed |
| `EncIoError`, `ShredIoError`, `DecIoError` | a failing read, write, sync or flush |
| `Kill`, `Rot` | environment: a process ends between two steps; the stored vault is damaged |

The `BufWriter` matters in two places and is modelled there: the header reaches
the file with the first chunk, and what has not been flushed may be missing or
cut when the writer stops (`Interrupted`). In the same way a shred that stops
has gone over any part of the file, and a decryption that stops may leave its
latest block cut or missing (`PlainCut`). The reader's buffer may hold a small
vault whole (`buf`).

### AtomicVault and VaultRefinement

`AtomicVault` has a file, a vault and four steps: save, encrypt, shred (only when
the vault holds what the file has) and decrypt. The mapping gives the vault its
new content from its truncation on, the plaintext likewise, and takes a shredded
file for gone from the first pass on. `clash` becomes true when two calls have a
file of theirs open at one time while one of them writes it. An encryption counts
as a user of the plaintext from its open, and of the vault from its truncation to
its return: both matter, as section 3 says.

### VaultStream

A file is a sequence of cells, `BUFFER_SIZE` of them to a block. A vault is a
header cell and, for each chunk, its sealed cells and a tag cell, without any mark
between chunks: the encryption cuts where its reads end, the decryption every
`BUFFER_SIZE + 1` cells, and a segment opens exactly if it is one sealed chunk, at
its position, and the last one or not. Each of the two files is there twice, as
processes see it and on the disk (`sync_all`, `WriteBack`, `PowerCut`). `hash` is
taken by `EncStart`, before the file is opened. `Save` is the user's editor, which
asks for no lock: the locks of the code are advisory, and so `Save` is enabled
between any two steps of a call and rewrites the file in place. A save that falls
into a pass or into a read counts as before or after it; an editor that puts a new
file in the place of the old one by `rename` is left out. Since the file may change
under a call, passes and opened chunks are written at the offsets where the code's
handles stand (`Written`), over what is there. `saved` and `spoilt` remember that
the user saved during a call, or that a read of an encryption was short.

### RecoveryShares, LtoTape and Commands

A key is a sequence of symbols of a field of `Prime` elements, each dealt with a
polynomial of its own, as `sharks` does per byte. `Recovered` repeats the checks of
`recover_key_from_shares` and `Sharks::recover`; shares of different deals are no
error, there as here. The code of `sharks` is not in the repository: `Poly` and
`Interpolated` are Shamir's scheme over the integers modulo a prime, where `sharks`
has the field of 256 elements. The version is pinned to 0.5.0 (`Cargo.lock:1920`),
whose dealer draws each coefficient from 1 to 255 (RUSTSEC-2024-0398), and `Draw`
leaves out zero accordingly. Two shares therefore do tell something: each of them
rules out values of a byte of the key. `FewerTellLittle` bounds how many.

A path is absolute or not, has directories and a name, and names a place.
`tar -cf` archives the path as it was given without a leading slash; `tar -xf -C`
puts it below the directory of the output (`ExtractedAt`). The tape is a sequence
of files behind a device that does not rewind (`/dev/nst0`, `lto.rs:19`); writing
ends it where the head is. `MtEom`, `TarWrite`, `MtWeof`, `TarRead`,
`OpenExtracted`, `RemoveExtracted` are the awaits of `write_encrypted` and
`read_encrypted` in their order, each with its failure; `Wind` is the operator.
`deal` in `Commands` is the last encryption: its shares, and what the command
that made it printed of them. What the CLI prints whole is the QR code of a share;
the line of digits beside it is cut to 64 characters (`cli.rs:117-118`), which is
less than a share, and the menu prints 32 of them.

### AuditLog and PortalSync

A log is a sequence of records, line ends and cut records. `Readable` is what
`read_audit_entries` returns: a record alone on its line and under the reader's
key. `StartAppend` takes the time, `WriteLine` appends the record, `HandEol`
hands the line end to tokio's background thread and returns Ok, `WriteEol` is
that thread. `LineFails`, `EolFails` and `KillWriter` are the failures. `breaks`
counts how often an append was cut short or overlapped another.

A sync goes through `SyncLoad` (the watermark; a file that does not parse is 0) or
`SyncLoadFails` (an intact file that cannot be read is 0 too, `sync.rs:75`),
`SyncRead` (the filter; nothing new is Ok(0)), `PushAccepted` or `PushFails`
(lost, refused, or taken with the answer lost), `SaveTruncates` and
`SaveWrites` (`fs::write` truncates first). Records are pushed as one request;
`ingested`, which the code only prints, is left out. The whole log is read in
one step.

### AuditReaders

`VaultCall`, `LogCommand` and `AttendanceCommand` are the three kinds of writers
of `AuditLog`, with the key each uses: a key of the vault's, or the one
`get_audit_key_from_env` returns (`AuditKey`). `what` is what a record is about.
A reader takes `read_audit_entries` in one step, then for the statistics reads the
clock twice (`FirstClock`, `SecondClock`) and answers. `Sorted` is the stable sort,
said without an algorithm: `Before` orders the lines found, newest first and those
of a second as they stand in the file, and the n-th of the list is the one with
n - 1 before it. `Report` gives the places of the entries it keeps, so that equal
entries would still be two; `TodayStart`, `Recent`, `Clients` and `ActiveClients`
compute the other answers. The client of a physical operation is only in the hash
of its record (`audit.rs:45-56`): what the code calls clients are media. The
variable keeps its value for a behaviour, so `EnvKey` stands for the only key it
can give (`EnvTextsAssumption`).

### RateLimiter and Dashboard

`Arrive`, `Purge` (mutex, `purge_old`), `Allow` or `Refuse` (`is_allowed`, which
reads the clock a second time; `Tick` may fall in between), `Answer`
(`require_auth` and the handler, which never touch the limiter), `Cancel` (the
request is dropped with its connection, where it waits). `/` and `/health` are
not behind the limiter (`build_app`) and are left out. `passed` records when the
last `2 * Limit` requests of an address were let through.

`StartServer`, `Dial`, `Accept`, `Handshake`, `Hangup` and `AcceptFails` are the
accept loop and the tasks it spawns. A server that has failed ends its process, or
returns to the menu, where it can be started again with a new limiter; tasks of
its connections then live on (`former`), under the old limiter, which is left out.

## 3. What TLC checks

| Run | Constants | Shows |
|---|---|---|
| `nonce_all_faults` | 2 processes, 2+1 tasks, 2 nonces, 5 cells; failing, torn and misread files, restarts, power loss | `TypeOK`; `UniqueWithinProcess`: no process grants a nonce twice in one life |
| `nonce_single` | 1 process, 2 tasks; failing appends, restarts, power loss; fair | refines `FreshNonce`; `GrantsAreDurable`; `EveryDrawAnswered` |
| `nonce_two_processes` | 2 processes, no faults | **violation** of `NeverReissued` |
| `vault_concurrent` | 2 processes, 3 encryptions, any number of decryptions and saves, files of 0 and 2 blocks, no faults; fair | `SealedIsSource`, `FlushedVaultIsComplete`, refines `AtomicVault` (`CallsAreAtomic`), `EveryCallReturns` |
| `vault_faults` | the same calls with i/o errors, kills and damage, 2 blocks | `TypeOK`; `OpenedIsSealed` |
| `vault_header_only` | one process, kill | **violation** of `OkMeansSealed` |
| `stream` | 2 encryptions, any number of decryptions, blocks of 2 cells, files of 0, 1 and 1.5 blocks, 3 passes; short reads, power failures, cuts, saves at any step | `TypeOK`, `OpenedIsWhole`, `FullReadsSealWhole`, `WholeVaultsOpen`, `RecordNamesSealed`, `EveryPassReachesDisk`, `OnlyTheseLoseData` |
| `commands` | 3 forms of a path, 2 places, 2 contents, 2 encryptions, 3 tape files, 3 ways to encrypt; failing `mt` and `tar`, kills; 3 of 5 shares of 2 symbols | `TypeOK`, `MatchingReadsOpenTheArchive`, `ArchivesAreKept`, `RemovedVaultsWereOpened`, `OnlyCliSharesRecover`, `FewerTellLittle` |
| `lto_read` | an absolute path, no faults | **violation** of `ReadsOpenTheArchive` |
| `audit_log` | 2 writers, 1 reader, 2 records, 2 names, 5 values of the key variable, 4 seconds, days of 2 | `ReadersTypeOK`, `LossIsBounded`, `SettledStays`, `TodayIsToday`, `RecentAreNewest`, `ListsAddUp` |
| `sync` | 2 writers, 2 syncs, 2 records, 2 seconds, all faults of disk, portal and process; fair | `TypeOK`, `RepeatsOnlyAfterTrouble`, `SkipsOnlyOvertaken`, `SettledIsPushed` |
| `dashboard` | 3 requests of 2 addresses, limit 2, window 2, 4 ticks, failing and restarted server; fair | `TypeOK`, `AtMostTwiceTheRate`, `RefusalsAreEarned`, `OnlyRecentClientsKept`, `MutexIsNotKept`, `EveryClientIsTaken` |

Each property of a passing run has a mutant in `PROJECT.json`: a definition of
the model changed the way a bug would change the code (`Mutant of ...` in the
modules), under which the same run finds the property violated.

`audit_log` is the only run without the deadlock check: with a key variable that
is no key, readers stop for good, and so does everything once the records and
seconds are used up.

### Why the bounds are enough

- *Registry.* Two nonces are enough for a collision and a fresh draw; three
  tasks give two in one process and one beside them; five cells hold two whole
  nonces and a torn half, so misalignment happens. `MaxCells` only stops the file
  from growing.
- *Vault.* Files of zero, one and two blocks are the cases of the one-ahead loop:
  the first chunk is the last, it has no content, or it has a successor. Salts
  bound the encryptions: a third one can overwrite what the first two left. Two
  inodes are one more than the other call can keep open after an unlink. There is
  no bound on decryptions and saves.
- *Stream.* A block and a half is the least file with a short read in its middle,
  a full read after it and a last chunk that is not full; one block is the file
  whose last chunk is full. Two encryptions make one that repeats what another
  left. Three passes stand for the code's seven: a first, one between and a last;
  the theorems hold for any number. `MaxRuns` bounds the encryptions; saves, cuts
  and power failures come without a bound.
- *Commands.* The three forms are the ones `tar` treats differently: no directory,
  the working directory and one below. Three files on the tape are two archives
  and a mark, so there is something to write over; `MaxTape` and `MaxEncs` are the
  bounds. What `tar` extracts to any other place is not followed: no typed path
  names it. A field of 7 is the least with five non-zero numbers; the key and
  the coefficients are random in the code and constant in the run, but
  `FewerTellLittle` ranges over all draws that could have given the same shares, and
  `OnlyCliSharesRecover` is proved for every key and draw.
- *Audit and sync.* Two records and two seconds give the same second, a later
  one and a late arrival; two writers can interleave record and line end; two
  syncs can overlap. Days of two seconds let midnight fall between any two steps.
  `MaxRecords` and `MaxClock` are the bounds. `sync` has no failing writers, since
  `audit_log` has them and a sync only sees what is readable.
- *Dashboard.* Four ticks are two windows, so a bucket can be renewed and
  purged; two requests of one address overlap, the third is another client's.
  `MaxTime` stops the clock; clients and servers come and go without a bound.

### Fairness

- `NonceRegistry`: weak fairness of a task's steps (a runnable future is polled)
  and strong fairness of `Lock`, because tokio's `Mutex` queues its waiters first
  in, first out. Nothing is assumed of draws, restarts and failures.
- `Vault`: weak fairness of a call's steps. No lock of `try_lock_exclusive` is
  waited for; `ShredLock` waits, and its fairness is weak, so that it holds shows
  that nobody keeps the plaintext's lock for ever.
- `PortalSync`: the operator runs sync again and again, and of these runs again
  and again one reads the log (`SyncRead`) and one has its request answered
  (`PushAccepted`): strong fairness, because loads and failures may come between.
  This is an assumption on the environment: no failure meets every run. Nothing
  is assumed of the writers or of the clock.
- `Dashboard`: weak fairness of `Accept` for each client: the loop is polled when
  a connection is queued, and the kernel's queue is first in, first out. Nothing
  is assumed of the clients, so `EveryClientIsTaken` holds although a client never
  finishes its handshake.

### What the violations say

- `nonce_two_processes`: the registry consults its own set and never the file
  again, so a process that started earlier is granted what another has
  registered since (`crypto.rs:93` promises no reuse across restarts; a restart
  of *this* process is indeed safe, see `nonce_single`).
- `vault_header_only`: a vault cut down to its 200-byte header decrypts to an empty
  file with Ok. A kill right after the first write of an encryption is one way to
  get there; the tests tamper with the body only.
- `lto_read`: `lto-write /w/x` archives `w/x.aegis`; `lto-read /w/x` extracts that
  to `/w/w/x.aegis` and decrypts `/w/x.aegis`, which is the local vault, possibly a
  newer one, or missing. The read says Ok and removes that vault.

More disagreements came up in the models. They have no run of their own: they
are the exceptions that a checked property names.

- `OnlyTheseLoseData` lists what can lose the user's data. Among its cases are a
  power failure before the vault is written back (nothing syncs it before the
  shredding syncs the destruction of the plaintext), shredding after a short read,
  the repetition of a shredding that was interrupted, which encrypts the
  pattern bytes over the good vault ("Shred: original deleted, vault survives",
  `README.md:94`), and whatever the user saves while a shredding or a decryption is
  writing the file.
- `CallsAreAtomic` promises nothing once two calls have used one file at a time: it is
  the atomicity of calls made one after another, whatever each leaves for the next.
  The locks do not prevent an overlap, and no property catches what it does. An
  encryption and a decryption that start together truncate each other's file and
  leave both empty; a second encryption truncates the vault of one that is finished
  and still writes its audit record; one that opened the plaintext before another
  shredded it locks the unlinked, empty inode and puts an empty vault over the good
  one.
- `FlushedVaultIsComplete` has the premise that no plaintext has been unlinked, for
  the same reason, and speaks of the moment before the flush only.
- `RemovedVaultsWereOpened` does not count an extraction that overwrites the user's own
  vault of that name: that vault is gone before anything was opened.
- `RepeatsOnlyAfterTrouble` against `sync.rs:13-14` ("never re-push
  already-acknowledged entries"): a kill between the portal's answer and the save,
  a failing save, a failing read of the state file or an overlapping run, and they
  are pushed again.
- `SkipsOnlyOvertaken` and `SettledIsPushed` against `sync.rs:91-92` ("Pushes any
  locally-recorded audit entries newer than the last successful sync"): an entry
  that is appended after a run has read one of its second or a later one is never
  pushed.
- `OnlyCliSharesRecover` against `main.rs:107`: the shares that the menu asks the user
  to save are cut to their first half, and `lto-write` drops them.
- `ListsAddUp` counts media as clients, as the code does; `report` for a client finds no
  physical operation of that client, since the client is only in the record's hash.
- `AtMostTwiceTheRate`: up to 119 requests in a minute, against the 60 in the head of
  `dashboard.rs`.
- A torn append of the registry makes a single process reissue nonces after a
  restart, which is why `nonce_single` and its theorem leave "torn" out.

## 4. What is proved

The theorems hold for every value of the constants under the modules' named
assumptions: which calls and failures occur, how many processes, tasks, inodes,
salts and nonces there are, and what the files contain, is left open.

`NonceRegistryProofs`:

- `TypeCorrect`: `Spec => []TypeOK`.
- `GrantedOncePerLife`: `Spec => []UniqueWithinProcess`. `UniqueWithinProcess` is
  not inductive: it says nothing of a task between `contains` and `insert`. It is
  strengthened by `MutexInv` (whoever is between the two holds the mutex of its
  process, and the set is loaded) and `LifeInv` (what was granted in this life is
  in the set; what is about to be granted is not).
- `GrantsStayReadable`: without torn appends, `[]GrantsAreDurable`. `DurableInv`
  adds that file and durable prefix are of even length, so that every nonce is
  where the loader looks, and that a task past `sync_data` finds its nonce in the
  durable prefix.
- `SingleProcessIssuesFreshNonces`: with one process, and failures that leave no
  part of a nonce and lose no file, `Spec => IssuesFreshNonces`, the refinement of
  `FreshNonce`. `FreshInv`: whatever was ever granted is in the set once it is
  loaded; that the loader brings it back is `DurableInv`.

`VaultProofs`: `TypeCorrect`. `BasicInv` is `TypeOK` with `HandleInv` (handles are
open and keys derived when a step uses them: without it `data[fd[p]]` has no
type), `VaultMutex` (who is past the vault's lock holds it) and `KeyInv` (a salt
belongs to one encryption, and nothing is sealed under it before its loop).

and on top of `BasicInv`:

- `EncryptionSealsItsSource`: `[]SealedIsSource`. `SourceInv` says of an encryption
  inside its loop that what it has sealed is the beginning of the file it has
  open and the block in hand is the next one. What protects the file meanwhile is
  not its own lock, which a decryption's truncation ignores, but the vault's:
  every step that changes a plaintext (`DecOpenDst`, `DecChunk`, `ShredWipe`,
  `ShredTruncate`, `PlainCut`) is made by a call that holds the vault's lock, and so does the
  encryption from its first read to its flush (`VaultMutex`).
- `DecryptionOpensWhatWasSealed`: `[]OpenedIsSealed`. `GenuineInv`: every chunk in
  the vault, or in a reader's buffer, that is intact is the block of the book of
  its salt at its position, and a last one means that the salt is sealed and has
  that many. `OutputInv`: a decryption has written the first `done` blocks of its
  salt's book, and once it is past the last chunk, all of them.

Both split the steps in the same way: a step either keeps what the invariant
speaks of (one frame lemma), or is one of the few that build it up.

`VaultRefinementProofs`, on top of these (`SharedInductive`):

- `EncryptionCompletesTheVault`: on storage that does not decay by itself,
  `[]FlushedVaultIsComplete`, with any number of calls, i/o errors and kills; it is
  about an encryption's flush, while it has both locks, and not about the time after.
  `LockInv` says who holds which lock, `OnePlain` that until an unlink all handles
  are of one inode. With both the plaintext's lock guards the vault too: only the
  encryption that holds it gets as far as truncating the vault. `BuildingInv`: the
  vault has the chunks that encryption has sealed so far, and at its flush it is
  whole.
- `VaultImplementsAtomicVault`: without failures, `SharedSpec => CallsAreAtomic`.
  The invariant `UntilClash` says that before a clash at most one call uses a
  file that is being written (`OneUser`), and then (`AloneInv`): a vault nobody is
  writing is whole, an open file is the one at the path, what is shredded is
  what the vault holds, and a reader of the vault reads what it holds still. Each
  step is then a save, or an encryption (`EncOpenDst`), a shred (`ShredWipe`) or a
  decryption (`DecOpenDst`) of `AtomicVault`, or leaves both files as they are
  seen (`MovesStep`). Failures are excluded because the claim is false with them:
  a call that fails or is killed may leave a vault that opens to nothing.

`VaultStreamProofs`, for every block size, content and number of passes. `IInv`
gives each cell of a vault its place in what was sealed (`VaultsOK`), relates the
block in hand to file and hash (`HashOK`, `SealOK`, `BlocksOK`), the opened blocks
to the plaintext (`OpenOK`), and counts the passes on the disk (`PassesOK`). What
speaks of the file holds until a save (`saved`), what speaks of its blocks until a
save or a short read (`spoilt`).

- `EveryPassIsOnDisk`, `RecordsNameWhatIsSealed`, `FullReadsGiveWholeVaults`,
  `WhatOpensIsWhole`: the four invariants of the run, with `TypeCorrect`.
- `CompleteVaultsOpen`: `WholeVaultsOpen`. The encryption takes the last chunk from
  its read-ahead, the decryption from the vault's size; `IInv` gives both as
  arithmetic on the content's length, and a full last block is where they could
  differ.
- `NothingElseLosesData`: `OnlyTheseLoseData`. `DataOK` says of each point of a call
  that is not excused what still holds the content: the file up to the first
  pass, the vault from then on. With saves at every step it also has to say how long
  the file is that a pass goes over, since a save may change that.

`CommandsProofs`: `TypeCorrect`; `WritesKeepArchives` (`ArchivesAreKept`), from
`AtTheEnd`: a write whose `mt eom` did not fail has its head behind all archives;
`ReadsOpenWhatTheyExtracted` (`[]MatchingReadsOpenTheArchive`) and
`NoVaultIsRemovedUnopened` (`RemovedVaultsWereOpened`), both from `InPlace`: from
`tar` to the removal nobody touches the temporary name, and the vault a read is
about to remove is the one its decryption has opened. And, resting on
`RecoveryProofs`:

- `RecoverableExactlyFromTheCli` (`OnlyCliSharesRecover`), for every threshold,
  number of shares, length of a key and prime: any set of shares that the CLI prints
  of the threshold's size or more gives the key, and what the menu and `lto-write`
  leave never does. The second is short: the half of a share is shorter than a share
  (`HalfIsShorter`), so `Recovered` refuses it whatever is put beside it, and none
  is fewer than the threshold (`NoShareNoKey`). For the first, `SharesGiveTheKey` is
  Lagrange interpolation with the weights as the fold that the model has. The fold
  takes its members in an order that is not known; `FoldSplits` shows that any one
  can be taken first, since the field's multiplication commutes. Then the weights
  add up to one (`OnesGiveOne`), values times the distance to a share lose that
  share (`Sieve`), and `EndsInterpolate` goes through Horner's rule from the last
  coefficient to the first: what is left of the polynomial from coefficient d on,
  with as many shares as coefficients left, gives coefficient d at zero. The numbers
  of the shares being different and not zero (`Points`) is where the proof needs
  `Deal` to count from one.
- `FewerSharesTellLittle` (`FewerTellLittle`): one share less than the threshold
  rules out at most as many values of a symbol as there are such shares.
  `VanishingAtAll` makes a polynomial that is one at zero and zero at those shares,
  share by share, which has no more coefficients than there are; a multiple of it,
  added to the symbol's own, gives any other symbol and the same shares (`Moved`,
  `MovedFitsTheShares`). Its coefficients are a draw of the dealer's unless one of
  them is zero, which each is for one symbol at most (`ZeroForOneSymbol`): so no
  more symbols are ruled out than there are coefficients (`FewerRuleOutFew`).

`DashboardProofs`, for every limit, window and number of requests and addresses:

- `TypeCorrect`; `MutexIsGivenBack` (`[]MutexIsNotKept`), from `MutexInv`.
- `RateIsBounded` (`[]AtMostTwiceTheRate`) and `RefusedHaveUsedTheLimit`
  (`RefusalsAreEarned`). Both follow from `RateInv`, which relates an address's
  bucket to the history of what it was let through: the latest requests, as many
  as the bucket counts, fall into the bucket's window, and whatever is `Limit` or
  more places before the first of these is older than it by a window.
- `OldClientsAreForgotten`: `OnlyRecentClientsKept`, for clients of the last two
  windows.

`AuditProofs`, for the log alone (`LogSpec`, any number of writers, records and
failures):

- `LossStaysBounded`: `[]LossIsBounded`. `CountOK` is the argument: it counts the
  places where an append was cut short or met another one, a file that ends
  without a line end and has none coming counts in advance, and each place
  spoils the record before it and the one after it. `KeptOK`: an acknowledged
  record is in the file.
- `SettledRecordsStay`: `SettledStays`.
- `SyncOnlyReads`: the behaviours of `PortalSync` are behaviours of the log, so that
  both hold there too.

and for the sync command beside it:

- `TypeCorrect`; `NothingElseIsSkipped` (`[]SkipsOnlyOvertaken`). `SkipInv`: what a
  run has loaded, and what the state file says, passes only records that are at
  the portal or were overtaken; what a run is pushing is all that was new; what
  it is about to save has been received.
- `NothingElseIsRepeated` (`[]RepeatsOnlyAfterTrouble`). `OnceInv`: without trouble
  there is one run at a time, and the watermark, the portal and the run agree on
  which records have been acknowledged.

and for the readers, for every number of writers, readers, names and records, every
file, and every limit and length of a day: `ReadersOnlyRead` (`ReadersSpec =>
LogSpec`): beyond what the log allows its writers nothing is done to it, so that
`LossStaysBounded` and `SettledRecordsStay` hold here too. The inductive invariant is
`ReadersInv`: each record in the file or in a writer's hand is of an append that
was started, has its time and what it is about (`OriginOK`, `WhatOK`, `HandOK`), and
stands in the file once (`OnceInFile`); what a reader has found are such records,
newest first (`SeenOK`); and its readings of the clock are in their order
(`ReadingsOK`).

- `ReadersTypesHold`: `[]ReadersTypeOK`; that no record is under a key which the
  variable cannot give is part of it.
- `ListsShowTheNewest`: `[]RecentAreNewest`. `Ranks`: in a finite set under a strict
  linear order, counting those before it gives each element a number of its own
  and each number an element. So `Sorted` is a list of what was found, each once
  (`SortedProperties`), and newest first (`SortedIsNewestFirst`).
- `ReportsAddUp`: `[]ListsAddUp`. The two reports split the places of the list; the
  counts per medium are the sizes of disjoint classes, whose sum is the size of
  their union (`SumOfClasses`), because each record found is about one thing and
  is found once.
- `StatisticsCountToday`: `[]TodayIsToday`, arithmetic on the two readings, the first
  not after the second (`ReadingsOK`).

The theorems' assumptions are the `ASSUME`s of the component modules; TLC
evaluates them in every run. Of the constants they say that processes, inodes,
bounds and block sizes are finite or positive, and that a marker such as `None`,
`Missing` or `Unparsable` is none of the values it stands beside; that names are
finitely many and a key has at least one symbol; that the key variable holds
`EnvKey` or nothing that `get_audit_key_from_env` accepts; that the threshold is at
least one and at most the number of shares, and keys and draws are of the right
lengths; and that the shares are fewer than `Prime` and no product of two numbers
below it is zero modulo it, which says that it is a prime. Where a theorem
excludes a kind of failure (`GrantsStayReadable`, `SingleProcessIssuesFreshNonces`,
`EncryptionCompletesTheVault`, `VaultImplementsAtomicVault`), the code does not have
the property with it.

## 5. What is only model-checked

- All liveness (`EveryDrawAnswered`, `EveryCallReturns`, `SettledIsPushed`,
  `EveryClientIsTaken`): it needs fairness and ENABLED, which the prover does not
  handle.
- The three violated properties are claims of comments and documents and are not
  meant to be proved.

## 6. What is not modelled

- Cryptography: a chunk, header or record verifies exactly if it was made under
  that key; `MasterKey::derive` gives every salt keys of its own. The seven of
  twelve nonce bytes that the cipher uses are not told apart from the twelve, which
  no vault meets, since each salt has keys of its own.
- `verify`, which reads a header and keeps no state; argument parsing, prompts,
  QR codes, HTML, JSON and the wording of reports.
- `get_media_types`, which looks for parts of words in paths, and `get_vault_status`,
  which prints variables.
- The TLS configuration: that it loads or fails before the server has state.
- Connections that outlive their server in the menu keep the old limiter, so such a
  client has two limits; only the new limiter is modelled.
- The menu at the end of its input, where it prints its prompt for ever.
- Windows: locks there are mandatory, files cannot be unlinked while open, and the
  tape is `robocopy`.
- The clock going backwards.

## 7. Plan

Done: the registry, the vault with its two content theorems, its refinement and
its stream, the log with its readers and the sync, the limiter with the server, the
commands with shares and tape. Every operation that changes state is an action of
a module, except where section 6 says so.

Proved: every safety property of these, and both refinements.

What is left:

1. Readability of the longest proofs, `VaultStreamProofs`, `RecoveryProofs` and
   `VaultRefinementProofs`.
2. The Windows variants of the tape commands, whose locks and moves differ.
