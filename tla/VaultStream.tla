---------------------------- MODULE VaultStream ----------------------------
(***************************************************************************)
(* The bytes of a vault and what of them is on the disk: the streaming      *)
(* loops of async_encrypt and async_decrypt, the passes of secure_delete    *)
(* and its sync_all calls, for one call at a time.                          *)
(*                                                                          *)
(* A file is a sequence of cells, BUFFER_SIZE cells to a block.  The vault  *)
(* is the header cell and then, for each chunk, its sealed cells and a tag  *)
(* cell, with no mark of where a chunk ends: async_decrypt cuts the vault   *)
(* by the block size, whatever the encryption cut it by.                    *)
(***************************************************************************)
EXTENDS Integers, Sequences

CONSTANTS
    Values,       \* plaintext cells
    Contents,     \* contents the file may have at first
    Edits,        \* contents the user saves later
    BUFFER_SIZE,  \* cells read at a time
    Passes,       \* passes of secure_delete: 7
    Tag, Junk,    \* an authentication tag; an overwritten cell
    Gone,         \* the path does not exist
    MaxRuns,      \* bound: encryptions started
    Hazards       \* what happens: subset of {"short", "power", "cut", "save"}

ASSUME SizeAssumption == BUFFER_SIZE \in Nat \ {0} /\ Passes \in Nat \ {0}
ASSUME ContentsAssumption == Contents \cup Edits \subseteq Seq(Values)
ASSUME RunsAssumption == MaxRuns \in Nat
ASSUME HazardsAssumption == Hazards \subseteq {"short", "power", "cut", "save"}

VARIABLES
    plain,      \* the plaintext file as processes see it, or Gone
    plainDisk,  \* the plaintext file on the disk
    vault,      \* the vault as processes see it, or Gone
    vaultDisk,  \* the vault on the disk
    pc,         \* the next step of the call in progress
    hash,       \* file_hash: the content hashed at the start
    cur,        \* the block read and not yet sealed
    pos,        \* cells read; size that secure_delete took of the file; cells
                \* of the vault left to open
    n,          \* chunks sealed or opened; passes made
    runs,       \* encryptions started; the number of one is its salt
    books,      \* history, per encryption: what it has sealed
    wanted,     \* history: the content the user last saved or asked for
    spoilt,     \* history: this encryption met a short read or a save
    saved,      \* history: the user saved since this call began
    dirty,      \* history: a pass is in memory that is not on the disk
    scrubs      \* history: passes that have gone over the disk

files == <<plain, plainDisk, vault, vaultDisk>>
history == <<books, wanted, spoilt, saved, dirty, scrubs>>
vars == <<files, pc, hash, cur, pos, n, runs, history>>

Steps == {"idle", "e_open", "e_first", "e_seal", "e_flush", "s_pass", "s_sync",
          "s_trunc", "s_unlink", "e_record", "d_chunk", "d_record"}

Cell == [salt : Nat, at : Nat, off : Nat, size : Nat, last : BOOLEAN, val : Values \cup {Junk, Tag}]

ASSUME GoneAssumption == Gone \notin Seq(Values \cup {Junk}) \cup Seq(Cell)

(* Types.                                                                   *)
TypeOK ==
    /\ {plain, plainDisk} \subseteq Seq(Values \cup {Junk}) \cup {Gone}
    /\ {vault, vaultDisk} \subseteq Seq(Cell) \cup {Gone}
    /\ pc \in Steps
    /\ {hash, cur} \subseteq Seq(Values \cup {Junk})
    /\ pos \in Nat /\ n \in Nat /\ runs \in 0 .. MaxRuns
    /\ books \in Seq(Seq(Values \cup {Junk})) /\ Len(books) = runs
    /\ wanted \in Seq(Values \cup {Junk})
    /\ {spoilt, saved, dirty} \subseteq BOOLEAN /\ scrubs \in 0 .. Passes

Init ==
    /\ wanted \in Contents
    /\ plain = wanted /\ plainDisk = wanted
    /\ vault = Gone /\ vaultDisk = Gone
    /\ pc = "idle"
    /\ hash = <<>> /\ cur = <<>>
    /\ pos = 0 /\ n = 0 /\ runs = 0
    /\ books = <<>>
    /\ spoilt = FALSE /\ saved = FALSE /\ dirty = FALSE /\ scrubs = 0

----------------------------------------------------------------------------
(* Sealing.                                                                 *)

Smaller(i, j) == IF i < j THEN i ELSE j
Larger(i, j) == IF i < j THEN j ELSE i

HeaderCell(s) == [salt |-> s, at |-> 0, off |-> 0, size |-> 0, last |-> FALSE, val |-> Tag]

\* Block p sealed as the i-th chunk of encryption s.
Sealed(s, i, p, last) ==
    [j \in 1 .. Len(p) + 1 |->
        [salt |-> s, at |-> i, off |-> j, size |-> Len(p), last |-> last,
         val |-> IF j <= Len(p) THEN p[j] ELSE Tag]]

\* These cells are one sealed chunk: the i-th of s, and the last one or not.
Authentic(seg, s, i, last) ==
    seg # <<>> /\ seg = Sealed(s, i, [j \in 1 .. Len(seg) - 1 |-> seg[j].val], last)

\* The i-th block of content c when every block but the last is full.
Block(c, i) == SubSeq(c, (i - 1) * BUFFER_SIZE + 1, Smaller(i * BUFFER_SIZE, Len(c)))

\* v is the vault of content c under salt s, made of such blocks; an empty
\* file has one block.
Whole(v, s, c) ==
    \E k \in 1 .. Len(c) + 1 :
        /\ Len(c) <= k * BUFFER_SIZE
        /\ k = 1 \/ (k - 1) * BUFFER_SIZE < Len(c)
        /\ Len(v) = 1 + Len(c) + k
        /\ v[1] = HeaderCell(s)
        /\ \A i \in 1 .. k :
              LET start == (i - 1) * (BUFFER_SIZE + 1) + 2 IN
              SubSeq(v, start, start + Len(Block(c, i))) = Sealed(s, i, Block(c, i), i = k)

\* The vault is the whole output of the encryption its header names.
Complete(v) == v # Gone /\ v # <<>> /\ Whole(v, v[1].salt, books[v[1].salt])

----------------------------------------------------------------------------
(* async_encrypt.                                                           *)

Return == pc' = "idle" /\ cur' = <<>> /\ pos' = 0 /\ n' = 0 /\ hash' = <<>>

(* The file is there and not too large; its hash is taken; then nonce and   *)
(* keys, before anything is opened or locked.                               *)
EncStart ==
    /\ pc = "idle" /\ plain # Gone
    /\ runs < MaxRuns
    /\ runs' = runs + 1
    /\ books' = Append(books, <<>>)
    /\ hash' = plain
    /\ spoilt' = FALSE /\ saved' = FALSE
    /\ pc' = "e_open"
    /\ UNCHANGED <<files, cur, pos, n, wanted, dirty, scrubs>>

EncOpen ==
    /\ pc = "e_open"
    /\ vault' = <<>>
    /\ pc' = "e_first"
    /\ UNCHANGED <<plain, plainDisk, vaultDisk, hash, cur, pos, n, runs, history>>

\* How many cells one read may return: a full block or all there is, if need
\* be fewer.
ReadSizes ==
    LET all == Smaller(BUFFER_SIZE, IF pos < Len(plain) THEN Len(plain) - pos ELSE 0) IN
    IF "short" \in Hazards /\ all > 0 THEN 1 .. all ELSE {all}

\* A read of k cells.
Read(k) ==
    /\ pos' = pos + k
    /\ spoilt' = (spoilt \/ k < Smaller(BUFFER_SIZE, Len(plain) - pos))

EncFirst ==
    /\ pc = "e_first"
    /\ \E k \in ReadSizes : Read(k) /\ cur' = SubSeq(plain, pos + 1, pos + k)
    /\ pc' = "e_seal"
    /\ UNCHANGED <<files, hash, n, runs, books, wanted, saved, dirty, scrubs>>

\* Mutant of EncSeal: a block that is not full is taken for the last.
EncSealShort ==
    /\ pc = "e_seal"
    /\ \E k \in ReadSizes :
          LET last == k < BUFFER_SIZE IN
          /\ Read(k)
          /\ cur' = SubSeq(plain, pos + 1, pos + k)
          /\ vault' = (IF n = 0 THEN <<HeaderCell(runs)>> ELSE vault)
                         \o Sealed(runs, n + 1, cur, last)
          /\ pc' = IF last THEN "e_flush" ELSE "e_seal"
    /\ books' = [books EXCEPT ![runs] = @ \o cur]
    /\ n' = n + 1
    /\ UNCHANGED <<plain, plainDisk, vaultDisk, hash, runs, wanted, saved, dirty, scrubs>>

(* One turn of the loop: read ahead, seal the block in hand, as the last    *)
(* one if the read returned nothing.                                        *)
EncSeal ==
    /\ pc = "e_seal"
    /\ \E k \in ReadSizes :
          LET last == k = 0 IN
          /\ Read(k)
          /\ cur' = SubSeq(plain, pos + 1, pos + k)
          /\ vault' = (IF n = 0 THEN <<HeaderCell(runs)>> ELSE vault)
                         \o Sealed(runs, n + 1, cur, last)
          /\ pc' = IF last THEN "e_flush" ELSE "e_seal"
    /\ books' = [books EXCEPT ![runs] = @ \o cur]
    /\ n' = n + 1
    /\ UNCHANGED <<plain, plainDisk, vaultDisk, hash, runs, wanted, saved, dirty, scrubs>>

(* flush, which syncs nothing; shred, of a file of this size, or not.       *)
EncFlush ==
    /\ pc = "e_flush"
    /\ n' = 0
    /\ \/ pc' = "e_record" /\ UNCHANGED <<pos, scrubs>>
       \/ pc' = "s_pass" /\ pos' = Len(plain) /\ scrubs' = 0
    /\ UNCHANGED <<files, hash, cur, runs, books, wanted, spoilt, saved, dirty>>

(* The audit record with the hash of the start, and Ok.                     *)
EncReturn ==
    /\ pc = "e_record"
    /\ Return
    /\ UNCHANGED <<files, runs, history>>

----------------------------------------------------------------------------
(* secure_delete.                                                           *)

\* File f after cells c are written from offset w on; of cells that nobody
\* wrote nothing is known.
Written(f, w, c) ==
    [i \in 1 .. Larger(Len(f), w + Len(c)) |->
        IF i \in w + 1 .. w + Len(c) THEN c[i - w] ELSE IF i <= Len(f) THEN f[i] ELSE Junk]

(* seek and one pass, over as much as there was at first.                   *)
ShredPass ==
    /\ pc = "s_pass"
    /\ plain' = Written(plain, 0, [i \in 1 .. pos |-> Junk])
    /\ n' = n + 1
    /\ dirty' = TRUE
    /\ pc' = "s_sync"
    /\ UNCHANGED <<plainDisk, vault, vaultDisk, hash, cur, pos, runs, books, wanted, spoilt, saved, scrubs>>

\* What is in memory of the plaintext reaches the disk.
PlainReachesDisk ==
    /\ plainDisk' = plain
    /\ dirty' = FALSE
    /\ scrubs' = IF dirty THEN scrubs + 1 ELSE scrubs

\* Mutant of ShredSync: no sync_all between the passes.
ShredNoSync ==
    /\ pc = "s_sync"
    /\ pc' = IF n < Passes THEN "s_pass" ELSE "s_trunc"
    /\ UNCHANGED <<files, hash, cur, pos, n, runs, history>>

(* sync_all after each pass.                                                *)
ShredSync ==
    /\ pc = "s_sync"
    /\ PlainReachesDisk
    /\ pc' = IF n < Passes THEN "s_pass" ELSE "s_trunc"
    /\ UNCHANGED <<plain, vault, vaultDisk, hash, cur, pos, n, runs, books, wanted, spoilt, saved>>

(* set_len(0) and sync_all.                                                 *)
ShredTruncate ==
    /\ pc = "s_trunc"
    /\ plain' = <<>> /\ plainDisk' = <<>>
    /\ dirty' = FALSE
    /\ pc' = "s_unlink"
    /\ UNCHANGED <<vault, vaultDisk, hash, cur, pos, n, runs, books, wanted, spoilt, saved, scrubs>>

\* Mutant of ShredUnlink: the hash is taken only now, of a file that is gone.
ShredUnlinkHashes ==
    /\ pc = "s_unlink"
    /\ plain' = Gone
    /\ hash' = <<>>
    /\ pc' = "e_record"
    /\ UNCHANGED <<plainDisk, vault, vaultDisk, cur, pos, n, runs, history>>

(* remove_file.                                                             *)
ShredUnlink ==
    /\ pc = "s_unlink"
    /\ plain' = Gone
    /\ pc' = "e_record"
    /\ UNCHANGED <<plainDisk, vault, vaultDisk, hash, cur, pos, n, runs, history>>

----------------------------------------------------------------------------
(* async_decrypt.                                                           *)

(* With a full header the output is truncated, unopened chunks or not.      *)
DecOpen ==
    /\ pc = "idle"
    /\ vault \notin {Gone, <<>>}
    /\ plain' = <<>>
    /\ pos' = Len(vault) - 1
    /\ wanted' = IF Complete(vault) THEN books[vault[1].salt] ELSE wanted
    /\ saved' = FALSE
    /\ pc' = "d_chunk"
    /\ UNCHANGED <<plainDisk, vault, vaultDisk, hash, cur, n, runs, books, spoilt, dirty, scrubs>>

\* The next cells of the vault: a block and its tag, or what there is.
Segment == SubSeq(vault, Len(vault) - pos + 1, Len(vault) - pos + Smaller(pos, BUFFER_SIZE + 1))

\* Mutant of SegmentOpens: the last flag is not checked.
SegmentOpensAnyway ==
    \E last \in BOOLEAN : Authentic(Segment, vault[1].salt, n + 1, last)

\* Mutant of SegmentOpens: a full last chunk is not taken for the last.
SegmentOpensStrictly == Authentic(Segment, vault[1].salt, n + 1, pos < BUFFER_SIZE + 1)

\* decrypt_last when nothing remains after it, decrypt_next otherwise.
SegmentOpens == Authentic(Segment, vault[1].salt, n + 1, pos <= BUFFER_SIZE + 1)

\* The output with what the next chunk opens to where the writer stands.
Extended ==
    Written(plain, Len(vault) - 1 - pos - n, [j \in 1 .. Len(Segment) - 1 |-> Segment[j].val])

\* Mutant of DecChunk: a full chunk is counted off, whatever was read.
DecChunkUnderflows ==
    /\ pc = "d_chunk" /\ pos > 0
    /\ SegmentOpens
    /\ plain' = Extended
    /\ pos' = pos - (BUFFER_SIZE + 1)
    /\ n' = n + 1
    /\ UNCHANGED <<plainDisk, vault, vaultDisk, pc, hash, cur, runs, history>>

DecChunk ==
    /\ pc = "d_chunk" /\ pos > 0
    /\ SegmentOpens
    /\ plain' = Extended
    /\ pos' = pos - Len(Segment)
    /\ n' = n + 1
    /\ UNCHANGED <<plainDisk, vault, vaultDisk, pc, hash, cur, runs, history>>

(* The output is removed; Err.                                              *)
DecFail ==
    /\ pc = "d_chunk" /\ pos > 0
    /\ ~SegmentOpens
    /\ plain' = Gone
    /\ Return
    /\ UNCHANGED <<plainDisk, vault, vaultDisk, runs, history>>

DecDone ==
    /\ pc = "d_chunk" /\ pos = 0
    /\ pc' = "d_record"
    /\ UNCHANGED <<files, hash, cur, pos, n, runs, history>>

DecReturn ==
    /\ pc = "d_record"
    /\ Return
    /\ UNCHANGED <<files, runs, history>>

----------------------------------------------------------------------------
(* The environment.                                                         *)

(* The user saves the file, before, after and between the steps of a call:  *)
(* the locks are advisory and keep no editor out.                           *)
Save ==
    /\ "save" \in Hazards
    /\ wanted' \in Edits
    /\ plain' = wanted' /\ plainDisk' = wanted'
    /\ spoilt' = TRUE /\ saved' = TRUE /\ dirty' = FALSE
    /\ UNCHANGED <<vault, vaultDisk, pc, hash, cur, pos, n, runs, books, scrubs>>

(* The operating system writes back what it has, in its own time; while a   *)
(* file is being written, what PowerCut leaves stands for that.             *)
WriteBack ==
    /\ pc \notin {"e_open", "e_first", "e_seal", "d_chunk"}
    /\ \/ PlainReachesDisk /\ UNCHANGED vaultDisk
       \/ vaultDisk' = vault /\ UNCHANGED <<plainDisk, dirty, scrubs>>
    /\ UNCHANGED <<plain, vault, pc, hash, cur, pos, n, runs, books, wanted, spoilt, saved>>

(* The power fails.  A file is then what was written back, or more of it.   *)
PowerCut ==
    /\ "power" \in Hazards
    /\ plain' \in {plain, plainDisk} /\ plainDisk' = plain'
    /\ \/ vault' \in {vault, vaultDisk}
       \/ vault \notin {vaultDisk, Gone} /\ \E k \in 0 .. Len(vault) : vault' = SubSeq(vault, 1, k)
    /\ vaultDisk' = vault'
    /\ dirty' = FALSE
    /\ Return
    /\ UNCHANGED <<runs, books, wanted, spoilt, saved, scrubs>>

(* The stored vault loses its end.                                          *)
Cut ==
    /\ "cut" \in Hazards
    /\ pc = "idle" /\ vault # Gone
    /\ \E k \in 0 .. Len(vault) : vault' = SubSeq(vault, 1, k)
    /\ vaultDisk' = vault'
    /\ UNCHANGED <<plain, plainDisk, pc, hash, cur, pos, n, runs, history>>

Next ==
    \/ EncStart \/ EncOpen \/ EncFirst \/ EncSeal \/ EncFlush \/ EncReturn
    \/ ShredPass \/ ShredSync \/ ShredTruncate \/ ShredUnlink
    \/ DecOpen \/ DecChunk \/ DecFail \/ DecDone \/ DecReturn
    \/ Save \/ WriteBack \/ PowerCut \/ Cut

Spec == Init /\ [][Next]_vars

----------------------------------------------------------------------------

(* Wherever a vault is cut, and however short the reads were that made it,  *)
(* what opens without an error is all that was sealed, or a bare header;    *)
(* and the output has it, unless the user saved over it meanwhile.          *)
OpenedIsWhole ==
    pc = "d_record" /\ n > 0 =>
        Complete(vault) /\ (saved \/ plain = books[vault[1].salt])

(* A vault cut at the block size opens: empty files, files of full blocks   *)
(* and others, for the size decides on the last chunk here and the          *)
(* reading ahead there.  Only full reads make sure of that cut.             *)
WholeVaultsOpen == [][DecFail => ~Complete(vault)]_vars
FullReadsSealWhole == pc = "e_flush" /\ ~spoilt => Whole(vault, runs, plain)

(* The record names the hash of what was sealed, although it was taken      *)
(* before the file was opened and however short the reads were since,       *)
(* unless the user saved the file meanwhile.                                *)
RecordNamesSealed == pc = "e_record" /\ ~saved => hash = books[runs]

(* When the file is removed every pass has gone over the disk, none of them *)
(* merged with the next in memory, unless a save came between.              *)
EveryPassReachesDisk == pc = "s_unlink" /\ ~saved => scrubs = Passes

(* The content is still in the file, or the vault opens to it; what is      *)
(* empty, or was overwritten already, is no content.                        *)
Recoverable ==
    \/ \A i \in DOMAIN wanted : wanted[i] = Junk
    \/ plain = wanted
    \/ Complete(vault) /\ books[vault[1].salt] = wanted

(* Who can lose the user's data, whenever the user saves: a power cut       *)
(* before the vault is written back, damage to the vault, a decryption of a *)
(* damaged vault over a file that was still there or of any vault over what *)
(* is saved meanwhile, a pass over the file after a short read or a save,   *)
(* the end of secure_delete after a save, and the encryption of what an     *)
(* interrupted shredding or decryption has left.                            *)
OnlyTheseLoseData ==
    [][Recoverable /\ ~Recoverable' =>
          \/ PowerCut /\ (vaultDisk # vault \/ plainDisk # plain)
          \/ Cut
          \/ EncOpen /\ plain # wanted
          \/ (DecOpen \/ DecChunk \/ DecFail) /\ ~Complete(vault)
          \/ DecChunk /\ saved
          \/ ShredPass /\ spoilt
          \/ (ShredTruncate \/ ShredUnlink) /\ saved]_vars
=============================================================================
