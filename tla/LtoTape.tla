------------------------------ MODULE LtoTape ------------------------------
(***************************************************************************)
(* LtoTape of src/lto.rs on Unix: write_encrypted and read_encrypted, which *)
(* run mt and tar, and the tape, a sequence of archives behind a device     *)
(* that does not rewind by itself.  tar archives a path as it was given,    *)
(* without a leading slash, and extracts it below the directory of the      *)
(* output path.  async_encrypt and async_decrypt are single steps here;     *)
(* Vault has their detail.                                                  *)
(***************************************************************************)
EXTENDS Naturals, Sequences, SequencesExt

CONSTANTS
    Typed,       \* paths as given: [abs : BOOLEAN, dirs : a sequence, name]
    Cwd,         \* the working directory
    Dot,         \* the component "."
    Places,      \* where files can be: [dirs, name] from the root
    Contents,    \* contents of files
    None,        \* no such file
    Partial,     \* a vault that was cut, on the tape or on the disk
    Blank,       \* a tape file without data, between two marks
    TapeFaults,  \* failures that occur: subset of {"eom", "tar", "kill"}
    MaxEncs,     \* bound: encryptions
    MaxTape      \* bound: files on the tape

ASSUME TapeFaultsAssumption == TapeFaults \subseteq {"eom", "tar", "kill"}

VARIABLES
    plain,      \* per place: the plaintext file
    vault,      \* per place: the vault <place>.aegis
    encs,       \* encryptions so far
    tape,       \* files on the tape: archives [member, vault] or Blank
    pos,        \* files before the head
    pc,         \* the next step of the call in progress
    arg,        \* the path it was given
    eomFailed,  \* history: this call's "mt eom" did not reach the end
    from        \* history: the archive tar has extracted for this call

fileVars == <<plain, vault, encs>>
tapeVars == <<tape, pos>>
callVars == <<pc, arg, eomFailed, from>>
ltoVars == <<fileVars, tapeVars, callVars>>

Normal(dirs) == SelectSeq(dirs, LAMBDA c : c # Dot)

\* The place a path names.
PlaceOf(t) == [dirs |-> Normal((IF t.abs THEN <<>> ELSE Cwd) \o t.dirs), name |-> t.name]

\* Where tar puts a member when it extracts for output path t.
ExtractedAt(t, m) ==
    [dirs |-> Normal((IF t.abs THEN <<>> ELSE Cwd) \o t.dirs \o m.dirs), name |-> m.name]

\* A vault opens to its content; the key is that of encryption enc.
VaultOf(c, k) == [enc |-> k, content |-> c]

\* Whole vaults.
Vaults == [enc : 1 .. MaxEncs, content : Contents]

ASSUME TypedAssumption == Typed # {} /\ \A t \in Typed : PlaceOf(t) \in Places
ASSUME NoneAssumption == None \notin Vaults /\ None # Partial /\ Partial \notin Vaults
ASSUME BoundsAssumption == MaxEncs \in Nat /\ MaxTape \in Nat

(* Types.                                                                   *)
LtoTypeOK ==
    /\ plain \in [Places -> Contents \cup {None}]
    /\ vault \in [Places -> Vaults \cup {Partial, None}]
    /\ encs \in 0 .. MaxEncs
    /\ \A i \in DOMAIN tape : tape[i] = Blank \/ tape[i].vault \in Vaults \cup {Partial}
    /\ pos \in 0 .. Len(tape)
    /\ pc \in {"idle", "w_eom", "w_tar", "w_weof", "r_tar", "r_open", "r_remove"}
    /\ arg \in Typed

LtoInit ==
    /\ plain \in [Places -> Contents \cup {None}]
    /\ vault = [p \in Places |-> None]
    /\ encs = 0
    /\ tape = <<>> /\ pos = 0
    /\ pc = "idle"
    /\ arg = CHOOSE t \in Typed : TRUE
    /\ eomFailed = FALSE
    /\ from = None

----------------------------------------------------------------------------

\* The call is over, with Ok or Err.
Return == pc' = "idle" /\ from' = None /\ eomFailed' = FALSE /\ UNCHANGED arg

Begin(t, step) == pc' = step /\ arg' = t /\ UNCHANGED <<eomFailed, from>>

\* async_encrypt of what t names: a new vault in place of the old.
Encrypt(t) ==
    /\ plain[PlaceOf(t)] # None
    /\ encs < MaxEncs
    /\ encs' = encs + 1
    /\ vault' = [vault EXCEPT ![PlaceOf(t)] = VaultOf(plain[PlaceOf(t)], encs + 1)]
    /\ UNCHANGED plain

(* write_encrypted: the file exists, it is encrypted, and the recovery      *)
(* shares are dropped.                                                      *)
WriteStart(t) ==
    /\ pc = "idle"
    /\ Encrypt(t)
    /\ Begin(t, "w_eom")
    /\ UNCHANGED tapeVars

\* Mutant of MtEom: no "mt eom", the tape is written where it stands.
NoMtEom ==
    /\ pc = "w_eom"
    /\ pc' = "w_tar"
    /\ UNCHANGED <<fileVars, tapeVars, arg, eomFailed, from>>

(* "mt eom", whose failure is only logged, or cannot be started: Err.       *)
MtEom ==
    /\ pc = "w_eom"
    /\ \/ pc' = "w_tar" /\ pos' = Len(tape) /\ UNCHANGED <<tape, arg, eomFailed, from>>
       \/ /\ "eom" \in TapeFaults
          /\ pc' = "w_tar" /\ eomFailed' = TRUE
          /\ UNCHANGED <<tapeVars, arg, from>>
       \/ "eom" \in TapeFaults /\ Return /\ UNCHANGED tapeVars
    /\ UNCHANGED fileVars

\* The tape up to the head and v after it: writing ends the tape there.
WrittenTape(v) == Append(SubSeq(tape, 1, pos), [member |-> arg, vault |-> v])

(* "tar -cf": the whole archive, or a part of it or nothing and an error.   *)
TarWrite ==
    /\ pc = "w_tar"
    /\ Len(tape) < MaxTape
    /\ \/ /\ tape' = WrittenTape(vault[PlaceOf(arg)])
          /\ pc' = "w_weof"
          /\ UNCHANGED <<arg, eomFailed, from>>
       \/ "tar" \in TapeFaults /\ tape' \in {tape, WrittenTape(Partial)} /\ Return
    /\ pos' = IF tape' = tape THEN pos ELSE Len(tape')
    /\ UNCHANGED fileVars

(* "mt weof", a further mark, if it works; Ok.                              *)
MtWeof ==
    /\ pc = "w_weof"
    /\ \/ tape' = Append(tape, Blank) /\ pos' = pos + 1
       \/ "eom" \in TapeFaults /\ UNCHANGED tapeVars
    /\ Return
    /\ UNCHANGED fileVars

(* read_encrypted.                                                          *)
ReadStart(t) ==
    /\ pc = "idle"
    /\ Begin(t, "r_tar")
    /\ UNCHANGED <<fileVars, tapeVars>>

\* Mutant of ExtractsTo: the archive is looked for in the working directory.
ExtractsToCwd(f) ==
    /\ pos' = pos + 1
    /\ vault' = [vault EXCEPT ![[dirs |-> Cwd, name |-> f.member.name]] = f.vault]

\* "tar -xf -C" of archive f goes below the output's directory.
ExtractsTo(f) ==
    /\ pos' = pos + 1
    /\ vault' = [vault EXCEPT ![ExtractedAt(arg, f.member)] = f.vault]

(* tar fails for a bare output name, whose parent is "", at the end of the  *)
(* tape and for a cut archive, whose part it extracts; a blank file is an   *)
(* empty archive and no error.                                              *)
TarRead ==
    LET bare == ~arg.abs /\ arg.dirs = <<>> IN
    /\ pc = "r_tar"
    /\ \/ /\ ~bare /\ pos < Len(tape)
          /\ \/ /\ tape[pos + 1] # Blank
                /\ ExtractsTo(tape[pos + 1])
                /\ \/ tape[pos + 1].vault = Partial /\ Return
                   \/ /\ tape[pos + 1].vault # Partial
                      /\ from' = tape[pos + 1]
                      /\ pc' = "r_open"
                      /\ UNCHANGED <<arg, eomFailed>>
             \/ /\ tape[pos + 1] = Blank
                /\ pos' = pos + 1
                /\ pc' = "r_open"
                /\ UNCHANGED <<vault, arg, eomFailed, from>>
       \/ /\ bare \/ pos = Len(tape) \/ "tar" \in TapeFaults
          /\ Return
          /\ UNCHANGED <<vault, pos>>
    /\ UNCHANGED <<plain, encs, tape>>

\* Mutant of OpenExtracted: an error of async_decrypt is passed over.
OpenAnyway ==
    /\ pc = "r_open"
    /\ LET p == PlaceOf(arg) IN
       plain' = [plain EXCEPT ![p] = IF vault[p] \in {None, Partial} THEN None ELSE vault[p].content]
    /\ pc' = "r_remove"
    /\ UNCHANGED <<vault, encs, tapeVars, arg, eomFailed, from>>

(* async_decrypt of <output>.aegis, whatever tar has extracted and where.   *)
OpenExtracted ==
    /\ pc = "r_open"
    /\ LET p == PlaceOf(arg) IN
       \/ /\ vault[p] \notin {None, Partial}
          /\ plain' = [plain EXCEPT ![p] = vault[p].content]
          /\ pc' = "r_remove"
          /\ UNCHANGED <<arg, eomFailed, from>>
       \/ /\ vault[p] = Partial
          /\ plain' = [plain EXCEPT ![p] = None]
          /\ Return
       \/ vault[p] = None /\ Return /\ UNCHANGED plain
    /\ UNCHANGED <<vault, encs, tapeVars>>

(* remove_file of <output>.aegis; Ok.                                       *)
RemoveExtracted ==
    /\ pc = "r_remove"
    /\ vault' = [vault EXCEPT ![PlaceOf(arg)] = None]
    /\ Return
    /\ UNCHANGED <<plain, encs, tapeVars>>

(* The process ends.                                                        *)
KillTape ==
    /\ "kill" \in TapeFaults
    /\ pc # "idle"
    /\ Return
    /\ UNCHANGED <<fileVars, tapeVars>>

(* The operator winds the tape to a file.                                   *)
Wind ==
    /\ pc = "idle"
    /\ pos' \in 0 .. Len(tape)
    /\ UNCHANGED <<fileVars, tape, callVars>>

(* The user saves or deletes a file.                                        *)
SavePlain ==
    /\ pc = "idle"
    /\ \E p \in Places, c \in Contents \cup {None} : plain' = [plain EXCEPT ![p] = c]
    /\ UNCHANGED <<vault, encs, tapeVars, callVars>>

LtoNext ==
    \/ \E t \in Typed : ReadStart(t)
    \/ MtEom \/ TarWrite \/ MtWeof
    \/ TarRead \/ OpenExtracted \/ RemoveExtracted
    \/ KillTape \/ Wind \/ SavePlain

----------------------------------------------------------------------------

(* No archive is written over, wherever the operator has left the tape,     *)
(* unless "mt eom" has failed in the call that does it.                     *)
ArchivesAreKept == [][eomFailed \/ IsPrefix(tape, tape')]_tape

(* A read that goes on to Ok has opened what tar has just extracted if that *)
(* went to the temporary name: the file was written under its bare name.    *)
MatchingReadsOpenTheArchive ==
    /\ pc = "r_remove"
    /\ from # None
    /\ ExtractedAt(arg, from.member) = PlaceOf(arg)
    => plain[PlaceOf(arg)] = from.vault.content

(* "Read and decrypt a file from an LTO tape" (cli.rs): in any case.        *)
ReadsOpenTheArchive ==
    pc = "r_remove" /\ from # None => plain[PlaceOf(arg)] = from.vault.content

(* A vault disappears from the disk, the user's own included, only when the *)
(* plaintext beside it holds its content.                                   *)
RemovedVaultsWereOpened ==
    [][\A p \in Places :
          vault[p] # None /\ vault'[p] = None =>
              vault[p] # Partial /\ plain[p] = vault[p].content]_vault
=============================================================================
