---------------------------- MODULE CommandsProofs ----------------------------
(***************************************************************************)
(* What the file commands and the tape guarantee for every set of paths,    *)
(* every working directory, every content, wherever the operator winds the  *)
(* tape, and with mt and tar failing and processes killed at any moment.    *)
(***************************************************************************)
EXTENDS Commands, RecoveryProofs

Archive == [member : Typed, vault : Vaults \cup {Partial}]

----------------------------------------------------------------------------
(* The tape.                                                                *)

(* What is written to the tape keeps all that is before the head.           *)
LEMMA WrittenTapeProperties ==
    ASSUME tape \in Seq(Archive \cup {Blank}), pos \in 0 .. Len(tape),
           arg \in Typed, NEW v \in Vaults \cup {Partial}
    PROVE  /\ WrittenTape(v) \in Seq(Archive \cup {Blank})
           /\ Len(WrittenTape(v)) = pos + 1
           /\ \A i \in 1 .. pos : WrittenTape(v)[i] = tape[i]
<1> DEFINE A == Archive \cup {Blank}
           front == SubSeq(tape, 1, pos)
           a == [member |-> arg, vault |-> v]
<1>1. pos \in Nat /\ pos <= Len(tape) /\ Len(tape) \in Nat
  BY LenProperties
<1>2. front \in Seq(A) /\ Len(front) = pos /\ \A i \in 1 .. pos : front[i] = tape[i]
  BY <1>1, SubSeqProperties
<1>3. a \in A
  BY DEF Archive
<1> HIDE DEF A, front, a
<1>4. /\ Append(front, a) \in Seq(A)
      /\ Len(Append(front, a)) = pos + 1
      /\ \A i \in 1 .. pos : Append(front, a)[i] = front[i]
  BY <1>2, <1>3, AppendProperties
<1> QED BY <1>2, <1>4 DEF WrittenTape, A, front, a

(* A tape that begins like another one has it as a prefix.                  *)
LEMMA PrefixOfLonger ==
    ASSUME NEW S, NEW s \in Seq(S), NEW t \in Seq(S), Len(s) <= Len(t),
           \A i \in 1 .. Len(s) : t[i] = s[i]
    PROVE  IsPrefix(s, t)
<1> DEFINE n == Len(s)
<1>1. n \in Nat /\ Len(t) \in Nat
  BY LenProperties
<1>2. /\ SubSeq(s, 1, n) \in Seq(S) /\ Len(SubSeq(s, 1, n)) = n
      /\ \A i \in 1 .. n : SubSeq(s, 1, n)[i] = s[i]
  BY <1>1, SubSeqProperties
<1>3. /\ SubSeq(t, 1, n) \in Seq(S) /\ Len(SubSeq(t, 1, n)) = n
      /\ \A i \in 1 .. n : SubSeq(t, 1, n)[i] = t[i]
  BY <1>1, SubSeqProperties
<1>4. SubSeq(s, 1, n) = SubSeq(t, 1, n)
  BY <1>2, <1>3, SeqEqual
<1> QED BY <1>4 DEF IsPrefix

(* A blank file adds to the tape.                                           *)
LEMMA MarkedTapeProperties ==
    ASSUME tape \in Seq(Archive \cup {Blank})
    PROVE  /\ Append(tape, Blank) \in Seq(Archive \cup {Blank})
           /\ Len(Append(tape, Blank)) = Len(tape) + 1
           /\ \A i \in 1 .. Len(tape) : Append(tape, Blank)[i] = tape[i]
<1> DEFINE A == Archive \cup {Blank}
<1>1. Blank \in A
  OBVIOUS
<1> HIDE DEF A
<1>2. tape \in Seq(A) => /\ Append(tape, Blank) \in Seq(A)
                         /\ Len(Append(tape, Blank)) = Len(tape) + 1
                         /\ \A i \in 1 .. Len(tape) : Append(tape, Blank)[i] = tape[i]
  BY <1>1, AppendProperties
<1> QED BY <1>2 DEF A

----------------------------------------------------------------------------
(* Types.                                                                   *)

TapeOK == tape \in Seq(Archive \cup {Blank})

FilesOK ==
    /\ plain \in [Places -> Contents \cup {None}]
    /\ vault \in [Places -> Vaults \cup {Partial, None}]
    /\ encs \in 0 .. MaxEncs

CallOK ==
    /\ pc \in {"idle", "w_eom", "w_tar", "w_weof", "r_tar", "r_open", "r_remove"}
    /\ arg \in Typed

HeadOK == TapeOK /\ pos \in 0 .. Len(tape)

DealOK == deal.enc = encs /\ (deal # NoDeal => deal.by \in Ways /\ deal.key \in Keys)

\* What is about to be put on the tape has been encrypted.
Encrypted == pc \in {"w_eom", "w_tar"} => vault[PlaceOf(arg)] \in Vaults

(* A tape of archives and blank files is one LtoTypeOK admits.              *)
LEMMA TapeTypes ==
    ASSUME TapeOK
    PROVE  /\ \A i \in DOMAIN tape : tape[i] = Blank \/ tape[i].vault \in Vaults \cup {Partial}
           /\ Len(tape) \in Nat /\ DOMAIN tape = 1 .. Len(tape)
           /\ \A i \in 1 .. Len(tape) : tape[i] \in Archive \cup {Blank}
<1>1. /\ Len(tape) \in Nat /\ DOMAIN tape = 1 .. Len(tape)
      /\ \A i \in 1 .. Len(tape) : tape[i] \in Archive \cup {Blank}
  BY LenProperties DEF TapeOK
<1> QED BY <1>1 DEF Archive

(* An encryption puts a whole vault in its place.                           *)
LEMMA EncryptType ==
    ASSUME FilesOK, NEW t \in Typed, Encrypt(t)
    PROVE  /\ plain' = plain
           /\ vault' \in [Places -> Vaults \cup {Partial, None}]
           /\ vault'[PlaceOf(t)] \in Vaults
           /\ \A p \in Places : p # PlaceOf(t) => vault'[p] = vault[p]
           /\ encs' \in 0 .. MaxEncs
<1> DEFINE place == PlaceOf(t)
<1>1. place \in Places
  BY TypedAssumption
<1>2. plain[place] \in Contents
  BY <1>1 DEF Encrypt, FilesOK
<1>3. encs + 1 \in 1 .. MaxEncs
  BY BoundsAssumption DEF Encrypt, FilesOK
<1>4. VaultOf(plain[place], encs + 1) \in Vaults
  BY <1>2, <1>3 DEF VaultOf, Vaults
<1> HIDE DEF place
<1>5. vault' = [vault EXCEPT ![place] = VaultOf(plain[place], encs + 1)]
  BY DEF Encrypt, place
<1>6. encs' \in 0 .. MaxEncs /\ plain' = plain
  BY <1>3 DEF Encrypt
<1> QED BY <1>1, <1>4, <1>5, <1>6 DEF FilesOK, place

(* A deal is of the encryption just made.                                   *)
LEMMA DealType ==
    ASSUME NEW way \in Ways, DealFor(way)
    PROVE  deal'.enc = encs' /\ deal'.by \in Ways /\ deal'.key \in Keys
BY DEF DealFor

(* The type invariant, in the parts that actions leave alone together.      *)
TypeInv == FilesOK /\ CallOK /\ HeadOK /\ DealOK /\ Encrypted

LEMMA TypeInvIsTypeOK == TypeInv => TypeOK
BY TapeTypes DEF TypeInv, TypeOK, LtoTypeOK, FilesOK, CallOK, HeadOK, DealOK

(* Writing.                                                                 *)
LEMMA TypeWrites ==
    ASSUME TypeInv, MtEom \/ TarWrite \/ MtWeof, UNCHANGED deal
    PROVE  TypeInv'
<1>1. FilesOK /\ CallOK /\ HeadOK /\ DealOK /\ Encrypted
  BY DEF TypeInv
<1>2. UNCHANGED fileVars /\ UNCHANGED arg
  BY DEF MtEom, TarWrite, MtWeof, Return
<1>3. FilesOK' /\ DealOK'
  BY <1>1, <1>2 DEF FilesOK, DealOK, fileVars
<1>4. CallOK' /\ Encrypted'
  BY <1>1, <1>2 DEF CallOK, Encrypted, MtEom, TarWrite, MtWeof, Return, fileVars
<1>5. Len(tape) \in Nat
  BY <1>1, TapeTypes DEF HeadOK
<1>6. HeadOK'
  <2>1. CASE MtEom
    BY <1>1, <1>5, <2>1 DEF HeadOK, TapeOK, MtEom, tapeVars
  <2>2. CASE TarWrite
    <3>1. \/ UNCHANGED tape /\ pos' = pos
          \/ \E v \in Vaults \cup {Partial} : tape' = WrittenTape(v) /\ pos' \in {pos, Len(tape')}
      BY <1>1, <2>2 DEF TarWrite, Encrypted
    <3>2. CASE UNCHANGED tape /\ pos' = pos
      BY <3>2, <1>1 DEF HeadOK, TapeOK
    <3>3. ASSUME NEW v \in Vaults \cup {Partial},
                 tape' = WrittenTape(v), pos' \in {pos, Len(tape')}
          PROVE  HeadOK'
      <4>1. tape' \in Seq(Archive \cup {Blank}) /\ Len(tape') = pos + 1
        BY <3>3, <1>1, WrittenTapeProperties DEF HeadOK, TapeOK, CallOK
      <4>2. pos \in Nat
        BY <1>1, <1>5 DEF HeadOK
      <4> QED BY <4>1, <4>2, <3>3 DEF HeadOK, TapeOK
    <3> QED BY <3>1, <3>2, <3>3
  <2>3. CASE MtWeof
    <3>1. CASE UNCHANGED tapeVars
      BY <3>1, <1>1 DEF HeadOK, TapeOK, tapeVars
    <3>2. CASE tape' = Append(tape, Blank) /\ pos' = pos + 1
      <4>1. TapeOK' /\ Len(tape') = Len(tape) + 1
        BY <3>2, <1>1, MarkedTapeProperties DEF HeadOK, TapeOK
      <4> QED BY <4>1, <3>2, <1>1, <1>5 DEF HeadOK
    <3> QED BY <2>3, <3>1, <3>2 DEF MtWeof
  <2> QED BY <2>1, <2>2, <2>3
<1> QED BY <1>3, <1>4, <1>6 DEF TypeInv

(* Reading.                                                                 *)
LEMMA TypeReads ==
    ASSUME TypeInv, TarRead \/ OpenExtracted \/ RemoveExtracted, UNCHANGED deal
    PROVE  TypeInv'
<1>1. FilesOK /\ CallOK /\ HeadOK /\ DealOK /\ Encrypted
  BY DEF TypeInv
<1>2. UNCHANGED <<encs, tape, arg>>
  BY DEF TarRead, OpenExtracted, RemoveExtracted, Return, tapeVars
<1>3. CallOK' /\ Encrypted'
  BY <1>1, <1>2 DEF CallOK, Encrypted, TarRead, OpenExtracted, RemoveExtracted, Return
<1>4. DealOK'
  BY <1>1, <1>2 DEF DealOK
<1>5. /\ Len(tape) \in Nat
      /\ \A i \in 1 .. Len(tape) : tape[i] \in Archive \cup {Blank}
  BY <1>1, TapeTypes DEF HeadOK
<1>6. FilesOK' /\ pos' \in 0 .. Len(tape)
  <2>1. CASE TarRead
    <3>1. CASE UNCHANGED <<vault, pos>>
      BY <3>1, <2>1, <1>1 DEF TarRead, FilesOK, HeadOK
    <3>2. CASE pos < Len(tape) /\ pos' = pos + 1 /\ UNCHANGED vault
      BY <3>2, <2>1, <1>1, <1>5 DEF TarRead, FilesOK, HeadOK
    <3>3. CASE pos < Len(tape) /\ tape[pos + 1] # Blank /\ ExtractsTo(tape[pos + 1])
      <4>1. pos + 1 \in 1 .. Len(tape)
        BY <3>3, <1>1, <1>5 DEF HeadOK
      <4>2. tape[pos + 1] \in Archive
        BY <4>1, <1>5, <3>3
      <4>3. tape[pos + 1].vault \in Vaults \cup {Partial}
        BY <4>2 DEF Archive
      <4>4. vault' \in [Places -> Vaults \cup {Partial, None}]
        BY <4>3, <3>3, <1>1 DEF ExtractsTo, FilesOK
      <4> QED BY <4>1, <4>4, <3>3, <2>1, <1>1 DEF FilesOK, ExtractsTo, TarRead
    <3> QED BY <2>1, <3>1, <3>2, <3>3 DEF TarRead
  <2>2. CASE OpenExtracted
    <3>1. PlaceOf(arg) \in Places
      BY <1>1, TypedAssumption DEF CallOK
    <3>2. vault[PlaceOf(arg)] \notin {None, Partial} => vault[PlaceOf(arg)].content \in Contents
      BY <3>1, <1>1 DEF FilesOK, Vaults
    <3> QED BY <2>2, <3>2, <1>1 DEF OpenExtracted, FilesOK, HeadOK, tapeVars
  <2>3. CASE RemoveExtracted
    BY <2>3, <1>1 DEF RemoveExtracted, FilesOK, HeadOK, tapeVars
  <2> QED BY <2>1, <2>2, <2>3
<1>7. HeadOK'
  BY <1>6, <1>2, <1>1 DEF HeadOK, TapeOK
<1> QED BY <1>3, <1>4, <1>6, <1>7 DEF TypeInv

(* Encryptions, by either command, and decryptions.                         *)
LEMMA TypeCommands ==
    ASSUME TypeInv, NEW t \in Typed,
           (\E way \in Ways : EncryptCommand(t, way)) \/ LtoWrite(t) \/ DecryptCommand(t)
    PROVE  TypeInv'
<1>1. FilesOK /\ CallOK /\ HeadOK /\ DealOK /\ Encrypted
  BY DEF TypeInv
<1>2. CASE \E way \in Ways : EncryptCommand(t, way)
  <2>1. PICK way \in Ways : EncryptCommand(t, way)
    BY <1>2
  <2>2. Encrypt(t) /\ DealFor(way) /\ UNCHANGED <<tapeVars, callVars>> /\ pc = "idle"
    BY <2>1 DEF EncryptCommand
  <2>3. FilesOK'
    BY <2>2, <1>1, EncryptType DEF FilesOK
  <2>4. DealOK'
    BY <2>2, DealType DEF DealOK
  <2> QED BY <2>2, <2>3, <2>4, <1>1
       DEF TypeInv, CallOK, HeadOK, TapeOK, Encrypted, tapeVars, callVars
<1>3. CASE LtoWrite(t)
  <2>1. Encrypt(t) /\ DealFor("lto") /\ UNCHANGED tapeVars /\ pc' = "w_eom" /\ arg' = t
    BY <1>3 DEF LtoWrite, WriteStart, Begin
  <2>2. FilesOK' /\ vault'[PlaceOf(t)] \in Vaults
    BY <2>1, <1>1, EncryptType DEF FilesOK
  <2>3. "lto" \in Ways
    BY <1>3 DEF LtoWrite
  <2>4. DealOK'
    BY <2>1, <2>3, DealType DEF DealOK
  <2> QED BY <2>1, <2>2, <2>4, <1>1 DEF TypeInv, CallOK, HeadOK, TapeOK, Encrypted, tapeVars
<1>4. CASE DecryptCommand(t)
  <2>1. PlaceOf(t) \in Places
    BY TypedAssumption
  <2>2. vault[PlaceOf(t)] \in Vaults \cup {Partial}
    BY <2>1, <1>1, <1>4 DEF FilesOK, DecryptCommand
  <2>3. vault[PlaceOf(t)] # Partial => vault[PlaceOf(t)].content \in Contents
    BY <2>2 DEF Vaults
  <2>4. FilesOK'
    BY <2>3, <1>1, <1>4 DEF FilesOK, DecryptCommand
  <2> QED BY <2>4, <1>1, <1>4
       DEF DecryptCommand, TypeInv, CallOK, HeadOK, TapeOK, DealOK, Encrypted, tapeVars, callVars
<1> QED BY <1>2, <1>3, <1>4

LEMMA TypeStep == TypeInv /\ [Next]_vars => TypeInv'
<1> SUFFICES ASSUME TypeInv, [Next]_vars PROVE TypeInv'
  OBVIOUS
<1>1. FilesOK /\ CallOK /\ HeadOK /\ DealOK /\ Encrypted
  BY DEF TypeInv
<1>2. ASSUME NEW t \in Typed,
             (\E way \in Ways : EncryptCommand(t, way)) \/ LtoWrite(t) \/ DecryptCommand(t)
      PROVE  TypeInv'
  BY <1>2, TypeCommands
<1>3. CASE (MtEom \/ TarWrite \/ MtWeof) /\ UNCHANGED deal
  BY <1>3, TypeWrites
<1>4. CASE (TarRead \/ OpenExtracted \/ RemoveExtracted) /\ UNCHANGED deal
  BY <1>4, TypeReads
<1>5. ASSUME NEW t \in Typed, ReadStart(t), UNCHANGED deal
      PROVE  TypeInv'
  BY <1>1, <1>5 DEF ReadStart, Begin, TypeInv, FilesOK, CallOK, HeadOK, TapeOK, DealOK,
                    Encrypted, fileVars, tapeVars
<1>6. CASE KillTape /\ UNCHANGED deal
  BY <1>1, <1>6 DEF KillTape, Return, TypeInv, FilesOK, CallOK, HeadOK, TapeOK, DealOK,
                    Encrypted, fileVars, tapeVars
<1>7. CASE Wind /\ UNCHANGED deal
  BY <1>1, <1>7 DEF Wind, TypeInv, FilesOK, CallOK, HeadOK, TapeOK, DealOK,
                    Encrypted, fileVars, callVars
<1>8. CASE SavePlain /\ UNCHANGED deal
  BY <1>1, <1>8 DEF SavePlain, TypeInv, FilesOK, CallOK, HeadOK, TapeOK, DealOK,
                    Encrypted, tapeVars, callVars
<1>9. CASE UNCHANGED vars
  BY <1>1, <1>9 DEF vars, ltoVars, fileVars, tapeVars, callVars, TypeInv, FilesOK, CallOK,
                    HeadOK, TapeOK, DealOK, Encrypted
<1> QED BY <1>2, <1>3, <1>4, <1>5, <1>6, <1>7, <1>8, <1>9 DEF Next, LtoNext

----------------------------------------------------------------------------
(* The calls.                                                               *)

\* Only an "mt eom" that failed leaves the head short of the end.
AtTheEnd == pc = "w_tar" /\ ~eomFailed => pos = Len(tape)

\* tar has extracted for the calls that are past it, and what was whole.
Extracted ==
    /\ pc \notin {"r_open", "r_remove"} => from = None
    /\ from # None => from \in Archive /\ from.vault \in Vaults

\* The archive went to the temporary name.
Matching == from # None /\ ExtractedAt(arg, from.member) = PlaceOf(arg)

\* From tar to async_decrypt and on to remove_file nothing comes between.
InPlace ==
    /\ pc \in {"r_open", "r_remove"} /\ Matching => vault[PlaceOf(arg)] = from.vault
    /\ pc = "r_remove" => /\ vault[PlaceOf(arg)] \in Vaults
                          /\ plain[PlaceOf(arg)] = vault[PlaceOf(arg)].content

CallInv == AtTheEnd /\ Extracted /\ InPlace

(* tar extracts, async_decrypt opens what it finds, remove_file removes it. *)
LEMMA CallReads ==
    ASSUME TypeInv, CallInv, TarRead \/ OpenExtracted \/ RemoveExtracted
    PROVE  CallInv'
<1>1. FilesOK /\ CallOK /\ HeadOK /\ AtTheEnd /\ Extracted /\ InPlace
  BY DEF TypeInv, CallInv
<1>2. PlaceOf(arg) \in Places
  BY <1>1, TypedAssumption DEF CallOK
<1>3. CASE pc' = "idle" /\ from' = None
  BY <1>3 DEF CallInv, AtTheEnd, Extracted, InPlace, Matching
<1>4. CASE TarRead /\ pc' # "idle"
  <2>1. pc = "r_tar" /\ pos < Len(tape) /\ pc' = "r_open" /\ UNCHANGED arg /\ from = None
    BY <1>1, <1>4 DEF TarRead, Return, Extracted
  <2>2. AtTheEnd'
    BY <2>1 DEF AtTheEnd
  <2>3. CASE tape[pos + 1] = Blank /\ UNCHANGED from
    BY <2>1, <2>2, <2>3 DEF CallInv, Extracted, InPlace, Matching
  <2>4. CASE /\ tape[pos + 1] # Blank /\ ExtractsTo(tape[pos + 1])
             /\ tape[pos + 1].vault # Partial /\ from' = tape[pos + 1]
    <3>1. Len(tape) \in Nat /\ \A i \in 1 .. Len(tape) : tape[i] \in Archive \cup {Blank}
      BY <1>1, TapeTypes DEF HeadOK
    <3>2. pos + 1 \in 1 .. Len(tape)
      BY <2>1, <1>1, <3>1 DEF HeadOK
    <3>3. from' \in Archive
      BY <3>1, <3>2, <2>4
    <3>4. from'.vault \in Vaults
      BY <3>3, <2>4 DEF Archive
    <3>5. vault' = [vault EXCEPT ![ExtractedAt(arg, from'.member)] = from'.vault]
      BY <2>4 DEF ExtractsTo
    <3>6. ExtractedAt(arg, from'.member) = PlaceOf(arg) => vault'[PlaceOf(arg)] = from'.vault
      BY <3>5, <1>1, <1>2 DEF FilesOK
    <3>7. Matching' => ExtractedAt(arg, from'.member) = PlaceOf(arg)
      BY <2>1 DEF Matching
    <3>8. InPlace'
      BY <3>6, <3>7, <2>1 DEF InPlace
    <3> QED BY <3>3, <3>4, <3>8, <2>1, <2>2 DEF CallInv, Extracted
  <2> QED BY <1>4, <2>3, <2>4, <2>1 DEF TarRead, Return
<1>5. CASE OpenExtracted /\ pc' # "idle"
  <2>1. /\ pc = "r_open" /\ pc' = "r_remove" /\ UNCHANGED <<arg, from, vault>>
        /\ vault[PlaceOf(arg)] \notin {None, Partial}
        /\ plain' = [plain EXCEPT ![PlaceOf(arg)] = vault[PlaceOf(arg)].content]
    BY <1>5 DEF OpenExtracted, Return
  <2>2. vault[PlaceOf(arg)] \in Vaults /\ plain'[PlaceOf(arg)] = vault[PlaceOf(arg)].content
    BY <2>1, <1>1, <1>2 DEF FilesOK
  <2>3. Matching' <=> Matching
    BY <2>1 DEF Matching
  <2>4. InPlace'
    BY <2>1, <2>2, <2>3, <1>1 DEF InPlace
  <2> QED BY <2>1, <2>4, <1>1 DEF CallInv, AtTheEnd, Extracted
<1>6. RemoveExtracted => pc' = "idle" /\ from' = None
  BY DEF RemoveExtracted, Return
<1>7. (TarRead \/ OpenExtracted) /\ pc' = "idle" => from' = None
  BY DEF TarRead, OpenExtracted, Return
<1> QED BY <1>3, <1>4, <1>5, <1>6, <1>7

LEMMA CallStep == TypeInv /\ CallInv /\ [Next]_vars => CallInv'
<1> SUFFICES ASSUME TypeInv, CallInv, [Next]_vars PROVE CallInv'
  OBVIOUS
<1>1. AtTheEnd /\ Extracted /\ InPlace
  BY DEF CallInv
<1>2. CASE pc' \notin {"w_tar", "r_open", "r_remove"} /\ from' = None
  BY <1>2 DEF CallInv, AtTheEnd, Extracted, InPlace, Matching
<1>3. ASSUME NEW t \in Typed,
             (\E way \in Ways : EncryptCommand(t, way)) \/ LtoWrite(t) \/ DecryptCommand(t)
      PROVE  CallInv'
  <2>1. pc = "idle" /\ from = None
    BY <1>1, <1>3 DEF EncryptCommand, LtoWrite, WriteStart, DecryptCommand, Extracted
  <2>2. pc' \in {"idle", "w_eom"} /\ from' = None
    BY <2>1, <1>3 DEF EncryptCommand, LtoWrite, WriteStart, Begin, DecryptCommand, callVars
  <2> QED BY <2>2, <1>2
<1>4. CASE MtEom
  <2>1. from = None
    BY <1>1, <1>4 DEF MtEom, Extracted
  <2>2. CASE pc' = "w_tar" /\ UNCHANGED from
    BY <2>1, <2>2, <1>4 DEF MtEom, Return, CallInv, AtTheEnd, Extracted, InPlace, Matching
  <2>3. CASE Return
    BY <2>3, <1>2 DEF Return
  <2> QED BY <2>2, <2>3, <1>4 DEF MtEom
<1>5. CASE TarWrite \/ MtWeof
  <2>1. from = None
    BY <1>1, <1>5 DEF TarWrite, MtWeof, Extracted
  <2>2. pc' \in {"idle", "w_weof"} /\ from' = None
    BY <2>1, <1>5 DEF TarWrite, MtWeof, Return
  <2> QED BY <2>2, <1>2
<1>6. CASE TarRead \/ OpenExtracted \/ RemoveExtracted
  BY <1>6, CallReads
<1>7. ASSUME NEW t \in Typed, ReadStart(t)
      PROVE  CallInv'
  BY <1>7, <1>1, <1>2 DEF ReadStart, Begin, Extracted
<1>8. CASE KillTape
  BY <1>8, <1>2 DEF KillTape, Return
<1>9. CASE Wind \/ SavePlain
  <2>1. pc' = "idle" /\ from' = None
    BY <1>9, <1>1 DEF Wind, SavePlain, callVars, Extracted
  <2> QED BY <2>1, <1>2
<1>10. CASE UNCHANGED vars
  BY <1>1, <1>10 DEF vars, ltoVars, fileVars, tapeVars, callVars, CallInv, AtTheEnd,
                     Extracted, InPlace, Matching
<1> QED BY <1>3, <1>4, <1>5, <1>6, <1>7, <1>8, <1>9, <1>10 DEF Next, LtoNext

----------------------------------------------------------------------------
(* The theorems.                                                            *)

IInv == TypeInv /\ CallInv

LEMMA InvInit == Init => IInv
<1> SUFFICES ASSUME Init PROVE IInv
  OBVIOUS
<1>1. arg \in Typed
  BY TypedAssumption DEF Init, LtoInit
<1>2. HeadOK
  BY LenProperties, EmptySeq DEF Init, LtoInit, HeadOK, TapeOK
<1>3. FilesOK
  BY BoundsAssumption DEF Init, LtoInit, FilesOK
<1>4. DealOK
  BY DEF Init, LtoInit, DealOK, NoDeal
<1>5. CallOK /\ Encrypted /\ CallInv
  BY <1>1 DEF Init, LtoInit, CallOK, Encrypted, CallInv, AtTheEnd, Extracted, InPlace, Matching
<1> QED BY <1>2, <1>3, <1>4, <1>5 DEF IInv, TypeInv

LEMMA InvStep == IInv /\ [Next]_vars => IInv'
BY TypeStep, CallStep DEF IInv

LEMMA Invariance == Spec => []IInv
<1> QED BY InvInit, InvStep, PTL DEF Spec

(* Whatever the operator, mt and tar do, files, vaults, tape and deals stay *)
(* what the commands make of them.                                          *)
THEOREM TypeCorrect == Spec => []TypeOK
<1>1. IInv => TypeOK
  BY TypeInvIsTypeOK DEF IInv
<1> QED BY <1>1, Invariance, PTL

(* read_encrypted opens what it has just extracted if that went to the      *)
(* temporary name: nothing in lto.rs comes between tar and async_decrypt.   *)
THEOREM ReadsOpenWhatTheyExtracted == Spec => []MatchingReadsOpenTheArchive
<1>1. IInv => MatchingReadsOpenTheArchive
  BY DEF IInv, CallInv, InPlace, Matching, MatchingReadsOpenTheArchive
<1> QED BY <1>1, Invariance, PTL

(* write_encrypted puts nothing over an archive of earlier calls, wherever  *)
(* the tape was wound, unless its own "mt eom" has failed.                  *)
THEOREM WritesKeepArchives == Spec => ArchivesAreKept
<1>1. IInv /\ [Next]_vars => [eomFailed \/ IsPrefix(tape, tape')]_tape
  <2> SUFFICES ASSUME IInv, [Next]_vars, tape' # tape, ~eomFailed
               PROVE  IsPrefix(tape, tape')
    OBVIOUS
  <2> DEFINE A == Archive \cup {Blank}
  <2>1. FilesOK /\ CallOK /\ HeadOK /\ Encrypted /\ AtTheEnd
    BY DEF IInv, TypeInv, CallInv
  <2>2. tape \in Seq(A) /\ Len(tape) \in Nat /\ pos \in 0 .. Len(tape)
    BY <2>1, TapeTypes DEF HeadOK, TapeOK
  <2>3. TarWrite \/ MtWeof
    BY DEF Next, LtoNext, vars, ltoVars, tapeVars, callVars, fileVars, EncryptCommand, LtoWrite,
           WriteStart, DecryptCommand, MtEom, TarRead, OpenExtracted, RemoveExtracted,
           ReadStart, KillTape, Wind, SavePlain
  <2>4. CASE TarWrite
    <3>1. PICK v \in Vaults \cup {Partial} : tape' = WrittenTape(v)
      BY <2>1, <2>4 DEF TarWrite, Encrypted
    <3>2. pos = Len(tape)
      BY <2>1, <2>4 DEF TarWrite, AtTheEnd
    <3>3. /\ tape' \in Seq(A) /\ Len(tape') = Len(tape) + 1
          /\ \A i \in 1 .. Len(tape) : tape'[i] = tape[i]
      BY <3>1, <3>2, <2>1, <2>2, WrittenTapeProperties DEF CallOK
    <3> HIDE DEF A
    <3> QED BY <3>3, <2>2, PrefixOfLonger
  <2>5. CASE MtWeof
    <3>1. /\ tape' \in Seq(A) /\ Len(tape') = Len(tape) + 1
          /\ \A i \in 1 .. Len(tape) : tape'[i] = tape[i]
      BY <2>2, <2>5, MarkedTapeProperties DEF MtWeof, tapeVars
    <3> HIDE DEF A
    <3> QED BY <3>1, <2>2, PrefixOfLonger
  <2> QED BY <2>3, <2>4, <2>5
<1> QED BY <1>1, Invariance, PTL DEF Spec, ArchivesAreKept

(* No command makes a vault disappear, the user's own included, unless the  *)
(* plaintext beside it holds its content by then.                           *)
THEOREM NoVaultIsRemovedUnopened == Spec => RemovedVaultsWereOpened
<1> DEFINE Removal == \A p \in Places :
               vault[p] # None /\ vault'[p] = None =>
                   vault[p] # Partial /\ plain[p] = vault[p].content
<1>1. IInv /\ [Next]_vars => [Removal]_vault
  <2> SUFFICES ASSUME IInv, [Next]_vars, vault' # vault,
                      NEW p \in Places, vault[p] # None, vault'[p] = None
               PROVE  vault[p] # Partial /\ plain[p] = vault[p].content
    OBVIOUS
  <2>1. FilesOK /\ CallOK /\ HeadOK /\ InPlace
    BY DEF IInv, TypeInv, CallInv
  <2>2. \/ \E t \in Typed : Encrypt(t)
        \/ TarRead \/ RemoveExtracted
    BY DEF Next, LtoNext, vars, ltoVars, tapeVars, callVars, fileVars, EncryptCommand, LtoWrite,
           WriteStart, DecryptCommand, MtEom, TarWrite, MtWeof, OpenExtracted,
           ReadStart, KillTape, Wind, SavePlain
  <2>3. ASSUME NEW t \in Typed, Encrypt(t)
        PROVE  FALSE
    BY <2>1, <2>3, EncryptType, NoneAssumption
  <2>4. ~TarRead
    <3> SUFFICES ASSUME TarRead PROVE FALSE
      OBVIOUS
    <3>1. /\ pos < Len(tape) /\ tape[pos + 1] # Blank
          /\ ExtractsTo(tape[pos + 1])
      BY DEF TarRead
    <3>2. Len(tape) \in Nat /\ \A i \in 1 .. Len(tape) : tape[i] \in Archive \cup {Blank}
      BY <2>1, TapeTypes DEF HeadOK
    <3>3. pos + 1 \in 1 .. Len(tape)
      BY <3>1, <3>2, <2>1 DEF HeadOK
    <3>4. tape[pos + 1].vault \in Vaults \cup {Partial}
      BY <3>1, <3>2, <3>3 DEF Archive
    <3>5. vault'[p] \in {vault[p], tape[pos + 1].vault}
      BY <3>1, <2>1 DEF ExtractsTo, FilesOK
    <3> QED BY <3>4, <3>5, NoneAssumption
  <2>5. CASE RemoveExtracted
    <3>1. pc = "r_remove" /\ p = PlaceOf(arg)
      BY <2>1, <2>5 DEF RemoveExtracted, FilesOK
    <3> QED BY <3>1, <2>1, NoneAssumption DEF InPlace
  <2> QED BY <2>2, <2>3, <2>4, <2>5
<1> QED BY <1>1, Invariance, PTL DEF Spec, RemovedVaultsWereOpened

----------------------------------------------------------------------------
(* The recovery shares.                                                     *)

(* A share is its number and one symbol for each of the key's; half of it   *)
(* is shorter.                                                              *)
LEMMA HalfIsShorter ==
    ASSUME NEW key, NEW coeffs, NEW x \in 1 .. SHAMIR_TOTAL
    PROVE  Len(Half(Deal(key, coeffs)[x])) # KeyLen + 1
<1> DEFINE symbols == [j \in 1 .. KeyLen |-> ShareAt(key[j], coeffs[j], x)]
           V == {ShareAt(key[j], coeffs[j], x) : j \in 1 .. KeyLen} \cup {x}
           s == <<x>> \o symbols
           h == (Len(s) + 1) \div 2
<1>1. KeyLen \in Nat /\ KeyLen > 0
  BY KeyLenAssumption
<1>2. symbols \in Seq(V) /\ Len(symbols) = KeyLen
  <2>1. symbols \in [1 .. KeyLen -> V]
    OBVIOUS
  <2> HIDE DEF symbols, V
  <2> QED BY <1>1, <2>1
<1>3. x \in V
  OBVIOUS
<1> HIDE DEF symbols, V
<1>4. <<x>> \in Seq(V) /\ Len(<<x>>) = 1
  BY <1>3
<1>5. s \in Seq(V) /\ Len(s) = KeyLen + 1
  BY <1>1, <1>2, <1>4, ConcatProperties
<1>6. h \in 1 .. Len(s) /\ h < KeyLen + 1
  <2> HIDE DEF s
  <2> QED BY <1>1, <1>5
<1>7. Len(SubSeq(s, 1, h)) = h
  <2> HIDE DEF s, h
  <2> QED BY <1>5, <1>6, SubSeqProperties
<1>8. Deal(key, coeffs)[x] = s
  BY DEF Deal, s, symbols
<1> HIDE DEF s
<1>9. Half(s) = SubSeq(s, 1, h)
  BY DEF Half
<1> HIDE DEF h
<1>10. Len(Half(s)) # KeyLen + 1
  BY <1>1, <1>6, <1>7, <1>9
<1> QED BY <1>8, <1>10

(* What is no share is refused.                                             *)
LEMMA NoShareNoKey ==
    ASSUME NEW S, NEW s \in S, Len(s) # KeyLen + 1, NEW key \in Keys
    PROVE  Recovered(S) # key
<1>1. Recovered(S) = <<>>
  BY DEF Recovered
<1>2. DOMAIN key = 1 .. KeyLen /\ 1 \in 1 .. KeyLen
  BY KeysAssumption, KeyLenAssumption
<1>3. DOMAIN <<>> = {}
  BY EmptySeq
<1> QED BY <1>1, <1>2, <1>3

(* What a new deal is.                                                      *)
LEMMA NewDeal ==
    ASSUME [Next]_vars, deal' # deal
    PROVE  \E way \in Ways \cup {"lto"}, key \in Keys, coeffs \in Coeffs :
              /\ deal'.by = way /\ deal'.key = key /\ deal'.shares = Deal(key, coeffs)
              /\ key \in Key /\ coeffs \in [1 .. KeyLen -> Draw]
              /\ coeffs \in [1 .. KeyLen -> AnyDraw]
<1>1. PICK way \in Ways \cup {"lto"} : DealFor(way)
  BY DEF Next, vars, EncryptCommand, LtoWrite, DecryptCommand
<1>2. PICK key \in Keys, coeffs \in Coeffs :
         deal' = [enc |-> encs', by |-> way, key |-> key, shares |-> Deal(key, coeffs)]
  BY <1>1 DEF DealFor
<1>3. /\ key \in Key /\ coeffs \in [1 .. KeyLen -> Draw]
      /\ coeffs \in [1 .. KeyLen -> AnyDraw]
  BY KeysAssumption, CoeffsAssumption DEF Key, Draw, AnyDraw
<1>4. deal'.by = way /\ deal'.key = key /\ deal'.shares = Deal(key, coeffs)
  BY <1>2
<1> QED BY <1>3, <1>4

(* As many of the shares that the CLI prints as the threshold, whichever.   *)
LEMMA CliSharesGiveTheKey ==
    ASSUME [Next]_vars, deal' # deal, deal'.by = "cli", NEW S \in Enough(Printed(deal'))
    PROVE  Recovered(S) = deal'.key
<1>1. PICK way \in Ways \cup {"lto"}, key \in Keys, coeffs \in Coeffs :
         /\ deal'.by = way /\ deal'.key = key /\ deal'.shares = Deal(key, coeffs)
         /\ key \in Key /\ coeffs \in [1 .. KeyLen -> AnyDraw]
  BY NewDeal
<1>2. S \in SUBSET Range(Deal(key, coeffs)) /\ Cardinality(S) >= SHAMIR_THRESHOLD
  BY <1>1 DEF Enough, Printed
<1> QED BY <1>1, <1>2, SharesGiveTheKey

(* Half shares from the menu are refused, and nothing is too few.           *)
LEMMA OthersKeysAreLost ==
    ASSUME [Next]_vars, deal' # deal, deal'.by # "cli", NEW S \in Enough(Printed(deal'))
    PROVE  Recovered(S) # deal'.key
<1>1. PICK way \in Ways \cup {"lto"}, key \in Keys, coeffs \in Coeffs :
         /\ deal'.by = way /\ deal'.key = key /\ deal'.shares = Deal(key, coeffs)
  BY NewDeal
<1>2. way \in {"menu", "lto"}
  BY <1>1, WaysAssumption
<1>3. S \subseteq Printed(deal') /\ S # {}
  <2>1. S \subseteq Printed(deal') /\ Cardinality(S) >= SHAMIR_THRESHOLD
    BY DEF Enough
  <2>2. SHAMIR_THRESHOLD \in Int /\ SHAMIR_THRESHOLD > 0
    BY ThresholdAssumption
  <2>3. S = {} => Cardinality(S) = 0
    BY FS_EmptySet
  <2> QED BY <2>1, <2>2, <2>3
<1>4. PICK s \in S : s \in {Half(h) : h \in Range(Deal(key, coeffs))}
  BY <1>1, <1>2, <1>3 DEF Printed
<1>5. PICK x \in 1 .. SHAMIR_TOTAL : s = Half(Deal(key, coeffs)[x])
  BY <1>4 DEF Range, Deal
<1>6. Len(s) # KeyLen + 1
  BY <1>5, HalfIsShorter
<1> QED BY <1>1, <1>6, NoShareNoKey

(* Of what is printed of the shares, as many as the threshold, whichever,   *)
(* give the key if the CLI made the encryption, and never if the menu or    *)
(* lto-write did: for every threshold, number of shares, length of a key    *)
(* and prime field, every key and every draw of the dealer (src/cli.rs,     *)
(* src/main.rs, src/lto.rs, generate_recovery_shares,                       *)
(* recover_key_from_shares).                                                *)
THEOREM RecoverableExactlyFromTheCli == Spec => OnlyCliSharesRecover
<1>1. ASSUME [Next]_vars, deal' # deal, NEW S \in Enough(Printed(deal'))
      PROVE  Recovered(S) = deal'.key <=> deal'.by = "cli"
  <2>1. CASE deal'.by = "cli"
    BY <1>1, <2>1, CliSharesGiveTheKey
  <2>2. CASE deal'.by # "cli"
    BY <1>1, <2>2, OthersKeysAreLost
  <2> QED BY <2>1, <2>2
<1>2. [Next]_vars => [deal' # deal =>
         \A S \in Enough(Printed(deal')) : Recovered(S) = deal'.key <=> deal'.by = "cli"]_deal
  BY <1>1
<1> QED BY <1>2, PTL DEF Spec, OnlyCliSharesRecover

(* One share less than the threshold, of any encryption and whichever,      *)
(* rules out fewer values of a symbol of the key than the threshold, since  *)
(* the dealer draws no zero: for every threshold, number of shares, length  *)
(* of a key and prime field (generate_recovery_shares).                     *)
THEOREM FewerSharesTellLittle == Spec => FewerTellLittle
<1>1. ASSUME [Next]_vars, deal' # deal,
             NEW S \in kSubset(SHAMIR_THRESHOLD - 1, Range(deal'.shares)),
             NEW j \in 1 .. KeyLen
      PROVE  Cardinality({v \in Field : ~Fits(S, j, v)}) < SHAMIR_THRESHOLD
  <2>1. PICK way \in Ways \cup {"lto"}, key \in Keys, coeffs \in Coeffs :
           /\ deal'.by = way /\ deal'.key = key /\ deal'.shares = Deal(key, coeffs)
           /\ key \in Key /\ coeffs \in [1 .. KeyLen -> Draw]
    BY <1>1, NewDeal
  <2>2. S \in SUBSET Range(Deal(key, coeffs)) /\ Cardinality(S) = SHAMIR_THRESHOLD - 1
    BY <1>1, <2>1 DEF kSubset
  <2> QED BY <2>1, <2>2, FewerRuleOutFew
<1>2. [Next]_vars => [deal' # deal =>
         \A S \in kSubset(SHAMIR_THRESHOLD - 1, Range(deal'.shares)), j \in 1 .. KeyLen :
             Cardinality({v \in Field : ~Fits(S, j, v)}) < SHAMIR_THRESHOLD]_deal
  BY <1>1
<1> QED BY <1>2, PTL DEF Spec, FewerTellLittle
=============================================================================
