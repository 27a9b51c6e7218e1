----------------------------- MODULE AuditProofs -----------------------------
(***************************************************************************)
(* What the audit log keeps of the records that are appended to it, what    *)
(* the portal is sent of them, and what is said of them to those who read   *)
(* the log, for every number of writers, of readers and of runs of the sync *)
(* command, of keys, names, records and seconds, and of failures.           *)
(*                                                                          *)
(* First the log by itself (AuditLog), then the sync command that reads it  *)
(* (PortalSync), then the readers (AuditReaders): their steps are the log's *)
(* or leave the log alone, so that what is proved of it carries over.  A    *)
(* reader's answers follow from what its list of records is: different      *)
(* records of its key, newest first (ReadersInv).  Sorting is counting: the *)
(* place of a record in the list is the number of those before it (Ranks).  *)
(***************************************************************************)
EXTENDS PortalSync, AuditReaders, SequenceTheorems, FiniteSetTheorems,
        WellFoundedInduction, TLAPS

----------------------------------------------------------------------------
(* One piece more in a file.                                                *)

Pieces == Record \cup {EOL, Cut}

LEMMA AppendPieces ==
    ASSUME NEW l \in Seq(Pieces), NEW p \in Pieces
    PROVE  /\ Append(l, p) \in Seq(Pieces)
           /\ Len(l) \in Nat
           /\ Len(Append(l, p)) = Len(l) + 1
           /\ \A i \in 1 .. Len(l) : Append(l, p)[i] = l[i]
           /\ Append(l, p)[Len(l) + 1] = p
BY AppendProperties, LenProperties

(* What is readable is a record.                                            *)
LEMMA ReadableAreRecords ==
    ASSUME NEW l \in Seq(Pieces), NEW k
    PROVE  Readable(l, k) \subseteq Record
<1> SUFFICES ASSUME NEW i \in 1 .. Len(l), ReadsAt(l, i, k) PROVE l[i] \in Record
  BY DEF Readable
<1> QED BY ElementOfSeq DEF ReadsAt, Pieces

(* Nothing becomes readable but the new piece itself, if it is a record.    *)
LEMMA NothingElseBecomesReadable ==
    ASSUME NEW l \in Seq(Pieces), NEW p \in Pieces, NEW k
    PROVE  \A r \in Readable(Append(l, p), k) : r \in Readable(l, k) \/ (r = p /\ p \in Record)
<1> DEFINE m == Append(l, p)
<1>1. /\ Len(l) \in Nat /\ Len(m) = Len(l) + 1
      /\ \A i \in 1 .. Len(l) : m[i] = l[i]
      /\ m[Len(l) + 1] = p
  BY AppendPieces
<1> HIDE DEF m
<1>2. SUFFICES ASSUME NEW i \in 1 .. Len(m), ReadsAt(m, i, k)
               PROVE  m[i] \in Readable(l, k) \/ (m[i] = p /\ p \in Record)
  BY DEF Readable, m
<1>3. CASE i = Len(l) + 1
  BY <1>1, <1>2, <1>3 DEF ReadsAt, Pieces
<1>4. CASE i \in 1 .. Len(l)
  <2>1. m[i] = l[i] /\ (i > 1 => m[i - 1] = l[i - 1]) /\ (i < Len(l) => m[i + 1] = l[i + 1])
    BY <1>1, <1>4
  <2>2. ReadsAt(l, i, k)
    BY <1>1, <1>2, <1>4, <2>1 DEF ReadsAt
  <2> QED BY <1>4, <2>1, <2>2 DEF Readable
<1> QED BY <1>1, <1>2, <1>3, <1>4

(* What stands on a complete line stays there.                              *)
LEMMA SettledGrows ==
    ASSUME NEW l \in Seq(Pieces), NEW p \in Pieces
    PROVE  Settled(l) \subseteq Settled(Append(l, p))
<1> DEFINE m == Append(l, p)
<1>1. /\ Len(l) \in Nat /\ Len(m) = Len(l) + 1
      /\ \A i \in 1 .. Len(l) : m[i] = l[i]
  BY AppendPieces
<1> HIDE DEF m
<1>2. SUFFICES ASSUME NEW i \in 1 .. Len(l) - 1, ReadsAt(l, i, EnvKey), l[i + 1] = EOL
               PROVE  l[i] \in Settled(m)
  BY DEF Settled, m
<1>3. i \in 1 .. Len(m) - 1 /\ m[i] = l[i] /\ m[i + 1] = l[i + 1] /\ (i > 1 => m[i - 1] = l[i - 1])
  BY <1>1
<1>4. ReadsAt(m, i, EnvKey)
  BY <1>1, <1>2, <1>3 DEF ReadsAt
<1> QED BY <1>2, <1>3, <1>4 DEF Settled

(* Places where two pieces share a line, and a file whose last line is open.*)
Broken(l) == {i \in 1 .. Len(l) - 1 : l[i] # EOL /\ l[i + 1] # EOL}
OpenEnd(l) == Len(l) > 0 /\ l[Len(l)] # EOL

LEMMA BrokenIsFinite ==
    ASSUME NEW l \in Seq(Pieces)
    PROVE  IsFiniteSet(Broken(l)) /\ Cardinality(Broken(l)) \in Nat
<1>1. IsFiniteSet(1 .. Len(l) - 1)
  BY LenProperties, FS_Interval
<1>2. IsFiniteSet(Broken(l))
  BY <1>1, FS_Subset DEF Broken
<1> QED BY <1>2, FS_CardinalityType

(* A line end breaks nothing; another piece breaks an open line.            *)
LEMMA BrokenAppend ==
    ASSUME NEW l \in Seq(Pieces), NEW p \in Pieces
    PROVE  LET m == Append(l, p) IN
           /\ OpenEnd(m) <=> p # EOL
           /\ Cardinality(Broken(m)) \in Nat
           /\ Cardinality(Broken(m)) <= Cardinality(Broken(l)) + 1
           /\ ~(OpenEnd(l) /\ p # EOL) => Cardinality(Broken(m)) = Cardinality(Broken(l))
<1> DEFINE m == Append(l, p)
<1>1. /\ m \in Seq(Pieces) /\ Len(l) \in Nat /\ Len(m) = Len(l) + 1
      /\ \A i \in 1 .. Len(l) : m[i] = l[i]
      /\ m[Len(l) + 1] = p
  BY AppendPieces
<1> HIDE DEF m
<1>2. OpenEnd(m) <=> p # EOL
  BY <1>1 DEF OpenEnd
<1>3. CASE OpenEnd(l) /\ p # EOL
  <2>1. Broken(m) = Broken(l) \cup {Len(l)}
    BY <1>1, <1>3 DEF Broken, OpenEnd
  <2>2. /\ IsFiniteSet(Broken(m)) /\ Cardinality(Broken(m)) \in Nat
        /\ IsFiniteSet(Broken(l)) /\ Cardinality(Broken(l)) \in Nat
    BY <1>1, BrokenIsFinite
  <2>3. Cardinality(Broken(m)) =
            IF Len(l) \in Broken(l) THEN Cardinality(Broken(l)) ELSE Cardinality(Broken(l)) + 1
    BY <2>1, <2>2, FS_AddElement
  <2> QED BY <1>2, <1>3, <2>2, <2>3 DEF m
<1>4. CASE ~(OpenEnd(l) /\ p # EOL)
  <2>1. Broken(m) = Broken(l)
    BY <1>1, <1>4 DEF Broken, OpenEnd
  <2>2. Cardinality(Broken(l)) \in Nat
    BY BrokenIsFinite
  <2> QED BY <1>2, <2>1, <2>2 DEF m
<1> QED BY <1>3, <1>4

(* A record of the file that its reader does not find is at a broken place. *)
LEMMA UnreadableIsAtABreak ==
    ASSUME NEW l \in Seq(Pieces), NEW i \in 1 .. Len(l), l[i] \in Record,
           ~ReadsAt(l, i, l[i].key)
    PROVE  \E j \in Broken(l) : l[i] = l[j] \/ l[i] = l[j + 1]
<1>1. Len(l) \in Nat /\ l[i] # EOL /\ l[i] # Cut
  BY LenProperties, PiecesAssumption
<1>2. CASE i # 1 /\ l[i - 1] # EOL
  <2>1. i - 1 \in Broken(l) /\ l[i] = l[(i - 1) + 1]
    BY <1>1, <1>2 DEF Broken
  <2> QED BY <2>1
<1>3. CASE i # Len(l) /\ l[i + 1] # EOL
  <2>1. i \in Broken(l)
    BY <1>1, <1>3 DEF Broken
  <2> QED BY <2>1
<1> QED BY <1>1, <1>2, <1>3 DEF ReadsAt

(* So there are at most two such records to a broken place.                 *)
LEMMA TwoToABreak ==
    ASSUME NEW l \in Seq(Pieces), NEW R,
           \A r \in R : \E j \in Broken(l) : r = l[j] \/ r = l[j + 1]
    PROVE  Cardinality(R) <= 2 * Cardinality(Broken(l)) /\ IsFiniteSet(R)
<1> DEFINE B == Broken(l)
           left == [j \in B |-> l[j]]
           right == [j \in B |-> l[j + 1]]
           Lefts == {l[j] : j \in B}
           Rights == {l[j + 1] : j \in B}
<1>1. IsFiniteSet(B) /\ Cardinality(B) \in Nat
  BY BrokenIsFinite
<1>2. left \in Surjection(B, Lefts) /\ right \in Surjection(B, Rights)
  BY DEF Surjection
<1>3. /\ IsFiniteSet(Lefts) /\ Cardinality(Lefts) <= Cardinality(B)
      /\ IsFiniteSet(Rights) /\ Cardinality(Rights) <= Cardinality(B)
  BY <1>1, <1>2, FS_Surjection
<1>4. /\ IsFiniteSet(Lefts \cup Rights)
      /\ Cardinality(Lefts \cup Rights) =
            Cardinality(Lefts) + Cardinality(Rights) - Cardinality(Lefts \cap Rights)
  BY <1>3, FS_Union
<1>5. IsFiniteSet(Lefts \cap Rights)
  BY <1>3, FS_Intersection
<1>6. R \subseteq Lefts \cup Rights
  OBVIOUS
<1>7. IsFiniteSet(R) /\ Cardinality(R) <= Cardinality(Lefts \cup Rights)
  BY <1>4, <1>6, FS_Subset
<1>8. /\ Cardinality(Lefts) \in Nat /\ Cardinality(Rights) \in Nat
      /\ Cardinality(Lefts \cap Rights) \in Nat /\ Cardinality(R) \in Nat
  BY <1>3, <1>5, <1>7, FS_CardinalityType
<1> HIDE DEF B, Lefts, Rights
<1>9. Cardinality(R) <= 2 * Cardinality(B)
  BY <1>1, <1>3, <1>4, <1>7, <1>8
<1> QED BY <1>7, <1>9 DEF B

----------------------------------------------------------------------------
(* The steps.                                                               *)

(* Who is in the middle of an append has its record in hand.                *)
HandOK == \A w \in Writers : wpc[w] # "idle" => rec[w] # <<>>

LogTypeInv == LogTypeOK /\ HandOK

LEMMA InHand ==
    ASSUME LogTypeInv, NEW w \in Writers, wpc[w] # "idle"
    PROVE  rec[w][1] \in Record /\ rec[w] = <<rec[w][1]>>
<1>1. PICK r \in Record : rec[w] = <<r>>
  BY DEF LogTypeInv, LogTypeOK, HandOK
<1> QED BY <1>1

(* The record is appended as it is.                                         *)
LEMMA LineIsAppended ==
    ASSUME LogTypeInv, NEW w \in Writers, WriteLine(w)
    PROVE  rec[w][1] \in Record /\ log' = Append(log, rec[w][1])
<1>1. rec[w][1] \in Record /\ rec[w] = <<rec[w][1]>>
  BY InHand DEF WriteLine
<1>2. log \in Seq(Pieces)
  BY DEF LogTypeInv, LogTypeOK, Pieces
<1>3. Append(log, rec[w][1]) = log \o <<rec[w][1]>>
  BY <1>1, <1>2, AppendIsConcat DEF Pieces
<1> QED BY <1>1, <1>3 DEF WriteLine

(* A step leaves the log alone or appends one piece.                        *)
LEMMA LogGrows ==
    ASSUME LogTypeInv, [LogNext]_logVars
    PROVE  log' = log \/ \E p \in Pieces : log' = Append(log, p)
<1>1. ASSUME NEW w \in Writers, WriteLine(w) PROVE \E p \in Pieces : log' = Append(log, p)
  BY <1>1, LineIsAppended DEF Pieces
<1>2. ASSUME NEW w \in Writers, LineFails(w) \/ WriteEol(w)
      PROVE  log' = log \/ \E p \in Pieces : log' = Append(log, p)
  BY <1>2 DEF LineFails, WriteEol, Pieces
<1>3. ASSUME NEW w \in Writers, StartAppend(w) \/ HandEol(w) \/ EolFails(w) \/ KillWriter(w)
      PROVE  log' = log
  BY <1>3 DEF StartAppend, HandEol, EolFails, KillWriter
<1>4. Tick \/ UNCHANGED logVars => log' = log
  BY DEF Tick, logVars
<1> QED BY <1>1, <1>2, <1>3, <1>4 DEF LogNext

LEMMA LogTypeInit == LogInit => LogTypeInv
BY BoundsAssumption, EmptySeq DEF LogInit, LogTypeInv, LogTypeOK, HandOK

LEMMA LogTypeStep == LogTypeInv /\ [LogNext]_logVars => LogTypeInv'
<1> SUFFICES ASSUME LogTypeInv, [LogNext]_logVars PROVE LogTypeInv'
  OBVIOUS
<1>1. log \in Seq(Pieces)
  BY DEF LogTypeInv, LogTypeOK, Pieces
<1>2. log' \in Seq(Pieces)
  BY <1>1, LogGrows, AppendProperties
<1>3. log' \in Seq(Record \cup {EOL, Cut})
  BY <1>2 DEF Pieces
<1> USE BoundsAssumption DEF LogTypeInv, LogTypeOK, HandOK
<1>4. CASE Tick
  BY <1>4 DEF Tick
<1>5. ASSUME NEW w \in Writers, StartAppend(w) PROVE LogTypeInv'
  <2>1. PICK k \in Keys :
           rec' = [rec EXCEPT ![w] = <<[id |-> started + 1, time |-> clock, key |-> k]>>]
    BY <1>5 DEF StartAppend
  <2>2. started + 1 \in 1 .. MaxRecords
    BY <1>5 DEF StartAppend
  <2>3. [id |-> started + 1, time |-> clock, key |-> k] \in Record
    BY <2>2 DEF Record
  <2> QED BY <1>5, <2>1, <2>2, <2>3 DEF StartAppend
<1>6. ASSUME NEW w \in Writers, WriteLine(w) PROVE LogTypeInv'
  BY <1>3, <1>6 DEF WriteLine
<1>7. ASSUME NEW w \in Writers, LineFails(w) PROVE LogTypeInv'
  BY <1>3, <1>7 DEF LineFails, Close
<1>8. ASSUME NEW w \in Writers, HandEol(w) PROVE LogTypeInv'
  <2>1. rec[w][1] \in Record
    BY <1>8, InHand DEF HandEol
  <2> QED BY <1>8, <2>1 DEF HandEol, Close
<1>9. ASSUME NEW w \in Writers, WriteEol(w) PROVE LogTypeInv'
  BY <1>3, <1>9 DEF WriteEol
<1>10. ASSUME NEW w \in Writers, EolFails(w) PROVE LogTypeInv'
  BY <1>10 DEF EolFails
<1>11. ASSUME NEW w \in Writers, KillWriter(w) PROVE LogTypeInv'
  BY <1>11, SMTT(30) DEF KillWriter, Close
<1>12. CASE UNCHANGED logVars
  BY <1>12 DEF logVars
<1> QED
  BY <1>4, <1>5, <1>6, <1>7, <1>8, <1>9, <1>10, <1>11, <1>12 DEF LogNext

----------------------------------------------------------------------------
(* What is acknowledged, and what breaks.                                   *)

(* The records of file l.                                                   *)
RecordsOf(l) == {l[i] : i \in 1 .. Len(l)}

(* What was acknowledged, and what is written but for its line end, is in   *)
(* the file.                                                                *)
KeptOK ==
    /\ acked \subseteq RecordsOf(log)
    /\ \A w \in Writers : wpc[w] = "eol" => rec[w][1] \in RecordsOf(log)

(* Every broken place was counted; so was, in advance, the one at an open   *)
(* end that no line end is due for.                                         *)
CountOK ==
    /\ Cardinality(Broken(log)) <= breaks
    /\ OpenEnd(log) /\ ~Pending => Cardinality(Broken(log)) + 1 <= breaks

LogInv == LogTypeInv /\ KeptOK /\ CountOK

LEMMA RecordsGrow ==
    ASSUME LogTypeInv, [LogNext]_logVars
    PROVE  RecordsOf(log) \subseteq RecordsOf(log')
<1>1. log \in Seq(Pieces)
  BY DEF LogTypeInv, LogTypeOK, Pieces
<1>2. ASSUME NEW p \in Pieces, log' = Append(log, p)
      PROVE  RecordsOf(log) \subseteq RecordsOf(log')
  <2>1. Len(log') = Len(log) + 1 /\ Len(log) \in Nat /\ \A i \in 1 .. Len(log) : log'[i] = log[i]
    BY <1>1, <1>2, AppendPieces
  <2> QED BY <2>1 DEF RecordsOf
<1> QED BY <1>2, LogGrows

LEMMA KeptStep ==
    ASSUME LogTypeInv, KeptOK, [LogNext]_logVars
    PROVE  KeptOK'
<1>1. RecordsOf(log) \subseteq RecordsOf(log')
  BY RecordsGrow
<1> USE DEF KeptOK, LogTypeInv, LogTypeOK
<1>2. ASSUME UNCHANGED <<wpc, rec, acked>> PROVE KeptOK'
  BY <1>1, <1>2
<1>3. ASSUME NEW w \in Writers, StartAppend(w) PROVE KeptOK'
  BY <1>1, <1>3 DEF StartAppend
<1>4. ASSUME NEW w \in Writers, WriteLine(w) PROVE KeptOK'
  <2>1. log \in Seq(Pieces)
    BY DEF Pieces
  <2>2. rec[w][1] \in Pieces /\ log' = Append(log, rec[w][1])
    BY <1>4, LineIsAppended DEF Pieces
  <2>3. Len(log) \in Nat /\ Len(log') = Len(log) + 1 /\ log'[Len(log) + 1] = rec[w][1]
    BY <2>1, <2>2, AppendPieces
  <2>4. rec[w][1] \in RecordsOf(log')
    BY <2>3, SMTT(30) DEF RecordsOf
  <2> QED BY <1>1, <1>4, <2>4 DEF WriteLine
<1>5. ASSUME NEW w \in Writers, LineFails(w) \/ KillWriter(w) PROVE KeptOK'
  BY <1>1, <1>5 DEF LineFails, KillWriter, Close
<1>6. ASSUME NEW w \in Writers, HandEol(w) PROVE KeptOK'
  BY <1>1, <1>6 DEF HandEol, Close
<1>7. ASSUME NEW w \in Writers, WriteEol(w) \/ EolFails(w) PROVE KeptOK'
  BY <1>2, <1>7 DEF WriteEol, EolFails
<1>8. Tick \/ UNCHANGED logVars => UNCHANGED <<wpc, rec, acked>>
  BY DEF Tick, logVars
<1> QED BY <1>2, <1>3, <1>4, <1>5, <1>6, <1>7, <1>8 DEF LogNext

(* A step that leaves the file alone keeps the count if it adds to breaks   *)
(* whenever the last line end that was due is given up.                     *)
LEMMA CountKept ==
    ASSUME LogTypeInv, CountOK, log' = log, breaks' \in Nat,
           breaks' >= breaks,
           Pending /\ ~Pending' => breaks' >= breaks + 1
    PROVE  CountOK'
<1> DEFINE n == Cardinality(Broken(log))
<1>1. n \in Nat /\ breaks \in Nat
  BY BrokenIsFinite DEF LogTypeInv, LogTypeOK, Pieces
<1>2. n <= breaks /\ (OpenEnd(log) /\ ~Pending => n + 1 <= breaks)
  BY DEF CountOK
<1>3. Broken(log)' = Broken(log) /\ (OpenEnd(log)' <=> OpenEnd(log))
  BY DEF Broken, OpenEnd
<1> HIDE DEF n
<1>4. n <= breaks' /\ (OpenEnd(log) /\ ~Pending' => n + 1 <= breaks')
  BY <1>1, <1>2
<1> QED BY <1>3, <1>4 DEF CountOK, n

LEMMA CountStep ==
    ASSUME LogTypeInv, CountOK, [LogNext]_logVars
    PROVE  CountOK'
<1> DEFINE n == Cardinality(Broken(log))
<1>1. log \in Seq(Pieces) /\ n \in Nat /\ breaks \in Nat /\ ending \in [Writers -> Nat]
      /\ wpc \in [Writers -> {"idle", "line", "eol"}]
  BY BrokenIsFinite DEF LogTypeInv, LogTypeOK, Pieces
<1>2. breaks' \in Nat
  BY LogTypeStep DEF LogTypeInv, LogTypeOK
<1>3. n <= breaks /\ (OpenEnd(log) /\ ~Pending => n + 1 <= breaks)
  BY DEF CountOK
<1>4. ASSUME UNCHANGED <<log, wpc, ending, breaks>> PROVE CountOK'
  BY <1>1, <1>4, CountKept DEF Pending
<1>5. ASSUME NEW w \in Writers, StartAppend(w) PROVE CountOK'
  BY <1>1, <1>5, CountKept DEF Pending, StartAppend
<1>6. ASSUME NEW w \in Writers, WriteLine(w) PROVE CountOK'
  <2>1. rec[w][1] \in Pieces /\ log' = Append(log, rec[w][1])
    BY <1>6, LineIsAppended DEF Pieces
  <2> DEFINE m == Cardinality(Broken(log'))
  <2>2. m \in Nat /\ m <= n + 1 /\ (~OpenEnd(log) => m = n)
    BY <1>1, <2>1, BrokenAppend
  <2>3. Pending'
    BY <1>1, <1>6 DEF WriteLine, Pending
  <2>4. breaks' = IF Pending THEN breaks + 1 ELSE breaks
    BY <1>6 DEF WriteLine
  <2> HIDE DEF n, m
  <2>5. m <= breaks'
    BY <1>1, <1>3, <2>2, <2>4
  <2> QED BY <2>3, <2>5 DEF CountOK, m
<1>7. ASSUME NEW w \in Writers, LineFails(w) PROVE CountOK'
  <2>1. breaks' = breaks + 1 + (IF Pending THEN 1 ELSE 0)
    BY <1>7 DEF LineFails
  <2>2. Pending' <=> Pending
    BY <1>1, <1>7 DEF LineFails, Close, Pending
  <2>3. CASE log' = log
    BY <1>1, <1>2, <2>1, <2>2, <2>3, CountKept
  <2>4. CASE log' = Append(log, Cut)
    <3> DEFINE m == Cardinality(Broken(log'))
    <3>1. m \in Nat /\ m <= n + 1 /\ (~OpenEnd(log) => m = n)
      BY <1>1, <2>4, BrokenAppend DEF Pieces
    <3> HIDE DEF n, m
    <3>2. m <= breaks' /\ (~Pending => m + 1 <= breaks')
      BY <1>1, <1>3, <2>1, <3>1
    <3> QED BY <2>2, <3>2 DEF CountOK, m
  <2> QED BY <1>7, <2>3, <2>4 DEF LineFails
<1>8. ASSUME NEW w \in Writers, HandEol(w) PROVE CountOK'
  <2>1. Pending'
    BY <1>1, <1>8 DEF HandEol, Close, Pending
  <2> QED BY <1>1, <1>8, <2>1, CountKept DEF HandEol
<1>9. ASSUME NEW w \in Writers, WriteEol(w) PROVE CountOK'
  <2>1. log' = Append(log, EOL) /\ breaks' = breaks
    BY <1>9 DEF WriteEol
  <2>2. ~OpenEnd(log') /\ Cardinality(Broken(log')) = n
    BY <1>1, <2>1, BrokenAppend DEF Pieces
  <2> QED BY <1>3, <2>1, <2>2 DEF CountOK
<1>10. ASSUME NEW w \in Writers, EolFails(w) PROVE CountOK'
  BY <1>1, <1>2, <1>10, CountKept DEF EolFails
<1>11. ASSUME NEW w \in Writers, KillWriter(w) PROVE CountOK'
  <2>1. breaks' = breaks + ending[w] + (IF wpc[w] = "eol" THEN 1 ELSE 0)
    BY <1>11 DEF KillWriter
  <2>2. \A v \in Writers : v # w => wpc'[v] = wpc[v] /\ ending'[v] = ending[v]
    BY <1>1, <1>11 DEF KillWriter, Close
  <2>3. Pending /\ ~Pending' => wpc[w] = "eol" \/ ending[w] > 0
    BY <2>2 DEF Pending
  <2>4. log' = log /\ ending[w] \in Nat
    BY <1>1, <1>11 DEF KillWriter
  <2>5. breaks' >= breaks /\ (wpc[w] = "eol" \/ ending[w] > 0 => breaks' >= breaks + 1)
    BY <1>1, <2>1, <2>4
  <2> QED BY <1>2, <2>3, <2>4, <2>5, CountKept
<1>12. Tick \/ UNCHANGED logVars => UNCHANGED <<log, wpc, ending, breaks>>
  BY DEF Tick, logVars
<1> QED
  BY <1>4, <1>5, <1>6, <1>7, <1>8, <1>9, <1>10, <1>11, <1>12 DEF LogNext

LEMMA LogInvInit == LogInit => LogInv
<1> SUFFICES ASSUME LogInit PROVE LogInv
  OBVIOUS
<1>1. LogTypeInv
  BY LogTypeInit
<1>2. Len(log) = 0 /\ breaks = 0 /\ acked = {} /\ \A w \in Writers : wpc[w] = "idle"
  BY EmptySeq DEF LogInit
<1>3. Broken(log) = {} /\ ~OpenEnd(log)
  BY <1>2 DEF Broken, OpenEnd
<1>4. Cardinality(Broken(log)) = 0
  BY <1>3, FS_EmptySet
<1> QED BY <1>1, <1>2, <1>3, <1>4 DEF LogInv, KeptOK, CountOK

LEMMA LogInvStep == LogInv /\ [LogNext]_logVars => LogInv'
BY LogTypeStep, KeptStep, CountStep DEF LogInv

(* An acknowledged record that is not found is at a broken place.           *)
LEMMA LossFollows ==
    ASSUME LogInv
    PROVE  LossIsBounded
<1> DEFINE n == Cardinality(Broken(log))
<1>1. log \in Seq(Pieces) /\ acked \subseteq Record /\ breaks \in Nat /\ n \in Nat /\ n <= breaks
  BY BrokenIsFinite DEF LogInv, LogTypeInv, LogTypeOK, Pieces, CountOK
<1>2. ASSUME NEW r \in Lost PROVE \E j \in Broken(log) : r = log[j] \/ r = log[j + 1]
  <2>1. PICK i \in 1 .. Len(log) : log[i] = r
    BY DEF Lost, LogInv, KeptOK, RecordsOf
  <2>2. ~ReadsAt(log, i, log[i].key)
    BY <2>1 DEF Lost, Readable
  <2>3. log[i] \in Record
    BY <1>1, <2>1 DEF Lost
  <2> QED BY <1>1, <2>1, <2>2, <2>3, UnreadableIsAtABreak
<1>3. Cardinality(Lost) <= 2 * n /\ IsFiniteSet(Lost)
  BY <1>1, <1>2, TwoToABreak
<1>4. Cardinality(Lost) \in Nat
  BY <1>3, FS_CardinalityType
<1> HIDE DEF n
<1> QED BY <1>1, <1>3, <1>4 DEF LossIsBounded

----------------------------------------------------------------------------
(* The theorems.  The behaviours of AuditReaders and of PortalSync are      *)
(* behaviours of the log for whoever looks only at its variables.           *)

(* However many writers overlap, fail or are killed, an acknowledged record *)
(* can be read unless it is one of the two at a place where an append was   *)
(* cut short or overlapped another: one such accident costs two records at  *)
(* most, and the damage does not spread (append_audit, read_audit_entries). *)
THEOREM LossStaysBounded == LogSpec => []LossIsBounded
<1>1. LogSpec => []LogInv
  BY LogInvInit, LogInvStep, PTL DEF LogSpec
<1> QED BY <1>1, LossFollows, PTL

(* A record that stood on a complete line once is found for ever after.     *)
THEOREM SettledRecordsStay == LogSpec => SettledStays
<1>1. LogTypeInv /\ [LogNext]_logVars => [Settled(log) \subseteq Settled(log')]_log
  BY LogGrows, SettledGrows DEF LogTypeInv, LogTypeOK, Pieces
<1>2. LogSpec => []LogTypeInv
  BY LogTypeInit, LogTypeStep, PTL DEF LogSpec
<1> QED BY <1>1, <1>2, PTL DEF LogSpec, SettledStays

----------------------------------------------------------------------------
(* The latest of some records.                                              *)

LEMMA BoundedSetHasMax ==
    ASSUME NEW N \in Nat, NEW T, T \subseteq 1 .. N, T # {}
    PROVE  \E t \in T : \A u \in T : u <= t
<1> DEFINE Mirror == {N - t : t \in T}
<1>1. Mirror \subseteq Nat /\ Mirror # {}
  <2>1. PICK t \in T : TRUE
    OBVIOUS
  <2>2. N - t \in Mirror
    OBVIOUS
  <2>3. \A u \in T : N - u \in Nat
    OBVIOUS
  <2> QED BY <2>2, <2>3
<1>2. PICK x \in Mirror : \A y \in Mirror : ~(<<y, x>> \in OpToRel(<, Nat))
  BY <1>1, WFMin, NatLessThanWellFounded
<1>3. PICK t \in T : x = N - t
  OBVIOUS
<1>4. ASSUME NEW u \in T PROVE u <= t
  <2>1. N - u \in Mirror /\ N - u \in Nat /\ x \in Nat
    BY <1>1
  <2>2. ~(N - u < x)
    BY <1>2, <2>1 DEF OpToRel
  <2> QED BY <1>3, <2>2
<1> QED BY <1>4

LEMMA LatestProperties ==
    ASSUME NEW R, R \subseteq Record, R # {}
    PROVE  /\ Latest(R) \in 1 .. MaxClock
           /\ \A r \in R : r.time <= Latest(R)
           /\ \E r \in R : r.time = Latest(R)
<1> DEFINE T == {r.time : r \in R}
<1>1. T \subseteq 1 .. MaxClock /\ T # {} /\ MaxClock \in Nat
  BY BoundsAssumption DEF Record
<1>2. \E t \in T : \A u \in T : u <= t
  BY <1>1, BoundedSetHasMax
<1>3. Latest(R) \in T /\ \A r \in R : r.time <= Latest(R)
  BY <1>2 DEF Latest
<1> QED BY <1>1, <1>3

----------------------------------------------------------------------------
(* Types.                                                                   *)

TypeInv == TypeOK /\ HandOK

LEMMA Initially == Init => TypeInv /\ LogInit
<1> SUFFICES ASSUME Init PROVE TypeInv
  BY DEF Init
<1>1. LogTypeOK /\ HandOK
  BY LogTypeInit DEF Init, LogTypeInv
<1>2. 0 \in 0 .. MaxClock
  BY BoundsAssumption
<1>3. TypeOK
  BY <1>1, <1>2 DEF Init, TypeOK
<1> QED BY <1>1, <1>3 DEF TypeInv

(* A step is a step of the log, or of one run with the log left alone.      *)
LEMMA LogStep == [Next]_vars => [LogNext]_logVars
BY DEF Next, vars, SyncStep, SyncLoad, SyncLoadFails, SyncRead, PushAccepted, PushFails,
       SaveTruncates, SaveWrites, SyncIoError, KillSync

LEMMA LogTypeKept ==
    ASSUME TypeInv, [Next]_vars
    PROVE  LogTypeOK' /\ HandOK'
BY LogStep, LogTypeStep DEF TypeInv, TypeOK, LogTypeInv

(* What a run finds are records.                                            *)
LEMMA FoundAreRecords ==
    ASSUME TypeInv
    PROVE  /\ log \in Seq(Pieces)
           /\ Readable(log, EnvKey) \subseteq Record
           /\ \A r \in Readable(log, EnvKey) : r.time \in 1 .. MaxClock
           /\ \A s \in Syncs : Newer(s) \subseteq Readable(log, EnvKey)
<1>1. log \in Seq(Pieces)
  BY DEF TypeInv, TypeOK, LogTypeOK, Pieces
<1>2. Readable(log, EnvKey) \subseteq Record
  BY <1>1, ReadableAreRecords
<1>3. \A r \in Record : r.time \in 1 .. MaxClock
  BY DEF Record
<1> QED BY <1>1, <1>2, <1>3 DEF Newer

LEMMA TypeStep == TypeInv /\ [Next]_vars => TypeInv'
<1> SUFFICES ASSUME TypeInv, [Next]_vars PROVE TypeOK'
  BY LogTypeKept DEF TypeInv
<1>1. LogTypeOK'
  BY LogTypeKept
<1>2. MaxClock \in Nat
  BY BoundsAssumption
<1> USE DEF TypeOK, TypeInv
<1>3. CASE UNCHANGED <<state, spc, from, pend, received, confirmed, repeated, troubled, covered>>
  BY <1>1, <1>3
<1>4. ASSUME NEW s \in Syncs, SyncLoad(s) PROVE TypeOK'
  <2>1. (IF state = Unparsable THEN 0 ELSE state) \in 0 .. MaxClock
    BY <1>2
  <2> QED BY <1>1, <1>4, <2>1 DEF SyncLoad
<1>5. ASSUME NEW s \in Syncs, SyncRead(s) PROVE TypeOK'
  <2>1. CASE /\ Newer(s) # {}
             /\ pend' = [pend EXCEPT ![s] = Newer(s)]
             /\ spc' = [spc EXCEPT ![s] = "pending"]
             /\ covered' = IF Latest(Newer(s)) > covered THEN Latest(Newer(s)) ELSE covered
             /\ UNCHANGED from
    <3>1. Newer(s) \subseteq Record /\ Latest(Newer(s)) \in 0 .. MaxClock
      BY <1>2, <2>1, FoundAreRecords, LatestProperties, SMTT(30)
    <3> QED BY <1>1, <1>5, <2>1, <3>1 DEF SyncRead
  <2>2. CASE Finish(s) /\ UNCHANGED covered
    <3>1. UNCHANGED <<state, received, confirmed, repeated, covered, troubled>>
      BY <1>5, <2>2 DEF SyncRead
    <3> QED BY <1>1, <1>2, <2>2, <3>1 DEF Finish
  <2> QED BY <1>5, <2>1, <2>2 DEF SyncRead
<1>6. ASSUME NEW s \in Syncs, PushAccepted(s) PROVE TypeOK'
  BY <1>1, <1>6 DEF PushAccepted, Deliver
<1>7. ASSUME NEW s \in Syncs, PushFails(s) PROVE TypeOK'
  BY <1>1, <1>2, <1>7 DEF PushFails, Deliver, Finish
<1>8. ASSUME NEW s \in Syncs, SaveTruncates(s) PROVE TypeOK'
  BY <1>1, <1>8 DEF SaveTruncates
<1>9. ASSUME NEW s \in Syncs, SaveWrites(s) PROVE TypeOK'
  <2>1. Latest(pend[s]) \in 0 .. MaxClock
    BY <1>2, <1>9, LatestProperties DEF SaveWrites
  <2> QED BY <1>1, <1>2, <1>9, <2>1 DEF SaveWrites, Finish
<1>10. ASSUME NEW s \in Syncs, SyncIoError(s) \/ KillSync(s) PROVE TypeOK'
  <2>1. Finish(s) /\ troubled' = TRUE
        /\ UNCHANGED <<state, received, confirmed, repeated, covered>>
    BY <1>10 DEF SyncIoError, KillSync
  <2> QED BY <1>1, <1>2, <2>1 DEF Finish
<1>11. ASSUME NEW s \in Syncs, SyncLoadFails(s) PROVE TypeOK'
  BY <1>1, <1>2, <1>11 DEF SyncLoadFails
<1>12. CASE UNCHANGED vars
  BY <1>1, <1>12 DEF vars, syncVars
<1> QED
  BY <1>3, <1>4, <1>5, <1>6, <1>7, <1>8, <1>9, <1>10, <1>11, <1>12 DEF Next, SyncStep

----------------------------------------------------------------------------
(* What the watermark has passed.                                           *)

Accounted(r) == r \in received \/ r \in overtaken

(* Every readable record up to t is at the portal, or came too late for it. *)
Passed(t) == \A r \in Readable(log, EnvKey) : r.time <= t => Accounted(r)

StateInv == state # Unparsable => state <= covered /\ Passed(state)

LoadedInv == \A s \in Syncs : from[s] <= covered /\ Passed(from[s])

(* What a run pushes is all there is up to the latest of it.                *)
PushInv ==
    \A s \in Syncs : pend[s] # {} =>
        /\ Latest(pend[s]) <= covered
        /\ \A r \in Readable(log, EnvKey) :
              r.time <= Latest(pend[s]) => Accounted(r) \/ r \in pend[s]

TakenInv == \A s \in Syncs : spc[s] \in {"accepted", "saving"} => pend[s] \subseteq received

SkipInv == StateInv /\ LoadedInv /\ PushInv /\ TakenInv

(* A step of the log that is noted by Overtake: whatever has become         *)
(* readable by it is overtaken as far as the runs have read.                *)
LEMMA LateIsOvertaken ==
    ASSUME TypeInv, [LogNext]_logVars, Overtake
    PROVE  \A r \in Readable(log', EnvKey) :
              r \in Readable(log, EnvKey) \/ (r.time <= covered => r \in overtaken')
<1>1. log \in Seq(Pieces)
  BY DEF TypeInv, TypeOK, LogTypeOK, Pieces
<1>2. ASSUME NEW p \in Pieces, log' = Append(log, p),
             NEW r \in Readable(log', EnvKey), r \notin Readable(log, EnvKey), r.time <= covered
      PROVE  r \in overtaken'
  <2>1. r = p /\ p \in Record
    BY <1>1, <1>2, NothingElseBecomesReadable
  <2>2. Len(log) \in Nat /\ Len(log') = Len(log) + 1 /\ log'[Len(log) + 1] = p
    BY <1>1, <1>2, AppendPieces
  <2>3. p \notin {EOL, Cut}
    BY <2>1, PiecesAssumption
  <2> QED BY <1>2, <2>1, <2>2, <2>3 DEF Overtake
<1> QED BY <1>2, LogGrows DEF TypeInv, TypeOK, LogTypeInv

LEMMA SkipStep ==
    ASSUME TypeInv, SkipInv, [Next]_vars
    PROVE  SkipInv'
<1>1. TypeInv'
  BY TypeStep
<1> DEFINE InLog == Readable(log, EnvKey)
<1>2. InLog \subseteq Record /\ \A r \in InLog : r.time \in 1 .. MaxClock
  BY FoundAreRecords
<1>3. MaxClock \in Nat /\ covered \in Nat /\ from \in [Syncs -> Nat]
  BY BoundsAssumption DEF TypeInv, TypeOK
<1>4. \A s \in Syncs : pend[s] # {} => Latest(pend[s]) \in Nat
  BY LatestProperties DEF TypeInv, TypeOK
<1>5. state # Unparsable => state \in Nat
  BY DEF TypeInv, TypeOK
<1>6. Passed(0)
  BY <1>2 DEF Passed
<1> USE DEF SkipInv
<1>7. ASSUME LogNext, Overtake,
             UNCHANGED <<state, spc, from, pend, received, confirmed, repeated, troubled, covered>>
      PROVE  SkipInv'
  <2>1. \A r \in Readable(log', EnvKey) :
           r \in InLog \/ (r.time <= covered => r \in overtaken')
    BY <1>7, LateIsOvertaken
  <2>2. overtaken \subseteq overtaken'
    BY <1>7 DEF Overtake
  <2>3. \A r \in Readable(log', EnvKey) : r.time \in Nat
    <3>1. log' \in Seq(Pieces)
      BY <1>1 DEF TypeInv, TypeOK, LogTypeOK, Pieces
    <3>2. Readable(log', EnvKey) \subseteq Record
      BY <3>1, ReadableAreRecords
    <3> QED BY <3>2 DEF Record
  <2>4. \A r : Accounted(r) => Accounted(r)'
    BY <1>7, <2>2 DEF Accounted
  <2>5. ASSUME NEW t \in Nat, t <= covered, Passed(t) PROVE Passed(t)'
    <3> SUFFICES ASSUME NEW r \in Readable(log', EnvKey), r.time <= t PROVE Accounted(r)'
      BY DEF Passed
    <3>1. CASE r \in InLog
      BY <2>4, <2>5, <3>1 DEF Passed
    <3>2. CASE r \notin InLog
      BY <1>3, <2>1, <2>3, <2>5, <3>2 DEF Accounted
    <3> QED BY <3>1, <3>2
  <2>6. StateInv'
    BY <1>5, <1>7, <2>5 DEF StateInv
  <2>7. LoadedInv'
    BY <1>3, <1>7, <2>5 DEF LoadedInv
  <2>8. PushInv'
    <3> SUFFICES ASSUME NEW s \in Syncs, pend[s] # {}
                 PROVE  /\ Latest(pend[s]) <= covered
                        /\ \A r \in Readable(log', EnvKey) :
                              r.time <= Latest(pend[s]) => Accounted(r)' \/ r \in pend[s]
      BY <1>7 DEF PushInv, Latest
    <3>1. Latest(pend[s]) <= covered /\ Latest(pend[s]) \in Nat
      BY <1>4 DEF PushInv
    <3>2. ASSUME NEW r \in Readable(log', EnvKey), r.time <= Latest(pend[s])
          PROVE  Accounted(r)' \/ r \in pend[s]
      <4>1. CASE r \in InLog
        BY <2>4, <3>2, <4>1 DEF PushInv
      <4>2. CASE r \notin InLog
        <5>1. r.time <= covered
          BY <1>3, <2>3, <3>1, <3>2
        <5> QED BY <2>1, <4>2, <5>1 DEF Accounted
      <4> QED BY <4>1, <4>2
    <3> QED BY <3>1, <3>2
  <2>9. TakenInv'
    BY <1>7 DEF TakenInv
  <2> QED BY <2>6, <2>7, <2>8, <2>9
<1>8. ASSUME NEW s \in Syncs, SyncLoad(s) PROVE SkipInv'
  <2>1. from' = [from EXCEPT ![s] = IF state = Unparsable THEN 0 ELSE state]
        /\ UNCHANGED <<log, state, pend, received, overtaken, covered>>
    BY <1>8 DEF SyncLoad, logVars
  <2>2. \A t : Passed(t)' <=> Passed(t)
    BY <2>1 DEF Passed, Accounted
  <2>3. StateInv'
    BY <2>1, <2>2 DEF StateInv
  <2>4. LoadedInv'
    BY <1>3, <1>6, <2>1, <2>2 DEF LoadedInv, StateInv
  <2>5. PushInv'
    BY <2>1 DEF PushInv, Accounted, Latest
  <2>6. TakenInv'
    BY <1>8 DEF SyncLoad, TakenInv, TypeInv, TypeOK
  <2> QED BY <2>3, <2>4, <2>5, <2>6
<1>9. ASSUME NEW s \in Syncs, SyncRead(s) PROVE SkipInv'
  <2>1. UNCHANGED <<log, state, received, overtaken>>
    BY <1>9 DEF SyncRead, logVars
  <2>2. \A t : Passed(t)' <=> Passed(t)
    BY <2>1 DEF Passed, Accounted
  <2>3. CASE /\ Newer(s) # {}
             /\ pend' = [pend EXCEPT ![s] = Newer(s)]
             /\ spc' = [spc EXCEPT ![s] = "pending"]
             /\ covered' = IF Latest(Newer(s)) > covered THEN Latest(Newer(s)) ELSE covered
             /\ UNCHANGED from
    <3> DEFINE last == Latest(Newer(s))
    <3>1. last \in Nat /\ Newer(s) \subseteq InLog
      BY <2>3, FoundAreRecords, LatestProperties
    <3> HIDE DEF last
    <3>2. covered' \in Nat /\ covered <= covered' /\ last <= covered'
      BY <1>3, <2>3, <3>1 DEF last
    <3>3. StateInv'
      BY <1>3, <1>5, <2>1, <2>2, <3>2 DEF StateInv
    <3>4. LoadedInv'
      BY <1>3, <2>2, <2>3, <3>2 DEF LoadedInv
    <3>5. ASSUME NEW r \in InLog PROVE Accounted(r) \/ r \in Newer(s)
      <4>1. CASE r.time > from[s]
        BY <4>1 DEF Newer
      <4>2. CASE r.time <= from[s]
        BY <4>2 DEF LoadedInv, Passed
      <4> QED BY <1>2, <1>3, <4>1, <4>2
    <3>6. ASSUME NEW t \in Syncs, pend'[t] # {}
          PROVE  /\ Latest(pend'[t]) <= covered'
                 /\ \A r \in InLog : r.time <= Latest(pend'[t]) => Accounted(r) \/ r \in pend'[t]
      <4>1. CASE t = s
        <5>1. pend'[t] = Newer(s)
          BY <2>3, <4>1 DEF TypeInv, TypeOK
        <5> QED BY <3>2, <3>5, <5>1 DEF last
      <4>2. CASE t # s
        <5>1. pend'[t] = pend[t]
          BY <2>3, <4>2 DEF TypeInv, TypeOK
        <5>2. Latest(pend[t]) \in Nat /\ Latest(pend[t]) <= covered
          BY <1>4, <3>6, <5>1 DEF PushInv
        <5>3. Latest(pend[t]) <= covered'
          BY <1>3, <3>2, <5>2
        <5> QED BY <3>6, <5>1, <5>3 DEF PushInv
      <4> QED BY <4>1, <4>2
    <3>7. PushInv'
      BY <2>1, <3>6 DEF PushInv, Accounted, Latest
    <3>8. TakenInv'
      BY <2>1, <2>3 DEF TakenInv, TypeInv, TypeOK
    <3> QED BY <3>3, <3>4, <3>7, <3>8
  <2>4. CASE Finish(s) /\ UNCHANGED covered
    <3>1. StateInv' /\ LoadedInv'
      BY <1>3, <1>6, <2>1, <2>2, <2>4 DEF StateInv, LoadedInv, Finish
    <3>2. PushInv' /\ TakenInv'
      BY <2>1, <2>4 DEF PushInv, TakenInv, Finish, Accounted, Latest, TypeInv, TypeOK
    <3> QED BY <3>1, <3>2
  <2> QED BY <1>9, <2>3, <2>4 DEF SyncRead
<1>10. ASSUME NEW s \in Syncs, PushAccepted(s) PROVE SkipInv'
  <2>1. /\ UNCHANGED <<log, state, from, pend, overtaken, covered>>
        /\ received' = received \cup pend[s]
        /\ spc' = [spc EXCEPT ![s] = "accepted"]
    BY <1>10 DEF PushAccepted, Deliver, logVars
  <2>2. \A r : Accounted(r) => Accounted(r)'
    BY <2>1 DEF Accounted
  <2>3. StateInv' /\ LoadedInv'
    BY <2>1, <2>2 DEF StateInv, LoadedInv, Passed
  <2>4. PushInv'
    BY <2>1, <2>2 DEF PushInv, Latest
  <2>5. TakenInv'
    BY <2>1 DEF TakenInv, TypeInv, TypeOK
  <2> QED BY <2>3, <2>4, <2>5
<1>11. ASSUME NEW s \in Syncs, PushFails(s) \/ SyncIoError(s) \/ KillSync(s) PROVE SkipInv'
  <2>1. /\ UNCHANGED <<log, state, overtaken, covered>>
        /\ received \subseteq received'
        /\ Finish(s)
    BY <1>11 DEF PushFails, Deliver, SyncIoError, KillSync, logVars
  <2>2. \A r : Accounted(r) => Accounted(r)'
    BY <2>1 DEF Accounted
  <2>3. StateInv'
    BY <2>1, <2>2 DEF StateInv, Passed
  <2>4. \A t \in Syncs : from'[t] = 0 \/ from'[t] = from[t]
    BY <2>1 DEF Finish, TypeInv, TypeOK
  <2>5. LoadedInv'
    BY <1>3, <1>6, <2>1, <2>2, <2>4 DEF LoadedInv, Passed
  <2>6. \A t \in Syncs : pend'[t] = {} \/ (pend'[t] = pend[t] /\ spc'[t] = spc[t])
    BY <2>1 DEF Finish, TypeInv, TypeOK
  <2>7. PushInv'
    BY <2>1, <2>2, <2>6 DEF PushInv, Latest
  <2>8. TakenInv'
    BY <2>1, <2>6 DEF TakenInv
  <2> QED BY <2>3, <2>5, <2>7, <2>8
<1>12. ASSUME NEW s \in Syncs, SaveTruncates(s) PROVE SkipInv'
  <2>1. /\ UNCHANGED <<log, from, pend, received, overtaken, covered>>
        /\ state' = Unparsable
        /\ spc[s] = "accepted" /\ spc' = [spc EXCEPT ![s] = "saving"]
    BY <1>12 DEF SaveTruncates, logVars
  <2>2. StateInv' /\ LoadedInv' /\ PushInv'
    BY <2>1 DEF StateInv, LoadedInv, PushInv, Passed, Accounted, Latest
  <2>3. TakenInv'
    BY <2>1 DEF TakenInv, TypeInv, TypeOK
  <2> QED BY <2>2, <2>3
<1>13. ASSUME NEW s \in Syncs, SaveWrites(s) PROVE SkipInv'
  <2>1. /\ UNCHANGED <<log, received, overtaken, covered>>
        /\ state' = Latest(pend[s])
        /\ spc[s] = "saving" /\ Finish(s)
    BY <1>13 DEF SaveWrites, logVars
  <2>2. pend[s] # {} /\ pend[s] \subseteq received
    BY <2>1 DEF TakenInv, TypeInv, TypeOK
  <2>3. Latest(pend[s]) <= covered /\ Passed(Latest(pend[s]))
    BY <2>2 DEF PushInv, Passed, Accounted
  <2>4. \A t : Passed(t)' <=> Passed(t)
    BY <2>1 DEF Passed, Accounted
  <2>5. StateInv'
    BY <2>1, <2>3, <2>4 DEF StateInv
  <2>6. LoadedInv'
    BY <1>3, <1>6, <2>1, <2>4 DEF LoadedInv, Finish
  <2>7. PushInv' /\ TakenInv'
    BY <2>1 DEF PushInv, TakenInv, Finish, Accounted, Latest, TypeInv, TypeOK
  <2> QED BY <2>5, <2>6, <2>7
<1>14. CASE UNCHANGED vars
  BY <1>14 DEF vars, logVars, syncVars, StateInv, LoadedInv, PushInv, TakenInv, Passed,
               Accounted, Latest
<1>15. ASSUME NEW s \in Syncs, SyncLoadFails(s) PROVE SkipInv'
  <2>1. from' = [from EXCEPT ![s] = 0]
        /\ UNCHANGED <<log, state, pend, received, overtaken, covered>>
    BY <1>15 DEF SyncLoadFails, logVars
  <2>2. \A t : Passed(t)' <=> Passed(t)
    BY <2>1 DEF Passed, Accounted
  <2>3. StateInv'
    BY <2>1, <2>2 DEF StateInv
  <2>4. LoadedInv'
    BY <1>3, <1>6, <2>1, <2>2 DEF LoadedInv
  <2>5. PushInv'
    BY <2>1 DEF PushInv, Accounted, Latest
  <2>6. TakenInv'
    BY <1>15 DEF SyncLoadFails, TakenInv, TypeInv, TypeOK
  <2> QED BY <2>3, <2>4, <2>5, <2>6
<1> QED
  BY <1>7, <1>8, <1>9, <1>10, <1>11, <1>12, <1>13, <1>14, <1>15 DEF Next, SyncStep

----------------------------------------------------------------------------
(* What is pushed twice.                                                    *)

(* As long as no run was cut short or overlapped another, one run at a time *)
(* is made, and the watermark it loaded is still the one in the file.       *)
OneRun == \A s, t \in Syncs : spc[s] # "idle" /\ spc[t] # "idle" => s = t

Saved == \A s \in Syncs : spc[s] \notin {"accepted", "saving"}

(* The portal is not known to have taken anything later than t.             *)
KnownUpTo(t) == \A r \in confirmed : r.time <= t

WatermarkInv ==
    /\ Saved => state # Unparsable /\ KnownUpTo(state)
    /\ \A s \in Syncs :
          /\ spc[s] \in {"loaded", "pending"} => from[s] = state
          /\ spc[s] = "pending" => \A r \in pend[s] : r.time > from[s]
          /\ spc[s] \in {"accepted", "saving"} => KnownUpTo(Latest(pend[s]))

OnceInv == ~troubled => repeated = {} /\ OneRun /\ WatermarkInv

LEMMA OnceStep ==
    ASSUME TypeInv, OnceInv, [Next]_vars
    PROVE  OnceInv'
<1> SUFFICES ASSUME ~troubled'
             PROVE  repeated' = {} /\ OneRun' /\ WatermarkInv'
  BY DEF OnceInv
<1>1. /\ spc \in [Syncs -> {"idle", "loaded", "pending", "accepted", "saving"}]
      /\ from \in [Syncs -> 0 .. MaxClock] /\ pend \in [Syncs -> SUBSET Record]
      /\ confirmed \subseteq Record
      /\ \A s \in Syncs : pend[s] # {} <=> spc[s] \in {"pending", "accepted", "saving"}
      /\ state # Unparsable => state \in 0 .. MaxClock
      /\ MaxClock \in Nat
  BY BoundsAssumption DEF TypeInv, TypeOK
<1>2. \A r \in Record : r.time \in 1 .. MaxClock
  BY DEF Record
<1>3. ~troubled
  BY DEF Next, vars, syncVars, SyncStep, SyncLoad, SyncLoadFails, SyncRead, PushAccepted,
         PushFails, SaveTruncates, SaveWrites, SyncIoError, KillSync
<1>4. repeated = {} /\ OneRun /\ WatermarkInv
  BY <1>3 DEF OnceInv
<1>5. ASSUME NEW s \in Syncs, spc[s] # "idle" PROVE \A t \in Syncs : t # s => spc[t] = "idle"
  BY <1>4, <1>5 DEF OneRun
<1>6. ASSUME NEW s \in Syncs, SyncLoad(s)
      PROVE  repeated' = {} /\ OneRun' /\ WatermarkInv'
  <2>1. \A t \in Syncs : spc[t] = "idle"
    BY <1>6 DEF SyncLoad
  <2>2. state # Unparsable /\ KnownUpTo(state)
    BY <1>4, <2>1 DEF WatermarkInv, Saved
  <2>3. /\ from' = [from EXCEPT ![s] = state] /\ spc' = [spc EXCEPT ![s] = "loaded"]
        /\ UNCHANGED <<state, confirmed, repeated>>
    BY <1>6, <2>2 DEF SyncLoad
  <2> QED BY <1>1, <1>4, <2>1, <2>2, <2>3 DEF OneRun, WatermarkInv, KnownUpTo
<1>7. ASSUME NEW s \in Syncs, SyncRead(s)
      PROVE  repeated' = {} /\ OneRun' /\ WatermarkInv'
  <2>1. spc[s] = "loaded" /\ UNCHANGED <<state, confirmed, repeated>>
    BY <1>7 DEF SyncRead
  <2>2. (\A t \in Syncs : t # s => spc[t] = "idle") /\ from[s] = state
    BY <1>4, <1>5, <2>1 DEF WatermarkInv
  <2>3. state # Unparsable /\ KnownUpTo(state)
    BY <1>4, <2>1, <2>2 DEF WatermarkInv, Saved
  <2>4. CASE /\ pend' = [pend EXCEPT ![s] = Newer(s)]
             /\ spc' = [spc EXCEPT ![s] = "pending"]
             /\ UNCHANGED from
    <3>1. \A r \in pend'[s] : r.time > from'[s]
      BY <1>1, <2>4 DEF Newer
    <3>2. OneRun'
      BY <1>1, <2>2, <2>4 DEF OneRun
    <3>3. WatermarkInv'
      BY <1>1, <2>1, <2>2, <2>3, <2>4, <3>1 DEF WatermarkInv, KnownUpTo
    <3> QED BY <1>4, <2>1, <3>2, <3>3
  <2>5. CASE Finish(s)
    BY <1>1, <1>4, <2>1, <2>2, <2>3, <2>5 DEF Finish, OneRun, WatermarkInv, KnownUpTo
  <2> QED BY <1>7, <2>4, <2>5 DEF SyncRead
<1>8. ASSUME NEW s \in Syncs, spc[s] = "pending"
      PROVE  /\ \A t \in Syncs : t # s => spc[t] = "idle"
             /\ state # Unparsable /\ KnownUpTo(state)
             /\ pend[s] \cap confirmed = {}
             /\ pend[s] # {} /\ pend[s] \subseteq Record
             /\ \A r \in pend[s] : r.time > state
  <2>1. (\A t \in Syncs : t # s => spc[t] = "idle") /\ from[s] = state
        /\ \A r \in pend[s] : r.time > from[s]
    BY <1>4, <1>5, <1>8 DEF WatermarkInv
  <2>2. state # Unparsable /\ KnownUpTo(state)
    BY <1>4, <1>8, <2>1 DEF WatermarkInv, Saved
  <2>3. pend[s] \subseteq Record /\ pend[s] # {}
    BY <1>1, <1>8
  <2>4. ASSUME NEW r \in pend[s], r \in confirmed PROVE FALSE
    <3>1. r.time \in Nat /\ state \in Nat /\ r.time > state /\ r.time <= state
      BY <1>1, <1>2, <2>1, <2>2, <2>3, <2>4 DEF KnownUpTo
    <3> QED BY <3>1
  <2> QED BY <2>1, <2>2, <2>3, <2>4
<1>9. ASSUME NEW s \in Syncs, PushAccepted(s)
      PROVE  repeated' = {} /\ OneRun' /\ WatermarkInv'
  <2>1. /\ spc[s] = "pending" /\ spc' = [spc EXCEPT ![s] = "accepted"]
        /\ confirmed' = confirmed \cup pend[s]
        /\ repeated' = repeated \cup (pend[s] \cap confirmed)
        /\ UNCHANGED <<state, from, pend>>
    BY <1>9 DEF PushAccepted, Deliver
  <2>2. repeated' = {}
    BY <1>4, <1>8, <2>1
  <2>3. OneRun'
    BY <1>1, <1>8, <2>1 DEF OneRun
  <2>4. ASSUME NEW r \in confirmed' PROVE r.time <= Latest(pend[s])
    <3>1. /\ Latest(pend[s]) \in Nat /\ \A q \in pend[s] : q.time <= Latest(pend[s])
          /\ \E q \in pend[s] : q.time = Latest(pend[s])
      BY <1>8, <2>1, LatestProperties
    <3>2. state \in Nat /\ Latest(pend[s]) > state
      BY <1>1, <1>8, <2>1, <3>1
    <3>3. CASE r \in confirmed
      <4>1. r.time \in Nat /\ r.time <= state
        BY <1>1, <1>2, <1>8, <2>1, <3>3 DEF KnownUpTo
      <4> QED BY <3>1, <3>2, <4>1
    <3> QED BY <2>1, <3>1, <3>3
  <2>5. spc'[s] = "accepted" /\ \A t \in Syncs : t # s => spc'[t] = "idle"
    BY <1>1, <1>8, <2>1
  <2>6. KnownUpTo(Latest(pend[s]))'
    BY <2>1, <2>4 DEF KnownUpTo, Latest
  <2>7. ~Saved'
    BY <2>5 DEF Saved
  <2>8. WatermarkInv'
    BY <2>5, <2>6, <2>7 DEF WatermarkInv
  <2> QED BY <2>2, <2>3, <2>8
<1>10. ASSUME NEW s \in Syncs, PushFails(s)
       PROVE  repeated' = {} /\ OneRun' /\ WatermarkInv'
  <2>1. /\ spc[s] = "pending" /\ Finish(s)
        /\ repeated' = repeated \/ repeated' = repeated \cup (pend[s] \cap confirmed)
        /\ UNCHANGED <<state, confirmed>>
    BY <1>10 DEF PushFails, Deliver
  <2>2. repeated' = {}
    BY <1>4, <1>8, <2>1
  <2>3. \A t \in Syncs : spc'[t] = "idle"
    BY <1>1, <1>8, <2>1 DEF Finish
  <2> QED BY <1>8, <2>1, <2>2, <2>3 DEF OneRun, WatermarkInv, KnownUpTo
<1>11. ASSUME NEW s \in Syncs, SaveTruncates(s)
       PROVE  repeated' = {} /\ OneRun' /\ WatermarkInv'
  <2>1. /\ spc[s] = "accepted" /\ spc' = [spc EXCEPT ![s] = "saving"]
        /\ UNCHANGED <<confirmed, repeated, pend, from>>
    BY <1>11 DEF SaveTruncates
  <2>2. (\A t \in Syncs : t # s => spc[t] = "idle") /\ KnownUpTo(Latest(pend[s]))
    BY <1>4, <1>5, <2>1 DEF WatermarkInv
  <2>3. spc'[s] = "saving" /\ \A t \in Syncs : t # s => spc'[t] = "idle"
    BY <1>1, <2>1, <2>2
  <2>4. OneRun'
    BY <2>3 DEF OneRun
  <2>5. KnownUpTo(Latest(pend[s]))'
    BY <2>1, <2>2 DEF KnownUpTo, Latest
  <2>6. ~Saved'
    BY <2>3 DEF Saved
  <2>7. WatermarkInv'
    BY <2>3, <2>5, <2>6 DEF WatermarkInv
  <2> QED BY <1>4, <2>1, <2>4, <2>7
<1>12. ASSUME NEW s \in Syncs, SaveWrites(s)
       PROVE  repeated' = {} /\ OneRun' /\ WatermarkInv'
  <2>1. /\ spc[s] = "saving" /\ Finish(s) /\ state' = Latest(pend[s])
        /\ UNCHANGED <<confirmed, repeated>>
    BY <1>12 DEF SaveWrites
  <2>2. (\A t \in Syncs : t # s => spc[t] = "idle") /\ KnownUpTo(state')
    BY <1>4, <1>5, <2>1 DEF WatermarkInv
  <2>3. state' # Unparsable
    <3>1. state' \in 1 .. MaxClock
      BY <1>1, <2>1, LatestProperties
    <3> QED BY <1>1, <3>1, UnparsableAssumption
  <2>4. \A t \in Syncs : spc'[t] = "idle"
    BY <1>1, <2>1, <2>2 DEF Finish
  <2> QED BY <1>4, <2>1, <2>2, <2>3, <2>4 DEF OneRun, WatermarkInv, KnownUpTo
<1>13. CASE UNCHANGED <<state, spc, from, pend, confirmed, repeated>>
  BY <1>4, <1>13 DEF OneRun, WatermarkInv, KnownUpTo, Saved, Latest
<1>14. \A s \in Syncs : ~SyncLoadFails(s) /\ ~SyncIoError(s) /\ ~KillSync(s)
  BY DEF SyncLoadFails, SyncIoError, KillSync
<1> QED
  BY <1>6, <1>7, <1>9, <1>10, <1>11, <1>12, <1>13, <1>14 DEF Next, SyncStep, vars, syncVars

----------------------------------------------------------------------------
(* The theorems.                                                            *)

(* An invariant strengthened by what the others need.                       *)
IInv == TypeInv /\ SkipInv /\ OnceInv

LEMMA Invariance == Spec => []IInv
<1>1. Init => IInv
  <2> SUFFICES ASSUME Init PROVE IInv
    OBVIOUS
  <2>1. TypeInv /\ LogInit
    BY Initially
  <2>2. \A r \in Readable(log, EnvKey) : r.time \in 1 .. MaxClock
    BY <2>1, FoundAreRecords
  <2>3. Passed(0)
    BY <2>2 DEF Passed
  <2>4. SkipInv
    BY <2>3 DEF Init, SkipInv, StateInv, LoadedInv, PushInv, TakenInv
  <2>5. OnceInv
    BY UnparsableAssumption, BoundsAssumption DEF Init, OnceInv, OneRun, WatermarkInv, KnownUpTo
  <2> QED BY <2>1, <2>4, <2>5 DEF IInv
<1>2. IInv /\ [Next]_vars => IInv'
  BY TypeStep, SkipStep, OnceStep DEF IInv
<1> QED BY <1>1, <1>2, PTL DEF Spec

(* Types, and that a run has records to push exactly while it pushes them.  *)
THEOREM TypeCorrect == Spec => []TypeOK
<1>1. IInv => TypeOK
  BY DEF IInv, TypeInv
<1> QED BY <1>1, Invariance, PTL

(* The watermark never passes a record that is not at the portal, however   *)
(* runs overlap, fail, are killed or are answered late, except one that was *)
(* appended after a run had read a later one (sync_audit_to_portal).        *)
THEOREM NothingElseIsSkipped == Spec => []SkipsOnlyOvertaken
<1>1. IInv => SkipsOnlyOvertaken
  BY DEF IInv, SkipInv, StateInv, Passed, Accounted, SkipsOnlyOvertaken
<1> QED BY <1>1, Invariance, PTL

(* A record the portal has acknowledged is pushed again only after a run    *)
(* was cut short, failed to load or to save the watermark, or overlapped    *)
(* another; lost answers alone never do it.                                 *)
THEOREM NothingElseIsRepeated == Spec => []RepeatsOnlyAfterTrouble
<1>1. IInv => RepeatsOnlyAfterTrouble
  BY DEF IInv, OnceInv, RepeatsOnlyAfterTrouble
<1> QED BY <1>1, Invariance, PTL

(* Runs of the command are readers of the log and nothing more: whatever    *)
(* holds of the log alone holds beside them.                                *)
THEOREM SyncOnlyReads == Spec => LogSpec
<1>1. Init => LogInit
  BY Initially
<1> QED BY <1>1, LogStep, PTL DEF Spec, LogSpec

----------------------------------------------------------------------------
(* Writers and readers of the log (AuditReaders).                           *)

LEMMA ReadersLogStep == [ReadersNext]_readersVars => [LogNext]_logVars
BY DEF ReadersNext, readersVars, VaultCall, LogCommand, AttendanceCommand, Begin,
       ReadLog, FirstClock, SecondClock, AnswerReader, LogNext

(* The reports, statistics and lists never touch the log, and the commands  *)
(* only append to it: what is proved of the log holds beside them           *)
(* (src/audit.rs, src/cli.rs, src/dashboard.rs).                            *)
THEOREM ReadersOnlyRead == ReadersSpec => LogSpec
<1>1. ReadersInit => LogInit
  BY DEF ReadersInit
<1> QED BY <1>1, ReadersLogStep, PTL DEF ReadersSpec, LogSpec

(* The commands and the readers have no other key than EnvKey.              *)
LEMMA KeyIsEnvKey ==
    ASSUME env \in EnvTexts, AuditKey(env) # NoKey
    PROVE  AuditKey(env) = EnvKey
BY EnvTextsAssumption DEF AuditKey

----------------------------------------------------------------------------
(* The sort.  The rank of an element of a strictly ordered finite set is    *)
(* the number of those before it: the ranks are 0, 1, 2, ..., each once.    *)

Below(F, R, i) == {j \in F : <<j, i>> \in R}
Rank(F, R, i) == Cardinality(Below(F, R, i))

LEMMA Ranks ==
    ASSUME NEW F, IsFiniteSet(F), NEW R,
           \A i \in F : <<i, i>> \notin R,
           \A i, j, m \in F : <<i, j>> \in R /\ <<j, m>> \in R => <<i, m>> \in R,
           \A i, j \in F : i = j \/ <<i, j>> \in R \/ <<j, i>> \in R
    PROVE  /\ \A i, j \in F : <<i, j>> \in R => Rank(F, R, i) < Rank(F, R, j)
           /\ \A n \in 1 .. Cardinality(F) : \E i \in F : Rank(F, R, i) = n - 1
<1> DEFINE c == Cardinality(F)
           below(i) == Below(F, R, i)
           rank(i) == Cardinality(below(i))
           f == [i \in F |-> rank(i)]
           T == 0 .. c - 1
<1>1. c \in Nat /\ IsFiniteSet(T) /\ Cardinality(T) = c
  <2>1. c \in Nat
    BY FS_CardinalityType
  <2> DEFINE m == c - 1
  <2>2. 0 \in Int /\ m \in Int
    BY <2>1
  <2> HIDE DEF c, m
  <2>3. IsFiniteSet(0 .. m) /\ Cardinality(0 .. m) = IF 0 > m THEN 0 ELSE m - 0 + 1
    BY <2>2, FS_Interval
  <2> QED BY <2>1, <2>3 DEF m
<1>2. ASSUME NEW i \in F PROVE rank(i) \in T /\ IsFiniteSet(below(i))
  <2>1. IsFiniteSet(F \ {i}) /\ Cardinality(F \ {i}) = c - 1
    BY FS_RemoveElement
  <2>2. below(i) \in SUBSET (F \ {i})
    BY DEF Below
  <2> HIDE DEF below
  <2>3. IsFiniteSet(below(i)) /\ rank(i) <= c - 1
    BY <2>1, <2>2, FS_Subset
  <2>4. rank(i) \in Nat
    BY <2>3, FS_CardinalityType
  <2> HIDE DEF c
  <2> QED BY <1>1, <2>3, <2>4
<1>3. ASSUME NEW i \in F, NEW j \in F, <<i, j>> \in R PROVE rank(i) < rank(j)
  <2>1. IsFiniteSet(below(i) \cup {i}) /\ Cardinality(below(i) \cup {i}) = rank(i) + 1
    <3>1. i \notin below(i)
      BY DEF Below
    <3> QED BY <1>2, <3>1, FS_AddElement
  <2>2. below(i) \cup {i} \in SUBSET below(j)
    BY <1>3 DEF Below
  <2> HIDE DEF below
  <2>3. rank(i) + 1 <= rank(j)
    BY <1>2, <2>1, <2>2, FS_Subset
  <2> HIDE DEF c
  <2> QED BY <1>1, <1>2, <2>3
<1>4. ASSUME NEW i \in F, NEW j \in F, rank(i) = rank(j) PROVE i = j
  <2> HIDE DEF rank, T
  <2>1. i = j \/ <<i, j>> \in R \/ <<j, i>> \in R
    OBVIOUS
  <2>2. rank(i) \in T
    BY <1>2
  <2>3. \A n \in T : ~(n < n)
    BY DEF T
  <2>4. ~(rank(i) < rank(j)) /\ ~(rank(j) < rank(i))
    BY <1>4, <2>2, <2>3
  <2> QED BY <1>3, <2>1, <2>4
<1>5. f \in Injection(F, T)
  <2> HIDE DEF rank
  <2>1. f \in [F -> T]
    BY <1>2
  <2>2. \A i, j \in F : f[i] = f[j] => i = j
    BY <1>4
  <2> QED BY <2>1, <2>2 DEF Injection, IsInjective
<1>6. f \in Surjection(F, T)
  BY <1>1, <1>5, FS_Injection
<1>7. ASSUME NEW n \in 1 .. c PROVE \E i \in F : rank(i) = n - 1
  <2> HIDE DEF rank, c
  <2>1. n - 1 \in T
    BY <1>1
  <2> QED BY <1>6, <2>1 DEF Surjection
<1> QED BY <1>3, <1>7 DEF Rank

(* A record that is found is one, of the key it was looked for with.        *)
LEMMA FoundProperties ==
    ASSUME NEW l \in Seq(Pieces), NEW k
    PROVE  /\ Found(l, k) \subseteq 1 .. Len(l)
           /\ IsFiniteSet(Found(l, k)) /\ Cardinality(Found(l, k)) \in Nat
           /\ \A i \in Found(l, k) : l[i] \in Record /\ l[i].key = k /\ l[i].time \in Int
<1>1. DOMAIN l = 1 .. Len(l) /\ Len(l) \in Nat
  BY LenProperties
<1>2. Found(l, k) \in SUBSET (1 .. Len(l))
  BY <1>1 DEF Found
<1>3. IsFiniteSet(1 .. Len(l))
  BY <1>1, FS_Interval
<1>4. IsFiniteSet(Found(l, k)) /\ Cardinality(Found(l, k)) \in Nat
  BY <1>2, <1>3, FS_Subset, FS_CardinalityType
<1>5. ASSUME NEW i \in Found(l, k) PROVE l[i] \in Record /\ l[i].key = k
  <2>1. l[i] \in Pieces
    BY <1>2, ElementOfSeq
  <2> QED BY <2>1 DEF Found, ReadsAt, Pieces
<1>6. \A e \in Record : e.time \in Int
  BY DEF Record
<1> QED BY <1>2, <1>4, <1>5, <1>6

(* Sorted is a list of what is found, each once, in the order of Before.    *)
LEMMA SortedProperties ==
    ASSUME NEW l \in Seq(Pieces), NEW k
    PROVE  LET F == Found(l, k) IN
           /\ Sorted(l, k) \in Seq(Record)
           /\ Len(Sorted(l, k)) = Cardinality(F)
           /\ \E pos \in [1 .. Cardinality(F) -> F] :
                 /\ \A n \in 1 .. Cardinality(F) : Sorted(l, k)[n] = l[pos[n]]
                 /\ \A n, m \in 1 .. Cardinality(F) : n < m => Before(l, pos[n], pos[m])
                 /\ \A n, m \in 1 .. Cardinality(F) : pos[n] = pos[m] => n = m
<1> DEFINE F == Found(l, k)
           c == Cardinality(F)
           R == {p \in F \X F : Before(l, p[1], p[2])}
           rank(i) == Cardinality({j \in F : Before(l, j, i)})
           place(n) == CHOOSE i \in F : rank(i) = n - 1
           pos == [n \in 1 .. c |-> place(n)]
<1>1. /\ F \subseteq Int /\ IsFiniteSet(F) /\ c \in Nat
      /\ \A i \in F : l[i] \in Record /\ l[i].time \in Int
  BY FoundProperties
<1>2. \A i, j \in F : <<i, j>> \in R <=> Before(l, i, j)
  OBVIOUS
<1>3. \A i \in F : <<i, i>> \notin R
  BY <1>1, <1>2 DEF Before, Older
<1>4. \A i, j, m \in F : <<i, j>> \in R /\ <<j, m>> \in R => <<i, m>> \in R
  <2> TAKE i, j, m \in F
  <2> HAVE <<i, j>> \in R /\ <<j, m>> \in R
  <2>1. Before(l, i, j) /\ Before(l, j, m)
    BY <1>2
  <2>2. Before(l, i, m)
    <3> HIDE DEF F
    <3>1. i \in Int /\ j \in Int /\ m \in Int
      BY <1>1
    <3>2. l[i].time \in Int /\ l[j].time \in Int /\ l[m].time \in Int
      BY <1>1
    <3> QED BY <2>1, <3>1, <3>2 DEF Before, Older
  <2> QED BY <1>2, <2>2
<1>5. \A i, j \in F : i = j \/ <<i, j>> \in R \/ <<j, i>> \in R
  <2> TAKE i, j \in F
  <2>1. i \in Int /\ j \in Int /\ l[i].time \in Int /\ l[j].time \in Int
    BY <1>1
  <2>2. i = j \/ Before(l, i, j) \/ Before(l, j, i)
    BY <2>1 DEF Before, Older
  <2> QED BY <1>2, <2>2
<1>6. \A i \in F : rank(i) = Rank(F, R, i)
  <2>1. ASSUME NEW i \in F PROVE {j \in F : Before(l, j, i)} = Below(F, R, i)
    BY <1>2 DEF Below
  <2> QED BY <2>1 DEF Rank
<1> HIDE DEF R
<1> HIDE DEF F
<1>7. /\ \A i, j \in F : <<i, j>> \in R => rank(i) < rank(j)
      /\ \A n \in 1 .. c : \E i \in F : rank(i) = n - 1
  <2> HIDE DEF rank
  <2>1. /\ \A i, j \in F : <<i, j>> \in R =>
              Rank(F, R, i) < Rank(F, R, j)
        /\ \A n \in 1 .. c : \E i \in F : Rank(F, R, i) = n - 1
    BY <1>1, <1>3, <1>4, <1>5, Ranks
  <2> QED BY <1>6, <2>1
<1> HIDE DEF rank, c
<1>8. ASSUME NEW n \in 1 .. c PROVE place(n) \in F /\ rank(place(n)) = n - 1
  BY <1>7
<1>9. \A n \in 1 .. c : Sorted(l, k)[n] = l[place(n)]
  BY DEF Sorted, F, c, rank
<1>10. Sorted(l, k) = [n \in 1 .. c |-> l[place(n)]]
  BY DEF Sorted, F, c, rank
<1> HIDE DEF place
<1>11. pos \in [1 .. c -> F] /\ \A n \in 1 .. c : pos[n] = place(n)
  BY <1>8
<1>12. ASSUME NEW n \in 1 .. c, NEW m \in 1 .. c, n < m PROVE Before(l, pos[n], pos[m])
  <2>1. /\ place(n) \in F /\ rank(place(n)) = n - 1
        /\ place(m) \in F /\ rank(place(m)) = m - 1
    BY <1>8
  <2>2. place(n) # place(m) /\ ~(rank(place(m)) < rank(place(n)))
    BY <1>12, <2>1
  <2>3. <<place(n), place(m)>> \in R
    BY <1>5, <1>7, <2>1, <2>2
  <2> QED BY <1>2, <1>11, <2>1, <2>3
<1>13. ASSUME NEW n \in 1 .. c, NEW m \in 1 .. c, pos[n] = pos[m] PROVE n = m
  <2>1. n - 1 = m - 1
    BY <1>8, <1>11, <1>13
  <2> QED BY <2>1
<1>14. Sorted(l, k) \in Seq(Record) /\ Len(Sorted(l, k)) = c
  <2>1. Sorted(l, k) \in [1 .. c -> Record]
    BY <1>1, <1>8, <1>10
  <2> QED BY <1>1, <2>1, LenProperties, IsASeq
<1>15. \A n \in 1 .. c : Sorted(l, k)[n] = l[pos[n]]
  BY <1>9, <1>11
<1> HIDE DEF pos
<1> QED BY <1>11, <1>12, <1>13, <1>14, <1>15 DEF F, c
----------------------------------------------------------------------------
(* The readers' invariant.                                                  *)

Kinds == {"vault", "physical", "attendance"}

WhatOK == what \in Seq([kind : Kinds, name : Names]) /\ Len(what) = started

(* A record was started by somebody with the right to its key; what is      *)
(* under the readers' key is about a medium or a user.                      *)
Rightful(r) ==
    /\ r.id \in 1 .. started
    /\ r.key \in VaultKeys \cup {EnvKey}
    /\ r.key = EnvKey => what[r.id].kind \in {"physical", "attendance"}

OriginOK ==
    /\ \A w \in Writers : rec[w] # <<>> => Rightful(rec[w][1])
    /\ \A r \in RecordsOf(log) : r \in Record => Rightful(r)

(* No record is in the file twice, or about to be.                          *)
OnceInFile ==
    /\ \A i, j \in 1 .. Len(log) :
          log[i] \in Record /\ log[j] \in Record /\ log[i].id = log[j].id => i = j
    /\ \A w \in Writers : wpc[w] = "line" =>
          \A r \in RecordsOf(log) : r \in Record => r.id # rec[w][1].id
    /\ \A v, w \in Writers :
          wpc[v] = "line" /\ wpc[w] = "line" /\ rec[v][1].id = rec[w][1].id => v = w

(* A list of different records of the readers' key, newest first.           *)
NewestFirst(s) ==
    /\ s \in Seq(Record)
    /\ \A i, j \in 1 .. Len(s) : i < j => s[i].time >= s[j].time
    /\ \A i, j \in 1 .. Len(s) : s[i].id = s[j].id => i = j

SeenOK ==
    \A r \in Readers :
        /\ NewestFirst(seen[r])
        /\ \A i \in 1 .. Len(seen[r]) : seen[r][i].key = EnvKey /\ Rightful(seen[r][i])

ReadingsOK == \A r \in Readers : rpc[r] = "counted" => t1[r] <= t2[r]

ReadersInv ==
    /\ ReadersTypeOK /\ HandOK
    /\ WhatOK /\ OriginOK /\ OnceInFile
    /\ SeenOK /\ ReadingsOK

(* What is sorted is a list of different records, newest first.             *)
LEMMA SortedIsNewestFirst ==
    ASSUME NEW l \in Seq(Pieces), NEW k,
           \A i, j \in 1 .. Len(l) :
              l[i] \in Record /\ l[j] \in Record /\ l[i].id = l[j].id => i = j
    PROVE  /\ NewestFirst(Sorted(l, k))
           /\ \A i \in 1 .. Len(Sorted(l, k)) :
                 Sorted(l, k)[i] \in RecordsOf(l) /\ Sorted(l, k)[i].key = k
<1> DEFINE F == Found(l, k)
           s == Sorted(l, k)
           c == Cardinality(F)
<1>1. /\ F \subseteq 1 .. Len(l)
      /\ \A i \in F : l[i] \in Record /\ l[i].key = k /\ l[i].time \in Int
  BY FoundProperties
<1>2. /\ s \in Seq(Record) /\ Len(s) = c
      /\ \E pos \in [1 .. c -> F] :
            /\ \A n \in 1 .. c : s[n] = l[pos[n]]
            /\ \A n, m \in 1 .. c : n < m => Before(l, pos[n], pos[m])
            /\ \A n, m \in 1 .. c : pos[n] = pos[m] => n = m
  BY SortedProperties
<1> HIDE DEF s, F, c
<1>3. PICK pos \in [1 .. c -> F] :
            /\ \A n \in 1 .. c : s[n] = l[pos[n]]
            /\ \A n, m \in 1 .. c : n < m => Before(l, pos[n], pos[m])
            /\ \A n, m \in 1 .. c : pos[n] = pos[m] => n = m
  BY <1>2
<1>4. \A n \in 1 .. c : pos[n] \in F
  BY <1>3
<1>5. ASSUME NEW n \in 1 .. c, NEW m \in 1 .. c, n < m PROVE s[n].time >= s[m].time
  <2>1. l[pos[n]].time \in Int /\ l[pos[m]].time \in Int
    BY <1>1, <1>4
  <2>2. Before(l, pos[n], pos[m])
    BY <1>3, <1>5
  <2>3. l[pos[n]].time >= l[pos[m]].time
    BY <2>1, <2>2 DEF Before, Older
  <2> QED BY <1>3, <2>3
<1>6. ASSUME NEW n \in 1 .. c, NEW m \in 1 .. c, s[n].id = s[m].id PROVE n = m
  <2>1. /\ pos[n] \in 1 .. Len(l) /\ pos[m] \in 1 .. Len(l)
        /\ l[pos[n]] \in Record /\ l[pos[m]] \in Record
    BY <1>1, <1>4
  <2>2. pos[n] = pos[m]
    BY <1>3, <1>6, <2>1
  <2> QED BY <1>3, <2>2
<1>7. ASSUME NEW n \in 1 .. c PROVE s[n] \in RecordsOf(l) /\ s[n].key = k
  BY <1>1, <1>3, <1>4 DEF RecordsOf
<1> QED BY <1>2, <1>5, <1>6, <1>7 DEF NewestFirst, s

----------------------------------------------------------------------------
(* Steps.                                                                   *)

LEMMA ReadersInvInit == ReadersInit => ReadersInv
<1> SUFFICES ASSUME ReadersInit PROVE ReadersInv
  OBVIOUS
<1>1. LogTypeOK /\ HandOK
  BY LogTypeInit DEF ReadersInit, LogTypeInv
<1>2. /\ clock = 1 /\ log = <<>> /\ started = 0 /\ what = <<>>
      /\ wpc = [w \in Writers |-> "idle"] /\ rec = [w \in Writers |-> <<>>]
  BY DEF ReadersInit, LogInit
<1>3. Len(log) = 0 /\ RecordsOf(log) = {} /\ DOMAIN log = {}
  BY <1>2, EmptySeq DEF RecordsOf
<1>4. /\ \A r \in Readers : rpc[r] = "idle" /\ seen[r] = <<>> /\ t1[r] = 0 /\ t2[r] = 0
  BY DEF ReadersInit
<1>5. WhatOK
  BY <1>2, EmptySeq DEF WhatOK
<1>6. OriginOK /\ OnceInFile
  BY <1>2, <1>3 DEF OriginOK, OnceInFile
<1>7. SeenOK
  <2>1. \A r \in Readers : seen[r] \in Seq(Record) /\ Len(seen[r]) = 0
    BY <1>4, EmptySeq
  <2> QED BY <2>1 DEF SeenOK, NewestFirst
<1>8. ReadingsOK
  BY <1>2, <1>4 DEF ReadingsOK
<1>9. seen \in [Readers -> Seq(Record)]
  BY EmptySeq DEF ReadersInit
<1>10. ReadersTypeOK
  BY <1>1, <1>2, <1>3, <1>9, EmptySeq DEF ReadersTypeOK, ReadersInit
<1> QED BY <1>1, <1>5, <1>6, <1>7, <1>8, <1>10 DEF ReadersInv

(* One piece more in the file is one more record at most.                   *)
LEMMA RecordsAppend ==
    ASSUME NEW l \in Seq(Pieces), NEW p \in Pieces
    PROVE  RecordsOf(Append(l, p)) = RecordsOf(l) \cup {p}
<1> DEFINE m == Append(l, p)
<1>1. /\ Len(l) \in Nat /\ Len(m) = Len(l) + 1 /\ m[Len(l) + 1] = p
      /\ \A i \in 1 .. Len(l) : m[i] = l[i]
  BY AppendPieces
<1> HIDE DEF m
<1>2. 1 .. Len(m) = 1 .. Len(l) \cup {Len(l) + 1}
  BY <1>1
<1>3. RecordsOf(m) = RecordsOf(l) \cup {p}
  BY <1>1, <1>2, SMTT(30) DEF RecordsOf
<1> QED BY <1>3 DEF m

(* The steps that start no record: the writers finish or lose theirs.       *)
LEMMA OthersKeepOrigins ==
    ASSUME ReadersInv, [LogNext]_logVars, UNCHANGED <<what, started>>,
           \A w \in Writers : ~StartAppend(w)
    PROVE  WhatOK' /\ OriginOK' /\ OnceInFile'
<1>1. /\ log \in Seq(Pieces)
      /\ wpc \in [Writers -> {"idle", "line", "eol"}]
      /\ rec \in [Writers -> {<<>>} \cup {<<r>> : r \in Record}]
      /\ LogTypeInv
  BY DEF ReadersInv, ReadersTypeOK, LogTypeOK, LogTypeInv, Pieces
<1>2. \A r : Rightful(r)' <=> Rightful(r)
  BY DEF Rightful
<1>3. WhatOK'
  BY DEF ReadersInv, WhatOK
<1>4. ASSUME UNCHANGED <<log, wpc, rec>> PROVE OriginOK' /\ OnceInFile'
  BY <1>2, <1>4 DEF ReadersInv, OriginOK, OnceInFile, RecordsOf
<1>5. ASSUME NEW w \in Writers,
             wpc' = [wpc EXCEPT ![w] = "idle"] \/ wpc' = wpc,
             rec' = [rec EXCEPT ![w] = <<>>] \/ rec' = rec,
             rec' = rec \/ wpc' = [wpc EXCEPT ![w] = "idle"],
             NEW p \in {EOL, Cut}, log' = log \/ log' = Append(log, p)
      PROVE  OriginOK' /\ OnceInFile'
  <2>1. \A r \in RecordsOf(log)' : r \in Record => r \in RecordsOf(log)
    BY <1>1, <1>5, RecordsAppend, PiecesAssumption DEF Pieces, RecordsOf
  <2>2. \A v \in Writers : rec'[v] # <<>> => rec'[v] = rec[v]
    BY <1>1, <1>5
  <2>3. \A v \in Writers : wpc'[v] = "line" => wpc[v] = "line" /\ rec'[v] = rec[v]
    BY <1>1, <1>5
  <2>4. OriginOK'
    BY <1>2, <2>1, <2>2 DEF ReadersInv, OriginOK
  <2>5. \A i, j \in 1 .. Len(log') :
           log'[i] \in Record /\ log'[j] \in Record /\ log'[i].id = log'[j].id => i = j
    <3>1. CASE log' = log
      BY <3>1 DEF ReadersInv, OnceInFile
    <3>2. CASE log' = Append(log, p)
      <4>1. /\ Len(log) \in Nat /\ Len(log') = Len(log) + 1 /\ log'[Len(log) + 1] = p
            /\ \A i \in 1 .. Len(log) : log'[i] = log[i]
        BY <1>1, <3>2, AppendPieces DEF Pieces
      <4>2. p \notin Record
        BY PiecesAssumption
      <4>3. \A i \in 1 .. Len(log') : log'[i] \in Record => i \in 1 .. Len(log) /\ log'[i] = log[i]
        BY <4>1, <4>2
      <4> QED BY <4>3 DEF ReadersInv, OnceInFile
    <3> QED BY <1>5, <3>1, <3>2
  <2> QED BY <2>1, <2>3, <2>4, <2>5 DEF ReadersInv, OnceInFile
<1>6. ASSUME NEW w \in Writers, WriteLine(w) PROVE OriginOK' /\ OnceInFile'
  <2> DEFINE r == rec[w][1]
  <2>1. r \in Record /\ log' = Append(log, r) /\ wpc[w] = "line" /\ rec' = rec
    BY <1>1, <1>6, LineIsAppended DEF WriteLine
  <2>2. RecordsOf(log)' = RecordsOf(log) \cup {r}
    BY <1>1, <2>1, RecordsAppend DEF Pieces, RecordsOf
  <2>3. \A v \in Writers : wpc'[v] = "line" => wpc[v] = "line" /\ v # w
    BY <1>1, <1>6 DEF WriteLine
  <2>4. rec[w] # <<>>
    BY <2>1 DEF ReadersInv, HandOK
  <2> HIDE DEF r
  <2>5. OriginOK'
    <3>1. Rightful(r)
      BY <2>4 DEF ReadersInv, OriginOK, r
    <3> QED BY <1>2, <2>1, <2>2, <3>1 DEF ReadersInv, OriginOK
  <2>6. \A i, j \in 1 .. Len(log') :
           log'[i] \in Record /\ log'[j] \in Record /\ log'[i].id = log'[j].id => i = j
    <3>1. /\ Len(log) \in Nat /\ Len(log') = Len(log) + 1 /\ log'[Len(log) + 1] = r
          /\ \A i \in 1 .. Len(log) : log'[i] = log[i]
      BY <1>1, <2>1, AppendPieces DEF Pieces
    <3>2. \A i \in 1 .. Len(log) : log[i] \in Record => log[i].id # r.id
      BY <2>1 DEF ReadersInv, OnceInFile, RecordsOf, r
    <3>3. \A i \in 1 .. Len(log') : i \in 1 .. Len(log) \/ i = Len(log) + 1
      BY <3>1
    <3> QED BY <3>1, <3>2, <3>3 DEF ReadersInv, OnceInFile
  <2>7. ASSUME NEW v \in Writers, wpc'[v] = "line"
        PROVE  \A e \in RecordsOf(log)' : e \in Record => e.id # rec'[v][1].id
    <3>1. wpc[v] = "line" /\ v # w /\ rec'[v] = rec[v]
      BY <2>1, <2>3, <2>7
    <3>2. r.id # rec[v][1].id
      BY <2>1, <3>1 DEF ReadersInv, OnceInFile, r
    <3> QED BY <2>2, <3>1, <3>2 DEF ReadersInv, OnceInFile
  <2>8. \A u, v \in Writers :
           wpc'[u] = "line" /\ wpc'[v] = "line" /\ rec'[u][1].id = rec'[v][1].id => u = v
    BY <2>1, <2>3 DEF ReadersInv, OnceInFile
  <2> QED BY <2>5, <2>6, <2>7, <2>8 DEF OnceInFile
<1>7. ASSUME NEW w \in Writers, LineFails(w) \/ KillWriter(w) PROVE OriginOK' /\ OnceInFile'
  <2>1. wpc' = [wpc EXCEPT ![w] = "idle"] /\ rec' = [rec EXCEPT ![w] = <<>>]
    BY <1>7 DEF LineFails, KillWriter, Close
  <2>2. log' = log \/ log' = Append(log, Cut)
    BY <1>7 DEF LineFails, KillWriter
  <2> QED BY <1>5, <2>1, <2>2
<1>8. ASSUME NEW w \in Writers, HandEol(w) PROVE OriginOK' /\ OnceInFile'
  BY <1>5, <1>8 DEF HandEol, Close
<1>9. ASSUME NEW w \in Writers, WriteEol(w) PROVE OriginOK' /\ OnceInFile'
  BY <1>5, <1>9 DEF WriteEol
<1>10. ASSUME NEW w \in Writers, EolFails(w) PROVE OriginOK' /\ OnceInFile'
  BY <1>4, <1>10 DEF EolFails
<1>11. Tick \/ UNCHANGED logVars => UNCHANGED <<log, wpc, rec>>
  BY DEF Tick, logVars
<1>12. OriginOK' /\ OnceInFile'
  <2>1. CASE Tick \/ UNCHANGED logVars
    BY <1>4, <1>11, <2>1
  <2>2. ASSUME NEW w \in Writers,
               \/ WriteLine(w) \/ LineFails(w) \/ HandEol(w)
               \/ WriteEol(w) \/ EolFails(w) \/ KillWriter(w)
        PROVE  OriginOK' /\ OnceInFile'
    BY <1>6, <1>7, <1>8, <1>9, <1>10, <2>2
  <2> QED BY <2>1, <2>2 DEF LogNext
<1> QED BY <1>3, <1>12

(* A command or a vault call begins: its record is a new one.               *)
LEMMA BeginKeepsOrigins ==
    ASSUME ReadersInv, NEW w \in Writers, NEW K, NEW kind \in Kinds, Begin(w, K, kind),
           K \subseteq VaultKeys \cup {EnvKey},
           EnvKey \in K => kind \in {"physical", "attendance"}
    PROVE  /\ WhatOK' /\ OriginOK' /\ OnceInFile'
           /\ \A r : Rightful(r) => Rightful(r)'
<1>1. /\ log \in Seq(Pieces) /\ started \in Nat
      /\ wpc \in [Writers -> {"idle", "line", "eol"}]
      /\ rec \in [Writers -> {<<>>} \cup {<<r>> : r \in Record}]
  BY BoundsAssumption DEF ReadersInv, ReadersTypeOK, LogTypeOK, Pieces
<1>2. /\ what \in Seq([kind : Kinds, name : Names]) /\ Len(what) = started
  BY DEF ReadersInv, WhatOK
<1>3. PICK n \in Names : what' = Append(what, [kind |-> kind, name |-> n])
  BY DEF Begin
<1>4. PICK k \in Keys :
         rec' = [rec EXCEPT ![w] = <<[id |-> started + 1, time |-> clock, key |-> k]>>]
  BY DEF Begin, StartAppend
<1>5. started' = started + 1 /\ wpc' = [wpc EXCEPT ![w] = "line"] /\ log' = log
  BY DEF Begin, StartAppend
<1> DEFINE e == [id |-> started + 1, time |-> clock, key |-> k]
<1>6. rec'[w] = <<e>> /\ rec'[w][1] = e /\ \A v \in Writers \ {w} : rec'[v] = rec[v]
  BY <1>1, <1>4
<1>7. e.id = started + 1 /\ e.key \in K
  <2>1. rec'[w][1].key \in K
    BY DEF Begin
  <2> QED BY <1>6, <2>1
<1> HIDE DEF e
<1>8. /\ what' \in Seq([kind : Kinds, name : Names])
      /\ Len(what') = started + 1
      /\ \A i \in 1 .. started : what'[i] = what[i]
      /\ what'[started + 1].kind = kind
  <2> DEFINE a == [kind |-> kind, name |-> n]
  <2>1. a \in [kind : Kinds, name : Names] /\ a.kind = kind
    OBVIOUS
  <2> HIDE DEF a
  <2> QED BY <1>2, <1>3, <2>1, AppendProperties DEF a
<1>9. WhatOK'
  BY <1>5, <1>8 DEF WhatOK
<1>10. ASSUME NEW r, Rightful(r) PROVE Rightful(r)'
  <2>1. r.id \in 1 .. started /\ r.id \in 1 .. started'
    BY <1>1, <1>5, <1>10 DEF Rightful
  <2>2. what'[r.id] = what[r.id]
    BY <1>8, <2>1
  <2> QED BY <1>10, <2>1, <2>2 DEF Rightful
<1>11. /\ e.id \in 1 .. started'
       /\ e.key \in VaultKeys \cup {EnvKey}
       /\ e.key = EnvKey => what'[e.id].kind \in {"physical", "attendance"}
  BY <1>1, <1>5, <1>7, <1>8
<1>12. OriginOK'
  <2>1. ASSUME NEW v \in Writers, rec'[v] # <<>> PROVE Rightful(rec[v][1])'
    <3>1. CASE v = w
      BY <1>6, <1>11, <3>1 DEF Rightful
    <3>2. CASE v # w
      <4>1. rec'[v] = rec[v] /\ Rightful(rec[v][1])
        BY <1>6, <2>1, <3>2 DEF ReadersInv, OriginOK
      <4>2. Rightful(rec[v][1]) => (\A r : r = rec[v][1] => Rightful(r)')
        BY <1>10
      <4> QED BY <4>1, <4>2 DEF Rightful
    <3> QED BY <3>1, <3>2
  <2>2. \A r \in RecordsOf(log)' : r \in Record => Rightful(r)'
    BY <1>5, <1>10 DEF ReadersInv, OriginOK, RecordsOf
  <2> QED BY <2>1, <2>2 DEF OriginOK
<1>13. OnceInFile'
  <2>1. \A r \in RecordsOf(log) : r \in Record => r.id \in 1 .. started
    BY DEF ReadersInv, OriginOK, Rightful
  <2>2. \A v \in Writers : wpc[v] = "line" => rec[v][1].id \in 1 .. started
    BY DEF ReadersInv, OriginOK, HandOK, Rightful
  <2>3. ~(started + 1 \in 1 .. started)
    BY <1>1
  <2>4. \A v \in Writers : wpc'[v] = "line" => v = w \/ wpc[v] = "line"
    BY <1>1, <1>5
  <2>5. \A v \in Writers : wpc'[v] = "line" =>
           \A r \in RecordsOf(log) : r \in Record => r.id # rec'[v][1].id
    BY <1>6, <1>7, <2>1, <2>3, <2>4 DEF ReadersInv, OnceInFile
  <2>6. \A u, v \in Writers :
           wpc'[u] = "line" /\ wpc'[v] = "line" /\ rec'[u][1].id = rec'[v][1].id => u = v
    BY <1>6, <1>7, <2>2, <2>3, <2>4 DEF ReadersInv, OnceInFile
  <2> QED BY <1>5, <2>5, <2>6 DEF ReadersInv, OnceInFile, RecordsOf
<1> QED BY <1>9, <1>10, <1>12, <1>13

(* What a reader has found stays what it was.                               *)
LEMMA SeenKept ==
    ASSUME ReadersInv, seen' = seen, \A r : Rightful(r) => Rightful(r)'
    PROVE  SeenOK'
BY DEF ReadersInv, SeenOK, NewestFirst

LEMMA ReadingsKept ==
    ASSUME ReadersInv, UNCHANGED <<rpc, t1, t2>>
    PROVE  ReadingsOK'
BY DEF ReadersInv, ReadingsOK

(* A reader finds different records, newest first, all of them rightful.    *)
LEMMA ReadLogSees ==
    ASSUME ReadersInv, NEW r \in Readers, ReadLog(r)
    PROVE  SeenOK'
<1> DEFINE s == Sorted(log, EnvKey)
<1>1. log \in Seq(Pieces)
  BY DEF ReadersInv, ReadersTypeOK, LogTypeOK, Pieces
<1>2. AuditKey(env) = EnvKey
  BY KeyIsEnvKey DEF ReadLog, ReadersInv, ReadersTypeOK
<1>3. seen' = [seen EXCEPT ![r] = s]
  BY <1>2 DEF ReadLog
<1>4. /\ NewestFirst(s)
      /\ \A i \in 1 .. Len(s) : s[i] \in RecordsOf(log) /\ s[i].key = EnvKey
  BY <1>1, SortedIsNewestFirst DEF ReadersInv, OnceInFile
<1> HIDE DEF s
<1>5. \A i \in 1 .. Len(s) : s[i] \in Record
  BY <1>4, ElementOfSeq DEF NewestFirst
<1>6. \A i \in 1 .. Len(s) : s[i].key = EnvKey /\ Rightful(s[i])
  BY <1>4, <1>5 DEF ReadersInv, OriginOK
<1>7. \A e : Rightful(e)' <=> Rightful(e)
  BY DEF ReadLog, logVars, Rightful
<1>8. seen'[r] = s /\ \A q \in Readers \ {r} : seen'[q] = seen[q]
  BY <1>3 DEF ReadersInv, ReadersTypeOK
<1>9. ASSUME NEW q \in Readers
      PROVE  /\ NewestFirst(seen[q])'
             /\ \A i \in 1 .. Len(seen'[q]) : seen'[q][i].key = EnvKey /\ Rightful(seen'[q][i])
  <2>1. CASE q = r
    BY <1>4, <1>6, <1>8, <2>1 DEF NewestFirst
  <2>2. CASE q # r
    BY <1>8, <2>2 DEF ReadersInv, SeenOK, NewestFirst
  <2> QED BY <2>1, <2>2
<1> QED BY <1>7, <1>9 DEF SeenOK, Rightful

(* What of the types follows from the rest of the invariant, or concerns    *)
(* the log alone.                                                           *)
ReadVarsOK ==
    /\ env \in EnvTexts
    /\ rpc \in [Readers -> {"idle", "read", "clock", "counted"}]
    /\ seen \in [Readers -> Seq(Record)]
    /\ t1 \in [Readers -> 0 .. clock] /\ t2 \in [Readers -> 0 .. clock]

LEMMA TypesFollow == LogTypeOK /\ WhatOK /\ OriginOK /\ ReadVarsOK => ReadersTypeOK
<1> SUFFICES ASSUME LogTypeOK, WhatOK, OriginOK, ReadVarsOK
             PROVE  /\ \A i \in DOMAIN log :
                          log[i] \in Record => log[i].key \in VaultKeys \cup {EnvKey}
                    /\ Len(what) = started
  BY DEF ReadersTypeOK, ReadVarsOK
<1>1. log \in Seq(Pieces)
  BY DEF LogTypeOK, Pieces
<1>2. \A i \in DOMAIN log : log[i] \in Record => log[i].key \in VaultKeys \cup {EnvKey}
  <2>1. DOMAIN log = 1 .. Len(log)
    BY <1>1, LenProperties
  <2> QED BY <2>1 DEF OriginOK, RecordsOf, Rightful
<1>3. Len(what) = started
  BY DEF WhatOK
<1> QED BY <1>2, <1>3

(* A step of a writer, or of the clock.                                     *)
LEMMA LogStepKeepsInv ==
    ASSUME ReadersInv, [LogNext]_logVars, UNCHANGED <<env, rpc, seen, t1, t2>>,
           WhatOK', OriginOK', OnceInFile', \A r : Rightful(r) => Rightful(r)'
    PROVE  ReadersInv'
<1>1. LogTypeOK' /\ HandOK'
  BY LogTypeStep DEF ReadersInv, ReadersTypeOK, LogTypeInv
<1>2. clock' = clock \/ clock' = clock + 1
  BY DEF LogNext, logVars, Tick, StartAppend, WriteLine, LineFails, HandEol, WriteEol,
         EolFails, KillWriter
<1>3. \A i \in 0 .. clock : i \in 0 .. clock'
  BY <1>2 DEF ReadersInv, ReadersTypeOK, LogTypeOK
<1>4. /\ rpc \in [Readers -> {"idle", "read", "clock", "counted"}]
      /\ seen \in [Readers -> Seq(Record)] /\ env \in EnvTexts
      /\ t1 \in [Readers -> 0 .. clock] /\ t2 \in [Readers -> 0 .. clock]
  BY DEF ReadersInv, ReadersTypeOK
<1>5. t1' \in [Readers -> 0 .. clock'] /\ t2' \in [Readers -> 0 .. clock']
  BY <1>3, <1>4
<1>6. ReadersTypeOK'
  <2>1. /\ rpc' \in [Readers -> {"idle", "read", "clock", "counted"}]
        /\ seen' \in [Readers -> Seq(Record)] /\ env' \in EnvTexts
    BY <1>4
  <2>2. ReadVarsOK'
    BY <1>5, <2>1 DEF ReadVarsOK
  <2> QED BY <1>1, <2>2, TypesFollow, PTL
<1>7. SeenOK' /\ ReadingsOK'
  BY SeenKept, ReadingsKept
<1> QED BY <1>1, <1>6, <1>7 DEF ReadersInv

(* A step of a reader.                                                      *)
LEMMA ReaderStepKeepsInv ==
    ASSUME ReadersInv, NEW r \in Readers,
           ReadLog(r) \/ FirstClock(r) \/ SecondClock(r) \/ AnswerReader(r)
    PROVE  ReadersInv'
<1>1. UNCHANGED <<logVars, env, what>>
  BY DEF ReadLog, FirstClock, SecondClock, AnswerReader
<1>2. /\ LogTypeOK /\ clock \in Nat /\ env \in EnvTexts
      /\ rpc \in [Readers -> {"idle", "read", "clock", "counted"}]
      /\ seen \in [Readers -> Seq(Record)]
      /\ t1 \in [Readers -> 0 .. clock] /\ t2 \in [Readers -> 0 .. clock]
  BY DEF ReadersInv, ReadersTypeOK, LogTypeOK
<1>3. LogTypeOK' /\ HandOK'
  <2>1. [LogNext]_logVars
    BY <1>1
  <2> QED BY <2>1, LogTypeStep DEF ReadersInv, ReadersTypeOK, LogTypeInv
<1>4. WhatOK' /\ OriginOK' /\ OnceInFile' /\ \A e : Rightful(e) => Rightful(e)'
  BY <1>1 DEF logVars, ReadersInv, WhatOK, OriginOK, OnceInFile, Rightful, RecordsOf
<1>5. SeenOK'
  <2>1. CASE ReadLog(r)
    BY <2>1, ReadLogSees
  <2>2. CASE FirstClock(r) \/ SecondClock(r)
    BY <1>4, <2>2, SeenKept DEF FirstClock, SecondClock
  <2>3. CASE AnswerReader(r)
    <3>1. seen' = [seen EXCEPT ![r] = <<>>]
      BY <2>3 DEF AnswerReader
    <3>2. seen'[r] = <<>> /\ \A q \in Readers \ {r} : seen'[q] = seen[q]
      BY <1>2, <3>1
    <3>3. <<>> \in Seq(Record) /\ Len(<<>>) = 0
      BY EmptySeq
    <3>4. ASSUME NEW q \in Readers
          PROVE  /\ NewestFirst(seen[q])'
                 /\ \A i \in 1 .. Len(seen'[q]) :
                       seen'[q][i].key = EnvKey /\ Rightful(seen'[q][i])
      <4>1. CASE q = r
        <5>1. seen'[q] \in Seq(Record) /\ Len(seen'[q]) = 0
          BY <3>2, <3>3, <4>1
        <5> QED BY <5>1 DEF NewestFirst
      <4>2. CASE q # r
        BY <3>2, <4>2 DEF ReadersInv, SeenOK, NewestFirst
      <4> QED BY <4>1, <4>2
    <3> QED BY <1>1, <3>4 DEF SeenOK, Rightful, logVars
  <2> QED BY <2>1, <2>2, <2>3
<1>6. seen' \in [Readers -> Seq(Record)]
  <2>1. CASE ReadLog(r)
    <3>1. Sorted(log, AuditKey(env)) \in Seq(Record)
      BY <1>2, SortedProperties DEF LogTypeOK, Pieces
    <3> QED BY <1>2, <2>1, <3>1 DEF ReadLog
  <2>2. CASE FirstClock(r) \/ SecondClock(r)
    BY <1>2, <2>2 DEF FirstClock, SecondClock
  <2>3. CASE AnswerReader(r)
    <3>1. seen' = [seen EXCEPT ![r] = <<>>]
      BY <2>3 DEF AnswerReader
    <3>2. <<>> \in Seq(Record)
      BY EmptySeq
    <3> QED BY <1>2, <3>1, <3>2
  <2> QED BY <2>1, <2>2, <2>3
<1>7. /\ t1' \in [Readers -> 0 .. clock'] /\ t2' \in [Readers -> 0 .. clock']
      /\ rpc' \in [Readers -> {"idle", "read", "clock", "counted"}]
  <2>1. clock' = clock /\ clock \in 0 .. clock /\ 0 \in 0 .. clock
    BY <1>1, <1>2 DEF logVars
  <2>2. CASE ReadLog(r)
    BY <1>2, <2>1, <2>2 DEF ReadLog
  <2>3. CASE FirstClock(r)
    BY <1>2, <2>1, <2>3 DEF FirstClock
  <2>4. CASE SecondClock(r)
    BY <1>2, <2>1, <2>4 DEF SecondClock
  <2>5. CASE AnswerReader(r)
    BY <1>2, <2>1, <2>5 DEF AnswerReader
  <2> QED BY <2>2, <2>3, <2>4, <2>5
<1>8. ReadingsOK'
  <2>1. CASE ReadLog(r) \/ FirstClock(r) \/ AnswerReader(r)
    <3>1. \A q \in Readers : rpc'[q] = "counted" =>
             rpc[q] = "counted" /\ q # r
      BY <1>2, <2>1 DEF ReadLog, FirstClock, AnswerReader
    <3>2. \A q \in Readers \ {r} : t1'[q] = t1[q] /\ t2'[q] = t2[q]
      BY <1>2, <2>1 DEF ReadLog, FirstClock, AnswerReader
    <3> QED BY <3>1, <3>2 DEF ReadersInv, ReadingsOK
  <2>2. CASE SecondClock(r)
    <3>1. t1[r] <= clock /\ t2'[r] = clock /\ t1' = t1
      BY <1>2, <2>2 DEF SecondClock
    <3>2. \A q \in Readers \ {r} : t2'[q] = t2[q] /\ rpc'[q] = rpc[q]
      BY <1>2, <2>2 DEF SecondClock
    <3> QED BY <3>1, <3>2 DEF ReadersInv, ReadingsOK
  <2> QED BY <2>1, <2>2
<1>9. ReadersTypeOK'
  <2>1. env' \in EnvTexts
    BY <1>1, <1>2
  <2>2. ReadVarsOK'
    BY <1>6, <1>7, <2>1 DEF ReadVarsOK
  <2> QED BY <1>3, <1>4, <2>2, TypesFollow, PTL
<1> QED BY <1>3, <1>4, <1>5, <1>8, <1>9 DEF ReadersInv

LEMMA ReadersInvStep == ReadersInv /\ [ReadersNext]_readersVars => ReadersInv'
<1> SUFFICES ASSUME ReadersInv, [ReadersNext]_readersVars PROVE ReadersInv'
  OBVIOUS
<1>1. [LogNext]_logVars
  BY ReadersLogStep
<1>2. ASSUME UNCHANGED readVars, started' = started, \A w \in Writers : ~StartAppend(w)
      PROVE  ReadersInv'
  <2>1. WhatOK' /\ OriginOK' /\ OnceInFile'
    BY <1>1, <1>2, OthersKeepOrigins DEF readVars
  <2>2. \A r : Rightful(r) => Rightful(r)'
    BY <1>2 DEF readVars, Rightful
  <2> QED BY <1>1, <1>2, <2>1, <2>2, LogStepKeepsInv DEF readVars
<1>3. ASSUME NEW w \in Writers, NEW K, NEW kind \in Kinds, Begin(w, K, kind),
             K \subseteq VaultKeys \cup {EnvKey},
             EnvKey \in K => kind \in {"physical", "attendance"}
      PROVE  ReadersInv'
  <2>1. /\ WhatOK' /\ OriginOK' /\ OnceInFile'
        /\ \A r : Rightful(r) => Rightful(r)'
    BY <1>3, BeginKeepsOrigins
  <2> QED BY <1>1, <1>3, <2>1, LogStepKeepsInv DEF Begin
<1>4. {AuditKey(env)} \ {NoKey} \subseteq {EnvKey}
  BY KeyIsEnvKey DEF ReadersInv, ReadersTypeOK
<1>5. ASSUME NEW w \in Writers, VaultCall(w) PROVE ReadersInv'
  BY <1>3, <1>5, VaultKeysAssumption DEF VaultCall, Kinds
<1>6. ASSUME NEW w \in Writers, LogCommand(w) PROVE ReadersInv'
  BY <1>3, <1>4, <1>6 DEF LogCommand, Kinds
<1>7. ASSUME NEW w \in Writers, AttendanceCommand(w) PROVE ReadersInv'
  BY <1>3, <1>4, <1>7 DEF AttendanceCommand, Kinds
<1>8. ASSUME NEW r \in Readers,
             ReadLog(r) \/ FirstClock(r) \/ SecondClock(r) \/ AnswerReader(r)
      PROVE  ReadersInv'
  BY <1>8, ReaderStepKeepsInv
<1>9. started \in Nat
  BY BoundsAssumption DEF ReadersInv, ReadersTypeOK, LogTypeOK
<1>10. ASSUME NEW w \in Writers, UNCHANGED readVars,
              \/ WriteLine(w) \/ LineFails(w) \/ HandEol(w)
              \/ WriteEol(w) \/ EolFails(w) \/ KillWriter(w)
       PROVE  ReadersInv'
  <2>1. started' = started
    BY <1>10 DEF WriteLine, LineFails, HandEol, WriteEol, EolFails, KillWriter
  <2>2. \A v \in Writers : ~StartAppend(v)
    BY <1>9, <2>1 DEF StartAppend
  <2> QED BY <1>2, <1>10, <2>1, <2>2
<1>11. ASSUME (Tick /\ UNCHANGED readVars) \/ UNCHANGED readersVars PROVE ReadersInv'
  <2>1. started' = started /\ UNCHANGED readVars
    BY <1>11 DEF Tick, readersVars, logVars
  <2>2. \A v \in Writers : ~StartAppend(v)
    BY <1>9, <2>1 DEF StartAppend
  <2> QED BY <1>2, <2>1, <2>2
<1> QED BY <1>5, <1>6, <1>7, <1>8, <1>10, <1>11 DEF ReadersNext

LEMMA ReadersInductive == ReadersSpec => []ReadersInv
BY ReadersInvInit, ReadersInvStep, PTL DEF ReadersSpec

(* The types, and with them: no record is in the file, or in a reader's     *)
(* hands, under a key that its writer had no right to; a key of zeros is    *)
(* refused by commands and readers alike (get_audit_key_from_env).          *)
THEOREM ReadersTypesHold == ReadersSpec => []ReadersTypeOK
<1>1. ReadersInv => ReadersTypeOK
  BY DEF ReadersInv
<1> QED BY <1>1, ReadersInductive, PTL

----------------------------------------------------------------------------
(* The statistics.                                                          *)

(* However many seconds, and whichever midnight, pass between the two       *)
(* readings of the clock, today_operations leaves out nothing of the day    *)
(* that the second one is of, and counts before its start only what         *)
(* happened within as many seconds of it (get_audit_statistics).            *)
THEOREM StatisticsCountToday == ReadersSpec => []TodayIsToday
<1>1. ReadersInv => TodayIsToday
  <2> SUFFICES ASSUME ReadersInv, NEW r \in Readers, rpc[r] = "counted",
                      NEW e \in Range(seen[r])
               PROVE  /\ e.time >= DayStart(t2[r]) => e.time >= TodayStart(t1[r], t2[r])
                      /\ e.time >= TodayStart(t1[r], t2[r]) =>
                            e.time >= DayStart(t2[r]) - (t2[r] - t1[r])
    BY DEF TodayIsToday
  <2>1. t1[r] \in Nat /\ t2[r] \in Nat /\ t1[r] <= t2[r]
    <3>1. t1[r] \in 0 .. clock /\ t2[r] \in 0 .. clock
      BY DEF ReadersInv, ReadersTypeOK
    <3> QED BY <3>1 DEF ReadersInv, ReadingsOK
  <2>2. e.time \in Int
    <3>1. seen[r] \in Seq(Record)
      BY DEF ReadersInv, ReadersTypeOK
    <3>2. e \in Record
      BY <3>1, LenProperties, ElementOfSeq DEF Range
    <3> QED BY <3>2 DEF Record
  <2> DEFINE m == t2[r] % Day
  <2>3. m \in Int
    BY <2>1, DayAssumption
  <2>4. DayStart(t2[r]) = t2[r] - m /\ TodayStart(t1[r], t2[r]) = t1[r] - m
    BY DEF DayStart, TodayStart
  <2> HIDE DEF m
  <2> QED BY <2>1, <2>2, <2>3, <2>4
<1> QED BY <1>1, ReadersInductive, PTL

----------------------------------------------------------------------------
(* Lists and reports.                                                       *)

(* A list of records is newest first, whatever order the records had in the *)
(* file: what get_recent_operations and get_audit_log leave out is not      *)
(* newer than what they show.                                               *)
THEOREM ListsShowTheNewest == ReadersSpec => []RecentAreNewest
<1>1. ReadersInv => RecentAreNewest
  <2> SUFFICES ASSUME ReadersInv, NEW r \in Readers,
                      NEW e \in Range(Recent(seen[r])),
                      NEW f \in Range(seen[r]) \ Range(Recent(seen[r]))
               PROVE  e.time >= f.time
    BY DEF RecentAreNewest
  <2> DEFINE s == seen[r]
             shown == IF Limit < Len(s) THEN Limit ELSE Len(s)
  <2>1. NewestFirst(s) /\ s \in Seq(Record)
    BY DEF ReadersInv, SeenOK, NewestFirst
  <2>2. Len(s) \in Nat /\ DOMAIN s = 1 .. Len(s) /\ \A i \in 1 .. Len(s) : s[i] \in Record
    BY <2>1, LenProperties, ElementOfSeq
  <2> HIDE DEF s
  <2>3. shown \in Nat /\ shown <= Len(s)
    BY <2>2, DayAssumption
  <2>4. Recent(s) = [i \in 1 .. shown |-> s[i]]
    BY DEF Recent
  <2> HIDE DEF shown
  <2>5. PICK i \in 1 .. shown : e = s[i]
    BY <2>4 DEF Range, s
  <2>6. PICK j \in 1 .. Len(s) : f = s[j]
    BY <2>2 DEF Range, s
  <2>7. j \notin 1 .. shown
    BY <2>4, <2>6 DEF Range, s
  <2>8. i \in 1 .. Len(s) /\ i < j
    BY <2>2, <2>3, <2>7
  <2> QED BY <2>1, <2>5, <2>6, <2>8 DEF NewestFirst
<1> QED BY <1>1, ReadersInductive, PTL

(* A set of places split in two.                                            *)
LEMMA SplitInTwo ==
    ASSUME NEW S, IsFiniteSet(S), NEW A, NEW B, S = A \cup B, A \cap B = {}
    PROVE  /\ Cardinality(A) + Cardinality(B) = Cardinality(S)
           /\ Cardinality(A) \in Nat /\ Cardinality(B) \in Nat
<1>1. IsFiniteSet(A) /\ IsFiniteSet(B)
  BY FS_Subset
<1>2. Cardinality(A) \in Nat /\ Cardinality(B) \in Nat /\ Cardinality(A \cap B) = 0
  BY <1>1, FS_CardinalityType, FS_EmptySet
<1>3. Cardinality(S) = Cardinality(A) + Cardinality(B) - Cardinality(A \cap B)
  BY <1>1, FS_Union
<1> QED BY <1>2, <1>3

(* The members of the classes of a finite set, counted class by class, are  *)
(* its members: f says how many there are in the class of each value of g.  *)
LEMMA SumOfClasses ==
    ASSUME NEW P, IsFiniteSet(P), NEW D, IsFiniteSet(D), NEW g \in [P -> D],
           NEW f, DOMAIN f = D, \A n \in D : f[n] = Cardinality({e \in P : g[e] = n})
    PROVE  SumFunction(f) = Cardinality(P)
<1> DEFINE pick(s) == CHOOSE x \in s : TRUE
           step(h) == [s \in SUBSET D |->
                          IF s = {} THEN 0 ELSE f[pick(s)] + h[s \ {pick(s)}]]
           sum == CHOOSE h : h = step(h)
           part(s) == {e \in P : g[e] \in s}
           count == [s \in SUBSET D |-> Cardinality(part(s))]
<1>1. SumFunction(f) = sum[D]
  BY DEF SumFunction, SumFunctionOnSet, FoldFunctionOnSet, MapThenFoldSet
<1>2. ASSUME NEW s \in SUBSET D, s # {}
      PROVE  Cardinality(part(s)) = f[pick(s)] + Cardinality(part(s \ {pick(s)}))
  <2>1. pick(s) \in s
    BY <1>2
  <2> HIDE DEF pick
  <2> DEFINE class == {e \in P : g[e] = pick(s)}
             rest == part(s \ {pick(s)})
  <2>2. part(s) = class \cup rest /\ class \cap rest = {}
    BY <2>1
  <2>3. IsFiniteSet(part(s))
    <3>1. part(s) \in SUBSET P
      OBVIOUS
    <3> HIDE DEF part
    <3> QED BY <3>1, FS_Subset
  <2>4. f[pick(s)] = Cardinality(class)
    BY <2>1
  <2> HIDE DEF class, rest, part
  <2>5. /\ Cardinality(class) + Cardinality(rest) = Cardinality(part(s))
        /\ Cardinality(class) \in Nat /\ Cardinality(rest) \in Nat
    BY <2>2, <2>3, SplitInTwo
  <2> QED BY <2>4, <2>5 DEF rest
<1>3. part({}) = {} /\ part(D) = P
  OBVIOUS
<1> HIDE DEF pick, part
<1>4. count = step(count)
  <2>1. \A s \in SUBSET D : s \ {pick(s)} \in SUBSET D
    OBVIOUS
  <2>2. \A s \in SUBSET D :
           Cardinality(part(s)) =
              IF s = {} THEN 0 ELSE f[pick(s)] + count[s \ {pick(s)}]
    BY <1>2, <1>3, <2>1, FS_EmptySet
  <2> QED BY <2>2
<1>5. sum = step(sum)
  <2> HIDE DEF step, count
  <2> QED BY <1>4
<1> HIDE DEF sum
<1>6. \A s \in SUBSET D :
         sum[s] = IF s = {} THEN 0 ELSE f[pick(s)] + sum[s \ {pick(s)}]
  BY <1>5
<1>7. ASSUME NEW s \in SUBSET D, sum[s] # Cardinality(part(s)) PROVE FALSE
  <2> DEFINE Wrong == {u \in SUBSET D : sum[u] # Cardinality(part(u))}
  <2>1. Wrong # {} /\ Wrong \subseteq FiniteSubsetsOf(D)
    BY <1>7, FS_Subset DEF FiniteSubsetsOf
  <2>2. PICK u \in Wrong : \A v \in Wrong : ~(<<v, u>> \in StrictSubsetOrdering(D))
    BY <2>1, WFMin, FS_StrictSubsetOrderingWellFounded
  <2>3. CASE u = {}
    BY <1>3, <1>6, <2>2, <2>3, FS_EmptySet
  <2>4. CASE u # {}
    <3>1. pick(u) \in u
      BY <2>4 DEF pick
    <3> DEFINE v == u \ {pick(u)}
    <3>2. v \in SUBSET D /\ <<v, u>> \in StrictSubsetOrdering(D)
      BY <2>2, <3>1 DEF StrictSubsetOrdering
    <3>3. sum[v] = Cardinality(part(v))
      BY <2>2, <3>2
    <3> QED BY <1>2, <1>6, <2>2, <2>4, <3>3
  <2> QED BY <2>3, <2>4
<1> QED BY <1>1, <1>3, <1>7

LEMMA PlacesOfAList ==
    ASSUME NEW n \in Nat
    PROVE  IsFiniteSet(1 .. n) /\ Cardinality(1 .. n) = n
<1>1. IsFiniteSet(1 .. n) /\ Cardinality(1 .. n) = IF 1 > n THEN 0 ELSE n - 1 + 1
  BY FS_Interval
<1> QED BY <1>1

(* The records that a reader has found, as a list and as a set.             *)
LEMMA FoundOnce ==
    ASSUME NEW s, NewestFirst(s)
    PROVE  /\ DOMAIN s = 1 .. Len(s) /\ Len(s) \in Nat
           /\ \A i \in 1 .. Len(s) : s[i] \in Record
           /\ Range(s) = {s[i] : i \in 1 .. Len(s)}
           /\ IsFiniteSet(Range(s)) /\ Cardinality(Range(s)) = Len(s)
<1>1. /\ s \in Seq(Record) /\ Len(s) \in Nat /\ DOMAIN s = 1 .. Len(s)
      /\ \A i \in 1 .. Len(s) : s[i] \in Record
      /\ s \in [1 .. Len(s) -> Record]
  BY LenProperties, ElementOfSeq DEF NewestFirst
<1>2. \A i, j \in 1 .. Len(s) : s[i] = s[j] => i = j
  BY DEF NewestFirst
<1>3. s \in Surjection(1 .. Len(s), Range(s)) /\ s \in Injection(1 .. Len(s), Range(s))
  BY <1>1, <1>2 DEF Surjection, Injection, IsInjective, Range
<1>4. IsFiniteSet(1 .. Len(s)) /\ Cardinality(1 .. Len(s)) = Len(s)
  BY <1>1, PlacesOfAList
<1>5. IsFiniteSet(Range(s)) /\ Cardinality(Range(s)) = Len(s)
  BY <1>3, <1>4, FS_Surjection
<1> QED BY <1>1, <1>5 DEF Range

(* Two reports of adjoining periods split the list.                         *)
LEMMA ReportsSplit ==
    ASSUME NEW s, NewestFirst(s), NEW t \in 0 .. MaxClock
    PROVE  Cardinality(Report(s, 0, t, "*")) + Cardinality(Report(s, t + 1, MaxClock, "*"))
               = Len(s)
<1> DEFINE A == Report(s, 0, t, "*")
           B == Report(s, t + 1, MaxClock, "*")
<1>1. DOMAIN s = 1 .. Len(s) /\ Len(s) \in Nat /\ \A i \in 1 .. Len(s) : s[i] \in Record
  BY FoundOnce
<1>2. \A i \in 1 .. Len(s) : s[i].time \in 1 .. MaxClock
  BY <1>1 DEF Record
<1>3. t \in Int /\ MaxClock \in Int
  BY BoundsAssumption
<1>4. 1 .. Len(s) = A \cup B
  BY <1>1, <1>2, <1>3 DEF Report
<1>5. A \cap B = {}
  BY <1>1, <1>2, <1>3 DEF Report
<1>6. IsFiniteSet(1 .. Len(s)) /\ Cardinality(1 .. Len(s)) = Len(s)
  BY <1>1, PlacesOfAList
<1> HIDE DEF A, B
<1>7. Cardinality(A) + Cardinality(B) = Len(s)
  BY <1>4, <1>5, <1>6, SplitInTwo
<1> QED BY <1>7 DEF A, B

(* What a found record is about.                                            *)
LEMMA FoundIsKnown ==
    ASSUME ReadersInv, NEW r \in Readers, NEW e \in Range(seen[r])
    PROVE  /\ what[e.id] \in [kind : Kinds, name : Names]
           /\ what[e.id].kind \in {"physical", "attendance"}
<1>1. PICK i \in 1 .. Len(seen[r]) : e = seen[r][i]
  BY FoundOnce DEF ReadersInv, SeenOK
<1>2. e.key = EnvKey /\ Rightful(e)
  BY <1>1 DEF ReadersInv, SeenOK
<1>3. e.id \in 1 .. Len(what) /\ what \in Seq([kind : Kinds, name : Names])
  BY <1>2 DEF ReadersInv, WhatOK, Rightful
<1> QED BY <1>2, <1>3, ElementOfSeq DEF Rightful

(* Each medium's records are counted under its name, and no other's.        *)
LEMMA ClientsCount ==
    ASSUME ReadersInv, NEW r \in Readers
    PROVE  LET P == {e \in Range(seen[r]) : what[e.id].kind = "physical"}
               C == Clients(seen[r]) IN
           /\ SumFunction(C) = Cardinality(P)
           /\ DOMAIN C \subseteq Names
<1> DEFINE R == Range(seen[r])
           P == {e \in R : what[e.id].kind = "physical"}
           C == Clients(seen[r])
           D == {what[e.id].name : e \in P}
           g == [e \in P |-> what[e.id].name]
<1>1. IsFiniteSet(R)
  BY FoundOnce DEF ReadersInv, SeenOK
<1>2. IsFiniteSet(P)
  BY <1>1, FS_Subset
<1>3. g \in Surjection(P, D)
  BY DEF Surjection
<1>4. IsFiniteSet(D)
  BY <1>2, <1>3, FS_Surjection
<1>5. DOMAIN C = D
  BY DEF Clients
<1>6. D \subseteq Names
  BY FoundIsKnown
<1>7. ASSUME NEW n \in D PROVE C[n] = Cardinality({e \in P : g[e] = n})
  <2>1. ASSUME NEW e \in R
        PROVE  what[e.id] = [kind |-> "physical", name |-> n] <=>
                  what[e.id].kind = "physical" /\ what[e.id].name = n
    <3>1. what[e.id] \in [kind : Kinds, name : Names]
      BY FoundIsKnown
    <3> QED BY <3>1
  <2>2. {e \in R : what[e.id] = [kind |-> "physical", name |-> n]} = {e \in P : g[e] = n}
    BY <2>1
  <2>3. C[n] = Cardinality({e \in R : what[e.id] = [kind |-> "physical", name |-> n]})
    BY DEF Clients
  <2> QED BY <2>2, <2>3
<1>8. g \in [P -> D]
  BY <1>3 DEF Surjection
<1> HIDE DEF g, P, D, C
<1>9. SumFunction(C) = Cardinality(P)
  BY <1>2, <1>4, <1>5, <1>7, <1>8, SumOfClasses
<1> QED BY <1>5, <1>6, <1>9 DEF P, C

(* What the server says of the records adds up, for every period and every  *)
(* list: no record is in two reports of adjoining periods, or in none, none *)
(* is counted for two media, and only those of attendance for no medium     *)
(* (generate_client_report, get_clients, count_unique_clients).             *)
THEOREM ReportsAddUp == ReadersSpec => []ListsAddUp
<1>1. ReadersInv => ListsAddUp
  <2> SUFFICES ASSUME ReadersInv, NEW r \in Readers
               PROVE  LET found == seen[r]
                          people == {e \in Range(found) : what[e.id].kind = "attendance"} IN
                      /\ \A t \in 0 .. MaxClock :
                            Cardinality(Report(found, 0, t, "*"))
                                + Cardinality(Report(found, t + 1, MaxClock, "*")) = Len(found)
                      /\ SumFunction(Clients(found)) + Cardinality(people) = Len(found)
                      /\ ActiveClients(found) \in 1 .. Cardinality(Names)
    BY DEF ListsAddUp
  <2> DEFINE s == seen[r]
             P == {e \in Range(s) : what[e.id].kind = "physical"}
             Q == {e \in Range(s) : what[e.id].kind = "attendance"}
             C == Clients(s)
  <2>1. NewestFirst(s)
    BY DEF ReadersInv, SeenOK
  <2>2. \A t \in 0 .. MaxClock :
           Cardinality(Report(s, 0, t, "*")) + Cardinality(Report(s, t + 1, MaxClock, "*")) = Len(s)
    BY <2>1, ReportsSplit
  <2>3. IsFiniteSet(Range(s)) /\ Cardinality(Range(s)) = Len(s)
    BY <2>1, FoundOnce
  <2>4. Range(s) = P \cup Q /\ P \cap Q = {}
    BY FoundIsKnown
  <2>5. SumFunction(C) = Cardinality(P) /\ DOMAIN C \subseteq Names
    BY ClientsCount
  <2>6. SumFunction(C) + Cardinality(Q) = Len(s)
    <3> HIDE DEF P, Q, s, C
    <3>1. Cardinality(P) + Cardinality(Q) = Cardinality(Range(s))
      BY <2>3, <2>4, SplitInTwo
    <3> QED BY <2>3, <2>5, <3>1
  <2>7. ActiveClients(s) \in 1 .. Cardinality(Names)
    <3> HIDE DEF P, Q, s, C
    <3> DEFINE n == Cardinality(DOMAIN C)
               m == Cardinality(Names)
    <3>1. m \in Nat /\ m # 0
      BY NamesAssumption, FS_CardinalityType, FS_EmptySet
    <3>2. n \in Nat /\ n <= m
      BY <2>5, NamesAssumption, FS_Subset, FS_CardinalityType
    <3>3. ActiveClients(s) = IF n = 0 THEN 1 ELSE n
      BY DEF ActiveClients, C
    <3> HIDE DEF n, m
    <3>4. (IF n = 0 THEN 1 ELSE n) \in 1 .. m
      BY <3>1, <3>2
    <3> QED BY <3>3, <3>4 DEF m
  <2> QED BY <2>2, <2>6, <2>7
<1> QED BY <1>1, ReadersInductive, PTL
=============================================================================
