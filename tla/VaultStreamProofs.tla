-------------------------- MODULE VaultStreamProofs --------------------------
(***************************************************************************)
(* What the streaming of a vault guarantees for every content, block size,  *)
(* number of passes and encryption, with short reads, saves, power cuts and *)
(* cuts of the vault at any cell.                                           *)
(***************************************************************************)
EXTENDS VaultStream, SequenceTheorems, TLAPS

V == Values \cup {Junk}

----------------------------------------------------------------------------
(* The inductive invariant.                                                 *)

Encrypting == {"e_open", "e_first", "e_seal", "e_flush"}
Shredding == {"s_pass", "s_sync", "s_trunc", "s_unlink"}

\* A call works on a file that is there, an encryption has its number, and
\* no call has left its counters behind.
CallOK ==
    /\ pc \in Encrypting \cup Shredding \cup {"d_chunk"} => plain \in Seq(V)
    /\ pc \in Encrypting \cup Shredding \cup {"e_record"} => runs > 0
    /\ pc \in {"idle", "e_open", "e_first"} => pos = 0 /\ n = 0

\* A pass that is not on the disk is the last one that was made, and all of
\* them have gone over it unless a save came between.
PassesOK ==
    LET onDisk == IF dirty THEN n - 1 ELSE n IN
    /\ dirty => pc = "s_sync"
    /\ pc = "s_pass" => n < Passes
    /\ pc = "s_sync" => n \in 1 .. Passes
    /\ pc \in {"s_pass", "s_sync"} => scrubs <= onDisk /\ (~saved => scrubs = onDisk)
    /\ pc \in {"s_trunc", "s_unlink"} /\ ~saved => scrubs = Passes

\* The m-th cell of a vault knows its place: which cell of the sealed content
\* b it is, how much of b comes after it in the last chunk, and that only a
\* first chunk is empty.
CellOK(c, m, b) ==
    /\ c.off <= c.size => m - c.at \in 1 .. Len(b) /\ c.val = b[m - c.at]
    /\ c.last => Len(b) = m - c.at + c.size - c.off
    /\ c.size = 0 => c.at = 1

\* v is a part, up to some cell, of what one of r encryptions has put out.
Laid(v, bks, r) ==
    \/ v = Gone \/ v = <<>>
    \/ /\ v \in Seq(Cell) /\ v # <<>>
       /\ v[1].salt \in 1 .. r
       /\ v[1] = HeaderCell(v[1].salt)
       /\ \A m \in 2 .. Len(v) : CellOK(v[m], m, bks[v[1].salt])

VaultsOK == Laid(vault, books, runs) /\ Laid(vaultDisk, books, runs)

\* The encryption in progress: nothing of it is on the disk yet.
SealOK ==
    /\ pc \in {"e_open", "e_first", "e_seal"} =>
          vaultDisk = Gone \/ vaultDisk = <<>> \/ vaultDisk[1].salt < runs
    /\ pc \in {"e_open", "e_first"} => books[runs] = <<>>
    /\ pc = "e_seal" =>
          /\ n = 0 => books[runs] = <<>>
          /\ n > 0 => /\ vault \in Seq(Cell)
                      /\ Len(vault) = 1 + Len(books[runs]) + n
                      /\ vault[1] = HeaderCell(runs)
                      /\ \A m \in 2 .. Len(vault) :
                            CellOK(vault[m], m, books[runs]) /\ ~vault[m].last
                      /\ cur # <<>>

\* What was read is what is in the file, and what was hashed, unless the
\* user saved it since; a save spoils an encryption.
HashOK ==
    /\ saved => spoilt
    /\ ~saved =>
        /\ pc \in Encrypting => hash = plain
        /\ pc = "e_seal" => /\ pos <= Len(plain)
                            /\ books[runs] \o cur = SubSeq(plain, 1, pos)
        /\ pc \in Shredding \cup {"e_flush", "e_record"} => hash = books[runs]

\* The first k chunks of v are the first k blocks of c, all full.
FullChunks(v, s, c, k) ==
    /\ k * BUFFER_SIZE <= Len(c)
    /\ k * (BUFFER_SIZE + 1) + 1 <= Len(v)
    /\ \A i \in 1 .. k :
          SubSeq(v, (i - 1) * (BUFFER_SIZE + 1) + 2, i * (BUFFER_SIZE + 1) + 1)
              = Sealed(s, i, SubSeq(c, (i - 1) * BUFFER_SIZE + 1, i * BUFFER_SIZE), FALSE)

\* With full reads the block in hand is the next one of the file.
BlocksOK ==
    /\ pc = "e_seal" /\ ~spoilt =>
          /\ pos = Smaller((n + 1) * BUFFER_SIZE, Len(plain))
          /\ cur = SubSeq(plain, n * BUFFER_SIZE + 1, pos)
          /\ n > 0 => /\ n * BUFFER_SIZE < Len(plain)
                      /\ Len(vault) = n * (BUFFER_SIZE + 1) + 1
                      /\ FullChunks(vault, runs, plain, n)
    /\ pc = "e_flush" /\ ~spoilt => Whole(vault, runs, plain)

\* What has been opened so far: full blocks, or all there is; the output has
\* it, unless a save came between.
OpenOK ==
    /\ pc = "d_chunk" =>
          LET s == vault[1].salt IN
          /\ vault \in Seq(Cell) /\ vault \notin {Gone, <<>>}
          /\ pos <= Len(vault) - 1
          /\ pos > 0 => /\ Len(vault) - pos = n * (BUFFER_SIZE + 1) + 1
                        /\ FullChunks(vault, s, books[s], n)
                        /\ ~saved => plain = SubSeq(books[s], 1, n * BUFFER_SIZE)
          /\ pos = 0 /\ n > 0 => Whole(vault, s, books[s]) /\ (~saved => plain = books[s])
    /\ pc = "d_record" /\ n > 0 =>
          /\ vault \notin {Gone, <<>>}
          /\ Whole(vault, vault[1].salt, books[vault[1].salt])
          /\ ~saved => plain = books[vault[1].salt]

IInv == TypeOK /\ CallOK /\ PassesOK /\ VaultsOK /\ SealOK /\ HashOK /\ BlocksOK /\ OpenOK

----------------------------------------------------------------------------
(* Sequences and multiples.                                                 *)

LEMMA Multiples ==
    ASSUME NEW i \in Nat, NEW j \in Nat, i <= j, NEW b \in Nat
    PROVE  i * b \in Nat /\ j * b \in Nat /\ i * b <= j * b
<1> DEFINE d == j - i
<1>1. d \in Nat /\ j = i + d
  OBVIOUS
<1> HIDE DEF d
<1>2. i * b \in Nat /\ d * b \in Nat
  BY <1>1
<1>3. (i + d) * b = i * b + d * b
  BY <1>1
<1> QED BY <1>1, <1>2, <1>3

(* A function on 1 .. k is a sequence.                                      *)
LEMMA FunctionIsSeq ==
    ASSUME NEW S, NEW k \in Nat, NEW f \in [1 .. k -> S]
    PROVE  f \in Seq(S) /\ Len(f) = k
<1>1. f \in Seq(S)
  BY SeqDef
<1>2. DOMAIN f = 1 .. Len(f) /\ Len(f) \in Nat
  BY <1>1, LenProperties
<1>3. 1 .. k = 1 .. Len(f)
  BY <1>2
<1> QED BY <1>1, <1>2, <1>3

LEMMA SealedProperties ==
    ASSUME NEW s \in Nat, NEW i \in Nat, NEW p \in Seq(V), NEW last \in BOOLEAN
    PROVE  /\ Sealed(s, i, p, last) \in Seq(Cell)
           /\ Len(Sealed(s, i, p, last)) = Len(p) + 1
           /\ \A j \in 1 .. Len(p) + 1 :
                 Sealed(s, i, p, last)[j] =
                     [salt |-> s, at |-> i, off |-> j, size |-> Len(p), last |-> last,
                      val |-> IF j <= Len(p) THEN p[j] ELSE Tag]
<1>1. Len(p) \in Nat /\ \A j \in 1 .. Len(p) : p[j] \in V
  BY LenProperties
<1>2. ASSUME NEW j \in 1 .. Len(p) + 1
      PROVE  [salt |-> s, at |-> i, off |-> j, size |-> Len(p), last |-> last,
              val |-> IF j <= Len(p) THEN p[j] ELSE Tag] \in Cell
  <2>1. (IF j <= Len(p) THEN p[j] ELSE Tag) \in Values \cup {Junk, Tag}
    BY <1>1 DEF V
  <2>2. j \in Nat
    BY <1>1
  <2> QED BY <1>1, <2>1, <2>2 DEF Cell
<1>3. Sealed(s, i, p, last) \in [1 .. Len(p) + 1 -> Cell]
  BY <1>2 DEF Sealed
<1>4. \A j \in 1 .. Len(p) + 1 :
         Sealed(s, i, p, last)[j] =
             [salt |-> s, at |-> i, off |-> j, size |-> Len(p), last |-> last,
              val |-> IF j <= Len(p) THEN p[j] ELSE Tag]
  BY DEF Sealed
<1> QED BY <1>1, <1>3, <1>4, FunctionIsSeq

LEMMA SealedLength ==
    ASSUME NEW s \in Nat, NEW i \in Nat, NEW p \in Seq(V)
    PROVE  /\ Sealed(s, i, p, TRUE) \in Seq(Cell) /\ Len(Sealed(s, i, p, TRUE)) = Len(p) + 1
           /\ Sealed(s, i, p, FALSE) \in Seq(Cell) /\ Len(Sealed(s, i, p, FALSE)) = Len(p) + 1
<1>1. TRUE \in BOOLEAN /\ FALSE \in BOOLEAN
  OBVIOUS
<1>2. Sealed(s, i, p, TRUE) \in Seq(Cell) /\ Len(Sealed(s, i, p, TRUE)) = Len(p) + 1
  BY <1>1, SealedProperties, Zenon
<1>3. Sealed(s, i, p, FALSE) \in Seq(Cell) /\ Len(Sealed(s, i, p, FALSE)) = Len(p) + 1
  BY <1>1, SealedProperties, Zenon
<1> QED BY <1>2, <1>3

(* A part of a sequence.                                                    *)
LEMMA PartProperties ==
    ASSUME NEW S, NEW s \in Seq(S), NEW i \in Nat \ {0}, NEW j \in Nat,
           i <= j + 1, j <= Len(s)
    PROVE  /\ SubSeq(s, i, j) \in Seq(S)
           /\ Len(SubSeq(s, i, j)) = j - i + 1
           /\ \A m \in 1 .. j - i + 1 : SubSeq(s, i, j)[m] = s[i + m - 1]
<1>1. Len(s) \in Nat /\ \A m \in 1 .. Len(s) : s[m] \in S
  BY LenProperties
<1>2. \A m \in i .. j : s[m] \in S
  BY <1>1
<1>3. /\ SubSeq(s, i, j) \in Seq(S)
      /\ Len(SubSeq(s, i, j)) = IF i <= j THEN j - i + 1 ELSE 0
      /\ \A m \in 1 .. j - i + 1 : SubSeq(s, i, j)[m] = s[i + m - 1]
  BY <1>2, SubSeqProperties
<1> QED BY <1>3

(* A part of a longer sequence is that of what it begins with.              *)
LEMMA PartOfLonger ==
    ASSUME NEW S, NEW s \in Seq(S), NEW t \in Seq(S), NEW i \in Nat \ {0}, NEW j \in Nat,
           i <= j + 1, j <= Len(s), Len(s) <= Len(t),
           \A m \in 1 .. Len(s) : t[m] = s[m]
    PROVE  SubSeq(t, i, j) = SubSeq(s, i, j)
<1>1. Len(s) \in Nat /\ Len(t) \in Nat /\ j <= Len(t)
  BY LenProperties
<1>2. /\ SubSeq(s, i, j) \in Seq(S) /\ Len(SubSeq(s, i, j)) = j - i + 1
      /\ \A m \in 1 .. j - i + 1 : SubSeq(s, i, j)[m] = s[i + m - 1]
  BY PartProperties
<1>3. /\ SubSeq(t, i, j) \in Seq(S) /\ Len(SubSeq(t, i, j)) = j - i + 1
      /\ \A m \in 1 .. j - i + 1 : SubSeq(t, i, j)[m] = t[i + m - 1]
  BY <1>1, PartProperties
<1>4. ASSUME NEW m \in 1 .. j - i + 1 PROVE i + m - 1 \in 1 .. Len(s)
  BY <1>1
<1>5. \A m \in 1 .. j - i + 1 : SubSeq(s, i, j)[m] = SubSeq(t, i, j)[m]
  BY <1>2, <1>3, <1>4
<1> QED BY <1>2, <1>3, <1>5, SeqEqual

\* g has the cells of c from offset w on, and those of f around them.
WrittenIn(g, f, w, c) ==
    /\ g \in Seq(V) /\ Len(g) = Larger(Len(f), w + Len(c))
    /\ \A i \in 1 .. Larger(Len(f), w + Len(c)) :
          g[i] = IF i \in w + 1 .. w + Len(c) THEN c[i - w] ELSE IF i <= Len(f) THEN f[i] ELSE Junk

(* Writing at an offset.                                                    *)
LEMMA WrittenProperties ==
    ASSUME NEW f \in Seq(V), NEW w \in Nat, NEW c \in Seq(V)
    PROVE  Written(f, w, c) \in Seq(V) /\ WrittenIn(Written(f, w, c), f, w, c)
<1> DEFINE k == Larger(Len(f), w + Len(c))
           cell(i) == IF i \in w + 1 .. w + Len(c) THEN c[i - w]
                      ELSE IF i <= Len(f) THEN f[i] ELSE Junk
<1>1. /\ Len(f) \in Nat /\ \A i \in 1 .. Len(f) : f[i] \in V
      /\ Len(c) \in Nat /\ \A i \in 1 .. Len(c) : c[i] \in V
  BY LenProperties
<1>2. k \in Nat
  BY <1>1 DEF Larger
<1>3. ASSUME NEW i \in 1 .. k PROVE cell(i) \in V
  <2>1. i \in w + 1 .. w + Len(c) => c[i - w] \in V
    BY <1>1
  <2>2. i <= Len(f) => f[i] \in V
    BY <1>1, <1>2
  <2>3. Junk \in V
    BY DEF V
  <2> QED BY <2>1, <2>2, <2>3
<1>4. Written(f, w, c) = [i \in 1 .. k |-> cell(i)]
  BY DEF Written
<1> HIDE DEF cell, k
<1>5. Written(f, w, c) \in [1 .. k -> V] /\ \A i \in 1 .. k : Written(f, w, c)[i] = cell(i)
  BY <1>3, <1>4
<1>6. Written(f, w, c) \in Seq(V) /\ Len(Written(f, w, c)) = k
  BY <1>2, <1>5, FunctionIsSeq
<1> QED BY <1>5, <1>6 DEF WrittenIn, cell, k

(* Writing where the file ends is appending.                                *)
LEMMA WrittenAtEnd ==
    ASSUME NEW f \in Seq(V), NEW c \in Seq(V), NEW w, w = Len(f)
    PROVE  Written(f, w, c) = f \o c
<1>1. Len(f) \in Nat /\ Len(c) \in Nat /\ w \in Nat
  BY LenProperties
<1>2. Larger(Len(f), w + Len(c)) = Len(f) + Len(c)
  BY <1>1 DEF Larger
<1>3. /\ Written(f, w, c) \in Seq(V) /\ Len(Written(f, w, c)) = Len(f) + Len(c)
      /\ \A i \in 1 .. Len(f) + Len(c) :
            Written(f, w, c)[i] = IF i \in w + 1 .. w + Len(c) THEN c[i - w]
                                  ELSE IF i <= Len(f) THEN f[i] ELSE Junk
  <2>1. WrittenIn(Written(f, w, c), f, w, c)
    BY <1>1, WrittenProperties
  <2> QED BY <2>1, <1>2 DEF WrittenIn
<1>4. /\ f \o c \in Seq(V) /\ Len(f \o c) = Len(f) + Len(c)
      /\ \A i \in 1 .. Len(f) + Len(c) :
            (f \o c)[i] = IF i <= Len(f) THEN f[i] ELSE c[i - Len(f)]
  BY ConcatProperties
<1>5. ASSUME NEW i \in 1 .. Len(f) + Len(c) PROVE Written(f, w, c)[i] = (f \o c)[i]
  <2>1. i <= Len(f) <=> ~(i \in w + 1 .. w + Len(c))
    BY <1>1
  <2> QED BY <2>1, <1>3, <1>4
<1> QED BY <1>3, <1>4, <1>5, SeqEqual

(* A pass over a file of size k.                                            *)
LEMMA PassProperties ==
    ASSUME NEW f \in Seq(V), NEW k \in Nat
    PROVE  /\ Written(f, 0, [i \in 1 .. k |-> Junk]) \in Seq(V)
           /\ k = Len(f) =>
                 /\ Len(Written(f, 0, [i \in 1 .. k |-> Junk])) = k
                 /\ \A i \in DOMAIN Written(f, 0, [j \in 1 .. k |-> Junk]) :
                       Written(f, 0, [j \in 1 .. k |-> Junk])[i] = Junk
<1> DEFINE c == [i \in 1 .. k |-> Junk]
<1>1. c \in [1 .. k -> V] /\ \A i \in 1 .. k : c[i] = Junk
  BY DEF V
<1>2. c \in Seq(V) /\ Len(c) = k
  BY <1>1, FunctionIsSeq
<1> DEFINE w == 0
<1>3. Len(f) \in Nat /\ w \in Nat
  BY LenProperties
<1> HIDE DEF c, w
<1> DEFINE g == Written(f, w, c)
<1>4. /\ g \in Seq(V) /\ Len(g) = Larger(Len(f), w + Len(c))
      /\ \A i \in 1 .. Larger(Len(f), w + Len(c)) :
            g[i] = IF i \in w + 1 .. w + Len(c) THEN c[i - w]
                   ELSE IF i <= Len(f) THEN f[i] ELSE Junk
  <2>1. WrittenIn(g, f, w, c)
    BY <1>2, <1>3, WrittenProperties
  <2> QED BY <2>1 DEF WrittenIn
<1> HIDE DEF g
<1>5. ASSUME k = Len(f) PROVE Len(g) = k /\ \A i \in DOMAIN g : g[i] = Junk
  <2>1. Larger(Len(f), w + Len(c)) = k /\ w + 1 = 1 /\ w + Len(c) = k
    BY <1>2, <1>3, <1>5 DEF Larger, w
  <2>2. DOMAIN g = 1 .. k /\ Len(g) = k
    BY <2>1, <1>4, LenProperties
  <2>3. ASSUME NEW i \in 1 .. k PROVE g[i] = Junk
    <3>1. i - w = i
      BY DEF w
    <3> QED BY <3>1, <2>1, <1>1, <1>4 DEF c
  <2> QED BY <2>2, <2>3
<1> QED BY <1>4, <1>5 DEF c, w, g

----------------------------------------------------------------------------
(* Chunks.                                                                  *)

(* Where the i-th of k chunks is, in the content and in the vault.          *)
LEMMA ChunkPlaces ==
    ASSUME NEW k \in Nat, NEW i \in 1 .. k
    PROVE  /\ i * BUFFER_SIZE \in Nat /\ (i - 1) * BUFFER_SIZE \in Nat
           /\ i * BUFFER_SIZE = (i - 1) * BUFFER_SIZE + BUFFER_SIZE
           /\ i * BUFFER_SIZE <= k * BUFFER_SIZE
           /\ i * (BUFFER_SIZE + 1) = i * BUFFER_SIZE + i
           /\ (i - 1) * (BUFFER_SIZE + 1) = (i - 1) * BUFFER_SIZE + (i - 1)
<1> DEFINE b == BUFFER_SIZE
           h == i - 1
<1>1. b \in Nat /\ h \in Nat /\ i = h + 1 /\ i \in Nat
  BY SizeAssumption
<1>2. i * b \in Nat /\ k * b \in Nat /\ i * b <= k * b
  BY <1>1, Multiples
<1> HIDE DEF b, h
<1>3. h * b \in Nat /\ (h + 1) * b = h * b + b
  BY <1>1
<1>4. i * (b + 1) = i * b + i /\ h * (b + 1) = h * b + h
  BY <1>1
<1> QED BY <1>1, <1>2, <1>3, <1>4 DEF b, h

LEMMA MultiplesOfSize ==
    ASSUME NEW k \in Nat
    PROVE  /\ k * BUFFER_SIZE \in Nat /\ k <= k * BUFFER_SIZE
           /\ (k + 1) * BUFFER_SIZE = k * BUFFER_SIZE + BUFFER_SIZE
           /\ k * (BUFFER_SIZE + 1) = k * BUFFER_SIZE + k
           /\ (k + 1) * (BUFFER_SIZE + 1) = k * BUFFER_SIZE + k + BUFFER_SIZE + 1
<1> DEFINE b == BUFFER_SIZE
           d == b - 1
<1>1. b \in Nat /\ d \in Nat /\ b = d + 1
  BY SizeAssumption
<1> HIDE DEF b, d
<1>2. k * b \in Nat /\ k * d \in Nat /\ k * (d + 1) = k * d + k
  BY <1>1
<1>3. (k + 1) * b = k * b + b /\ k * (b + 1) = k * b + k
  BY <1>1
<1>4. (k + 1) * (b + 1) = k * b + k + b + 1
  BY <1>1
<1> QED BY <1>1, <1>2, <1>3, <1>4 DEF b

LEMMA BlockProperties ==
    ASSUME NEW c \in Seq(V), NEW i \in Nat \ {0}, (i - 1) * BUFFER_SIZE <= Len(c)
    PROVE  /\ Block(c, i) \in Seq(V)
           /\ Len(Block(c, i)) = Smaller(i * BUFFER_SIZE, Len(c)) - (i - 1) * BUFFER_SIZE
           /\ \A j \in 1 .. Len(Block(c, i)) : Block(c, i)[j] = c[(i - 1) * BUFFER_SIZE + j]
<1> DEFINE first == (i - 1) * BUFFER_SIZE
           end == Smaller(i * BUFFER_SIZE, Len(c))
<1>1. first \in Nat /\ i * BUFFER_SIZE = first + BUFFER_SIZE /\ i * BUFFER_SIZE \in Nat
  <2>1. i \in 1 .. i
    OBVIOUS
  <2> QED BY <2>1, ChunkPlaces
<1>2. Len(c) \in Nat /\ BUFFER_SIZE \in Nat
  BY LenProperties, SizeAssumption
<1>3. end \in Nat /\ end <= Len(c) /\ first <= end
  BY <1>1, <1>2 DEF Smaller
<1>4. Block(c, i) = SubSeq(c, first + 1, end)
  BY DEF Block
<1> HIDE DEF first, end
<1>5. /\ SubSeq(c, first + 1, end) \in Seq(V)
      /\ Len(SubSeq(c, first + 1, end)) = end - (first + 1) + 1
      /\ \A m \in 1 .. end - (first + 1) + 1 :
            SubSeq(c, first + 1, end)[m] = c[first + 1 + m - 1]
  BY <1>1, <1>3, PartProperties
<1>6. end - (first + 1) + 1 = end - first
  BY <1>1, <1>3
<1>7. \A m \in 1 .. end - first : first + 1 + m - 1 = first + m
  BY <1>1, <1>3
<1>8. /\ Block(c, i) \in Seq(V) /\ Len(Block(c, i)) = end - first
      /\ \A j \in 1 .. end - first : Block(c, i)[j] = c[first + j]
  BY <1>4, <1>5, <1>6, <1>7
<1> QED BY <1>8 DEF first, end

(* More cells after them change nothing for the chunks there are.           *)
LEMMA FullChunksKept ==
    ASSUME NEW v \in Seq(Cell), NEW w \in Seq(Cell), NEW s, NEW c \in Seq(V), NEW k \in Nat,
           Len(v) <= Len(w), \A m \in 1 .. Len(v) : w[m] = v[m],
           FullChunks(v, s, c, k)
    PROVE  FullChunks(w, s, c, k)
<1>1. Len(v) \in Nat /\ Len(w) \in Nat /\ BUFFER_SIZE \in Nat
  BY LenProperties, SizeAssumption
<1>2. k * (BUFFER_SIZE + 1) + 1 <= Len(w)
  BY <1>1, MultiplesOfSize DEF FullChunks
<1>3. ASSUME NEW i \in 1 .. k
      PROVE  SubSeq(w, (i - 1) * (BUFFER_SIZE + 1) + 2, i * (BUFFER_SIZE + 1) + 1)
           = SubSeq(v, (i - 1) * (BUFFER_SIZE + 1) + 2, i * (BUFFER_SIZE + 1) + 1)
  <2> DEFINE lo == (i - 1) * (BUFFER_SIZE + 1) + 2
             hi == i * (BUFFER_SIZE + 1) + 1
             end == k * BUFFER_SIZE
             fst == (i - 1) * BUFFER_SIZE
             snd == i * BUFFER_SIZE
  <2>1. k * (BUFFER_SIZE + 1) = end + k /\ end \in Nat
    BY MultiplesOfSize
  <2>2. /\ fst \in Nat /\ snd \in Nat /\ snd = fst + BUFFER_SIZE /\ snd <= end
        /\ lo = fst + (i - 1) + 2 /\ hi = snd + i + 1
    BY ChunkPlaces
  <2>3. end + k + 1 <= Len(v)
    BY <2>1 DEF FullChunks
  <2> HIDE DEF lo, hi, end, fst, snd
  <2>4. lo \in Nat \ {0} /\ hi \in Nat /\ lo <= hi + 1 /\ hi <= Len(v)
    BY <1>1, <2>1, <2>2, <2>3
  <2>5. SubSeq(w, lo, hi) = SubSeq(v, lo, hi)
    BY <2>4, PartOfLonger
  <2> QED BY <2>5 DEF lo, hi
<1> QED BY <1>2, <1>3 DEF FullChunks

(* Full blocks and a last one make a whole vault.                           *)
LEMMA LastChunk ==
    ASSUME NEW v \in Seq(Cell), NEW s, NEW c \in Seq(V), NEW k \in Nat,
           v[1] = HeaderCell(s),
           FullChunks(v, s, c, k),
           Len(c) <= k * BUFFER_SIZE + BUFFER_SIZE,
           k = 0 \/ k * BUFFER_SIZE < Len(c),
           Len(v) = Len(c) + k + 2,
           SubSeq(v, k * (BUFFER_SIZE + 1) + 2, Len(v))
               = Sealed(s, k + 1, SubSeq(c, k * BUFFER_SIZE + 1, Len(c)), TRUE)
    PROVE  Whole(v, s, c)
<1> DEFINE B == BUFFER_SIZE
<1>1. Len(c) \in Nat /\ B \in Nat /\ k * B \in Nat /\ k <= k * B /\ k * B <= Len(c)
  BY LenProperties, SizeAssumption, MultiplesOfSize DEF FullChunks
<1>2. k + 1 \in 1 .. Len(c) + 1
  BY <1>1
<1>3. Len(c) <= (k + 1) * B /\ (k + 1 = 1 \/ (k + 1 - 1) * B < Len(c)) /\ Len(v) = 1 + Len(c) + (k + 1)
  <2>1. (k + 1) * B = k * B + B /\ k + 1 - 1 = k
    BY MultiplesOfSize
  <2> QED BY <2>1, <1>1
<1>4. ASSUME NEW i \in 1 .. k + 1
      PROVE  LET start == (i - 1) * (B + 1) + 2 IN
             SubSeq(v, start, start + Len(Block(c, i))) = Sealed(s, i, Block(c, i), i = k + 1)
  <2>1. CASE i \in 1 .. k
    <3>1. /\ i * B \in Nat /\ (i - 1) * B \in Nat /\ i * B = (i - 1) * B + B /\ i * B <= k * B
          /\ i * (B + 1) = i * B + i /\ (i - 1) * (B + 1) = (i - 1) * B + (i - 1)
      BY <2>1, ChunkPlaces
    <3>2. Smaller(i * B, Len(c)) = i * B
      BY <3>1, <1>1, SMTT(30) DEF Smaller
    <3>3. Block(c, i) = SubSeq(c, (i - 1) * B + 1, i * B)
      BY <3>2 DEF Block
    <3>4. Len(Block(c, i)) = B
      <4>1. i \in Nat \ {0} /\ (i - 1) * B <= Len(c)
        BY <3>1, <1>1, <2>1
      <4>2. Len(Block(c, i)) = Smaller(i * B, Len(c)) - (i - 1) * B
        BY <4>1, BlockProperties
      <4> QED BY <3>1, <3>2, <4>2, <1>1
    <3>5. (i - 1) * (B + 1) + 2 + B = i * (B + 1) + 1
      BY <3>1, <1>1, <2>1
    <3>6. SubSeq(v, (i - 1) * (B + 1) + 2, i * (B + 1) + 1)
              = Sealed(s, i, SubSeq(c, (i - 1) * B + 1, i * B), FALSE)
      BY <2>1 DEF FullChunks
    <3>7. (i = k + 1) = FALSE
      BY <2>1
    <3> QED BY <3>3, <3>4, <3>5, <3>6, <3>7
  <2>2. CASE i = k + 1
    <3>1. /\ i - 1 = k /\ (i - 1) * B = k * B /\ i * B = k * B + B
          /\ (i - 1) * (B + 1) = k * B + k
      BY <2>2, MultiplesOfSize
    <3>2. Smaller(i * B, Len(c)) = Len(c)
      BY <3>1, <1>1 DEF Smaller
    <3>3. Block(c, i) = SubSeq(c, k * B + 1, Len(c))
      BY <3>1, <3>2 DEF Block
    <3>4. Len(Block(c, i)) = Len(c) - k * B
      BY <3>1, <3>2, <1>1, <2>2, BlockProperties
    <3>5. k * B + k + 2 + (Len(c) - k * B) = Len(v) /\ k * (B + 1) = k * B + k
      BY <1>1, MultiplesOfSize
    <3>6. (i = k + 1) = TRUE
      BY <2>2
    <3> QED BY <3>1, <3>3, <3>4, <3>5, <3>6, <2>2
  <2> QED BY <2>1, <2>2
<1> HIDE DEF B
<1> QED BY <1>2, <1>3, <1>4, SMTT(30) DEF Whole, B

(* What comes later spoils no vault.                                        *)
LEMMA LaidLater ==
    ASSUME NEW v, NEW bks, NEW r \in Nat, NEW bks2, NEW r2 \in Nat,
           Laid(v, bks, r), r <= r2,
           v = Gone \/ v = <<>> \/ bks2[v[1].salt] = bks[v[1].salt]
    PROVE  Laid(v, bks2, r2)
<1>1. CASE v = Gone \/ v = <<>>
  BY <1>1 DEF Laid
<1>2. CASE v # Gone /\ v # <<>>
  <2>1. /\ v \in Seq(Cell) /\ v[1].salt \in 1 .. r /\ v[1] = HeaderCell(v[1].salt)
        /\ \A m \in 2 .. Len(v) : CellOK(v[m], m, bks[v[1].salt])
    BY <1>2 DEF Laid
  <2>2. bks2[v[1].salt] = bks[v[1].salt] /\ v[1].salt \in 1 .. r2
    BY <2>1, <1>2
  <2> QED BY <2>1, <2>2, <1>2 DEF Laid
<1> QED BY <1>1, <1>2

(* Nor does a cut.                                                          *)
LEMMA LaidCut ==
    ASSUME NEW v \in Seq(Cell), NEW bks, NEW r \in Nat, Laid(v, bks, r), v # Gone,
           NEW k \in 0 .. Len(v)
    PROVE  Laid(SubSeq(v, 1, k), bks, r)
<1> DEFINE w == SubSeq(v, 1, k)
<1>1. Len(v) \in Nat /\ k \in Nat
  BY LenProperties
<1>2. w \in Seq(Cell) /\ Len(w) = k /\ \A m \in 1 .. k : w[m] = v[m]
  <2>1. /\ SubSeq(v, 1, k) \in Seq(Cell) /\ Len(SubSeq(v, 1, k)) = k - 1 + 1
        /\ \A m \in 1 .. k - 1 + 1 : SubSeq(v, 1, k)[m] = v[1 + m - 1]
    BY <1>1, PartProperties
  <2> QED BY <2>1, <1>1
<1> HIDE DEF w
<1>3. CASE k = 0
  BY <1>2, <1>3, EmptySeq DEF Laid, w
<1>4. CASE k > 0
  <2>1. v # <<>> /\ w # <<>> /\ w[1] = v[1]
    BY <1>1, <1>2, <1>4, EmptySeq
  <2>2. /\ v[1].salt \in 1 .. r /\ v[1] = HeaderCell(v[1].salt)
        /\ \A m \in 2 .. Len(v) : CellOK(v[m], m, bks[v[1].salt])
    BY <2>1 DEF Laid
  <2>3. \A m \in 2 .. Len(w) : CellOK(w[m], m, bks[w[1].salt])
    BY <2>1, <2>2, <1>1, <1>2
  <2>4. Laid(w, bks, r)
    BY <2>1, <2>2, <2>3, <1>2 DEF Laid
  <2> QED BY <2>4 DEF w
<1> QED BY <1>1, <1>3, <1>4

(* What every cell of a chunk says of it.                                   *)
LEMMA SealedCell ==
    ASSUME NEW s, NEW i, NEW p, NEW last, NEW j \in 1 .. Len(p) + 1
    PROVE  /\ Sealed(s, i, p, last)[j].at = i /\ Sealed(s, i, p, last)[j].off = j
           /\ Sealed(s, i, p, last)[j].size = Len(p)
           /\ Sealed(s, i, p, last)[j].last = last
BY DEF Sealed

\* v is the header of s and k chunks that seal b, p the block to come after it.
Ready(v, b, p, k, s) ==
    /\ v \in Seq(Cell) /\ b \in Seq(V) /\ p \in Seq(V) /\ k \in Nat /\ s \in Nat
    /\ v[1] = HeaderCell(s) /\ Len(v) = 1 + Len(b) + k
    /\ \A m \in 2 .. Len(v) : CellOK(v[m], m, b) /\ ~v[m].last
    /\ k = 0 => b = <<>>
    /\ k > 0 => p # <<>>

\* w is v with p sealed after it.
Grown(w, v, b, p, k, s) ==
    /\ w \in Seq(Cell) /\ w # <<>>
    /\ Len(w) = Len(v) + Len(p) + 1 /\ Len(w) = 1 + Len(b \o p) + (k + 1)
    /\ w[1] = HeaderCell(s)
    /\ \A m \in 1 .. Len(v) : w[m] = v[m]
    /\ \A m \in 2 .. Len(w) : CellOK(w[m], m, b \o p)

NoneLast(w) == \A m \in 2 .. Len(w) : ~w[m].last

\* The cells of t are p, sealed as the i-th chunk.
ChunkOf(t, p, i) ==
    /\ t \in Seq(Cell) /\ Len(t) = Len(p) + 1
    /\ \A j \in 1 .. Len(p) + 1 :
          /\ t[j].at = i /\ t[j].off = j /\ t[j].size = Len(p)
          /\ t[j].val = IF j <= Len(p) THEN p[j] ELSE Tag

(* One more chunk: block p, sealed after all of b.                          *)
LEMMA ChunkGrows ==
    ASSUME NEW v, NEW b, NEW p, NEW k, NEW s, Ready(v, b, p, k, s),
           NEW nth, nth = k + 1, NEW t, ChunkOf(t, p, nth), NEW w, w = v \o t
    PROVE  /\ Grown(w, v, b, p, k, s)
           /\ (\A j \in 1 .. Len(t) : ~t[j].last) => NoneLast(w)
<1> DEFINE c == b \o p
<1>1. /\ v \in Seq(Cell) /\ b \in Seq(V) /\ p \in Seq(V) /\ k \in Nat /\ s \in Nat
      /\ v[1] = HeaderCell(s) /\ Len(v) = 1 + Len(b) + k
      /\ \A m \in 2 .. Len(v) : CellOK(v[m], m, b) /\ ~v[m].last
      /\ k = 0 => b = <<>>
      /\ k > 0 => p # <<>>
  BY DEF Ready
<1>2. /\ t \in Seq(Cell) /\ Len(t) = Len(p) + 1
      /\ \A j \in 1 .. Len(p) + 1 :
            /\ t[j].at = nth /\ t[j].off = j /\ t[j].size = Len(p)
            /\ t[j].val = IF j <= Len(p) THEN p[j] ELSE Tag
  BY DEF ChunkOf
<1>3. Len(p) \in Nat /\ Len(b) \in Nat /\ Len(v) \in Nat
  BY LenProperties
<1>4. /\ c \in Seq(V) /\ Len(c) = Len(b) + Len(p)
      /\ \A i \in 1 .. Len(b) + Len(p) : c[i] = IF i <= Len(b) THEN b[i] ELSE p[i - Len(b)]
  BY <1>1, ConcatProperties
<1>5. /\ w \in Seq(Cell) /\ Len(w) = Len(v) + Len(t)
      /\ \A i \in 1 .. Len(v) + Len(t) : w[i] = IF i <= Len(v) THEN v[i] ELSE t[i - Len(v)]
  <2>0. v \in Seq(Cell) /\ t \in Seq(Cell)
    BY <1>1, <1>2
  <2>1. /\ v \o t \in Seq(Cell) /\ Len(v \o t) = Len(v) + Len(t)
        /\ \A i \in 1 .. Len(v) + Len(t) :
              (v \o t)[i] = IF i <= Len(v) THEN v[i] ELSE t[i - Len(v)]
    BY <2>0, ConcatProperties
  <2> QED BY <1>1, <2>1
<1> HIDE DEF c
<1>6. Len(w) = Len(v) + Len(p) + 1 /\ Len(w) = 1 + Len(c) + (k + 1) /\ w # <<>>
  BY <1>1, <1>2, <1>3, <1>4, <1>5, EmptySeq
<1>7. \A m \in 1 .. Len(v) : w[m] = v[m]
  BY <1>2, <1>3, <1>5
<1>8. w[1] = HeaderCell(s)
  BY <1>1, <1>3, <1>7
<1>9. ASSUME NEW m \in 2 .. Len(v)
      PROVE  CellOK(w[m], m, c) /\ ~w[m].last
  <2>1. w[m] = v[m] /\ CellOK(v[m], m, b) /\ ~v[m].last
    BY <1>1, <1>3, <1>7
  <2>2. v[m].off <= v[m].size => m - v[m].at \in 1 .. Len(c) /\ v[m].val = c[m - v[m].at]
    BY <2>1, <1>3, <1>4 DEF CellOK
  <2> QED BY <2>1, <2>2 DEF CellOK
<1>10. ASSUME NEW m \in Len(v) + 1 .. Len(w)
      PROVE  CellOK(w[m], m, c) /\ \E j \in 1 .. Len(t) : w[m] = t[j]
  <2> DEFINE j == m - Len(v)
  <2>1. j \in 1 .. Len(p) + 1 /\ m = Len(v) + j /\ j \in Nat
    BY <1>3, <1>6
  <2>2. w[m] = t[j]
    BY <1>2, <1>3, <1>5, <1>6
  <2> HIDE DEF j
  <2>3. /\ w[m].off = j /\ w[m].size = Len(p) /\ w[m].at = nth
        /\ w[m].val = IF j <= Len(p) THEN p[j] ELSE Tag
    BY <2>1, <2>2, <1>2
  <2>4. m - nth = Len(b) + j
    BY <2>1, <1>1, <1>3
  <2>5. j <= Len(p) => Len(b) + j \in 1 .. Len(c) /\ p[j] = c[Len(b) + j]
    <3>1. SUFFICES ASSUME j <= Len(p) PROVE Len(b) + j \in 1 .. Len(c) /\ p[j] = c[Len(b) + j]
      OBVIOUS
    <3> DEFINE i == Len(b) + j
    <3>2. i \in 1 .. Len(b) + Len(p) /\ ~(i <= Len(b)) /\ i - Len(b) = j
      BY <2>1, <1>3, <3>1
    <3> HIDE DEF i
    <3>3. c[i] = p[i - Len(b)]
      BY <3>2, <1>4
    <3>4. i \in 1 .. Len(c) /\ p[j] = c[i]
      BY <3>2, <3>3, <1>4
    <3> QED BY <3>4 DEF i
  <2>6. Len(c) = m - nth + Len(p) - j
    BY <2>1, <2>4, <1>3, <1>4
  <2>7. Len(p) = 0 => nth = 1
    BY <1>1, EmptySeq
  <2>8. CellOK(w[m], m, c)
    BY <2>3, <2>4, <2>5, <2>6, <2>7 DEF CellOK
  <2> QED BY <2>1, <2>2, <2>8, <1>2
<1>11. \A m \in 2 .. Len(w) : m \in 2 .. Len(v) \/ m \in Len(v) + 1 .. Len(w)
  BY <1>3, <1>6
<1>12. \A m \in 2 .. Len(w) : CellOK(w[m], m, c)
  BY <1>9, <1>10, <1>11
<1>13. (\A j \in 1 .. Len(t) : ~t[j].last) => NoneLast(w)
  BY <1>9, <1>10, <1>11 DEF NoneLast
<1>14. Grown(w, v, b, p, k, s)
  BY <1>5, <1>6, <1>7, <1>8, <1>12 DEF Grown, c
<1> QED BY <1>13, <1>14

LEMMA LastGrows ==
    ASSUME NEW v, NEW b, NEW p, NEW k, NEW s, Ready(v, b, p, k, s),
           NEW nth, nth = k + 1, NEW w, w = v \o Sealed(s, nth, p, TRUE)
    PROVE  Grown(w, v, b, p, k, s)
<1>1. s \in Nat /\ nth \in Nat /\ p \in Seq(V)
  BY DEF Ready
<1>2. ChunkOf(Sealed(s, nth, p, TRUE), p, nth)
  <2>2. Sealed(s, nth, p, TRUE) \in Seq(Cell) /\ Len(Sealed(s, nth, p, TRUE)) = Len(p) + 1
    BY <1>1, SealedLength
  <2>3. \A j \in 1 .. Len(p) + 1 :
           /\ Sealed(s, nth, p, TRUE)[j].at = nth /\ Sealed(s, nth, p, TRUE)[j].off = j
           /\ Sealed(s, nth, p, TRUE)[j].size = Len(p)
           /\ Sealed(s, nth, p, TRUE)[j].val = IF j <= Len(p) THEN p[j] ELSE Tag
    BY DEF Sealed
  <2> QED BY <2>2, <2>3 DEF ChunkOf
<1> QED BY <1>2, ChunkGrows

LEMMA NextGrows ==
    ASSUME NEW v, NEW b, NEW p, NEW k, NEW s, Ready(v, b, p, k, s),
           NEW nth, nth = k + 1, NEW w, w = v \o Sealed(s, nth, p, FALSE)
    PROVE  Grown(w, v, b, p, k, s) /\ NoneLast(w)
<1>1. s \in Nat /\ nth \in Nat /\ p \in Seq(V)
  BY DEF Ready
<1>2. ChunkOf(Sealed(s, nth, p, FALSE), p, nth)
  <2>2. Sealed(s, nth, p, FALSE) \in Seq(Cell) /\ Len(Sealed(s, nth, p, FALSE)) = Len(p) + 1
    BY <1>1, SealedLength
  <2>3. \A j \in 1 .. Len(p) + 1 :
           /\ Sealed(s, nth, p, FALSE)[j].at = nth /\ Sealed(s, nth, p, FALSE)[j].off = j
           /\ Sealed(s, nth, p, FALSE)[j].size = Len(p)
           /\ Sealed(s, nth, p, FALSE)[j].val = IF j <= Len(p) THEN p[j] ELSE Tag
    BY DEF Sealed
  <2> QED BY <2>2, <2>3 DEF ChunkOf
<1>3. \A j \in 1 .. Len(Sealed(s, nth, p, FALSE)) : ~Sealed(s, nth, p, FALSE)[j].last
  <2>1. Len(Sealed(s, nth, p, FALSE)) = Len(p) + 1
    BY <1>2 DEF ChunkOf
  <2>2. \A j \in 1 .. Len(p) + 1 : ~Sealed(s, nth, p, FALSE)[j].last
    BY DEF Sealed
  <2> QED BY <2>1, <2>2
<1> QED BY <1>2, <1>3, ChunkGrows

\* What opening a segment relies on: v holds, after k full chunks of c, p
\* more cells of which seg are the next.
Opening(v, c, k, p, seg) ==
    /\ v \in Seq(Cell) /\ c \in Seq(V) /\ k \in Nat /\ p \in Nat \ {0}
    /\ p <= Len(v) - 1 /\ Len(v) - p = k * (BUFFER_SIZE + 1) + 1
    /\ \A m \in 2 .. Len(v) : CellOK(v[m], m, c)
    /\ k * BUFFER_SIZE <= Len(c)
    /\ seg = SubSeq(v, Len(v) - p + 1, Len(v) - p + Smaller(p, BUFFER_SIZE + 1))

\* The cells of seg are the (k+1)-st block of c.
Opened(c, k, p, seg) ==
    /\ Len(seg) = Smaller(p, BUFFER_SIZE + 1)
    /\ k * BUFFER_SIZE + Len(seg) - 1 <= Len(c)
    /\ [j \in 1 .. Len(seg) - 1 |-> seg[j].val]
           = SubSeq(c, k * BUFFER_SIZE + 1, k * BUFFER_SIZE + Len(seg) - 1)

\* The cells of seg open as the i-th chunk of s, with more to come or not.
OpensAsNext(seg, s, i) == Authentic(seg, s, i, FALSE)
OpensAsLast(seg, s, i) == Authentic(seg, s, i, TRUE)

\* seg is what c has after k blocks, sealed as the nth chunk of s: the next
\* block, or all that is left.
NextChunk(seg, s, c, k, nth) ==
    seg = Sealed(s, nth, SubSeq(c, k * BUFFER_SIZE + 1, k * BUFFER_SIZE + Len(seg) - 1), FALSE)
FinalChunk(seg, s, c, k, nth) ==
    /\ seg = Sealed(s, nth, SubSeq(c, k * BUFFER_SIZE + 1, Len(c)), TRUE)
    /\ Len(c) = k * BUFFER_SIZE + Len(seg) - 1
    /\ k = 0 \/ Len(seg) > 1

\* Every cell of seg says that it is one of the nth chunk.
ChunkCells(seg, nth) ==
    \A j \in 1 .. Len(seg) : seg[j].at = nth /\ seg[j].off = j /\ seg[j].size = Len(seg) - 1

(* A segment whose cells say so is the next chunk as it was sealed.         *)
LEMMA SegmentContents ==
    ASSUME NEW v, NEW c, NEW k, NEW p, NEW seg, Opening(v, c, k, p, seg),
           NEW nth, nth = k + 1, ChunkCells(seg, nth)
    PROVE  /\ Opened(c, k, p, seg) /\ seg \in Seq(Cell) /\ seg # <<>>
           /\ seg[Len(seg)].last => /\ Len(c) = k * BUFFER_SIZE + Len(seg) - 1
                                    /\ k = 0 \/ Len(seg) > 1
<1> DEFINE B == BUFFER_SIZE
           l == Smaller(p, B + 1)
           q == Len(v) - p
           e == k * B
           vals == [j \in 1 .. l - 1 |-> seg[j].val]
<1>0. /\ v \in Seq(Cell) /\ c \in Seq(V) /\ k \in Nat /\ p \in Nat \ {0}
      /\ p <= Len(v) - 1 /\ Len(v) - p = k * (BUFFER_SIZE + 1) + 1
      /\ k * BUFFER_SIZE <= Len(c)
      /\ seg = SubSeq(v, Len(v) - p + 1, Len(v) - p + Smaller(p, BUFFER_SIZE + 1))
  BY DEF Opening
<1>14. \A m \in 2 .. Len(v) : CellOK(v[m], m, c)
  BY DEF Opening
<1>1. /\ B \in Nat \ {0} /\ Len(v) \in Nat /\ Len(c) \in Nat /\ e \in Nat
      /\ q = e + k + 1
  BY <1>0, SizeAssumption, LenProperties, MultiplesOfSize
<1>2. l \in Nat \ {0} /\ l <= p /\ q \in Nat \ {0} /\ q + l <= Len(v)
  BY <1>0, <1>1 DEF Smaller
<1>3. seg \in Seq(Cell) /\ Len(seg) = l /\ \A j \in 1 .. l : seg[j] = v[q + j]
  <2>1. seg = SubSeq(v, q + 1, q + l)
    BY <1>0
  <2> HIDE DEF q, l
  <2>2. /\ SubSeq(v, q + 1, q + l) \in Seq(Cell)
        /\ Len(SubSeq(v, q + 1, q + l)) = (q + l) - (q + 1) + 1
        /\ \A j \in 1 .. (q + l) - (q + 1) + 1 : SubSeq(v, q + 1, q + l)[j] = v[(q + 1) + j - 1]
    <3>1. /\ q + 1 \in Nat \ {0} /\ q + l \in Nat /\ q + 1 <= (q + l) + 1
          /\ q + l <= Len(v)
      BY <1>2
    <3>2. v \in Seq(Cell)
      BY <1>0
    <3> QED BY <3>1, <3>2, PartProperties
  <2>3. (q + l) - (q + 1) + 1 = l /\ \A j \in 1 .. l : (q + 1) + j - 1 = q + j
    BY <1>2
  <2> QED BY <2>1, <2>2, <2>3
<1> HIDE DEF l, q, e
<1>6. \A j \in 1 .. l : seg[j].at = k + 1 /\ seg[j].off = j /\ seg[j].size = l - 1
  BY <1>3 DEF ChunkCells
<1>7. \A j \in 1 .. l : CellOK(seg[j], q + j, c)
  <2>1. \A j \in 1 .. l : q + j \in 2 .. Len(v)
    BY <1>1, <1>2
  <2> QED BY <2>1, <1>3, <1>14
<1>8. \A j \in 1 .. l - 1 : e + j \in 1 .. Len(c) /\ seg[j].val = c[e + j]
  <2> SUFFICES ASSUME NEW j \in 1 .. l - 1
               PROVE  e + j \in 1 .. Len(c) /\ seg[j].val = c[e + j]
    OBVIOUS
  <2>1. j \in 1 .. l /\ j <= l - 1 /\ q + j - (k + 1) = e + j
    BY <1>0, <1>1, <1>2
  <2>2. /\ CellOK(seg[j], q + j, c)
        /\ seg[j].at = k + 1 /\ seg[j].off = j /\ seg[j].size = l - 1
    BY <2>1, <1>6, <1>7
  <2>3. seg[j].off <= seg[j].size
    BY <2>1, <2>2
  <2>4. (q + j) - (k + 1) \in 1 .. Len(c) /\ seg[j].val = c[(q + j) - (k + 1)]
    BY <2>2, <2>3, Zenon DEF CellOK
  <2>5. (q + j) - (k + 1) = e + j
    BY <1>0, <1>1, <1>2
  <2> QED BY <2>4, <2>5, Zenon
<1>9. e + l - 1 <= Len(c)
  <2>1. CASE l = 1
    BY <2>1, <1>0, <1>1 DEF e
  <2>2. CASE l > 1
    <3>1. l - 1 \in 1 .. l - 1 /\ e + (l - 1) = e + l - 1
      BY <2>2, <1>1, <1>2
    <3>2. e + (l - 1) \in 1 .. Len(c)
      BY <3>1, <1>8
    <3> QED BY <3>1, <3>2, <1>1
  <2> QED BY <2>1, <2>2, <1>2
<1>10. vals = SubSeq(c, e + 1, e + l - 1)
  <2>1. /\ SubSeq(c, e + 1, e + l - 1) \in Seq(V)
        /\ Len(SubSeq(c, e + 1, e + l - 1)) = (e + l - 1) - (e + 1) + 1
        /\ \A j \in 1 .. (e + l - 1) - (e + 1) + 1 :
              SubSeq(c, e + 1, e + l - 1)[j] = c[(e + 1) + j - 1]
    <3>1. e + 1 \in Nat \ {0} /\ e + l - 1 \in Nat /\ e + 1 <= (e + l - 1) + 1
      BY <1>1, <1>2
    <3>2. c \in Seq(V)
      BY <1>0
    <3> QED BY <3>1, <3>2, <1>9, PartProperties
  <2>2. (e + l - 1) - (e + 1) + 1 = l - 1 /\ l - 1 \in Nat
    BY <1>1, <1>2
  <2>3. \A j \in 1 .. l - 1 : (e + 1) + j - 1 = e + j
    BY <1>1, <1>2
  <2>4. \A j \in 1 .. l - 1 : vals[j] = c[e + j]
    BY <1>8
  <2>5. vals \in [1 .. l - 1 -> V]
    <3>1. \A j \in 1 .. l - 1 : c[e + j] \in V
      <4>1. c \in Seq(V)
        BY <1>0
      <4> QED BY <4>1, <1>8, LenProperties
    <3> QED BY <3>1, <1>8
  <2> HIDE DEF vals
  <2>6. vals \in Seq(V) /\ Len(vals) = l - 1
    BY <2>2, <2>5, FunctionIsSeq
  <2>7. \A j \in 1 .. l - 1 : vals[j] = SubSeq(c, e + 1, e + l - 1)[j]
    BY <2>1, <2>2, <2>3, <2>4
  <2> QED BY <2>1, <2>2, <2>6, <2>7, SeqEqual
<1>11. seg[l].last => Len(c) = e + l - 1 /\ (k = 0 \/ l > 1)
  <2> SUFFICES ASSUME seg[l].last PROVE Len(c) = e + l - 1 /\ (k = 0 \/ l > 1)
    OBVIOUS
  <2>1. l \in 1 .. l
    BY <1>2
  <2>2. /\ CellOK(seg[l], q + l, c)
        /\ seg[l].at = k + 1 /\ seg[l].off = l /\ seg[l].size = l - 1
    BY <2>1, <1>6, <1>7
  <2>3. Len(c) = (q + l) - (k + 1) + (l - 1) - l
    BY <2>2 DEF CellOK
  <2>4. l - 1 = 0 => k + 1 = 1
    BY <2>2 DEF CellOK
  <2> QED BY <2>3, <2>4, <1>0, <1>1, <1>2
<1>12. Len(seg) = l /\ seg # <<>> /\ seg \in Seq(Cell)
  BY <1>2, <1>3, EmptySeq
<1> QED BY <1>9, <1>10, <1>11, <1>12 DEF l, e, Opened

LEMMA OpeningLength ==
    ASSUME NEW v, NEW c, NEW k, NEW p, NEW seg, Opening(v, c, k, p, seg)
    PROVE  /\ seg \in Seq(Cell)
           /\ seg # <<>>
           /\ Len([j \in 1 .. Len(seg) - 1 |-> seg[j].val]) = Len(seg) - 1
<1> DEFINE l == Smaller(p, BUFFER_SIZE + 1)
           q == Len(v) - p
           vals == [j \in 1 .. Len(seg) - 1 |-> seg[j].val]
<1>1. /\ v \in Seq(Cell) /\ p \in Nat \ {0} /\ p <= Len(v) - 1 /\ seg = SubSeq(v, q + 1, q + l)
      /\ Len(v) \in Nat /\ BUFFER_SIZE \in Nat \ {0}
  BY SizeAssumption, LenProperties DEF Opening
<1>2. l \in Nat \ {0} /\ l <= p /\ q \in Nat \ {0} /\ q + l <= Len(v)
  BY <1>1 DEF Smaller
<1> HIDE DEF l, q
<1>3. SubSeq(v, q + 1, q + l) \in Seq(Cell) /\ Len(SubSeq(v, q + 1, q + l)) = (q + l) - (q + 1) + 1
  <2>1. q + 1 \in Nat \ {0} /\ q + l \in Nat /\ q + 1 <= (q + l) + 1 /\ q + l <= Len(v)
    BY <1>2
  <2> QED BY <1>1, <2>1, PartProperties
<1>4. seg \in Seq(Cell) /\ Len(seg) = l
  BY <1>1, <1>2, <1>3
<1>5. seg # <<>> /\ Len(seg) - 1 \in Nat
  BY <1>2, <1>4, EmptySeq
<1>6. \A j \in 1 .. Len(seg) - 1 : seg[j].val \in Values \cup {Junk, Tag}
  <2>1. \A j \in 1 .. Len(seg) : seg[j] \in Cell
    BY <1>4, LenProperties
  <2>2. \A j \in 1 .. Len(seg) - 1 : j \in 1 .. Len(seg)
    BY <1>2, <1>4
  <2> QED BY <2>1, <2>2 DEF Cell
<1>7. vals \in [1 .. Len(seg) - 1 -> Values \cup {Junk, Tag}]
  BY <1>6
<1>8. Len(vals) = Len(seg) - 1
  <2> HIDE DEF vals
  <2> QED BY <1>5, <1>7, FunctionIsSeq
<1> QED BY <1>4, <1>5, <1>8

(* What opens is a chunk, and the last one if it opens as the last.         *)
LEMMA LastOpens ==
    ASSUME NEW v, NEW c, NEW k, NEW s, NEW p, NEW seg, Opening(v, c, k, p, seg),
           NEW nth, nth = k + 1, OpensAsLast(seg, s, nth)
    PROVE  Opened(c, k, p, seg) /\ FinalChunk(seg, s, c, k, nth)
<1> DEFINE vals == [j \in 1 .. Len(seg) - 1 |-> seg[j].val]
<1>1. seg # <<>> /\ seg = Sealed(s, nth, vals, TRUE)
  BY DEF Authentic, OpensAsLast
<1>2. seg \in Seq(Cell) /\ Len(vals) = Len(seg) - 1
  BY OpeningLength
<1>3. ChunkCells(seg, nth) /\ seg[Len(seg)].last
  <2>1. \A j \in 1 .. Len(vals) + 1 :
           /\ Sealed(s, nth, vals, TRUE)[j].at = nth /\ Sealed(s, nth, vals, TRUE)[j].off = j
           /\ Sealed(s, nth, vals, TRUE)[j].size = Len(vals) /\ Sealed(s, nth, vals, TRUE)[j].last
    BY DEF Sealed
  <2> HIDE DEF vals
  <2>2. Len(vals) + 1 = Len(seg) /\ Len(seg) \in 1 .. Len(seg)
    <3>1. seg \in Seq(Cell) /\ seg # <<>>
      BY OpeningLength
    <3>2. Len(seg) \in Nat \ {0}
      BY <3>1, EmptySeq, LenProperties
    <3> QED BY <3>2, <1>2
  <2> QED BY <2>1, <2>2, <1>1, <1>2 DEF ChunkCells
<1>4. /\ Opened(c, k, p, seg)
      /\ Len(c) = k * BUFFER_SIZE + Len(seg) - 1 /\ (k = 0 \/ Len(seg) > 1)
  BY <1>3, SegmentContents
<1> QED BY <1>1, <1>4 DEF Opened, FinalChunk

LEMMA NextOpens ==
    ASSUME NEW v, NEW c, NEW k, NEW s, NEW p, NEW seg, Opening(v, c, k, p, seg),
           NEW nth, nth = k + 1, OpensAsNext(seg, s, nth)
    PROVE  Opened(c, k, p, seg) /\ NextChunk(seg, s, c, k, nth)
<1> DEFINE vals == [j \in 1 .. Len(seg) - 1 |-> seg[j].val]
<1>1. seg # <<>> /\ seg = Sealed(s, nth, vals, FALSE)
  BY DEF Authentic, OpensAsNext
<1>2. seg \in Seq(Cell) /\ Len(vals) = Len(seg) - 1
  BY OpeningLength
<1>3. ChunkCells(seg, nth)
  <2>1. \A j \in 1 .. Len(vals) + 1 :
           /\ Sealed(s, nth, vals, FALSE)[j].at = nth /\ Sealed(s, nth, vals, FALSE)[j].off = j
           /\ Sealed(s, nth, vals, FALSE)[j].size = Len(vals)
    BY DEF Sealed
  <2> HIDE DEF vals
  <2>2. Len(vals) + 1 = Len(seg)
    BY <1>2, LenProperties
  <2> QED BY <2>1, <2>2, <1>1, <1>2 DEF ChunkCells
<1>4. Opened(c, k, p, seg)
  BY <1>3, SegmentContents
<1> QED BY <1>1, <1>4 DEF Opened, NextChunk

LEMMA HeaderProperties ==
    ASSUME NEW s \in Nat
    PROVE  /\ <<HeaderCell(s)>> \in Seq(Cell) /\ Len(<<HeaderCell(s)>>) = 1
           /\ <<HeaderCell(s)>>[1] = HeaderCell(s) /\ HeaderCell(s).salt = s
<1>1. HeaderCell(s) \in Cell
  BY DEF HeaderCell, Cell
<1>2. HeaderCell(s).salt = s
  BY DEF HeaderCell
<1> QED BY <1>1, <1>2

----------------------------------------------------------------------------
(* Reading.                                                                 *)

(* A read goes to the end of the file at most, and returns nothing only     *)
(* there.                                                                   *)
LEMMA ReadProperties ==
    ASSUME plain \in Seq(V), pos \in Nat, NEW k \in ReadSizes
    PROVE  /\ k \in Nat /\ k <= BUFFER_SIZE
           /\ k > 0 => pos + k <= Len(plain)
           /\ k = 0 => pos >= Len(plain)
           /\ pos <= Len(plain) => k <= Smaller(BUFFER_SIZE, Len(plain) - pos)
<1>1. Len(plain) \in Nat /\ BUFFER_SIZE \in Nat \ {0}
  BY LenProperties, SizeAssumption
<1> DEFINE left == IF pos < Len(plain) THEN Len(plain) - pos ELSE 0
           all == Smaller(BUFFER_SIZE, left)
<1>2. left \in Nat /\ (left > 0 => pos + left = Len(plain)) /\ (left = 0 => pos >= Len(plain))
  BY <1>1
<1> HIDE DEF left
<1>3. all \in Nat /\ all <= BUFFER_SIZE /\ all <= left /\ (all = 0 => left = 0)
  BY <1>1, <1>2 DEF Smaller
<1>4. k \in 1 .. all \/ k = all
  BY DEF ReadSizes, left, all
<1>5. k \in Nat /\ k <= all /\ (k = 0 => left = 0)
  BY <1>3, <1>4
<1>6. pos <= Len(plain) => left = Len(plain) - pos
  BY <1>1 DEF left
<1>7. pos <= Len(plain) => k <= Smaller(BUFFER_SIZE, Len(plain) - pos)
  BY <1>5, <1>6
<1> HIDE DEF all
<1>8. k > 0 => pos + k <= Len(plain)
  <2> SUFFICES ASSUME k > 0 PROVE pos + k <= Len(plain)
    OBVIOUS
  <2>1. left > 0 /\ k <= left
    BY <1>2, <1>3, <1>5
  <2> QED BY <2>1, <1>1, <1>2, <1>5
<1> QED BY <1>1, <1>2, <1>3, <1>5, <1>7, <1>8

(* What it returns.                                                         *)
LEMMA NextBlock ==
    ASSUME plain \in Seq(V), pos \in Nat, NEW k \in ReadSizes
    PROVE  /\ SubSeq(plain, pos + 1, pos + k) \in Seq(V)
           /\ Len(SubSeq(plain, pos + 1, pos + k)) = k
<1>1. k \in Nat /\ (k > 0 => pos + k <= Len(plain))
  BY ReadProperties
<1>2. CASE k = 0
  <2>1. pos + k < pos + 1 /\ pos + 1 \in Int /\ pos + k \in Int
    BY <1>2
  <2>2. SubSeq(plain, pos + 1, pos + k) = <<>>
    BY <2>1, SubSeqEmpty
  <2> QED BY <1>2, <2>2, EmptySeq
<1>3. CASE k > 0
  <2>1. /\ pos + 1 \in Nat \ {0} /\ pos + k \in Nat /\ pos + 1 <= (pos + k) + 1
        /\ pos + k <= Len(plain) /\ (pos + k) - (pos + 1) + 1 = k
    BY <1>1, <1>3
  <2> QED BY <2>1, PartProperties
<1> QED BY <1>1, <1>2, <1>3

----------------------------------------------------------------------------
(* Sealing.                                                                 *)

\* The vault before a chunk is added.
Before == IF n = 0 THEN <<HeaderCell(runs)>> ELSE vault

(* What the loop relies on when it seals a block.                           *)
LEMMA BeforeSeal ==
    ASSUME IInv, pc = "e_seal"
    PROVE  /\ plain \in Seq(V) /\ cur \in Seq(V) /\ pos \in Nat /\ n \in Nat
           /\ runs \in 1 .. MaxRuns /\ runs \in Nat
           /\ books \in Seq(Seq(V)) /\ Len(books) = runs /\ books[runs] \in Seq(V)
           /\ Before \in Seq(Cell) /\ Before[1] = HeaderCell(runs)
           /\ Len(Before) = 1 + Len(books[runs]) + n
           /\ \A m \in 2 .. Len(Before) : CellOK(Before[m], m, books[runs]) /\ ~Before[m].last
           /\ n = 0 => books[runs] = <<>>
           /\ n > 0 => cur # <<>>
<1>1. /\ plain \in Seq(V) /\ cur \in Seq(V) /\ pos \in Nat /\ n \in Nat
      /\ runs \in 1 .. MaxRuns /\ runs \in Nat
      /\ books \in Seq(Seq(V)) /\ Len(books) = runs
  BY RunsAssumption DEF IInv, TypeOK, CallOK, Encrypting, V
<1>2. books[runs] \in Seq(V)
  BY <1>1, ElementOfSeq
<1>3. (n = 0 => books[runs] = <<>>) /\ (n > 0 => cur # <<>>)
  BY DEF IInv, SealOK
<1>4. CASE n = 0
  <2>1. /\ Before = <<HeaderCell(runs)>> /\ Before \in Seq(Cell) /\ Len(Before) = 1
        /\ Before[1] = HeaderCell(runs)
    BY <1>1, <1>4, HeaderProperties DEF Before
  <2>2. Len(books[runs]) = 0
    BY <1>3, <1>4, EmptySeq
  <2> QED BY <1>1, <1>2, <1>3, <1>4, <2>1, <2>2
<1>5. CASE n > 0
  <2>1. Before = vault
    BY <1>5 DEF Before
  <2>2. /\ vault \in Seq(Cell) /\ Len(vault) = 1 + Len(books[runs]) + n
        /\ vault[1] = HeaderCell(runs)
        /\ \A m \in 2 .. Len(vault) : CellOK(vault[m], m, books[runs]) /\ ~vault[m].last
    BY <1>5 DEF IInv, SealOK
  <2> QED BY <1>1, <1>2, <1>3, <2>1, <2>2
<1> QED BY <1>1, <1>4, <1>5

(* A turn of the loop keeps types, cells and books.                         *)
LEMMA SealStep ==
    ASSUME IInv, EncSeal
    PROVE  /\ (TypeOK /\ CallOK /\ PassesOK /\ VaultsOK /\ SealOK /\ OpenOK)'
           /\ vault' \in Seq(Cell) /\ vault'[1] = HeaderCell(runs)
           /\ Len(vault') = Len(Before) + Len(cur) + 1
           /\ Len(Before) <= Len(vault') /\ \A m \in 1 .. Len(Before) : vault'[m] = Before[m]
           /\ books'[runs] = books[runs] \o cur
<1>1. pc = "e_seal"
  BY DEF EncSeal
<1>2. PICK k \in ReadSizes :
          /\ Read(k)
          /\ cur' = SubSeq(plain, pos + 1, pos + k)
          /\ vault' = Before \o Sealed(runs, n + 1, cur, k = 0)
          /\ pc' = IF k = 0 THEN "e_flush" ELSE "e_seal"
  BY DEF EncSeal, Before
<1>3. /\ books' = [books EXCEPT ![runs] = @ \o cur] /\ n' = n + 1
      /\ UNCHANGED <<plain, plainDisk, vaultDisk, hash, runs, wanted, saved, dirty, scrubs>>
  BY DEF EncSeal
<1> DEFINE b == books[runs]
<1>4. /\ plain \in Seq(V) /\ cur \in Seq(V) /\ pos \in Nat /\ n \in Nat
      /\ runs \in 1 .. MaxRuns /\ runs \in Nat
      /\ books \in Seq(Seq(V)) /\ Len(books) = runs /\ b \in Seq(V)
      /\ Before \in Seq(Cell) /\ Before[1] = HeaderCell(runs)
      /\ Len(Before) = 1 + Len(b) + n
      /\ \A m \in 2 .. Len(Before) : CellOK(Before[m], m, b) /\ ~Before[m].last
      /\ n = 0 => b = <<>>
      /\ n > 0 => cur # <<>>
  BY <1>1, BeforeSeal
<1> HIDE DEF b
<1>5. /\ vault' \in Seq(Cell) /\ vault' # <<>>
      /\ Len(vault') = Len(Before) + Len(cur) + 1
      /\ Len(vault') = 1 + Len(b \o cur) + (n + 1)
      /\ vault'[1] = HeaderCell(runs)
      /\ \A m \in 1 .. Len(Before) : vault'[m] = Before[m]
      /\ \A m \in 2 .. Len(vault') : CellOK(vault'[m], m, b \o cur)
      /\ k # 0 => \A m \in 2 .. Len(vault') : ~vault'[m].last
  <2>1. Ready(Before, b, cur, n, runs)
    BY <1>4 DEF Ready
  <2>2. CASE k = 0
    <3>1. vault' = Before \o Sealed(runs, n + 1, cur, TRUE)
      BY <1>2, <2>2
    <3>2. Grown(vault', Before, b, cur, n, runs)
      BY <3>1, <2>1, LastGrows
    <3> QED BY <3>2, <2>2 DEF Grown
  <2>3. CASE k # 0
    <3>1. vault' = Before \o Sealed(runs, n + 1, cur, FALSE)
      BY <1>2, <2>3
    <3>2. Grown(vault', Before, b, cur, n, runs) /\ NoneLast(vault')
      BY <3>1, <2>1, NextGrows
    <3> QED BY <3>2, <2>3 DEF Grown, NoneLast
  <2> QED BY <2>2, <2>3
<1>6. b \o cur \in Seq(V)
  BY <1>4, ConcatProperties
<1>7. /\ books' \in Seq(Seq(V)) /\ Len(books') = runs
      /\ \A s \in 1 .. runs : books'[s] = IF s = runs THEN b \o cur ELSE books[s]
  <2>1. books' = [books EXCEPT ![runs] = b \o cur]
    BY <1>3 DEF b
  <2>2. runs \in 1 .. Len(books)
    BY <1>4
  <2>3. /\ [books EXCEPT ![runs] = b \o cur] \in Seq(Seq(V))
        /\ Len([books EXCEPT ![runs] = b \o cur]) = Len(books)
        /\ \A s \in 1 .. Len(books) :
              [books EXCEPT ![runs] = b \o cur][s] = IF s = runs THEN b \o cur ELSE books[s]
    BY <2>2, <1>4, <1>6, ExceptSeq
  <2> QED BY <2>1, <2>3, <1>4
<1>8. books'[runs] = b \o cur
  BY <1>4, <1>7
<1>9. k \in Nat /\ cur' \in Seq(V) /\ Len(cur') = k
  BY <1>2, <1>4, NextBlock, ReadProperties
<1>10. pos' \in Nat /\ spoilt' \in BOOLEAN
  <2>1. pos' = pos + k
    BY <1>2 DEF Read
  <2>2. spoilt' = (spoilt \/ k < Smaller(BUFFER_SIZE, Len(plain) - pos))
    BY <1>2 DEF Read
  <2> QED BY <2>1, <2>2, <1>4, <1>9
<1>11. TypeOK'
  <2>1. {plain, plainDisk}' \subseteq Seq(Values \cup {Junk}) \cup {Gone}
    BY <1>3 DEF IInv, TypeOK
  <2>2. {vault, vaultDisk}' \subseteq Seq(Cell) \cup {Gone}
    BY <1>3, <1>5 DEF IInv, TypeOK
  <2>3. pc' \in Steps
    BY <1>2 DEF Steps
  <2>4. {hash, cur}' \subseteq Seq(Values \cup {Junk}) /\ n' \in Nat /\ runs' \in 0 .. MaxRuns
    BY <1>3, <1>4, <1>9 DEF IInv, TypeOK, V
  <2>5. books' \in Seq(Seq(Values \cup {Junk})) /\ Len(books') = runs'
    BY <1>3, <1>7 DEF V
  <2>6. wanted' \in Seq(Values \cup {Junk}) /\ {saved, dirty}' \subseteq BOOLEAN /\ scrubs' \in 0 .. Passes
    BY <1>3 DEF IInv, TypeOK
  <2> QED BY <2>1, <2>2, <2>3, <2>4, <2>5, <2>6, <1>10 DEF TypeOK
<1>12. CallOK'
  BY <1>2, <1>3, <1>4 DEF CallOK, Encrypting, Shredding
<1>13. PassesOK'
  <2>1. ~dirty
    BY <1>1 DEF IInv, PassesOK
  <2> QED BY <2>1, <1>2, <1>3 DEF PassesOK
<1>14. vaultDisk = Gone \/ vaultDisk = <<>> \/ vaultDisk[1].salt < runs
  BY <1>1 DEF IInv, SealOK
<1>15. VaultsOK'
  <2>1. vault'[1].salt = runs
    BY <1>4, <1>5, HeaderProperties
  <2>2. Laid(vault', books', runs)
    BY <2>1, <1>4, <1>5, <1>8 DEF Laid
  <2>3. vaultDisk = Gone \/ vaultDisk = <<>> \/ books'[vaultDisk[1].salt] = books[vaultDisk[1].salt]
    <3> SUFFICES ASSUME vaultDisk # Gone, vaultDisk # <<>>
                 PROVE  books'[vaultDisk[1].salt] = books[vaultDisk[1].salt]
      OBVIOUS
    <3>1. vaultDisk[1].salt \in 1 .. runs /\ vaultDisk[1].salt < runs
      BY <1>14 DEF IInv, VaultsOK, Laid
    <3>2. vaultDisk[1].salt # runs
      BY <3>1, <1>4
    <3> QED BY <3>1, <3>2, <1>7
  <2>4. Laid(vaultDisk, books, runs) /\ runs <= runs
    BY <1>4 DEF IInv, VaultsOK
  <2>5. Laid(vaultDisk, books', runs)
    BY <2>3, <2>4, <1>4, LaidLater
  <2> QED BY <2>2, <2>5, <1>3 DEF VaultsOK
<1>16. SealOK'
  <2>1. CASE k = 0
    BY <2>1, <1>2 DEF SealOK
  <2>2. CASE k # 0
    <3>1. pc' = "e_seal" /\ n' > 0 /\ ~(n' = 0)
      BY <2>2, <1>2, <1>3, <1>4
    <3>2. cur' # <<>>
      BY <2>2, <1>9, EmptySeq
    <3>3. Len(vault') = 1 + Len(books'[runs']) + n'
      BY <1>3, <1>5, <1>8
    <3>4. \A m \in 2 .. Len(vault') : CellOK(vault'[m], m, books'[runs']) /\ ~vault'[m].last
      BY <2>2, <1>3, <1>5, <1>8
    <3> QED BY <3>1, <3>2, <3>3, <3>4, <1>3, <1>5, <1>14 DEF SealOK
  <2> QED BY <2>1, <2>2
<1>17. OpenOK'
  BY <1>2 DEF OpenOK
<1>18. Len(Before) <= Len(vault')
  BY <1>5, LenProperties, <1>4
<1> QED BY <1>5, <1>8, <1>11, <1>12, <1>13, <1>15, <1>16, <1>17, <1>18 DEF b

----------------------------------------------------------------------------
(* Sealing with full reads.                                                 *)

(* What is appended is the end of the whole.                                *)
LEMMA AppendedPart ==
    ASSUME NEW S, NEW v \in Seq(S), NEW t \in Seq(S), NEW i, NEW j,
           i = Len(v) + 1, j = Len(v) + Len(t)
    PROVE  SubSeq(v \o t, i, j) = t
<1>1. Len(v) \in Nat /\ Len(t) \in Nat
  BY LenProperties
<1>2. /\ v \o t \in Seq(S) /\ Len(v \o t) = Len(v) + Len(t)
      /\ \A m \in 1 .. Len(v) + Len(t) :
            (v \o t)[m] = IF m <= Len(v) THEN v[m] ELSE t[m - Len(v)]
  BY ConcatProperties
<1>3. /\ SubSeq(v \o t, i, j) \in Seq(S)
      /\ Len(SubSeq(v \o t, i, j)) = j - i + 1
      /\ \A m \in 1 .. j - i + 1 : SubSeq(v \o t, i, j)[m] = (v \o t)[i + m - 1]
  <2>1. i \in Nat \ {0} /\ j \in Nat /\ i <= j + 1 /\ j <= Len(v \o t)
    BY <1>1, <1>2
  <2> QED BY <2>1, <1>2, PartProperties
<1>4. j - i + 1 = Len(t)
  BY <1>1
<1>5. ASSUME NEW m \in 1 .. Len(t)
      PROVE  SubSeq(v \o t, i, j)[m] = t[m]
  <2>1. /\ i + m - 1 \in 1 .. Len(v) + Len(t) /\ ~(i + m - 1 <= Len(v))
        /\ (i + m - 1) - Len(v) = m
    BY <1>1
  <2>2. (v \o t)[i + m - 1] = t[(i + m - 1) - Len(v)]
    BY <2>1, <1>2
  <2>3. SubSeq(v \o t, i, j)[m] = (v \o t)[i + m - 1]
    BY <1>3, <1>4
  <2> QED BY <2>1, <2>2, <2>3
<1> QED BY <1>3, <1>4, <1>5, SeqEqual

(* One more full block.                                                     *)
LEMMA FullChunksMore ==
    ASSUME NEW v \in Seq(Cell), NEW w \in Seq(Cell), NEW s, NEW c \in Seq(V), NEW k \in Nat,
           Len(v) <= Len(w), \A m \in 1 .. Len(v) : w[m] = v[m],
           FullChunks(v, s, c, k),
           NEW nth, nth = k + 1,
           nth * BUFFER_SIZE <= Len(c), nth * (BUFFER_SIZE + 1) + 1 <= Len(w),
           SubSeq(w, k * (BUFFER_SIZE + 1) + 2, nth * (BUFFER_SIZE + 1) + 1)
               = Sealed(s, nth, SubSeq(c, k * BUFFER_SIZE + 1, nth * BUFFER_SIZE), FALSE)
    PROVE  FullChunks(w, s, c, nth)
<1>1. FullChunks(w, s, c, k)
  BY FullChunksKept
<1>2. ASSUME NEW i \in 1 .. nth
      PROVE  SubSeq(w, (i - 1) * (BUFFER_SIZE + 1) + 2, i * (BUFFER_SIZE + 1) + 1)
           = Sealed(s, i, SubSeq(c, (i - 1) * BUFFER_SIZE + 1, i * BUFFER_SIZE), FALSE)
  <2>1. CASE i \in 1 .. k
    BY <2>1, <1>1 DEF FullChunks
  <2>2. CASE i = nth
    <3>1. i - 1 = k
      BY <2>2
    <3> QED BY <2>2, <3>1
  <2>3. i \in 1 .. k \/ i = nth
    OBVIOUS
  <2> QED BY <2>1, <2>2, <2>3, Zenon
<1> QED BY <1>2 DEF FullChunks

(* A read that returned less than it could is remembered.                   *)
LEMMA FullRead ==
    ASSUME plain \in Seq(V), pos \in Nat, pos <= Len(plain),
           NEW k \in ReadSizes, Read(k), ~spoilt'
    PROVE  ~spoilt /\ k = Smaller(BUFFER_SIZE, Len(plain) - pos) /\ pos + k <= Len(plain)
<1>1. spoilt' = (spoilt \/ k < Smaller(BUFFER_SIZE, Len(plain) - pos))
  BY DEF Read
<1>2. ~spoilt /\ ~(k < Smaller(BUFFER_SIZE, Len(plain) - pos))
  BY <1>1
<1>3. k \in Nat /\ k <= Smaller(BUFFER_SIZE, Len(plain) - pos)
  BY ReadProperties
<1>4. Len(plain) \in Nat /\ BUFFER_SIZE \in Nat
  BY SizeAssumption, LenProperties
<1>5. Smaller(BUFFER_SIZE, Len(plain) - pos) \in Nat /\ Smaller(BUFFER_SIZE, Len(plain) - pos) <= Len(plain) - pos
  BY <1>4 DEF Smaller
<1> QED BY <1>2, <1>3, <1>4, <1>5

LEMMA SealHash ==
    ASSUME IInv, EncSeal
    PROVE  HashOK'
<1>1. pc = "e_seal"
  BY DEF EncSeal
<1>2. PICK k \in ReadSizes :
          /\ Read(k)
          /\ cur' = SubSeq(plain, pos + 1, pos + k)
          /\ pc' = IF k = 0 THEN "e_flush" ELSE "e_seal"
  BY DEF EncSeal
<1>3. UNCHANGED <<plain, hash, runs, saved>>
  BY DEF EncSeal
<1>4. plain \in Seq(V) /\ cur \in Seq(V) /\ pos \in Nat /\ books[runs] \in Seq(V) /\ Len(plain) \in Nat
  BY <1>1, BeforeSeal, LenProperties
<1>5. books'[runs] = books[runs] \o cur
  BY SealStep
<1>6. saved' => spoilt'
  BY <1>2, <1>3 DEF Read, IInv, HashOK
<1> SUFFICES ASSUME ~saved' PROVE HashOK'
  BY <1>6 DEF HashOK
<1>7. /\ ~saved /\ hash = plain /\ pos <= Len(plain)
      /\ books[runs] \o cur = SubSeq(plain, 1, pos)
  BY <1>1, <1>3 DEF IInv, HashOK, Encrypting
<1>8. pos + k <= Len(plain) /\ k \in Nat /\ pos' = pos + k
  <2>1. k \in Nat /\ (k > 0 => pos + k <= Len(plain)) /\ pos' = pos + k
    BY <1>2, <1>4, ReadProperties DEF Read
  <2> QED BY <2>1, <1>4, <1>7
<1>9. CASE k = 0
  <2>1. pos = Len(plain)
    BY <1>4, <1>7, <1>9, ReadProperties
  <2>2. books'[runs] = plain
    BY <2>1, <1>4, <1>5, <1>7, SubSeqFull
  <2> QED BY <2>2, <1>2, <1>3, <1>6, <1>7, <1>9 DEF HashOK, Encrypting, Shredding
<1>10. CASE k # 0
  <2>1. books'[runs] \o cur' = SubSeq(plain, 1, pos + k)
    <3>1. 1 \in 1 .. Len(plain) + 1 /\ pos \in 1 - 1 .. Len(plain) /\ pos + k \in pos .. Len(plain)
      BY <1>4, <1>7, <1>8
    <3>2. SubSeq(plain, 1, pos) \o SubSeq(plain, pos + 1, pos + k) = SubSeq(plain, 1, pos + k)
      BY <3>1, <1>4, ConcatAdjacentSubSeq
    <3> QED BY <3>2, <1>2, <1>5, <1>7
  <2> QED BY <2>1, <1>2, <1>3, <1>6, <1>7, <1>8, <1>10 DEF HashOK, Encrypting, Shredding
<1> QED BY <1>9, <1>10

LEMMA SealBlocks ==
    ASSUME IInv, EncSeal
    PROVE  BlocksOK'
<1> DEFINE B == BUFFER_SIZE
           L == Len(plain)
           m == n + 1
<1>1. pc = "e_seal"
  BY DEF EncSeal
<1>2. PICK k \in ReadSizes :
          /\ Read(k)
          /\ cur' = SubSeq(plain, pos + 1, pos + k)
          /\ vault' = Before \o Sealed(runs, n + 1, cur, k = 0)
          /\ pc' = IF k = 0 THEN "e_flush" ELSE "e_seal"
  BY DEF EncSeal, Before
<1>3. n' = m /\ UNCHANGED <<plain, runs>>
  BY DEF EncSeal
<1>4. /\ plain \in Seq(V) /\ cur \in Seq(V) /\ pos \in Nat /\ n \in Nat /\ runs \in Nat
      /\ Before \in Seq(Cell) /\ L \in Nat /\ B \in Nat \ {0}
  BY <1>1, BeforeSeal, LenProperties, SizeAssumption
<1>5. /\ vault' \in Seq(Cell) /\ vault'[1] = HeaderCell(runs)
      /\ Len(vault') = Len(Before) + Len(cur) + 1
      /\ Len(Before) <= Len(vault') /\ \A i \in 1 .. Len(Before) : vault'[i] = Before[i]
  BY SealStep
<1> SUFFICES ASSUME ~spoilt' PROVE BlocksOK'
  BY DEF BlocksOK
<1>6. ~spoilt
  BY <1>2 DEF Read
<1>7. /\ pos = Smaller((n + 1) * B, L)
      /\ cur = SubSeq(plain, n * B + 1, pos)
      /\ n > 0 => /\ n * B < L
                  /\ Len(vault) = n * (B + 1) + 1
                  /\ FullChunks(vault, runs, plain, n)
  BY <1>1, <1>6 DEF IInv, BlocksOK
<1>8. /\ n * B \in Nat /\ m * B = n * B + B /\ n * (B + 1) = n * B + n
      /\ m * (B + 1) = n * B + n + B + 1
      /\ (m + 1) * B = m * B + B
  BY <1>4, MultiplesOfSize
<1>9. /\ n = 0 \/ n * B < L
      /\ n * B <= L /\ pos <= L
  BY <1>4, <1>7, <1>8 DEF Smaller
<1>10. Len(Before) = n * (B + 1) + 1 /\ FullChunks(Before, runs, plain, n)
  <2>1. CASE n = 0
    <3>1. n * (B + 1) = 0 /\ n * B = 0
      BY <2>1, <1>4
    <3>2. Len(Before) = 1
      BY <2>1, <1>4, HeaderProperties DEF Before
    <3> QED BY <2>1, <3>1, <3>2, <1>4 DEF FullChunks
  <2>2. CASE n > 0
    <3>1. Before = vault
      BY <2>2 DEF Before
    <3> QED BY <3>1, <2>2, <1>7
  <2> QED BY <2>1, <2>2, <1>4
<1>11. k = Smaller(B, L - pos) /\ pos + k <= L /\ k \in Nat /\ pos' = pos + k
  BY <1>2, <1>4, <1>9, FullRead, ReadProperties DEF Read
<1>12. Len(cur) = pos - n * B
  <2>1. n * B <= pos
    BY <1>4, <1>7, <1>8, <1>9 DEF Smaller
  <2>2. n * B + 1 \in Nat \ {0} /\ n * B + 1 <= pos + 1 /\ pos - (n * B + 1) + 1 = pos - n * B
    BY <2>1, <1>4, <1>8
  <2> QED BY <2>2, <1>4, <1>7, <1>9, PartProperties, SMTT(30)
<1> HIDE DEF B, L, m
<1>13. Len(vault') = pos + n + 2
  BY <1>4, <1>5, <1>8, <1>10, <1>12
<1>14. ASSUME NEW t, t \in Seq(Cell), Len(t) = Len(cur) + 1, vault' = Before \o t
       PROVE  SubSeq(vault', n * (B + 1) + 2, pos + n + 2) = t
  <2> DEFINE i == n * (B + 1) + 2
             j == pos + n + 2
  <2>1. i = Len(Before) + 1 /\ j = Len(Before) + Len(t)
    BY <1>4, <1>8, <1>10, <1>12, <1>14
  <2>2. Before \in Seq(Cell) /\ t \in Seq(Cell)
    BY <1>4, <1>14
  <2> HIDE DEF i, j
  <2>3. SubSeq(Before \o t, i, j) = t
    BY <2>1, <2>2, AppendedPart
  <2> QED BY <2>3, <1>14 DEF i, j
<1>15. CASE k = 0
  <2>1. pos = L
    BY <1>4, <1>9, <1>11, <1>15, ReadProperties DEF L
  <2>2. vault' = Before \o Sealed(runs, n + 1, cur, TRUE)
    BY <1>2, <1>15
  <2>3. SubSeq(vault', n * (B + 1) + 2, Len(vault')) = Sealed(runs, n + 1, SubSeq(plain, n * B + 1, L), TRUE)
    <3>1. SubSeq(vault', n * (B + 1) + 2, pos + n + 2) = Sealed(runs, n + 1, cur, TRUE)
      <4>1. n + 1 \in Nat
        BY <1>4
      <4> QED BY <4>1, <1>4, <1>14, <2>2, SealedLength
    <3> QED BY <3>1, <2>1, <1>7, <1>13
  <2>4. L <= n * B + B /\ Len(vault') = L + n + 2
    BY <2>1, <1>4, <1>7, <1>8, <1>13 DEF Smaller, m
  <2>5. FullChunks(vault', runs, plain, n)
    BY <1>4, <1>5, <1>10, FullChunksKept
  <2>6. Whole(vault', runs, plain)
    BY <2>3, <2>4, <2>5, <1>4, <1>5, <1>9, LastChunk DEF L, B
  <2> QED BY <2>6, <1>2, <1>3, <1>15 DEF BlocksOK
<1>16. CASE k # 0
  <2>1. pos < L /\ pos = m * B
    BY <1>4, <1>7, <1>8, <1>11, <1>16 DEF Smaller, m
  <2>2. vault' = Before \o Sealed(runs, n + 1, cur, FALSE)
    BY <1>2, <1>16
  <2>3. pos + n + 2 = m * (B + 1) + 1
    BY <2>1, <1>4, <1>8
  <2>4. SubSeq(vault', n * (B + 1) + 2, m * (B + 1) + 1)
           = Sealed(runs, m, SubSeq(plain, n * B + 1, m * B), FALSE)
    <3>1. SubSeq(vault', n * (B + 1) + 2, pos + n + 2) = Sealed(runs, n + 1, cur, FALSE)
      <4>1. n + 1 \in Nat
        BY <1>4
      <4> QED BY <4>1, <1>4, <1>14, <2>2, SealedLength
    <3> QED BY <3>1, <2>1, <2>3, <1>7 DEF m
  <2>5. FullChunks(vault', runs, plain, m)
    <3>1. m = n + 1 /\ m * B <= Len(plain) /\ m * (B + 1) + 1 <= Len(vault')
      BY <2>1, <2>3, <1>4, <1>13 DEF m, L
    <3> QED BY <3>1, <2>4, <1>4, <1>5, <1>10, FullChunksMore DEF B
  <2>6. pos + k = Smaller((m + 1) * B, L)
    <3>1. (m + 1) * B = pos + B
      BY <2>1, <1>8
    <3>2. pos + k = Smaller(pos + B, L)
      BY <2>1, <1>4, <1>11 DEF Smaller
    <3> QED BY <3>1, <3>2
  <2>7. m \in Nat /\ m > 0 /\ m * B < L /\ Len(vault') = m * (B + 1) + 1
    BY <2>1, <2>3, <1>4, <1>13 DEF m
  <2> QED BY <2>1, <2>5, <2>6, <2>7, <1>2, <1>3, <1>11, <1>16 DEF BlocksOK, B, L
<1> QED BY <1>15, <1>16

----------------------------------------------------------------------------
(* Opening.                                                                 *)

(* A decryption reads a vault some encryption has laid.                     *)
LEMMA BeforeOpen ==
    ASSUME IInv, pc = "d_chunk", pos > 0, NEW c, c = books[vault[1].salt]
    PROVE  /\ Opening(vault, c, n, pos, Segment)
           /\ vault[1] = HeaderCell(vault[1].salt)
           /\ FullChunks(vault, vault[1].salt, c, n)
           /\ plain \in Seq(V) /\ (~saved => plain = SubSeq(c, 1, n * BUFFER_SIZE))
<1> DEFINE s == vault[1].salt
<1>1. /\ vault \in Seq(Cell) /\ vault \notin {Gone, <<>>} /\ pos <= Len(vault) - 1
      /\ Len(vault) - pos = n * (BUFFER_SIZE + 1) + 1
      /\ FullChunks(vault, s, c, n)
      /\ plain \in Seq(V) /\ (~saved => plain = SubSeq(c, 1, n * BUFFER_SIZE))
  BY DEF IInv, OpenOK, CallOK
<1>2. s \in 1 .. runs /\ vault[1] = HeaderCell(s)
  BY <1>1 DEF IInv, VaultsOK, Laid
<1>3. \A m \in 2 .. Len(vault) : CellOK(vault[m], m, c)
  BY <1>1 DEF IInv, VaultsOK, Laid
<1>4. books \in Seq(Seq(V)) /\ Len(books) = runs /\ n \in Nat /\ pos \in Nat
  BY DEF IInv, TypeOK, V
<1>5. c \in Seq(V)
  BY <1>2, <1>4, ElementOfSeq
<1>6. n * BUFFER_SIZE <= Len(c)
  BY <1>1 DEF FullChunks
<1>7. pos \in Nat \ {0}
  BY <1>4
<1>8. Opening(vault, c, n, pos, Segment)
  BY <1>1, <1>3, <1>4, <1>5, <1>6, <1>7 DEF Opening, Segment
<1> QED BY <1>1, <1>2, <1>8

LEMMA OpenTypes ==
    ASSUME IInv, pc = "d_chunk", plain' \in Seq(V), pos' \in Nat, n' = n + 1,
           UNCHANGED <<plainDisk, vault, vaultDisk, pc, hash, cur, runs, history>>
    PROVE  TypeOK' /\ CallOK'
<1>1. n' \in Nat
  BY DEF IInv, TypeOK
<1>2. TypeOK'
  BY <1>1 DEF IInv, TypeOK, V, history
<1>3. CallOK'
  BY DEF CallOK, Encrypting, Shredding
<1> QED BY <1>2, <1>3

(* Opening a segment keeps types and what has been opened.                  *)
LEMMA OpenStep ==
    ASSUME IInv, DecChunk
    PROVE  (TypeOK /\ CallOK /\ OpenOK)'
<1> DEFINE B == BUFFER_SIZE
           s == vault[1].salt
           c == books[s]
           seg == Segment
           m == n + 1
           e == n * B
           q == n * (B + 1)
           e2 == m * B
           q2 == m * (B + 1)
           last == pos <= B + 1
           vals == [j \in 1 .. Len(seg) - 1 |-> seg[j].val]
           hi == e + Len(seg) - 1
<1>1. pc = "d_chunk" /\ pos > 0 /\ Authentic(seg, s, m, last)
  BY DEF DecChunk, SegmentOpens
<1>2. /\ plain' = Written(plain, Len(vault) - 1 - pos - n, vals) /\ pos' = pos - Len(seg) /\ n' = m
      /\ UNCHANGED <<plainDisk, vault, vaultDisk, pc, hash, cur, runs, history>>
  BY DEF DecChunk, Extended
<1>3. /\ Opening(vault, c, n, pos, seg)
      /\ vault[1] = HeaderCell(s)
      /\ FullChunks(vault, s, c, n)
      /\ plain \in Seq(V) /\ (~saved => plain = SubSeq(c, 1, e))
  BY <1>1, BeforeOpen
<1>4. /\ vault \in Seq(Cell) /\ c \in Seq(V) /\ n \in Nat /\ pos \in Nat \ {0}
      /\ B \in Nat \ {0} /\ Len(c) \in Nat /\ Len(vault) \in Nat
  BY <1>3, SizeAssumption, LenProperties DEF Opening
<1>5. /\ pos <= Len(vault) - 1 /\ Len(vault) - pos = q + 1 /\ e <= Len(c)
      /\ seg = SubSeq(vault, Len(vault) - pos + 1, Len(vault) - pos + Smaller(pos, B + 1))
  BY <1>3 DEF Opening
<1>6. e \in Nat /\ e2 = e + B /\ q = e + n /\ q2 = e + n + B + 1
  BY <1>4, MultiplesOfSize
<1>7. vault # Gone /\ vault # <<>> /\ m = n + 1
  BY <1>1 DEF IInv, OpenOK
<1> HIDE DEF B, s, c, seg, m, e, q, e2, q2, last
<1>11. Len(vault) - pos = q + 1 /\ pos <= Len(vault) - 1
  BY <1>5
<1>12. plain' = Written(plain, e, vals)
  <2> HIDE DEF vals
  <2>1. Len(vault) - 1 - pos - n = e
    BY <1>4, <1>6, <1>11
  <2> QED BY <2>1, <1>2
<1>8. ASSUME Opened(c, n, pos, seg)
      PROVE  /\ Len(seg) = Smaller(pos, B + 1) /\ hi \in Nat /\ e <= hi /\ hi <= Len(c)
             /\ plain' \in Seq(V) /\ (~saved => plain' = SubSeq(c, 1, hi))
             /\ pos' \in Nat
  <2>1. /\ Len(seg) = Smaller(pos, B + 1) /\ hi <= Len(c)
        /\ vals = SubSeq(c, e + 1, hi)
    BY <1>8 DEF Opened, B, e
  <2>2. Len(seg) \in Nat \ {0} /\ Len(seg) <= pos
    BY <2>1, <1>4 DEF Smaller
  <2>3. hi \in Nat /\ e <= hi
    BY <2>2, <1>6
  <2>4. 1 \in 1 .. Len(c) + 1 /\ e \in 1 - 1 .. Len(c) /\ hi \in e .. Len(c)
    BY <2>1, <2>3, <1>4, <1>5, <1>6
  <2> HIDE DEF hi, vals
  <2>5. SubSeq(c, 1, e) \o SubSeq(c, e + 1, hi) = SubSeq(c, 1, hi)
    BY <2>4, <1>4, ConcatAdjacentSubSeq
  <2>6. vals \in Seq(V)
    <3>1. e + 1 \in Nat \ {0} /\ e + 1 <= hi + 1
      BY <2>3, <1>6
    <3> QED BY <3>1, <2>1, <2>3, <1>4, PartProperties
  <2>7. plain' \in Seq(V)
    BY <2>6, <1>3, <1>6, <1>12, WrittenProperties
  <2>8. ASSUME ~saved PROVE plain' = SubSeq(c, 1, hi)
    <3>1. plain = SubSeq(c, 1, e)
      BY <2>8, <1>3
    <3>2. e = Len(plain)
      <4>1. 1 \in Nat \ {0} /\ 1 <= e + 1 /\ e - 1 + 1 = e
        BY <1>6
      <4> QED BY <4>1, <3>1, <1>4, <1>5, <1>6, PartProperties
    <3>3. plain' = plain \o vals
      BY <3>2, <2>6, <1>3, <1>12, WrittenAtEnd
    <3> QED BY <3>1, <3>3, <2>1, <2>5
  <2>9. pos' \in Nat
    BY <2>2, <1>2, <1>4
  <2> QED BY <2>1, <2>3, <2>7, <2>8, <2>9
<1>9. CASE pos <= B + 1
  <2>1. OpensAsLast(seg, s, m)
    <3>1. last = TRUE
      BY <1>9 DEF last
    <3> QED BY <3>1, <1>1, Zenon DEF OpensAsLast
  <2>2. /\ Opened(c, n, pos, seg)
        /\ seg = Sealed(s, m, SubSeq(c, e + 1, Len(c)), TRUE)
        /\ Len(c) = e + Len(seg) - 1 /\ (n = 0 \/ Len(seg) > 1)
    <3>1. Opening(vault, c, n, pos, seg) /\ m = n + 1
      BY <1>3, <1>7
    <3>2. Opened(c, n, pos, seg) /\ FinalChunk(seg, s, c, n, m)
      BY <3>1, <2>1, LastOpens
    <3> QED BY <3>2 DEF FinalChunk, B, e
  <2>3. Len(seg) = pos /\ plain' \in Seq(V) /\ (~saved => plain' = SubSeq(c, 1, Len(c)))
    <3>1. Len(seg) = Smaller(pos, B + 1) /\ plain' \in Seq(V) /\ (~saved => plain' = SubSeq(c, 1, hi))
      BY <2>2, <1>8
    <3>2. hi = Len(c)
      BY <2>2
    <3> QED BY <3>1, <3>2, <1>4, <1>9 DEF Smaller
  <2>4. (~saved => plain' = c) /\ pos' = 0
    <3>1. SubSeq(c, 1, Len(c)) = c
      BY <1>4, SubSeqFull
    <3>2. pos' = 0
      BY <2>3, <1>2, <1>4
    <3> QED BY <3>1, <3>2, <2>3
  <2>5. Whole(vault, s, c)
    <3>1. /\ Len(c) <= e + B /\ (n = 0 \/ e < Len(c)) /\ Len(vault) = Len(c) + n + 2
      <4>1. Len(c) = e + pos - 1 /\ (n = 0 \/ pos > 1)
        BY <2>2, <2>3
      <4> QED BY <4>1, <1>4, <1>6, <1>9, <1>11
    <3>2. SubSeq(vault, q + 2, Len(vault)) = Sealed(s, m, SubSeq(c, e + 1, Len(c)), TRUE)
      <4>1. Smaller(pos, B + 1) = pos
        BY <1>4, <1>9 DEF Smaller
      <4>2. Len(vault) - pos + 1 = q + 2 /\ Len(vault) - pos + Smaller(pos, B + 1) = Len(vault)
        BY <4>1, <1>4, <1>6, <1>11
      <4> QED BY <4>2, <2>2, <1>5
    <3> QED BY <3>1, <3>2, <1>3, <1>4, <1>7, LastChunk DEF B, e, q
  <2>6. m > 0 /\ m \in Nat
    BY <1>4, <1>7
  <2>7. OpenOK'
    <3>1. pos' = 0 /\ n' > 0 /\ pc' = "d_chunk" /\ vault' = vault /\ books' = books /\ saved' = saved
      BY <2>4, <2>6, <1>1, <1>2 DEF history
    <3>2. /\ vault' \in Seq(Cell) /\ vault' \notin {Gone, <<>>} /\ 0 <= Len(vault') - 1
          /\ Whole(vault', vault'[1].salt, books'[vault'[1].salt])
          /\ ~saved' => plain' = books'[vault'[1].salt]
      BY <3>1, <2>4, <2>5, <1>4, <1>5, <1>7 DEF s, c
    <3> QED BY <3>1, <3>2 DEF OpenOK
  <2>8. plain' \in Seq(V) /\ pos' \in Nat
    BY <2>3, <2>4
  <2> QED BY <2>7, <2>8, <1>1, <1>2, OpenTypes DEF m
<1>10. CASE ~(pos <= B + 1)
  <2>1. OpensAsNext(seg, s, m)
    <3>1. last = FALSE
      BY <1>10 DEF last
    <3> QED BY <3>1, <1>1, Zenon DEF OpensAsNext
  <2>2. /\ Opened(c, n, pos, seg)
        /\ seg = Sealed(s, m, SubSeq(c, e + 1, hi), FALSE)
    <3>1. Opening(vault, c, n, pos, seg) /\ m = n + 1
      BY <1>3, <1>7
    <3>2. Opened(c, n, pos, seg) /\ NextChunk(seg, s, c, n, m)
      BY <3>1, <2>1, NextOpens
    <3> QED BY <3>2 DEF NextChunk, B, e
  <2>3. /\ Len(seg) = B + 1 /\ hi = e2 /\ e2 <= Len(c)
        /\ plain' \in Seq(V) /\ (~saved => plain' = SubSeq(c, 1, e2))
    <3>1. /\ Len(seg) = Smaller(pos, B + 1) /\ hi <= Len(c)
          /\ plain' \in Seq(V) /\ (~saved => plain' = SubSeq(c, 1, hi))
      BY <2>2, <1>8
    <3>2. Len(seg) = B + 1
      BY <3>1, <1>4, <1>10 DEF Smaller
    <3>3. hi = e2
      BY <3>2, <1>4, <1>6
    <3> HIDE DEF hi
    <3> QED BY <3>1, <3>2, <3>3
  <2>4. pos' = pos - (B + 1) /\ pos' \in Nat \ {0}
    BY <2>3, <1>2, <1>4, <1>10
  <2>5. Len(vault) - pos' = q2 + 1 /\ pos' <= Len(vault) - 1 /\ q2 \in Nat
    BY <2>4, <1>4, <1>6, <1>11
  <2>6. SubSeq(vault, q + 2, q2 + 1) = Sealed(s, m, SubSeq(c, e + 1, e2), FALSE)
    <3>1. Smaller(pos, B + 1) = B + 1
      BY <1>4, <1>10 DEF Smaller
    <3>2. Len(vault) - pos + 1 = q + 2 /\ Len(vault) - pos + Smaller(pos, B + 1) = q2 + 1
      BY <3>1, <1>4, <1>6, <1>11
    <3> HIDE DEF hi
    <3> QED BY <3>2, <2>2, <2>3, <1>5
  <2>7. FullChunks(vault, s, c, m)
    <3>1. q2 + 1 <= Len(vault) /\ Len(vault) <= Len(vault) /\ \A i \in 1 .. Len(vault) : vault[i] = vault[i]
      BY <2>4, <2>5, <1>4
    <3> QED BY <3>1, <2>3, <2>6, <1>3, <1>4, <1>7, FullChunksMore DEF B, e, e2, q, q2
  <2>8. OpenOK'
    <3>1. /\ pos' > 0 /\ ~(pos' = 0) /\ n' = m /\ pc' = "d_chunk"
          /\ vault' = vault /\ books' = books /\ saved' = saved
      BY <2>4, <1>1, <1>2 DEF history
    <3>2. /\ vault' \in Seq(Cell) /\ vault' \notin {Gone, <<>>} /\ pos' <= Len(vault') - 1
          /\ Len(vault') - pos' = n' * (B + 1) + 1
          /\ FullChunks(vault', vault'[1].salt, books'[vault'[1].salt], n')
          /\ ~saved' => plain' = SubSeq(books'[vault'[1].salt], 1, n' * B)
      BY <3>1, <2>3, <2>5, <2>7, <1>4, <1>7 DEF s, c, e2, q2
    <3> QED BY <3>1, <3>2 DEF OpenOK, B
  <2>9. plain' \in Seq(V) /\ pos' \in Nat
    BY <2>3, <2>4
  <2> QED BY <2>8, <2>9, <1>1, <1>2, OpenTypes DEF m
<1> QED BY <1>9, <1>10

----------------------------------------------------------------------------
(* The other steps of an encryption.                                        *)

LEMMA StartStep ==
    ASSUME IInv, EncStart
    PROVE  IInv'
<1>1. /\ pc = "idle" /\ plain # Gone /\ runs < MaxRuns
      /\ runs' = runs + 1 /\ books' = Append(books, <<>>) /\ hash' = plain
      /\ spoilt' = FALSE /\ saved' = FALSE /\ pc' = "e_open"
      /\ UNCHANGED <<plain, plainDisk, vault, vaultDisk, cur, pos, n, wanted, dirty, scrubs>>
  BY DEF EncStart, files
<1>2. /\ runs \in Nat /\ runs' \in 0 .. MaxRuns /\ plain \in Seq(V)
      /\ books \in Seq(Seq(V)) /\ Len(books) = runs
  BY <1>1, RunsAssumption DEF IInv, TypeOK, V
<1>3. /\ books' \in Seq(Seq(V)) /\ Len(books') = runs' /\ books'[runs'] = <<>>
      /\ \A s \in 1 .. runs : books'[s] = books[s]
  <2>1. <<>> \in Seq(V)
    BY EmptySeq
  <2> QED BY <2>1, <1>1, <1>2, AppendProperties
<1>4. TypeOK'
  BY <1>1, <1>2, <1>3 DEF IInv, TypeOK, Steps, V
<1>5. CallOK'
  BY <1>1, <1>2 DEF IInv, CallOK, Encrypting, Shredding
<1>6. PassesOK'
  BY <1>1 DEF IInv, PassesOK
<1>7. ASSUME NEW v, Laid(v, books, runs)
      PROVE  Laid(v, books', runs') /\ (v = Gone \/ v = <<>> \/ v[1].salt < runs')
  <2>1. v = Gone \/ v = <<>> \/ v[1].salt \in 1 .. runs
    BY <1>7 DEF Laid
  <2>2. v = Gone \/ v = <<>> \/ books'[v[1].salt] = books[v[1].salt]
    BY <2>1, <1>3
  <2>3. runs' \in Nat /\ runs <= runs'
    BY <1>1, <1>2
  <2>4. Laid(v, books', runs')
    BY <2>2, <2>3, <1>2, <1>7, LaidLater
  <2> QED BY <2>1, <2>4, <1>1, <1>2
<1>8. VaultsOK'
  BY <1>1, <1>7 DEF IInv, VaultsOK
<1>9. SealOK'
  BY <1>1, <1>3, <1>7 DEF IInv, VaultsOK, SealOK
<1>10. HashOK' /\ BlocksOK' /\ OpenOK'
  BY <1>1 DEF HashOK, BlocksOK, OpenOK, Encrypting, Shredding
<1> QED BY <1>4, <1>5, <1>6, <1>8, <1>9, <1>10 DEF IInv

LEMMA OpenVaultStep ==
    ASSUME IInv, EncOpen
    PROVE  IInv'
<1>1. /\ pc = "e_open" /\ vault' = <<>> /\ pc' = "e_first"
      /\ UNCHANGED <<plain, plainDisk, vaultDisk, hash, cur, pos, n, runs,
                     books, wanted, spoilt, saved, dirty, scrubs>>
  BY DEF EncOpen, history
<1>2. TypeOK'
  <2>1. vault' \in Seq(Cell)
    BY <1>1, EmptySeq
  <2> QED BY <2>1, <1>1 DEF IInv, TypeOK, Steps
<1>3. CallOK' /\ PassesOK'
  BY <1>1 DEF IInv, CallOK, PassesOK, Encrypting, Shredding
<1>4. VaultsOK' /\ SealOK'
  BY <1>1 DEF IInv, VaultsOK, SealOK, Laid
<1>5. HashOK' /\ BlocksOK' /\ OpenOK'
  BY <1>1 DEF IInv, HashOK, BlocksOK, OpenOK, Encrypting, Shredding
<1> QED BY <1>2, <1>3, <1>4, <1>5 DEF IInv

LEMMA FirstStep ==
    ASSUME IInv, EncFirst
    PROVE  IInv'
<1>1. /\ pc = "e_first" /\ pc' = "e_seal"
      /\ UNCHANGED <<plain, plainDisk, vault, vaultDisk, hash, n, runs, books, wanted, saved, dirty, scrubs>>
  BY DEF EncFirst, files
<1>2. PICK k \in ReadSizes : Read(k) /\ cur' = SubSeq(plain, pos + 1, pos + k)
  BY DEF EncFirst
<1>3. /\ plain \in Seq(V) /\ pos = 0 /\ n = 0 /\ Len(plain) \in Nat /\ BUFFER_SIZE \in Nat
      /\ books[runs] = <<>>
  BY <1>1, LenProperties, SizeAssumption DEF IInv, CallOK, SealOK, Encrypting
<1>4. k \in Nat /\ cur' \in Seq(V) /\ pos' = k
  <2>1. cur' \in Seq(V) /\ k \in Nat
    BY <1>2, <1>3, NextBlock, ReadProperties
  <2> QED BY <2>1, <1>2, <1>3 DEF Read
<1>5. spoilt' \in BOOLEAN
  <2>1. spoilt' = (spoilt \/ k < Smaller(BUFFER_SIZE, Len(plain) - pos))
    BY <1>2 DEF Read
  <2> QED BY <2>1
<1>6. TypeOK'
  BY <1>1, <1>4, <1>5 DEF IInv, TypeOK, Steps, V
<1>7. CallOK' /\ PassesOK'
  BY <1>1 DEF IInv, CallOK, PassesOK, Encrypting, Shredding
<1>8. VaultsOK' /\ SealOK'
  BY <1>1, <1>3 DEF IInv, VaultsOK, SealOK
<1>13. k <= Len(plain) /\ cur' = SubSeq(plain, 1, k)
  <2>1. k > 0 => pos + k <= Len(plain)
    BY <1>2, <1>3, ReadProperties
  <2> QED BY <2>1, <1>2, <1>3, <1>4
<1>9. ASSUME ~spoilt'
      PROVE  k = Smaller(BUFFER_SIZE, Len(plain))
  <2>1. ~spoilt /\ k = Smaller(BUFFER_SIZE, Len(plain) - pos) /\ pos + k <= Len(plain)
    <3>1. pos \in Nat /\ pos <= Len(plain)
      BY <1>3
    <3> QED BY <3>1, <1>2, <1>3, <1>9, FullRead
  <2> QED BY <2>1, <1>3
<1>10. HashOK'
  <2>1. books'[runs'] \o cur' = SubSeq(plain', 1, pos')
    <3>1. <<>> \o cur' = cur'
      BY <1>4, ConcatEmptySeq
    <3> QED BY <3>1, <1>1, <1>3, <1>4, <1>13
  <2>2. saved' => spoilt'
    BY <1>1, <1>2 DEF Read, IInv, HashOK
  <2>3. ~saved => hash = plain
    BY <1>1 DEF IInv, HashOK, Encrypting
  <2> QED BY <2>1, <2>2, <2>3, <1>1, <1>4, <1>13 DEF HashOK, Encrypting, Shredding
<1>11. BlocksOK'
  <2> SUFFICES ASSUME ~spoilt' PROVE BlocksOK'
    BY DEF BlocksOK
  <2>1. (n + 1) * BUFFER_SIZE = BUFFER_SIZE /\ n * BUFFER_SIZE + 1 = 1
    BY <1>3
  <2>2. pos' = Smaller((n' + 1) * BUFFER_SIZE, Len(plain')) /\ cur' = SubSeq(plain', n' * BUFFER_SIZE + 1, pos')
    BY <2>1, <1>1, <1>4, <1>9, <1>13
  <2> QED BY <2>2, <1>1, <1>3 DEF BlocksOK
<1>12. OpenOK'
  BY <1>1 DEF OpenOK
<1> QED BY <1>6, <1>7, <1>8, <1>10, <1>11, <1>12 DEF IInv

LEMMA FlushStep ==
    ASSUME IInv, EncFlush
    PROVE  IInv'
<1>1. /\ pc = "e_flush" /\ n' = 0
      /\ \/ pc' = "e_record" /\ UNCHANGED <<pos, scrubs>>
         \/ pc' = "s_pass" /\ pos' = Len(plain) /\ scrubs' = 0
      /\ UNCHANGED <<plain, plainDisk, vault, vaultDisk, hash, cur, runs, books, wanted, spoilt, saved, dirty>>
  BY DEF EncFlush, files
<1>2. TypeOK'
  <2>1. Len(plain) \in Nat
    BY <1>1, LenProperties DEF IInv, CallOK, Encrypting
  <2> QED BY <2>1, <1>1, SizeAssumption DEF IInv, TypeOK, Steps
<1>3. CallOK'
  BY <1>1 DEF IInv, CallOK, Encrypting, Shredding
<1>4. PassesOK'
  <2>1. ~dirty
    BY <1>1 DEF IInv, PassesOK
  <2> QED BY <2>1, <1>1, SizeAssumption DEF PassesOK
<1>5. VaultsOK' /\ SealOK'
  BY <1>1 DEF IInv, VaultsOK, SealOK
<1>6. HashOK' /\ BlocksOK' /\ OpenOK'
  BY <1>1 DEF IInv, HashOK, BlocksOK, OpenOK, Encrypting, Shredding
<1> QED BY <1>2, <1>3, <1>4, <1>5, <1>6 DEF IInv

LEMMA ReturnStep ==
    ASSUME IInv, EncReturn \/ DecReturn
    PROVE  IInv'
<1>1. /\ pc \in {"e_record", "d_record"} /\ pc' = "idle"
      /\ cur' = <<>> /\ pos' = 0 /\ n' = 0 /\ hash' = <<>>
      /\ UNCHANGED <<plain, plainDisk, vault, vaultDisk, runs, books, wanted, spoilt, saved, dirty, scrubs>>
  BY DEF EncReturn, DecReturn, Return, files, history
<1>2. TypeOK'
  <2>1. <<>> \in Seq(Values \cup {Junk})
    BY EmptySeq
  <2> QED BY <2>1, <1>1 DEF IInv, TypeOK, Steps
<1>3. CallOK' /\ PassesOK'
  BY <1>1 DEF IInv, CallOK, PassesOK, Encrypting, Shredding
<1>4. VaultsOK' /\ SealOK'
  BY <1>1 DEF IInv, VaultsOK, SealOK
<1>5. HashOK' /\ BlocksOK' /\ OpenOK'
  BY <1>1 DEF IInv, HashOK, BlocksOK, OpenOK, Encrypting, Shredding
<1> QED BY <1>2, <1>3, <1>4, <1>5 DEF IInv

----------------------------------------------------------------------------
(* The steps of a shredding.                                                *)

LEMMA ShredStep ==
    ASSUME IInv, ShredPass \/ ShredSync \/ ShredTruncate \/ ShredUnlink
    PROVE  IInv'
<1>1. /\ pc \in Shredding
      /\ UNCHANGED <<vault, vaultDisk, hash, cur, pos, runs, books, wanted, spoilt, saved>>
  BY DEF ShredPass, ShredSync, ShredTruncate, ShredUnlink, files, history, Shredding
<1>2. plain \in Seq(V) /\ <<>> \in Seq(V) /\ n \in Nat /\ scrubs \in 0 .. Passes /\ Passes \in Nat \ {0}
  BY <1>1, EmptySeq, SizeAssumption DEF IInv, CallOK, TypeOK
<1>3. CASE ShredPass
  <2>1. /\ pc = "s_pass" /\ plain' = Written(plain, 0, [i \in 1 .. pos |-> Junk])
        /\ n' = n + 1 /\ dirty' = TRUE
        /\ pc' = "s_sync" /\ plainDisk' = plainDisk /\ scrubs' = scrubs
    BY <1>3 DEF ShredPass
  <2>2. plain' \in Seq(V)
    <3>1. pos \in Nat
      BY DEF IInv, TypeOK
    <3> QED BY <3>1, <2>1, <1>2, PassProperties
  <2>3. TypeOK'
    BY <2>1, <2>2, <1>1, <1>2 DEF IInv, TypeOK, Steps, V
  <2>4. CallOK'
    BY <2>1, <2>2, <1>1 DEF IInv, CallOK, Encrypting, Shredding
  <2>5. PassesOK'
    <3>1. ~dirty /\ n < Passes /\ scrubs <= n /\ (~saved => scrubs = n)
      BY <2>1 DEF IInv, PassesOK
    <3>2. n' \in 1 .. Passes /\ n' - 1 = n
      BY <3>1, <2>1, <1>2
    <3> QED BY <3>1, <3>2, <2>1, <1>1 DEF PassesOK
  <2>6. VaultsOK' /\ SealOK'
    BY <2>1, <1>1 DEF IInv, VaultsOK, SealOK
  <2>7. HashOK' /\ BlocksOK' /\ OpenOK'
    BY <2>1, <1>1 DEF IInv, HashOK, BlocksOK, OpenOK, Encrypting, Shredding
  <2> QED BY <2>3, <2>4, <2>5, <2>6, <2>7 DEF IInv
<1>4. CASE ShredSync
  <2>1. /\ pc = "s_sync" /\ plainDisk' = plain /\ dirty' = FALSE
        /\ scrubs' = (IF dirty THEN scrubs + 1 ELSE scrubs)
        /\ pc' = (IF n < Passes THEN "s_pass" ELSE "s_trunc")
        /\ plain' = plain /\ n' = n
    BY <1>4 DEF ShredSync, PlainReachesDisk
  <2>2. scrubs' \in Nat /\ scrubs' <= n /\ (~saved => scrubs' = n) /\ n \in 1 .. Passes
    BY <2>1, <1>2 DEF IInv, PassesOK
  <2>3. TypeOK'
    <3>1. scrubs' \in 0 .. Passes /\ pc' \in Steps
      BY <2>1, <2>2, <1>2 DEF Steps
    <3> QED BY <3>1, <2>1, <1>1, <1>2 DEF IInv, TypeOK, V
  <2>4. CallOK'
    BY <2>1, <1>1, <1>2 DEF IInv, CallOK, Encrypting, Shredding
  <2>5. PassesOK'
    BY <2>1, <2>2, <1>1, <1>2 DEF PassesOK
  <2>6. VaultsOK' /\ SealOK'
    BY <2>1, <1>1 DEF IInv, VaultsOK, SealOK
  <2>7. HashOK' /\ BlocksOK' /\ OpenOK'
    BY <2>1, <1>1 DEF IInv, HashOK, BlocksOK, OpenOK, Encrypting, Shredding
  <2> QED BY <2>3, <2>4, <2>5, <2>6, <2>7 DEF IInv
<1>5. CASE ShredTruncate
  <2>1. /\ pc = "s_trunc" /\ plain' = <<>> /\ plainDisk' = <<>> /\ dirty' = FALSE
        /\ pc' = "s_unlink" /\ n' = n /\ scrubs' = scrubs
    BY <1>5 DEF ShredTruncate
  <2>2. TypeOK'
    BY <2>1, <1>1, <1>2 DEF IInv, TypeOK, Steps, V
  <2>3. CallOK' /\ PassesOK'
    BY <2>1, <1>1, <1>2 DEF IInv, CallOK, PassesOK, Encrypting, Shredding
  <2>4. VaultsOK' /\ SealOK'
    BY <2>1, <1>1 DEF IInv, VaultsOK, SealOK
  <2>5. HashOK' /\ BlocksOK' /\ OpenOK'
    BY <2>1, <1>1 DEF IInv, HashOK, BlocksOK, OpenOK, Encrypting, Shredding
  <2> QED BY <2>2, <2>3, <2>4, <2>5 DEF IInv
<1>6. CASE ShredUnlink
  <2>1. /\ pc = "s_unlink" /\ plain' = Gone /\ pc' = "e_record"
        /\ UNCHANGED <<plainDisk, n, dirty, scrubs>>
    BY <1>6 DEF ShredUnlink, history
  <2>2. TypeOK'
    BY <2>1, <1>1 DEF IInv, TypeOK, Steps
  <2>3. CallOK' /\ PassesOK'
    BY <2>1, <1>1 DEF IInv, CallOK, PassesOK, Encrypting, Shredding
  <2>4. VaultsOK' /\ SealOK'
    BY <2>1, <1>1 DEF IInv, VaultsOK, SealOK
  <2>5. HashOK' /\ BlocksOK' /\ OpenOK'
    BY <2>1, <1>1 DEF IInv, HashOK, BlocksOK, OpenOK, Encrypting, Shredding
  <2> QED BY <2>2, <2>3, <2>4, <2>5 DEF IInv
<1> QED BY <1>3, <1>4, <1>5, <1>6

----------------------------------------------------------------------------
(* The other steps of a decryption.                                         *)

(* What a complete vault was sealed from is a content.                      *)
LEMMA BookOfVault ==
    ASSUME IInv, vault # Gone, vault # <<>>
    PROVE  /\ vault \in Seq(Cell) /\ Len(vault) \in Nat \ {0} /\ books[vault[1].salt] \in Seq(V)
           /\ vault[1] = HeaderCell(vault[1].salt)
           /\ \A m \in 2 .. Len(vault) : CellOK(vault[m], m, books[vault[1].salt])
<1>1. /\ vault \in Seq(Cell) /\ vault[1].salt \in 1 .. runs
      /\ vault[1] = HeaderCell(vault[1].salt)
      /\ \A m \in 2 .. Len(vault) : CellOK(vault[m], m, books[vault[1].salt])
  BY DEF IInv, VaultsOK, Laid
<1>2. books \in Seq(Seq(V)) /\ Len(books) = runs
  BY DEF IInv, TypeOK, V
<1>3. books[vault[1].salt] \in Seq(V)
  BY <1>1, <1>2, ElementOfSeq
<1>4. Len(vault) \in Nat \ {0}
  BY <1>1, EmptySeq, LenProperties
<1> QED BY <1>1, <1>3, <1>4

LEMMA DecOpenStep ==
    ASSUME IInv, DecOpen
    PROVE  IInv'
<1> DEFINE c == books[vault[1].salt]
<1>1. /\ pc = "idle" /\ vault # Gone /\ vault # <<>>
      /\ plain' = <<>> /\ pos' = Len(vault) - 1
      /\ wanted' = (IF Complete(vault) THEN c ELSE wanted)
      /\ saved' = FALSE /\ pc' = "d_chunk"
      /\ UNCHANGED <<plainDisk, vault, vaultDisk, hash, cur, n, runs, books, spoilt, dirty, scrubs>>
  BY DEF DecOpen
<1>2. vault \in Seq(Cell) /\ Len(vault) \in Nat \ {0} /\ c \in Seq(V) /\ n = 0
  BY <1>1, BookOfVault DEF IInv, CallOK
<1> HIDE DEF c
<1>3. pos' \in Nat /\ plain' \in Seq(V) /\ wanted' \in Seq(V)
  BY <1>1, <1>2, EmptySeq DEF IInv, TypeOK, V
<1>4. TypeOK'
  BY <1>1, <1>3 DEF IInv, TypeOK, Steps, V
<1>5. CallOK' /\ PassesOK'
  BY <1>1, <1>3 DEF IInv, CallOK, PassesOK, Encrypting, Shredding
<1>6. VaultsOK' /\ SealOK'
  BY <1>1 DEF IInv, VaultsOK, SealOK
<1>7. HashOK' /\ BlocksOK'
  BY <1>1 DEF HashOK, BlocksOK, Encrypting, Shredding
<1>8. OpenOK'
  <2>1. /\ n * BUFFER_SIZE = 0 /\ n * (BUFFER_SIZE + 1) = 0 /\ 0 <= Len(c)
        /\ Len(vault) - (Len(vault) - 1) = 1
    BY <1>2, SizeAssumption, LenProperties
  <2>2. FullChunks(vault, vault[1].salt, c, n)
    BY <2>1, <1>2 DEF FullChunks
  <2>3. SubSeq(c, 1, n * BUFFER_SIZE) = <<>>
    BY <2>1, <1>2, SubSeqEmpty
  <2>4. /\ vault' = vault /\ books' = books /\ n' = n
        /\ Len(vault') - pos' = n' * (BUFFER_SIZE + 1) + 1
        /\ plain' = SubSeq(c, 1, n' * BUFFER_SIZE) /\ ~(n' > 0)
    BY <2>1, <2>3, <1>1, <1>2
  <2> QED BY <2>2, <2>4, <1>1, <1>2 DEF OpenOK, c
<1> QED BY <1>4, <1>5, <1>6, <1>7, <1>8 DEF IInv

LEMMA DecChunkStep ==
    ASSUME IInv, DecChunk
    PROVE  IInv'
<1>1. /\ pc = "d_chunk" /\ pc' = "d_chunk"
      /\ UNCHANGED <<vault, vaultDisk, books, runs, spoilt, saved, dirty, scrubs>>
  BY DEF DecChunk, history
<1>2. TypeOK' /\ CallOK' /\ OpenOK'
  BY OpenStep
<1>3. PassesOK'
  BY <1>1 DEF IInv, PassesOK
<1>4. VaultsOK' /\ SealOK'
  BY <1>1 DEF IInv, VaultsOK, SealOK
<1>5. HashOK' /\ BlocksOK'
  BY <1>1 DEF IInv, HashOK, BlocksOK, Encrypting, Shredding
<1> QED BY <1>2, <1>3, <1>4, <1>5 DEF IInv

LEMMA DecEndStep ==
    ASSUME IInv, DecFail \/ DecDone
    PROVE  IInv'
<1>1. /\ pc = "d_chunk"
      /\ UNCHANGED <<plainDisk, vault, vaultDisk, runs, books, wanted, spoilt, saved, dirty, scrubs>>
  BY DEF DecFail, DecDone, files, history
<1>2. CASE DecFail
  <2>1. /\ plain' = Gone /\ pc' = "idle" /\ cur' = <<>> /\ pos' = 0 /\ n' = 0 /\ hash' = <<>>
        /\ <<>> \in Seq(Values \cup {Junk})
    BY <1>2, EmptySeq DEF DecFail, Return
  <2>2. TypeOK'
    BY <2>1, <1>1 DEF IInv, TypeOK, Steps
  <2>3. CallOK' /\ PassesOK'
    BY <2>1, <1>1 DEF IInv, CallOK, PassesOK, Encrypting, Shredding
  <2>4. VaultsOK' /\ SealOK'
    BY <2>1, <1>1 DEF IInv, VaultsOK, SealOK
  <2>5. HashOK' /\ BlocksOK' /\ OpenOK'
    BY <2>1, <1>1 DEF IInv, HashOK, BlocksOK, OpenOK, Encrypting, Shredding
  <2> QED BY <2>2, <2>3, <2>4, <2>5 DEF IInv
<1>3. CASE DecDone
  <2>1. pos = 0 /\ pc' = "d_record" /\ UNCHANGED <<plain, hash, cur, pos, n>>
    BY <1>3 DEF DecDone, files
  <2>2. TypeOK'
    BY <2>1, <1>1 DEF IInv, TypeOK, Steps
  <2>3. CallOK' /\ PassesOK'
    BY <2>1, <1>1 DEF IInv, CallOK, PassesOK, Encrypting, Shredding
  <2>4. VaultsOK' /\ SealOK'
    BY <2>1, <1>1 DEF IInv, VaultsOK, SealOK
  <2>5. HashOK' /\ BlocksOK' /\ OpenOK'
    BY <2>1, <1>1 DEF IInv, HashOK, BlocksOK, OpenOK, Encrypting, Shredding
  <2> QED BY <2>2, <2>3, <2>4, <2>5 DEF IInv
<1> QED BY <1>2, <1>3

----------------------------------------------------------------------------
(* The environment.                                                         *)

LEMMA SaveStep ==
    ASSUME IInv, Save
    PROVE  IInv'
<1>1. /\ wanted' \in Edits /\ plain' = wanted' /\ plainDisk' = wanted'
      /\ spoilt' = TRUE /\ saved' = TRUE /\ dirty' = FALSE
      /\ UNCHANGED <<vault, vaultDisk, pc, hash, cur, pos, n, runs, books, scrubs>>
  BY DEF Save
<1>2. wanted' \in Seq(V)
  BY <1>1, ContentsAssumption DEF V
<1>3. TypeOK'
  BY <1>1, <1>2 DEF IInv, TypeOK, V
<1>4. CallOK' /\ PassesOK'
  <2>1. CallOK'
    BY <1>1, <1>2 DEF IInv, CallOK, Encrypting, Shredding
  <2>2. scrubs \in Nat /\ n \in Nat
    BY DEF IInv, TypeOK
  <2> QED BY <2>1, <2>2, <1>1 DEF IInv, PassesOK
<1>5. VaultsOK' /\ SealOK'
  BY <1>1 DEF IInv, VaultsOK, SealOK
<1>6. HashOK' /\ BlocksOK' /\ OpenOK'
  BY <1>1 DEF IInv, HashOK, BlocksOK, OpenOK
<1> QED BY <1>3, <1>4, <1>5, <1>6 DEF IInv

LEMMA WriteBackStep ==
    ASSUME IInv, WriteBack
    PROVE  IInv'
<1>1. /\ pc \notin {"e_open", "e_first", "e_seal", "d_chunk"}
      /\ UNCHANGED <<plain, vault, pc, hash, cur, pos, n, runs, books, wanted, spoilt, saved>>
  BY DEF WriteBack
<1>2. \/ /\ plainDisk' = plain /\ dirty' = FALSE
         /\ scrubs' = (IF dirty THEN scrubs + 1 ELSE scrubs) /\ vaultDisk' = vaultDisk
      \/ vaultDisk' = vault /\ UNCHANGED <<plainDisk, dirty, scrubs>>
  BY DEF WriteBack, PlainReachesDisk
<1>3. n \in Nat /\ Passes \in Nat /\ scrubs \in 0 .. Passes /\ dirty \in BOOLEAN
  BY SizeAssumption DEF IInv, TypeOK
<1>4. PassesOK' /\ scrubs' \in 0 .. Passes
  <2>1. CASE dirty
    <3>1. pc = "s_sync" /\ scrubs <= n - 1 /\ (~saved => scrubs = n - 1) /\ n \in 1 .. Passes
      BY <2>1 DEF IInv, PassesOK
    <3>2. \/ ~dirty' /\ scrubs' = scrubs + 1
          \/ dirty' /\ scrubs' = scrubs
      BY <2>1, <1>2, Zenon
    <3>3. scrubs + 1 <= n /\ (~saved => scrubs + 1 = n) /\ scrubs \in 0 .. Passes /\ scrubs + 1 \in 0 .. Passes
      BY <3>1, <1>3
    <3>4. pc' = "s_sync" /\ n' = n /\ saved' = saved
      BY <3>1, <1>1
    <3>5. CASE ~dirty' /\ scrubs' = scrubs + 1
      BY <3>1, <3>3, <3>4, <3>5 DEF PassesOK
    <3>6. CASE dirty' /\ scrubs' = scrubs
      BY <3>1, <3>3, <3>4, <3>6 DEF PassesOK
    <3> QED BY <3>2, <3>5, <3>6
  <2>2. CASE ~dirty
    <3>1. scrubs' = scrubs /\ dirty' = FALSE
      <4>1. dirty = FALSE
        BY <2>2, <1>3
      <4> QED BY <4>1, <1>2
    <3> QED BY <3>1, <2>2, <1>1, <1>3 DEF IInv, PassesOK
  <2> QED BY <2>1, <2>2, Zenon
<1>5. TypeOK'
  BY <1>1, <1>2, <1>4 DEF IInv, TypeOK
<1>6. CallOK'
  BY <1>1 DEF IInv, CallOK
<1>7. VaultsOK' /\ SealOK'
  BY <1>1, <1>2 DEF IInv, VaultsOK, SealOK
<1>8. HashOK' /\ BlocksOK' /\ OpenOK'
  BY <1>1 DEF IInv, HashOK, BlocksOK, OpenOK
<1> QED BY <1>4, <1>5, <1>6, <1>7, <1>8 DEF IInv

(* A part of the vault is laid as the whole is.                             *)
LEMMA PartIsLaid ==
    ASSUME IInv, vault # Gone, NEW k \in 0 .. Len(vault)
    PROVE  SubSeq(vault, 1, k) \in Seq(Cell) /\ Laid(SubSeq(vault, 1, k), books, runs)
<1>1. vault \in Seq(Cell) /\ runs \in Nat /\ Laid(vault, books, runs)
  BY RunsAssumption DEF IInv, TypeOK, VaultsOK
<1>2. Laid(SubSeq(vault, 1, k), books, runs)
  BY <1>1, LaidCut
<1>3. 1 \in Nat \ {0} /\ k \in Nat /\ 1 <= k + 1 /\ k <= Len(vault)
  BY <1>1, LenProperties
<1> QED BY <1>1, <1>2, <1>3, PartProperties

LEMMA PowerCutStep ==
    ASSUME IInv, PowerCut
    PROVE  IInv'
<1>1. /\ plain' \in {plain, plainDisk} /\ plainDisk' = plain'
      /\ vaultDisk' = vault' /\ dirty' = FALSE
      /\ pc' = "idle" /\ cur' = <<>> /\ pos' = 0 /\ n' = 0 /\ hash' = <<>>
      /\ UNCHANGED <<runs, books, wanted, spoilt, saved, scrubs>>
  BY DEF PowerCut, Return
<1>2. vault' \in Seq(Cell) \cup {Gone} /\ Laid(vault', books, runs)
  <2>1. CASE vault' \in {vault, vaultDisk}
    BY <2>1 DEF IInv, TypeOK, VaultsOK
  <2>2. CASE vault # Gone /\ \E k \in 0 .. Len(vault) : vault' = SubSeq(vault, 1, k)
    BY <2>2, PartIsLaid
  <2> QED BY <2>1, <2>2 DEF PowerCut
<1>3. TypeOK'
  <2>1. <<>> \in Seq(Values \cup {Junk})
    BY EmptySeq
  <2> QED BY <2>1, <1>1, <1>2 DEF IInv, TypeOK, Steps
<1>4. CallOK' /\ PassesOK'
  BY <1>1 DEF CallOK, PassesOK, Encrypting, Shredding
<1>5. VaultsOK' /\ SealOK'
  BY <1>1, <1>2 DEF VaultsOK, SealOK
<1>6. HashOK' /\ BlocksOK' /\ OpenOK'
  BY <1>1 DEF IInv, HashOK, BlocksOK, OpenOK, Encrypting, Shredding
<1> QED BY <1>3, <1>4, <1>5, <1>6 DEF IInv

LEMMA CutStep ==
    ASSUME IInv, Cut
    PROVE  IInv'
<1>1. /\ pc = "idle" /\ vault # Gone /\ vaultDisk' = vault'
      /\ \E k \in 0 .. Len(vault) : vault' = SubSeq(vault, 1, k)
      /\ UNCHANGED <<plain, plainDisk, pc, hash, cur, pos, n, runs, books, wanted, spoilt, saved, dirty, scrubs>>
  BY DEF Cut, history
<1>2. vault' \in Seq(Cell) /\ Laid(vault', books, runs)
  BY <1>1, PartIsLaid
<1>3. TypeOK'
  BY <1>1, <1>2 DEF IInv, TypeOK
<1>4. CallOK' /\ PassesOK'
  BY <1>1 DEF IInv, CallOK, PassesOK
<1>5. VaultsOK' /\ SealOK'
  BY <1>1, <1>2 DEF VaultsOK, SealOK
<1>6. HashOK' /\ BlocksOK' /\ OpenOK'
  BY <1>1 DEF IInv, HashOK, BlocksOK, OpenOK, Encrypting, Shredding
<1> QED BY <1>3, <1>4, <1>5, <1>6 DEF IInv

----------------------------------------------------------------------------
(* The invariant, and what it says.                                         *)

LEMMA InvInit ==
    ASSUME Init
    PROVE  IInv
<1>1. wanted \in Seq(V) /\ <<>> \in Seq(V) /\ <<>> \in Seq(Seq(V)) /\ Len(<<>>) = 0
  BY ContentsAssumption, EmptySeq DEF Init, V
<1>2. TypeOK
  <2>1. runs \in 0 .. MaxRuns /\ pos \in Nat /\ n \in Nat /\ scrubs \in 0 .. Passes
    BY RunsAssumption, SizeAssumption DEF Init
  <2>2. books \in Seq(Seq(V)) /\ Len(books) = runs
    BY <1>1 DEF Init
  <2>3. {hash, cur} \subseteq Seq(V) /\ {plain, plainDisk} \subseteq Seq(V) \cup {Gone}
    BY <1>1 DEF Init
  <2>4. {vault, vaultDisk} \subseteq Seq(Cell) \cup {Gone} /\ pc \in Steps
    BY DEF Init, Steps
  <2>5. wanted \in Seq(V) /\ {spoilt, saved, dirty} \subseteq BOOLEAN
    BY <1>1 DEF Init
  <2> QED BY <2>1, <2>2, <2>3, <2>4, <2>5 DEF TypeOK, V
<1>3. CallOK /\ PassesOK /\ VaultsOK /\ SealOK
  BY DEF Init, CallOK, PassesOK, VaultsOK, SealOK, Laid, Encrypting, Shredding
<1>4. HashOK /\ BlocksOK /\ OpenOK
  BY DEF Init, HashOK, BlocksOK, OpenOK, Encrypting, Shredding
<1> QED BY <1>2, <1>3, <1>4 DEF IInv

LEMMA InvNext ==
    ASSUME IInv, [Next]_vars
    PROVE  IInv'
<1>1. CASE EncStart
  BY <1>1, StartStep
<1>2. CASE EncOpen
  BY <1>2, OpenVaultStep
<1>3. CASE EncFirst
  BY <1>3, FirstStep
<1>4. CASE EncSeal
  BY <1>4, SealStep, SealHash, SealBlocks DEF IInv
<1>5. CASE EncFlush
  BY <1>5, FlushStep
<1>6. CASE EncReturn \/ DecReturn
  BY <1>6, ReturnStep
<1>7. CASE ShredPass \/ ShredSync \/ ShredTruncate \/ ShredUnlink
  BY <1>7, ShredStep
<1>8. CASE DecOpen
  BY <1>8, DecOpenStep
<1>9. CASE DecChunk
  BY <1>9, DecChunkStep
<1>10. CASE DecFail \/ DecDone
  BY <1>10, DecEndStep
<1>11. CASE Save
  BY <1>11, SaveStep
<1>12. CASE WriteBack
  BY <1>12, WriteBackStep
<1>13. CASE PowerCut
  BY <1>13, PowerCutStep
<1>14. CASE Cut
  BY <1>14, CutStep
<1>15. CASE UNCHANGED vars
  <2>1. UNCHANGED <<plain, plainDisk, vault, vaultDisk, pc, hash, cur, pos, n, runs,
                    books, wanted, spoilt, saved, dirty, scrubs>>
    BY <1>15 DEF vars, files, history
  <2>2. (TypeOK /\ CallOK /\ PassesOK)'
    BY <2>1 DEF IInv, TypeOK, CallOK, PassesOK
  <2>3. (VaultsOK /\ SealOK)'
    BY <2>1 DEF IInv, VaultsOK, SealOK
  <2>4. (HashOK /\ BlocksOK /\ OpenOK)'
    BY <2>1 DEF IInv, HashOK, BlocksOK, OpenOK
  <2> QED BY <2>2, <2>3, <2>4 DEF IInv
<1> QED
  BY <1>1, <1>2, <1>3, <1>4, <1>5, <1>6, <1>7, <1>8, <1>9, <1>10, <1>11, <1>12, <1>13, <1>14, <1>15
  DEF Next

LEMMA Invariance == Spec => []IInv
<1>1. IInv /\ [Next]_vars => IInv'
  BY InvNext
<1> QED BY InvInit, <1>1, PTL DEF Spec

(* Every variable keeps its type.                                           *)
THEOREM TypeCorrect == Spec => []TypeOK
<1>1. IInv => TypeOK
  BY DEF IInv
<1> QED BY <1>1, Invariance, PTL

(* remove_file comes after as many passes over the disk as secure_delete    *)
(* makes, if nobody saved the file during the call: neither the operating   *)
(* system's own writing back nor a pass that is still in memory can lose    *)
(* one of them.                                                             *)
THEOREM EveryPassIsOnDisk == Spec => []EveryPassReachesDisk
<1>1. IInv => EveryPassReachesDisk
  BY DEF IInv, PassesOK, EveryPassReachesDisk
<1> QED BY <1>1, Invariance, PTL

(* Whatever the reads returned, the hash in the record is that of what the  *)
(* chunks hold, if nobody saved the file during the call.                   *)
THEOREM RecordsNameWhatIsSealed == Spec => []RecordNamesSealed
<1>1. IInv => RecordNamesSealed
  BY DEF IInv, HashOK, RecordNamesSealed
<1> QED BY <1>1, Invariance, PTL

(* With full reads the loop of async_encrypt cuts the content at the block  *)
(* size, empty files and files of full blocks among them.                   *)
THEOREM FullReadsGiveWholeVaults == Spec => []FullReadsSealWhole
<1>1. IInv => FullReadsSealWhole
  BY DEF IInv, BlocksOK, FullReadsSealWhole
<1> QED BY <1>1, Invariance, PTL

(* A decryption that gets to its end has opened everything that was sealed, *)
(* or a bare header, wherever the vault was cut and whatever the reads had  *)
(* cut it by; and it has written all of that where nobody saved meanwhile.  *)
THEOREM WhatOpensIsWhole == Spec => []OpenedIsWhole
<1>1. IInv => OpenedIsWhole
  <2> SUFFICES ASSUME IInv, pc = "d_record", n > 0
               PROVE  Complete(vault) /\ (saved \/ plain = books[vault[1].salt])
    BY DEF OpenedIsWhole
  <2>1. /\ vault # Gone /\ vault # <<>> /\ (~saved => plain = books[vault[1].salt])
        /\ Whole(vault, vault[1].salt, books[vault[1].salt])
    BY DEF IInv, OpenOK
  <2> QED BY <2>1 DEF Complete
<1> QED BY <1>1, Invariance, PTL

----------------------------------------------------------------------------
(* Whole vaults.                                                            *)

\* p cells of v are left after its header and k full chunks, and seg is what
\* is read of them.
Left(v, p, k, seg) ==
    /\ p <= Len(v) - 1 /\ Len(v) - p = k * (BUFFER_SIZE + 1) + 1
    /\ seg = SubSeq(v, Len(v) - p + 1, Len(v) - p + Smaller(p, BUFFER_SIZE + 1))

\* seg is the i-th block of c as it was sealed, the last one if it takes all
\* that is left.
IsChunk(seg, s, c, i, p) ==
    /\ Block(c, i) \in Seq(V) /\ Len(seg) = Len(Block(c, i)) + 1
    /\ p <= BUFFER_SIZE + 1 => seg = Sealed(s, i, Block(c, i), TRUE)
    /\ ~(p <= BUFFER_SIZE + 1) => seg = Sealed(s, i, Block(c, i), FALSE)

(* The chunk after k full ones, when p cells are left.                      *)
LEMMA WholeChunk ==
    ASSUME NEW v \in Seq(Cell), NEW c \in Seq(V), NEW s, Whole(v, s, c),
           NEW k \in Nat, NEW p \in Nat \ {0}, NEW i, i = k + 1,
           NEW seg, Left(v, p, k, seg)
    PROVE  IsChunk(seg, s, c, i, p)
<1> DEFINE B == BUFFER_SIZE
           L == Len(c)
           blk == Block(c, i)
           start == (i - 1) * (B + 1) + 2
<1>1. PICK t \in 1 .. L + 1 :
         /\ L <= t * B
         /\ t = 1 \/ (t - 1) * B < L
         /\ Len(v) = 1 + L + t
         /\ \A j \in 1 .. t :
               LET from == (j - 1) * (B + 1) + 2 IN
               SubSeq(v, from, from + Len(Block(c, j))) = Sealed(s, j, Block(c, j), j = t)
  BY DEF Whole
<1>2. L \in Nat /\ Len(v) \in Nat /\ B \in Nat \ {0} /\ t \in Nat \ {0} /\ i \in Nat \ {0} /\ i - 1 = k
  <2>1. L \in Nat /\ Len(v) \in Nat
    BY LenProperties
  <2> QED BY <2>1, SizeAssumption
<1> DEFINE e == k * B
           e2 == i * B
           et == t * B
           ep == (t - 1) * B
           q == k * (B + 1)
<1>3. e \in Nat /\ e2 = e + B /\ q = e + k /\ et \in Nat /\ ep \in Nat
  <2>1. e \in Nat /\ e2 = e + B /\ q = e + k
    BY <1>2, MultiplesOfSize
  <2>2. et \in Nat
    BY <1>2, MultiplesOfSize
  <2>3. t - 1 \in Nat
    BY <1>2
  <2>4. ep \in Nat
    BY <2>3, MultiplesOfSize
  <2> QED BY <2>1, <2>2, <2>4
<1>4. L <= et /\ (t = 1 \/ ep < L) /\ Len(v) = 1 + L + t /\ Len(v) - p = q + 1
  BY <1>1 DEF Left
<1>5. k < t
  <2> SUFFICES ASSUME t <= k PROVE FALSE
    BY <1>2
  <2>1. et <= e
    BY <1>2, SizeAssumption, Multiples DEF et, e
  <2> HIDE DEF e, e2, et, ep, q, L, B
  <2>2. p = L + t - e - k
    BY <1>2, <1>3, <1>4
  <2> QED BY <2>1, <2>2, <1>2, <1>3, <1>4
<1>6. i \in 1 .. t /\ (i < t => e2 <= ep)
  <2>1. i \in 1 .. t
    BY <1>2, <1>5
  <2>2. ASSUME i < t PROVE e2 <= ep
    <3>1. t - 1 \in Nat /\ i <= t - 1 /\ i \in Nat
      BY <2>2, <1>2
    <3> QED BY <3>1, SizeAssumption, Multiples
  <2> QED BY <2>1, <2>2
<1>7. SubSeq(v, start, start + Len(blk)) = Sealed(s, i, blk, i = t)
  BY <1>1, <1>6
<1> HIDE DEF e, e2, et, ep, q
<1>8. e <= L
  BY <1>2, <1>3, <1>4, <1>5, <1>6
<1>9. blk \in Seq(V) /\ Len(blk) = Smaller(e2, L) - e
  <2>1. (i - 1) * B = e /\ i * B = e2
    BY <1>2 DEF e, e2
  <2>2. (i - 1) * BUFFER_SIZE <= Len(c)
    BY <2>1, <1>8
  <2>3. Block(c, i) \in Seq(V) /\ Len(Block(c, i)) = Smaller(i * BUFFER_SIZE, Len(c)) - (i - 1) * BUFFER_SIZE
    BY <2>2, <1>2, BlockProperties
  <2> QED BY <2>1, <2>3
<1>10. start = q + 2
  BY <1>2 DEF q
<1> HIDE DEF B, L, blk, start
<1>11. /\ p <= B + 1 => i = t
       /\ ~(p <= B + 1) => i # t
       /\ Len(blk) \in Nat /\ Smaller(p, B + 1) = Len(blk) + 1 /\ Len(blk) + 1 <= p
  <2>1. CASE i = t
    <3>4. e2 = et /\ t = k + 1
      BY <2>1 DEF e2, et
    <3>1. p = L + 1 - e /\ e2 >= L
      BY <3>4, <1>2, <1>3, <1>4
    <3>2. Len(blk) = L - e
      BY <3>1, <1>2, <1>3, <1>9 DEF Smaller
    <3>3. p <= B + 1 /\ Smaller(p, B + 1) = p
      BY <3>1, <1>2, <1>3 DEF Smaller
    <3> QED BY <3>1, <3>2, <3>3, <2>1, <1>2, <1>3, <1>8
  <2>2. CASE i < t
    <3>1. ep < L /\ e2 < L
      BY <2>2, <1>2, <1>3, <1>4, <1>6
    <3>2. Len(blk) = B
      BY <3>1, <1>2, <1>3, <1>9 DEF Smaller
    <3>3. p = L + t - e - k
      BY <1>2, <1>3, <1>4
    <3>4. ~(p <= B + 1)
      BY <3>1, <3>3, <2>2, <1>2, <1>3
    <3>5. Smaller(p, B + 1) = B + 1 /\ i # t
      BY <3>4, <2>2, <1>2 DEF Smaller
    <3> QED BY <3>2, <3>4, <3>5, <1>2
  <2> QED BY <2>1, <2>2, <1>2, <1>6
<1>16. /\ start = Len(v) - p + 1
       /\ start + Len(blk) = Len(v) - p + Smaller(p, B + 1)
       /\ start + Len(blk) <= Len(v) /\ start \in Nat \ {0}
  <2>1. start = e + k + 2 /\ Len(v) - p = e + k + 1
    BY <1>2, <1>3, <1>4, <1>10
  <2>2. Len(v) - p \in Nat /\ start = Len(v) - p + 1 /\ start \in Nat \ {0}
    BY <2>1, <1>2, <1>3
  <2>3. start + Len(blk) = Len(v) - p + (Len(blk) + 1)
    BY <2>2, <1>11
  <2>4. start + Len(blk) <= Len(v)
    BY <2>3, <1>2, <1>11
  <2> QED BY <2>2, <2>3, <2>4, <1>11
<1>12. seg = SubSeq(v, start, start + Len(blk))
  BY <1>16 DEF B, Left
<1>13. Len(seg) = Len(blk) + 1
  <2>1. start + Len(blk) \in Nat /\ start <= (start + Len(blk)) + 1 /\ start + Len(blk) - start + 1 = Len(blk) + 1
    BY <1>11, <1>16
  <2>2. Len(SubSeq(v, start, start + Len(blk))) = start + Len(blk) - start + 1
    BY <2>1, <1>16, PartProperties
  <2> QED BY <2>1, <2>2, <1>12
<1>14. ASSUME p <= B + 1 PROVE seg = Sealed(s, i, blk, TRUE)
  <2>1. (i = t) = TRUE
    BY <1>11, <1>14
  <2> QED BY <2>1, <1>7, <1>12
<1>15. ASSUME ~(p <= B + 1) PROVE seg = Sealed(s, i, blk, FALSE)
  <2>1. (i = t) = FALSE
    BY <1>11, <1>15
  <2> QED BY <2>1, <1>7, <1>12
<1> QED BY <1>9, <1>13, <1>14, <1>15 DEF blk, B, IsChunk

LEMMA SealedIsAuthentic ==
    ASSUME NEW s, NEW i, NEW p \in Seq(V), NEW seg, Len(seg) = Len(p) + 1, seg # <<>>
    PROVE  /\ seg = Sealed(s, i, p, TRUE) => OpensAsLast(seg, s, i)
           /\ seg = Sealed(s, i, p, FALSE) => OpensAsNext(seg, s, i)
<1> DEFINE vals == [j \in 1 .. Len(seg) - 1 |-> seg[j].val]
<1>1. Len(p) \in Nat /\ Len(seg) - 1 = Len(p) /\ p = [j \in 1 .. Len(p) |-> p[j]]
  BY LenProperties
<1>2. ASSUME NEW t, \A j \in 1 .. Len(p) : t[j].val = p[j], seg = t
      PROVE  vals = p
  <2>1. \A j \in 1 .. Len(p) : seg[j].val = p[j]
    BY <1>2
  <2>2. vals = [j \in 1 .. Len(p) |-> p[j]]
    BY <2>1, <1>1
  <2> QED BY <2>2, <1>1
<1> HIDE DEF vals
<1>3. ASSUME seg = Sealed(s, i, p, TRUE) PROVE OpensAsLast(seg, s, i)
  <2>1. \A j \in 1 .. Len(p) : Sealed(s, i, p, TRUE)[j].val = p[j]
    BY <1>1 DEF Sealed
  <2>2. vals = p
    BY <2>1, <1>2, <1>3
  <2> QED BY <2>2, <1>3, Zenon DEF OpensAsLast, Authentic, vals
<1>4. ASSUME seg = Sealed(s, i, p, FALSE) PROVE OpensAsNext(seg, s, i)
  <2>1. \A j \in 1 .. Len(p) : Sealed(s, i, p, FALSE)[j].val = p[j]
    BY <1>1 DEF Sealed
  <2>2. vals = p
    BY <2>1, <1>2, <1>4
  <2> QED BY <2>2, <1>4, Zenon DEF OpensAsNext, Authentic, vals
<1> QED BY <1>3, <1>4

LEMMA WholeOpens ==
    ASSUME IInv, pc = "d_chunk", pos > 0, Complete(vault)
    PROVE  SegmentOpens
<1> DEFINE s == vault[1].salt
           c == books[s]
           seg == Segment
           i == n + 1
           last == pos <= BUFFER_SIZE + 1
<1>1. Opening(vault, c, n, pos, seg)
  BY BeforeOpen
<1>2. Whole(vault, s, c)
  BY DEF Complete
<1>3. i = n + 1
  OBVIOUS
<1> HIDE DEF s, c, seg, i
<1>4. /\ vault \in Seq(Cell) /\ c \in Seq(V) /\ n \in Nat /\ pos \in Nat \ {0}
      /\ Left(vault, pos, n, seg)
      /\ seg # <<>>
  BY <1>1, OpeningLength DEF Opening, Left
<1>5. /\ Block(c, i) \in Seq(V) /\ Len(seg) = Len(Block(c, i)) + 1
      /\ pos <= BUFFER_SIZE + 1 => seg = Sealed(s, i, Block(c, i), TRUE)
      /\ ~(pos <= BUFFER_SIZE + 1) => seg = Sealed(s, i, Block(c, i), FALSE)
  <2>1. IsChunk(seg, s, c, i, pos)
    BY <1>2, <1>3, <1>4, WholeChunk
  <2> QED BY <2>1 DEF IsChunk
<1>6. Authentic(seg, s, i, last)
  <2>1. CASE pos <= BUFFER_SIZE + 1
    <3>1. last = TRUE
      BY <2>1
    <3>2. OpensAsLast(seg, s, i)
      BY <2>1, <1>4, <1>5, SealedIsAuthentic
    <3> HIDE DEF last
    <3> QED BY <3>1, <3>2, Zenon DEF OpensAsLast
  <2>2. CASE ~(pos <= BUFFER_SIZE + 1)
    <3>1. last = FALSE
      BY <2>2
    <3>2. OpensAsNext(seg, s, i)
      BY <2>2, <1>4, <1>5, SealedIsAuthentic
    <3> HIDE DEF last
    <3> QED BY <3>1, <3>2, Zenon DEF OpensAsNext
  <2> QED BY <2>1, <2>2
<1> QED BY <1>6, Zenon DEF SegmentOpens, s, c, seg, i, last

(* The size of the vault and the read-ahead of the encryption agree on      *)
(* which chunk is the last one: a complete vault cut at the block size is   *)
(* never refused, be its content empty, full blocks or any other.           *)
THEOREM CompleteVaultsOpen == Spec => WholeVaultsOpen
<1>1. IInv /\ [Next]_vars => [DecFail => ~Complete(vault)]_vars
  BY WholeOpens DEF DecFail
<1> QED BY <1>1, Invariance, PTL DEF Spec, WholeVaultsOpen

(* A whole vault has a last chunk.                                          *)
LEMMA WholeHasLast ==
    ASSUME NEW v \in Seq(Cell), NEW c \in Seq(V), NEW s, Whole(v, s, c)
    PROVE  \E m \in 2 .. Len(v) : v[m].last
<1> DEFINE B == BUFFER_SIZE
           L == Len(c)
<1>1. PICK k \in 1 .. L + 1 :
         /\ L <= k * B
         /\ k = 1 \/ (k - 1) * B < L
         /\ Len(v) = 1 + L + k
         /\ \A i \in 1 .. k :
               LET start == (i - 1) * (B + 1) + 2 IN
               SubSeq(v, start, start + Len(Block(c, i))) = Sealed(s, i, Block(c, i), i = k)
  BY DEF Whole
<1> DEFINE e == (k - 1) * B
           blk == Block(c, k)
           start == (k - 1) * (B + 1) + 2
<1>2. L \in Nat /\ Len(v) \in Nat /\ B \in Nat /\ k \in Nat \ {0} /\ k - 1 \in Nat
  <2>1. L \in Nat /\ Len(v) \in Nat
    BY LenProperties
  <2> QED BY <2>1, SizeAssumption
<1>3. e \in Nat /\ start = e + (k - 1) + 2 /\ k * B = e + B
  <2>1. /\ (k - 1) * BUFFER_SIZE \in Nat
        /\ (k - 1) * (BUFFER_SIZE + 1) = (k - 1) * BUFFER_SIZE + (k - 1)
        /\ k * BUFFER_SIZE = (k - 1) * BUFFER_SIZE + BUFFER_SIZE
    BY <1>2, ChunkPlaces
  <2> QED BY <2>1
<1>4. e <= L /\ L <= e + B /\ Len(v) = 1 + L + k
  <2>1. k = 1 => e = 0
    BY <1>2
  <2> QED BY <2>1, <1>1, <1>2, <1>3
<1>5. blk \in Seq(V) /\ Len(blk) = L - e
  <2>1. (k - 1) * BUFFER_SIZE <= Len(c)
    BY <1>4
  <2>2. blk \in Seq(V) /\ Len(blk) = Smaller(k * BUFFER_SIZE, Len(c)) - (k - 1) * BUFFER_SIZE
    BY <2>1, <1>2, BlockProperties
  <2>3. Smaller(k * B, L) = L
    BY <1>2, <1>3, <1>4 DEF Smaller
  <2> QED BY <2>2, <2>3
<1>6. SubSeq(v, start, start + Len(blk)) = Sealed(s, k, blk, TRUE)
  <2>1. k \in 1 .. k /\ (k = k) = TRUE
    BY <1>2
  <2>2. SubSeq(v, start, start + Len(blk)) = Sealed(s, k, blk, k = k)
    BY <2>1, <1>1
  <2> QED BY <2>1, <2>2
<1> HIDE DEF e, blk, start, L, B
<1>7. start \in 2 .. Len(v) /\ start + Len(blk) <= Len(v) /\ Len(blk) \in Nat
  BY <1>2, <1>3, <1>4, <1>5
<1>8. SubSeq(v, start, start + Len(blk))[1] = v[start]
  <2>1. /\ start \in Nat \ {0} /\ start + Len(blk) \in Nat /\ start <= (start + Len(blk)) + 1
        /\ 1 \in 1 .. (start + Len(blk)) - start + 1 /\ start + 1 - 1 = start
    BY <1>2, <1>7
  <2> QED BY <2>1, <1>7, PartProperties
<1>9. Sealed(s, k, blk, TRUE)[1].last
  BY <1>7 DEF Sealed
<1> QED BY <1>6, <1>7, <1>8, <1>9

----------------------------------------------------------------------------
(* Who can lose data.                                                       *)

Overwritten(f) == \A i \in DOMAIN f : f[i] = Junk

\* What the steps that touch the plaintext or the vault rely on.
DataOK ==
    /\ pc = "e_first" \/ (pc = "e_seal" /\ n = 0) => vault = <<>>
    /\ pc \in Shredding \cup {"e_flush"} /\ ~spoilt =>
          vault \in Seq(Cell) /\ vault # <<>> /\ vault[1].salt = runs /\ Whole(vault, runs, books[runs])
    /\ pc = "s_pass" /\ n = 0 /\ ~spoilt => plain = books[runs]
    /\ pc \in Shredding /\ ~saved => (pc = "s_pass" /\ n = 0) \/ Overwritten(plain)
    /\ pc \in {"s_pass", "s_sync"} /\ ~saved => pos = Len(plain)
    /\ pc = "d_chunk" /\ Complete(vault) /\ ~saved => wanted = books[vault[1].salt]

(* A pass leaves nothing of a file that has not grown.                      *)
LEMMA OverwrittenByPass ==
    ASSUME IInv, pc = "s_pass", pos = Len(plain),
           NEW f, f = Written(plain, 0, [i \in 1 .. pos |-> Junk])
    PROVE  Overwritten(f) /\ pos = Len(f)
<1>1. plain \in Seq(V) /\ pos \in Nat
  BY DEF IInv, CallOK, TypeOK, Shredding
<1> QED BY <1>1, PassProperties DEF Overwritten

LEMMA SealData ==
    ASSUME IInv, IInv', EncSeal
    PROVE  DataOK'
<1>1. /\ pc = "e_seal" /\ n' = n + 1 /\ pc' \in {"e_seal", "e_flush"} /\ runs' = runs
  BY DEF EncSeal
<1>2. n' # 0
  BY <1>1 DEF IInv, TypeOK
<1>3. ASSUME pc' = "e_flush", ~spoilt'
      PROVE  Whole(vault', runs', books'[runs'])
  <2>1. Whole(vault', runs', plain') /\ hash' = plain' /\ hash' = books'[runs']
    BY <1>3 DEF IInv, BlocksOK, HashOK, Encrypting
  <2> QED BY <2>1
<1>4. vault' \in Seq(Cell) /\ vault'[1].salt = runs' /\ vault' # <<>>
  <2>1. /\ vault' \in Seq(Cell) /\ vault'[1] = HeaderCell(runs)
        /\ Len(vault') = Len(Before) + Len(cur) + 1
    BY SealStep
  <2>2. runs \in Nat /\ Before \in Seq(Cell) /\ cur \in Seq(V)
    BY <1>1, BeforeSeal
  <2>3. Len(vault') # 0
    BY <2>1, <2>2, LenProperties
  <2> QED BY <2>1, <2>2, <2>3, <1>1, HeaderProperties, EmptySeq
<1> QED BY <1>1, <1>2, <1>3, <1>4 DEF DataOK, Shredding

LEMMA DataNext ==
    ASSUME IInv, IInv', DataOK, [Next]_vars
    PROVE  DataOK'
<1>1. CASE EncStart
  <2>1. pc' = "e_open"
    BY <1>1 DEF EncStart
  <2> QED BY <2>1 DEF DataOK, Shredding
<1>2. CASE EncOpen
  <2>1. pc' = "e_first" /\ vault' = <<>>
    BY <1>2 DEF EncOpen
  <2> QED BY <2>1 DEF DataOK, Shredding
<1>3. CASE EncFirst
  <2>1. pc = "e_first" /\ pc' = "e_seal" /\ vault' = vault
    BY <1>3 DEF EncFirst, files
  <2> QED BY <2>1 DEF DataOK, Shredding
<1>4. CASE EncSeal
  BY <1>4, SealData
<1>5. CASE EncFlush
  <2>1. /\ pc = "e_flush" /\ n' = 0 /\ pc' \in {"e_record", "s_pass"}
        /\ pc' = "s_pass" => pos' = Len(plain)
        /\ UNCHANGED <<plain, vault, runs, books, spoilt, saved>>
    BY <1>5 DEF EncFlush, files
  <2>2. ~spoilt => plain = books[runs]
    BY <2>1 DEF IInv, HashOK, Encrypting
  <2> QED BY <2>1, <2>2 DEF DataOK, Shredding
<1>6. CASE EncReturn \/ DecReturn \/ DecFail \/ PowerCut
  <2>1. pc' = "idle"
    BY <1>6 DEF EncReturn, DecReturn, DecFail, PowerCut, Return
  <2> QED BY <2>1 DEF DataOK, Shredding
<1>7. CASE ShredPass
  <2>1. /\ pc = "s_pass" /\ pc' = "s_sync" /\ plain' = Written(plain, 0, [i \in 1 .. pos |-> Junk])
        /\ UNCHANGED <<vault, runs, books, spoilt, saved, pos>>
    BY <1>7 DEF ShredPass
  <2>2. ASSUME ~saved PROVE Overwritten(plain') /\ pos' = Len(plain')
    BY <2>1, <2>2, OverwrittenByPass DEF DataOK
  <2> QED BY <2>1, <2>2 DEF DataOK, Shredding
<1>8. CASE ShredSync
  <2>1. /\ pc = "s_sync" /\ pc' \in {"s_pass", "s_trunc"} /\ n' = n /\ plain' = plain
        /\ UNCHANGED <<vault, runs, books, spoilt, saved, pos>>
    BY <1>8 DEF ShredSync
  <2>2. n' # 0
    BY <2>1 DEF IInv, PassesOK
  <2> QED BY <2>1, <2>2 DEF DataOK, Shredding
<1>9. CASE ShredTruncate
  <2>1. /\ pc = "s_trunc" /\ pc' = "s_unlink" /\ plain' = <<>>
        /\ UNCHANGED <<vault, runs, books, spoilt>>
    BY <1>9 DEF ShredTruncate
  <2>2. Overwritten(plain')
    BY <2>1 DEF Overwritten
  <2> QED BY <2>1, <2>2 DEF DataOK, Shredding
<1>10. CASE ShredUnlink
  <2>1. pc' = "e_record"
    BY <1>10 DEF ShredUnlink
  <2> QED BY <2>1 DEF DataOK, Shredding
<1>11. CASE DecOpen
  <2>1. /\ pc' = "d_chunk" /\ vault' = vault /\ books' = books
        /\ wanted' = (IF Complete(vault) THEN books[vault[1].salt] ELSE wanted)
    BY <1>11 DEF DecOpen
  <2>2. Complete(vault)' => wanted' = books'[vault'[1].salt]
    BY <2>1 DEF Complete
  <2> QED BY <2>1, <2>2 DEF DataOK, Shredding
<1>12. CASE DecChunk \/ DecDone
  <2>1. /\ pc = "d_chunk" /\ pc' \in {"d_chunk", "d_record"}
        /\ UNCHANGED <<vault, books, wanted, saved>>
    BY <1>12 DEF DecChunk, DecDone, files, history
  <2> QED BY <2>1 DEF DataOK, Shredding, Complete
<1>13. CASE Save
  <2>1. spoilt' = TRUE /\ saved' = TRUE /\ UNCHANGED <<pc, vault, n>>
    BY <1>13 DEF Save
  <2> QED BY <2>1 DEF DataOK, Shredding
<1>14. CASE WriteBack
  <2>1. UNCHANGED <<plain, vault, pc, pos, n, runs, books, wanted, spoilt, saved>>
    BY <1>14 DEF WriteBack
  <2> QED BY <2>1 DEF DataOK, Complete, Overwritten
<1>15. CASE Cut
  <2>1. pc' = "idle"
    BY <1>15 DEF Cut
  <2> QED BY <2>1 DEF DataOK, Shredding
<1>16. CASE UNCHANGED vars
  <2>1. UNCHANGED <<plain, vault, pc, pos, n, runs, books, wanted, spoilt, saved>>
    BY <1>16 DEF vars, files, history
  <2> QED BY <2>1 DEF DataOK, Complete, Overwritten
<1> QED
  BY <1>1, <1>2, <1>3, <1>4, <1>5, <1>6, <1>7, <1>8, <1>9, <1>10, <1>11, <1>12, <1>13, <1>14, <1>15, <1>16
  DEF Next

LEMMA DataInvariance == Spec => []DataOK
<1>1. Init => DataOK
  BY DEF Init, DataOK, Shredding
<1>2. IInv /\ IInv' /\ DataOK /\ [Next]_vars => DataOK'
  BY DataNext
<1> QED BY <1>1, <1>2, Invariance, PTL DEF Spec

(* While a vault is being written it is not complete.                       *)
LEMMA SealingIsIncomplete ==
    ASSUME IInv, DataOK, pc = "e_seal"
    PROVE  ~Complete(vault)
<1>1. CASE n = 0
  BY <1>1 DEF DataOK, Complete
<1>2. CASE n > 0
  <2>1. vault \in Seq(Cell) /\ \A m \in 2 .. Len(vault) : ~vault[m].last
    BY <1>2 DEF IInv, SealOK
  <2>2. ASSUME Complete(vault) PROVE FALSE
    <3>1. vault # Gone /\ vault # <<>> /\ Whole(vault, vault[1].salt, books[vault[1].salt])
      BY <2>2 DEF Complete
    <3>2. books[vault[1].salt] \in Seq(V)
      BY <3>1, BookOfVault
    <3> QED BY <2>1, <3>1, <3>2, WholeHasLast
  <2> QED BY <2>2
<1> QED BY <1>1, <1>2 DEF IInv, TypeOK

(* What does not touch the user's content, the file or the vault loses      *)
(* nothing.                                                                 *)
LEMMA NothingTouched ==
    ASSUME UNCHANGED <<plain, vault, books, wanted>>
    PROVE  Recoverable' <=> Recoverable
BY DEF Recoverable, Complete

\* The steps that may lose what could be recovered.
MayLose ==
    \/ PowerCut /\ (vaultDisk # vault \/ plainDisk # plain)
    \/ Cut
    \/ EncOpen /\ plain # wanted
    \/ (DecOpen \/ DecChunk \/ DecFail) /\ ~Complete(vault)
    \/ DecChunk /\ saved
    \/ ShredPass /\ spoilt
    \/ (ShredTruncate \/ ShredUnlink) /\ saved

LEMMA OthersKeepData ==
    ASSUME IInv, DataOK, [Next]_vars, Recoverable, ~MayLose
    PROVE  Recoverable'
<1>1. CASE EncStart
  <2>1. /\ UNCHANGED <<plain, vault, wanted>> /\ books' = Append(books, <<>>)
    BY <1>1 DEF EncStart, files
  <2>2. Complete(vault) => books'[vault[1].salt] = books[vault[1].salt]
    <3> SUFFICES ASSUME Complete(vault) PROVE books'[vault[1].salt] = books[vault[1].salt]
      OBVIOUS
    <3>1. vault[1].salt \in 1 .. runs
      BY DEF Complete, IInv, VaultsOK, Laid
    <3>2. books \in Seq(Seq(V)) /\ Len(books) = runs
      BY DEF IInv, TypeOK, V
    <3>3. <<>> \in Seq(V)
      BY EmptySeq
    <3> QED BY <3>1, <3>2, <3>3, <2>1, AppendProperties
  <2> QED BY <2>1, <2>2 DEF Recoverable, Complete
<1>2. CASE EncOpen
  <2>1. plain = wanted /\ plain' = plain /\ wanted' = wanted
    BY <1>2 DEF MayLose, EncOpen, history
  <2> QED BY <2>1 DEF Recoverable
<1>3. CASE EncSeal
  <2>1. pc = "e_seal" /\ UNCHANGED <<plain, wanted>>
    BY <1>3 DEF EncSeal
  <2> QED BY <2>1, SealingIsIncomplete DEF Recoverable
<1>4. CASE ShredPass
  <2>1. /\ pc = "s_pass" /\ ~spoilt /\ plain' = Written(plain, 0, [i \in 1 .. pos |-> Junk])
        /\ UNCHANGED <<vault, books, wanted>>
    BY <1>4 DEF ShredPass, MayLose
  <2>4. ~saved
    BY <2>1 DEF IInv, HashOK
  <2>2. CASE n = 0
    <3>1. plain = books[runs] /\ Complete(vault) /\ vault[1].salt = runs
      BY <2>1, <2>2, GoneAssumption DEF DataOK, Shredding, Complete
    <3> QED BY <3>1, <2>1 DEF Recoverable, Complete
  <2>3. CASE n # 0
    <3>1. Overwritten(plain)
      BY <2>1, <2>3, <2>4 DEF DataOK, Shredding
    <3> QED BY <3>1, <2>1 DEF Recoverable, Complete, Overwritten
  <2> QED BY <2>2, <2>3
<1>5. CASE ShredTruncate \/ ShredUnlink
  <2>1. pc \in {"s_trunc", "s_unlink"} /\ ~saved /\ UNCHANGED <<vault, books, wanted>>
    BY <1>5 DEF ShredTruncate, ShredUnlink, history, MayLose
  <2>2. Overwritten(plain)
    BY <2>1 DEF DataOK, Shredding
  <2> QED BY <2>1, <2>2 DEF Recoverable, Complete, Overwritten
<1>6. CASE DecOpen
  <2>1. Complete(vault) /\ UNCHANGED <<vault, books>> /\ wanted' = books[vault[1].salt]
    BY <1>6 DEF MayLose, DecOpen
  <2> QED BY <2>1 DEF Recoverable, Complete
<1>7. CASE DecChunk
  <2>1. Complete(vault) /\ ~saved /\ pc = "d_chunk" /\ UNCHANGED <<vault, books, wanted>>
    BY <1>7 DEF MayLose, DecChunk, history
  <2> QED BY <2>1 DEF DataOK, Recoverable, Complete
<1>12. CASE DecFail
  <2>1. Complete(vault) /\ pc = "d_chunk" /\ pos > 0 /\ ~SegmentOpens
    BY <1>12 DEF MayLose, DecFail
  <2> QED BY <2>1, WholeOpens
<1>8. CASE Save
  <2>1. plain' = wanted'
    BY <1>8 DEF Save
  <2> QED BY <2>1 DEF Recoverable
<1>9. CASE PowerCut
  <2>1. /\ vaultDisk = vault /\ plainDisk = plain
        /\ plain' = plain /\ vault' = vault /\ UNCHANGED <<books, wanted>>
    BY <1>9 DEF MayLose, PowerCut
  <2> QED BY <2>1, NothingTouched
<1>10. CASE EncFirst \/ EncFlush \/ EncReturn \/ ShredSync \/ DecDone \/ DecReturn \/ WriteBack \/ UNCHANGED vars
  <2>1. UNCHANGED <<plain, vault, books, wanted>>
    BY <1>10 DEF EncFirst, EncFlush, EncReturn, ShredSync, DecDone, DecReturn, WriteBack, vars, files, history
  <2> QED BY <2>1, NothingTouched
<1>11. CASE Cut
  BY <1>11 DEF MayLose
<1> QED
  BY <1>1, <1>2, <1>3, <1>4, <1>5, <1>6, <1>7, <1>8, <1>9, <1>10, <1>11, <1>12 DEF Next

(* Content the user could still get back, from the file or from the vault,  *)
(* is lost by those steps only that OnlyTheseLoseData names, whenever the   *)
(* user saves; without a save during the call the passes after the first    *)
(* one and the removal of the file lose nothing, and no decryption of a     *)
(* complete vault does.                                                     *)
THEOREM NothingElseLosesData == Spec => OnlyTheseLoseData
<1>1. IInv /\ DataOK /\ [Next]_vars => [Recoverable /\ ~Recoverable' => MayLose]_vars
  BY OthersKeepData
<1>2. Spec => [][Recoverable /\ ~Recoverable' => MayLose]_vars
  BY <1>1, Invariance, DataInvariance, PTL DEF Spec
<1> QED BY <1>2 DEF OnlyTheseLoseData, MayLose
=============================================================================
