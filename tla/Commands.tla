------------------------------ MODULE Commands ------------------------------
(***************************************************************************)
(* The commands of src/cli.rs and the menu of src/main.rs that work on      *)
(* files, one at a time in one terminal: what they print of the recovery    *)
(* shares is all that is left of them.                                      *)
(***************************************************************************)
EXTENDS LtoTape, RecoveryShares

CONSTANTS
    Keys,    \* recovery keys that encryptions derive
    Coeffs,  \* coefficients a dealer draws, for each symbol of the key
    Ways     \* ways to encrypt: subset of {"cli", "menu", "lto"}

ASSUME WaysAssumption == Ways \subseteq {"cli", "menu", "lto"}
ASSUME KeysAssumption == Keys \subseteq [1 .. KeyLen -> Field]
ASSUME CoeffsAssumption == Coeffs \subseteq [1 .. KeyLen -> Draw]

VARIABLE deal  \* of the last encryption: how it was made, its key, its shares

vars == <<ltoVars, deal>>

NoDeal == [enc |-> 0, by |-> None, key |-> <<>>, shares |-> <<>>]

(* Types.                                                                   *)
TypeOK ==
    /\ LtoTypeOK
    /\ deal.enc = encs
    /\ deal # NoDeal => deal.by \in Ways /\ deal.key \in Keys

Init == LtoInit /\ deal = NoDeal

\* generate_recovery_shares for the key derived with a fresh salt.
DealFor(way) ==
    \E key \in Keys, coeffs \in Coeffs :
        deal' = [enc |-> encs', by |-> way, key |-> key, shares |-> Deal(key, coeffs)]

(* Commands::Encrypt and menu item 1.                                       *)
EncryptCommand(t, way) ==
    /\ pc = "idle"
    /\ way \in Ways \ {"lto"}
    /\ Encrypt(t)
    /\ DealFor(way)
    /\ UNCHANGED <<tapeVars, callVars>>

\* Mutant of LtoWrite: the encryption returns without making shares.
LtoWriteUndealt(t) == "lto" \in Ways /\ WriteStart(t) /\ UNCHANGED deal

(* Commands::LtoWrite.                                                      *)
LtoWrite(t) == "lto" \in Ways /\ WriteStart(t) /\ DealFor("lto")

(* Commands::Decrypt and menu item 2; a damaged vault takes the plaintext   *)
(* with it.                                                                 *)
DecryptCommand(t) ==
    LET p == PlaceOf(t) IN
    /\ pc = "idle"
    /\ vault[p] # None
    /\ plain' = [plain EXCEPT ![p] = IF vault[p] = Partial THEN None ELSE vault[p].content]
    /\ UNCHANGED <<vault, encs, tapeVars, callVars, deal>>

Next ==
    \/ \E t \in Typed :
          \/ \E way \in Ways : EncryptCommand(t, way)
          \/ LtoWrite(t) \/ DecryptCommand(t)
    \/ LtoNext /\ UNCHANGED deal

Spec == Init /\ [][Next]_vars

----------------------------------------------------------------------------

\* The first half of a share: its number and a part of its symbols.
Half(s) == SubSeq(s, 1, (Len(s) + 1) \div 2)

\* What the user has of the shares of a deal: the CLI prints a QR code of the
\* whole share (its line of digits is cut), the menu half of the digits, and
\* lto-write nothing.
Printed(d) ==
    CASE d.by = "cli" -> Range(d.shares)
      [] d.by = "menu" -> {Half(s) : s \in Range(d.shares)}
      [] OTHER -> {}

\* The sets of shares in T that are said to be enough.
Enough(T) == {S \in SUBSET T : Cardinality(S) >= SHAMIR_THRESHOLD}

(* "any 3/5 are enough" (cli.rs): whichever shares of an encryption by the  *)
(* CLI are kept, that many recover its key; what the menu leaves of its     *)
(* shares recovers nothing, and lto-write leaves none.                      *)
OnlyCliSharesRecover ==
    [][deal' # deal =>
          \A S \in Enough(Printed(deal')) : Recovered(S) = deal'.key <=> deal'.by = "cli"]_deal

(* Fewer are not enough, of any deal, printed or not.  Because the dealer   *)
(* never draws a zero, fewer shares than the threshold do rule out values   *)
(* of a symbol, but no more values than there are shares: of the 256 that a *)
(* byte of the key can have, two shares leave at least 254.                 *)
FewerTellLittle ==
    [][deal' # deal =>
          \A S \in kSubset(SHAMIR_THRESHOLD - 1, Range(deal'.shares)), j \in 1 .. KeyLen :
              Cardinality({v \in Field : ~Fits(S, j, v)}) < SHAMIR_THRESHOLD]_deal
=============================================================================
