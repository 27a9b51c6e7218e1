---------------------------- MODULE AtomicVault ----------------------------
(***************************************************************************)
(* What a user of one file and its vault is promised: encryption puts the   *)
(* file's content into the vault, a file is only shredded when the vault    *)
(* holds the same, and decryption puts back what the vault holds, each in   *)
(* one step.  Once two calls have used a file at the same time nothing is   *)
(* promised.                                                                *)
(***************************************************************************)
CONSTANTS
    Contents,   \* contents the user saves
    Missing     \* no such file

VARIABLES
    file,       \* the plaintext: its content, or Missing
    vault,      \* what the vault opens to, or Missing
    clash       \* two calls have used one file at the same time

Init == file \in Contents /\ vault = Missing /\ clash = FALSE

Save == file' \in Contents /\ UNCHANGED <<vault, clash>>

Encrypt == file # Missing /\ vault' = file /\ UNCHANGED <<file, clash>>

Shred == file # Missing /\ vault = file /\ file' = Missing /\ UNCHANGED <<vault, clash>>

Decrypt == vault # Missing /\ file' = vault /\ UNCHANGED <<vault, clash>>

Clash == clash' = TRUE

Next == Save \/ Encrypt \/ Shred \/ Decrypt \/ Clash

Spec == Init /\ [][Next]_<<file, vault, clash>>
=============================================================================
