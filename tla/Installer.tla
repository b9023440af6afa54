----------------------------- MODULE Installer -----------------------------
(***************************************************************************)
(* What the application expects of the bootloader: an image that it marks  *)
(* ready replaces the installed one as a whole or not at all, at the next  *)
(* reset, however often that reset is itself interrupted.                  *)
(***************************************************************************)
CONSTANTS Images, NoImage

VARIABLES
    installed,  \* the image an undisturbed boot would start, or has started
    offer,      \* the image marked ready, if any
    running     \* the image that runs; NoImage while the bootloader does

absVars == <<installed, offer, running>>

Init == installed \in Images /\ offer = NoImage /\ running = NoImage

(* By the application, or by a serial download.                             *)
Mark(v) == offer' = v /\ UNCHANGED <<installed, running>>

Install ==
    /\ running = NoImage /\ offer # NoImage
    /\ installed' = offer /\ offer' = NoImage /\ UNCHANGED running

(* The mark is withdrawn, or what it stands for is no longer in the bank.   *)
Withdraw == offer # NoImage /\ offer' = NoImage /\ UNCHANGED <<installed, running>>

Start == running = NoImage /\ running' = installed /\ UNCHANGED <<installed, offer>>

(* Stopped in the middle of writing the bank, it withdraws the mark, too.   *)
Stop ==
    /\ running # NoImage /\ running' = NoImage
    /\ offer' \in {offer, NoImage} /\ UNCHANGED installed

Next ==
    \/ \E v \in Images : Mark(v)
    \/ Install \/ Withdraw \/ Start \/ Stop

Spec == Init /\ [][Next]_absVars

=============================================================================
