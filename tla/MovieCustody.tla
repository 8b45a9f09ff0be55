---------------------------- MODULE MovieCustody ----------------------------
(***************************************************************************)
(* What the transfer of media_scope/transfer_service.py promises of the    *)
(* files it moves: none is given up on the seedbox before all of them are  *)
(* kept locally, and none is thrown away locally before all of them are on *)
(* the seedbox.                                                            *)
(***************************************************************************)
CONSTANT Files

VARIABLES seedbox, kept    \* the files that are whole there, and here

Init == seedbox = Files /\ kept = {}

Copy    == \E f \in seedbox : kept' = kept \cup {f} /\ UNCHANGED seedbox
Discard == seedbox = Files /\ kept' = {} /\ UNCHANGED seedbox
Release == kept = Files /\ \E f \in seedbox : seedbox' = seedbox \ {f} /\ UNCHANGED kept

Spec == Init /\ [][Copy \/ Discard \/ Release]_<<seedbox, kept>>
=============================================================================
