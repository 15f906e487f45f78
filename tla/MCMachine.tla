----------------------------- MODULE MCMachine -----------------------------
(***************************************************************************)
(* Machine with negative addresses, which a configuration cannot write     *)
(* down: it gives their distance from zero.                                *)
(***************************************************************************)
EXTENDS Machine

CONSTANTS
    Up,  \* addresses from 0 on
    Down \* n stands for the address -n

Signed == Up \cup {-n : n \in Down}
=============================================================================
