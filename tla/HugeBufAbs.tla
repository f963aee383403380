----------------------------- MODULE HugeBufAbs -----------------------------
(***************************************************************************)
(* What the receive buffer promises: the print task reads the bands in the *)
(* order in which the host sends them, none twice, and none is left out    *)
(* but those of a job that was cancelled.  Once a transfer is lost nothing *)
(* is promised until the next job.                                         *)
(***************************************************************************)
EXTENDS Naturals

VARIABLES
  offered,      \* bands the host has sent, numbered from 1
  taken,        \* the band last read
  dropped,      \* bands up to this one were cancelled
  lost          \* a transfer was lost

bandVars == <<offered, taken, dropped, lost>>

BandsInit == offered = 0 /\ taken = 0 /\ dropped = 0 /\ lost = FALSE

Offer == offered' = offered + 1 /\ UNCHANGED <<taken, dropped, lost>>

Latest == IF taken > dropped THEN taken ELSE dropped

Take ==
  /\ Latest < offered \/ lost
  /\ taken' = Latest + 1 \/ (lost /\ taken' \in 1 .. offered)
  /\ UNCHANGED <<offered, dropped, lost>>

Cancel == dropped' = offered /\ UNCHANGED <<offered, taken, lost>>

Lose == lost' = TRUE /\ UNCHANGED <<offered, taken, dropped>>

(* A new job starts; all bands of the last are dropped.                    *)
Recover == lost' = FALSE /\ UNCHANGED <<offered, taken, dropped>>

BandsNext == Offer \/ Take \/ Cancel \/ Lose \/ Recover

BandsSpec == BandsInit /\ [][BandsNext]_bandVars
=============================================================================
