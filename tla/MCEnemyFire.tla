----------------------------- MODULE MCEnemyFire ----------------------------
(***************************************************************************)
(* EnemyFire with enemies that fire from above, within and below the row   *)
(* of the shields, in the columns of each shield and between two of them.  *)
(***************************************************************************)
EXTENDS EnemyFire

MCMuzzles == {At(px, py) : px \in {180, 300, 430, 720, 960},
                           py \in {90, 130, 570, 610, 650, 850}}

=============================================================================
