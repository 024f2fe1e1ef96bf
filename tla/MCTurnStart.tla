---------------------------- MODULE MCTurnStart ----------------------------
(***************************************************************************)
(* TurnStart with one disturbance of the launch at a time: a stop of the   *)
(* run, an exit of the App Server (the daemon may crash as well) or the    *)
(* end of the grace period, each with every interleaving of the tasks.     *)
(***************************************************************************)
EXTENDS TurnStart

Ended == run \in {"STOPPING", "CANCELED"}
OneDisturbance == /\ ~(Ended /\ (crashes + exits > 0 \/ aged))
                  /\ ~(exits > 0 /\ aged)
=============================================================================
