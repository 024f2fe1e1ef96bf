--------------------------- MODULE LaunchCustody ---------------------------
(***************************************************************************)
(* What the pending-turn-start protocol promises, without its mechanism:   *)
(* one launch moves through a few custody phases, and a turn that may      *)
(* mutate the worktree exists only in phases in which the controller knows *)
(* about it.  TurnStart implements this specification.                     *)
(***************************************************************************)
VARIABLES
    phase,      \* custody of the launch
    live        \* a turn of the launch may be executing

custodyVars == <<phase, live>>

Phases == {"unsent", "pending", "containing", "acknowledged", "contained"}

CustodyInit == phase = "unsent" /\ live = FALSE

(* The receipt is written before the request leaves.                        *)
WriteReceipt == phase = "unsent" /\ phase' = "pending" /\ UNCHANGED live

(* The App Server may act on the request as long as the launch is open.     *)
TurnBegins == phase \in {"pending", "containing"} /\ live' = TRUE /\ UNCHANGED phase

TurnEnds == live /\ live' = FALSE /\ UNCHANGED phase

(* The notification resolves an open launch ...                             *)
Acknowledge == phase = "pending" /\ phase' = "acknowledged" /\ UNCHANGED live

(* ... or the controller decides, irrevocably, to delete the thread ...     *)
DecideContainment == phase = "pending" /\ phase' = "containing" /\ UNCHANGED live

(* ... and reports the launch contained when nothing of it runs any more.   *)
Contain == phase = "containing" /\ ~live /\ phase' = "contained" /\ UNCHANGED live

CustodyNext == \/ WriteReceipt \/ TurnBegins \/ TurnEnds \/ Acknowledge
               \/ DecideContainment \/ Contain

CustodySpec == CustodyInit /\ [][CustodyNext]_custodyVars
=============================================================================
