------------------------------- MODULE Alarms -------------------------------
(***************************************************************************)
(* The alarms of the commit service (server/commit-service): what it makes *)
(* of the retained status of the node and of the gateway.  Its state is a  *)
(* record and its handlers are functions of it, for Site to compose.       *)
(*                                                                         *)
(* node and gateway are the last alarm of each kind that this run of the   *)
(* service has pushed.                                                     *)
(***************************************************************************)

\* The state of the service: gw_down is all that it remembers, in RAM.
Services ==
  [up : BOOLEAN, gw_down : BOOLEAN, node : {"none", "gone", "back"},
   gateway : {"none", "gone", "back"}]

ServiceInit ==
  [up |-> TRUE, gw_down |-> FALSE, node |-> "none", gateway |-> "none"]

\* handle_node_status: every status is an alarm, a repeated one too.
NodeStatus(svc, status) ==
  IF ~svc.up \/ status = "none" THEN svc
  ELSE [svc EXCEPT !.node = IF status = "online" THEN "back" ELSE "gone"]

\* Mutant: the alarm is taken back, and the gateway remembered as gone.
GwStatusLatched(svc, status) ==
  IF ~svc.up THEN svc
  ELSE IF status = "offline" /\ ~svc.gw_down
    THEN [svc EXCEPT !.gw_down = TRUE, !.gateway = "gone"]
  ELSE IF status = "online" /\ svc.gw_down
    THEN [svc EXCEPT !.gateway = "back"]
  ELSE svc

\* handle_gw_lwt, handle_gw_status: only a change of gw_down is.
GwStatus(svc, status) ==
  IF ~svc.up THEN svc
  ELSE IF status = "offline" /\ ~svc.gw_down
    THEN [svc EXCEPT !.gw_down = TRUE, !.gateway = "gone"]
  ELSE IF status = "online" /\ svc.gw_down
    THEN [svc EXCEPT !.gw_down = FALSE, !.gateway = "back"]
  ELSE svc

\* The service starts, connects, and gets the retained messages again.
Restarted(nodeStatus, gwStatus) ==
  GwStatus(NodeStatus(ServiceInit, nodeStatus), gwStatus)

Died == [ServiceInit EXCEPT !.up = FALSE]

=============================================================================
