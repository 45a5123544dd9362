----------------------------- MODULE OrderStatus -----------------------------
(***************************************************************************)
(* What the gateway makes of the status of a BitMEX order.  There are two  *)
(* translations: compute_order_status of gateway/utils.hpp, used for rows  *)
(* of the order table and for answers to requests, and the map of          *)
(* protocol/json/map.cpp, used for executions.  UNKNOWN is whatever the    *)
(* parser does not know, or is not there.                                  *)
(***************************************************************************)

OrdStatus == {"CANCELED", "DONE_FOR_DAY", "EXPIRED", "FILLED", "NEW",
              "PARTIALLY_FILLED", "PENDING_CANCEL", "PENDING_NEW", "REJECTED",
              "STOPPED", "TRIGGERED", "UNTRIGGERED", "UNKNOWN"}

ExecType == {"CANCELED", "FUNDING", "NEW", "REJECTED", "REPLACED", "TRADE",
             "CANCEL_REJECT", "UNKNOWN"}

(* The map used for executions.                                            *)
MapOrdStatus == [status \in OrdStatus |->
  CASE status \in {"NEW", "PARTIALLY_FILLED", "TRIGGERED"} -> "WORKING"
    [] status = "UNTRIGGERED" -> "ACCEPTED"
    [] status = "DONE_FOR_DAY" -> "SUSPENDED"
    [] status = "FILLED" -> "COMPLETED"
    [] status = "PENDING_NEW" -> "SENT"
    [] status \in {"CANCELED", "EXPIRED", "REJECTED", "STOPPED"} -> status
    [] OTHER -> "UNDEFINED"]

(* compute_order_status: three statuses depend on the working indicator,   *)
(* and UNTRIGGERED has no translation.                                     *)
ComputeOrderStatus(status, working) ==
  CASE status \in {"NEW", "TRIGGERED"} -> IF working THEN "WORKING" ELSE "ACCEPTED"
    [] status = "UNKNOWN" -> IF working THEN "WORKING" ELSE "UNDEFINED"
    [] status = "UNTRIGGERED" -> "UNDEFINED"
    [] OTHER -> MapOrdStatus[status]

(* How the row that answers a request answers it: compute_request_status   *)
(* of an OrdStatus.  A cancellation that fails is answered by a row with   *)
(* an error and no status, which is UNKNOWN.                               *)
\* mutant: a row without a status is taken for one that reports success
OptimisticRowStatus(status) ==
  IF status = "REJECTED" THEN "REJECTED" ELSE "ACCEPTED"
ComputeRowStatus(status) ==
  CASE status = "UNKNOWN" -> "UNDEFINED"
    [] status = "REJECTED" -> "REJECTED"
    [] OTHER -> "ACCEPTED"

(* The request an execution answers, and how: compute_request_type and     *)
(* compute_request_status of an ExecType.                                  *)
ComputeRequestType(exec) ==
  CASE exec = "NEW" -> "CREATE_ORDER"
    [] exec = "REPLACED" -> "MODIFY_ORDER"
    [] exec \in {"CANCELED", "CANCEL_REJECT"} -> "CANCEL_ORDER"
    [] OTHER -> "UNDEFINED"

(* Mutant: the cases that answer a request fall through to ACCEPTED.       *)
AcceptedRequestStatus(exec) ==
  IF exec \in {"NEW", "REPLACED", "CANCELED", "REJECTED", "CANCEL_REJECT"}
  THEN "ACCEPTED" ELSE "UNDEFINED"

ComputeRequestStatus(exec) ==
  CASE exec \in {"NEW", "REPLACED", "CANCELED"} -> "ACCEPTED"
    [] exec \in {"REJECTED", "CANCEL_REJECT"} -> "REJECTED"
    [] OTHER -> "UNDEFINED"

===============================================================================
