---------------------------- MODULE OrderManagement ----------------------------
(***************************************************************************)
(* The order entry connections (OrderEntry.tla) together with the drop     *)
(* copy of the same account, which comes and goes on its own: users may    *)
(* send requests and get answers while nobody listens to executions, and   *)
(* nothing in gateway/order_entry.cpp or gateway/controller.cpp waits for  *)
(* the drop copy.                                                          *)
(*                                                                         *)
(* Of DropCopy.tla only the order of things is kept: executions first,     *)
(* then the snapshot of orders, and both in one channel, which a lost      *)
(* connection empties.                                                     *)
(***************************************************************************)
EXTENDS OrderEntry

CONSTANT Losses  \* bound: how often the drop copy is lost

ASSUME LossesAssumption == Losses \in Nat

VARIABLES
  copy,    \* the drop copy: "down", "listening" to executions, or "told":
           \* the snapshot of orders has been sent
  unheard, \* history: orders whose end was reported to nobody
  past,    \* history: the statuses each order has had
  losses   \* what is left of Losses

managed == <<vars, copy, unheard, past, losses>>

-------------------------------------------------------------------------------
(* What is lost of the stream: the orders it said had ended.               *)
Endings(rows) == {rows[i].order : i \in {k \in DOMAIN rows : rows[k].status # "NEW"}}

(* DropCopy, Disconnected.                                                 *)
CopyLost ==
  /\ copy # "down" /\ losses > 0
  /\ copy' = "down" /\ losses' = losses - 1
  /\ stream' = <<>> /\ unheard' = unheard \cup Endings(stream)
  /\ UNCHANGED <<gateway, wire, orders, users, history, budget, past>>

(* The exchange starts the topic of executions: what it had to report      *)
(* before that was for nobody.                                             *)
CopyListens ==
  /\ copy = "down"
  /\ copy' = "listening"
  /\ stream' = <<>> /\ unheard' = unheard \cup Endings(stream)
  /\ UNCHANGED <<gateway, wire, orders, users, history, budget, past, losses>>

(* DropCopy::subscribe asks for orders after executions; the exchange      *)
(* sends those that are open, and perhaps others, as they are.  The first  *)
(* PARTIAL of a session is passed on row by row.  The rows are translated  *)
(* by a function of their own, which for the statuses here does the same   *)
(* (lemma Translated of ShownProofs.tla).                                  *)
\* mutant: what a session has received is not forgotten with it, and the
\* PARTIAL of the next one is not the first
OnlyOnce(told) == IF losses = Losses
                  THEN [i \in DOMAIN told |-> Row(told[i], orders[told[i]].status, orders)]
                  ELSE <<>>
Snapshot(told) == [i \in DOMAIN told |-> Row(told[i], orders[told[i]].status, orders)]
Arrangements(set) == {s \in [1..Cardinality(set) -> set] :
                        \A o \in set : \E i \in DOMAIN s : s[i] = o}
Closed == {o \in Orders : orders[o].status \in {"FILLED", "CANCELED", "REJECTED"}}
CopyTold ==
  /\ copy = "listening"
  /\ copy' = "told"
  /\ \E others \in SUBSET Closed :
       /\ \E told \in Arrangements(Resting \cup others) :
            stream' = stream \o Snapshot(told)
       /\ unheard' = unheard \ others
  /\ UNCHANGED <<gateway, wire, orders, users, history, budget, past, losses>>

(* OnOrderPartial and OnExecution of DropCopy.tla.                         *)
CopyHears ==
  /\ copy # "down" /\ ExecutionArrives
  /\ UNCHANGED <<copy, unheard, past, losses>>

(* Everything else goes on as if there were no drop copy.                  *)
Remember ==
  past' = [o \in Orders |-> IF orders'[o] = orders[o] THEN past[o]
                            ELSE Append(past[o], orders'[o].status)]
OrderEntryNext ==
  /\ \/ \E o \in Orders : CreateOrder(o) \/ ModifyOrder(o) \/ CancelOrder(o) \/ Fill(o)
     \/ CancelAllOrders
     \/ \E c \in Ring : \/ Connected(c) \/ Disconnected(c)
                        \/ Serve(c) \/ HandleResponse(c) \/ Timeout(c)
     \/ ServeOrphan
  /\ Remember
  /\ UNCHANGED <<copy, unheard, losses>>

ManagedInit ==
  /\ Init
  /\ copy = "down" /\ unheard = {}
  /\ past = [o \in Orders |-> <<>>]
  /\ losses = Losses

ManagedNext == OrderEntryNext \/ CopyLost \/ CopyListens \/ CopyTold \/ CopyHears

ManagedSpec == ManagedInit /\ [][ManagedNext]_managed

(* The connection manager reconnects, the exchange starts what it was      *)
(* asked for, and the event loop handles what has arrived.                 *)
ManagedFairSpec ==
  ManagedSpec /\ WF_managed(CopyListens) /\ WF_managed(CopyTold) /\ WF_managed(CopyHears)

-------------------------------------------------------------------------------
Informed == copy = "told" /\ stream = <<>>

(* A drop copy that has told all it knows has told of every open order,    *)
(* whatever became of the requests and of their answers meanwhile: nothing *)
(* an answer over REST says is newer than what the executions and the      *)
(* snapshot say, or hides it.                                              *)
OpenShown ==
  Informed => \A o \in Resting :
    shown[o] = [status |-> "WORKING", revision |-> orders[o].revision]

(* What has ended is shown as ended, unless its end fell into a time when  *)
(* nobody listened and the snapshot does not name it: a request that was   *)
(* accepted, on any connection, does not need the drop copy for that.      *)
EndsShown ==
  Informed => \A o \in Closed \ unheard :
    shown[o].status = MapOrdStatus[orders[o].status]

(* Of what the users see nothing is made up, and nothing is undone.        *)
Life == INSTANCE OrderLife WITH
          view <- [o \in Orders |-> [known |-> shown[o].revision,
                                     status |-> shown[o].status]]
FollowsLife == Life!Spec

(* In the end, an open order is seen as it is.                             *)
EventuallyInformed ==
  <>[](\A o \in Resting :
         shown[o] = [status |-> "WORKING", revision |-> orders[o].revision])

===============================================================================
