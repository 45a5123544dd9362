------------------------------- MODULE DropCopy -------------------------------
(***************************************************************************)
(* gateway/drop_copy.cpp: the private web-socket session of one account.   *)
(* It tells the users of orders, fills and positions, and keeps winding    *)
(* the exchange's dead man's switch, cancelAllAfter: unless wound again in *)
(* time, the exchange cancels every order of the account.                  *)
(*                                                                         *)
(* Every handler is one action; around the session run the connection, the *)
(* exchange, and the time.  Time is counted in ticks, and no clock is read *)
(* but by difference, so the variables hold time left or time past.        *)
(*                                                                         *)
(* Messages whose handlers only log (margin, confirmations, refusals and   *)
(* the acknowledgement of cancelAllAfter) are left out.                    *)
(***************************************************************************)
EXTENDS OrderStatus, Integers, Sequences, FiniteSets

CONSTANTS Orders,
          SideOf,              \* "BUY" or "SELL", for each order
          Quantity,            \* the quantity of an order, in lots
          LeftPositions,       \* what an earlier run may have left as a position
          CancelOnDisconnect,  \* flag ws_cancel_on_disconnect
          CancelAllAfter,      \* flag ws_cancel_all_after, in ticks
          Millisecond,         \* ticks of a millisecond
          Period,              \* at most this long between two timers
          Delay,               \* at most this long to serve a request
          Budget               \* bound: how often the environment may do each

Events == {"disconnect", "refuse", "change"}

ASSUME OrdersAssumption == SideOf \in [Orders -> {"BUY", "SELL"}]
ASSUME QuantityAssumption == Quantity \in Nat \ {0}
ASSUME LeftPositionsAssumption == LeftPositions \subseteq Int
ASSUME SwitchAssumption == /\ CancelOnDisconnect \in BOOLEAN
                           /\ CancelAllAfter \in Nat
                           /\ Millisecond \in Nat \ {0}
ASSUME TimeAssumption == Period \in Nat /\ Delay \in Nat
ASSUME BudgetAssumption == Budget \in [Events -> Nat]

(* The switch is used with both flags set.  The timeout is sent in         *)
(* milliseconds and renewed after a quarter of it.                         *)
Enabled == CancelOnDisconnect /\ CancelAllAfter # 0
Timeout == (CancelAllAfter \div Millisecond) * Millisecond
Quarter == CancelAllAfter \div 4

VARIABLES
  status,      \* connection_status_
  ready,       \* ready_
  partial,     \* partial_received_.order
  download,    \* download_: the state it waits in
  due,         \* next_cancel_all_after_: time left until it
  shown,       \* dispatcher: status and traded quantity of each order
  answers,     \* dispatcher: the answers to requests, for each order
  reported,    \* dispatcher: how often each trade has been reported
  account,     \* dispatcher: the position
  link,        \* the connection: "down" or "up"
  inbox,       \* messages from the exchange to the gateway
  outbox,      \* requests from the gateway to the exchange, with their age
  pending,     \* exchange: topics asked for, not served yet
  topics,      \* exchange: what it streams on this connection
  orders,      \* exchange: the orders
  position,    \* exchange: the position of the account
  armed, fuse, \* exchange: the switch is wound, and the time left
  idle,        \* time since the last timer
  readyFor,    \* history: how long the session has been READY (up to a cap)
  tape,        \* history: trades sent to the gateway and not lost
  unseen,      \* history: orders with a change the gateway is not told of
  budget       \* what is left of Budget

session == <<status, ready, partial, download>>
users == <<shown, answers, reported, account>>
wire == <<link, inbox, outbox>>
exchange == <<pending, topics, orders, position, armed, fuse>>
clocks == <<due, idle, readyFor>>
seen == <<tape, unseen>>
vars == <<session, users, wire, exchange, clocks, seen, budget>>

-------------------------------------------------------------------------------
(* Orders and messages.                                                    *)

Order == [status : OrdStatus \cup {"NONE"}, working : BOOLEAN,
          cum : 0..Quantity]
NoOrder == [status |-> "NONE", working |-> FALSE, cum |-> 0]
Resting == [status |-> "NEW", working |-> TRUE, cum |-> 0]
Open(order) ==
  order.status \in {"NEW", "UNTRIGGERED", "TRIGGERED", "PARTIALLY_FILLED"}
OpenOrders == {o \in Orders : Open(orders[o])}

(* What an execution of the given type does to an order.                   *)
Executes(type, old, new) ==
  \/ /\ type = "NEW" /\ old = NoOrder
     /\ \/ new \in [status : {"NEW"}, working : BOOLEAN, cum : {0}]
        \/ new = [status |-> "UNTRIGGERED", working |-> FALSE, cum |-> 0]
  \/ /\ type = "REJECTED" /\ old = NoOrder
     /\ new = [NoOrder EXCEPT !.status = "REJECTED"]
  \/ /\ type = "UNKNOWN" /\ Open(old) /\ ~old.working  \* a stop is triggered
     /\ new = [old EXCEPT !.status = "TRIGGERED", !.working = TRUE]
  \/ /\ type = "TRADE" /\ Open(old) /\ old.working
     /\ new.cum > old.cum /\ new.working = (new.cum < Quantity)
     /\ new.status = IF new.working THEN "PARTIALLY_FILLED" ELSE "FILLED"
  \/ /\ type = "CANCELED" /\ Open(old)
     /\ new = [old EXCEPT !.status = "CANCELED", !.working = FALSE]
  \/ type = "REPLACED" /\ Open(old) /\ new = old
  \/ type = "CANCEL_REJECT" /\ old.status \notin {"NONE", "REJECTED"} /\ new = old

(* A trade is named by its order and the quantity traded up to it.         *)
Trades == Orders \X (1..Quantity)

(* Messages name each order once: the loops of the handlers treat every    *)
(* row on its own, so two rows of an order are as good as two messages.    *)
ExecRow == [type : ExecType, order : Order]
Executions == UNION {[D -> ExecRow] : D \in SUBSET Orders}
Snapshots == UNION {[D -> Order] : D \in SUBSET Orders}
Message ==
       [type : {"welcome"}]
  \cup [type : {"execution"}, rows : Executions]
  \cup [type : {"order"}, action : {"PARTIAL", "UPDATE"}, rows : Snapshots]
  \cup [type : {"position"}, quantity : Int]

\* mutant: the order in which the topics are asked for
OrderFirst == <<"order", "execution", "margin", "position">>
Topics == <<"execution", "order", "margin", "position">>

Request == [op : {"subscribe", "cancelAllAfter"}, timeout : Nat, age : Nat]

View == [status : {"UNDEFINED", "SENT", "ACCEPTED", "WORKING", "SUSPENDED",
                   "STOPPED", "COMPLETED", "EXPIRED", "CANCELED", "REJECTED"},
         traded : 0..Quantity]
Answer == {"UNDEFINED", "CREATE_ORDER", "MODIFY_ORDER", "CANCEL_ORDER"}
          \X {"UNDEFINED", "ACCEPTED", "REJECTED"}

TypeOK ==
  /\ status \in {"DISCONNECTED", "LOGIN_SENT", "DOWNLOADING", "READY"}
  /\ ready \in BOOLEAN /\ partial \in BOOLEAN
  /\ download \in {"UNDEFINED", "SUBSCRIBE", "DONE"}
  /\ due \in 0..Quarter
  /\ shown \in [Orders -> View]
  /\ answers \in [Orders -> SUBSET Answer]
  /\ reported \in [Trades -> Nat]
  /\ account \in [long : Nat, short : Nat]
  /\ link \in {"down", "up"}
  /\ inbox \in Seq(Message) /\ outbox \in Seq(Request)
  /\ pending \in Seq({"execution", "order", "margin", "position"})
  /\ topics \subseteq {"execution", "order", "margin", "position"}
  /\ orders \in [Orders -> Order] /\ position \in Int
  /\ armed \in BOOLEAN /\ fuse \in 0..Timeout
  /\ idle \in 0..Period /\ readyFor \in 0..Period + Delay + 1
  /\ tape \subseteq Trades /\ unseen \subseteq Orders
  /\ budget \in [Events -> Nat]

-------------------------------------------------------------------------------
(* An earlier run of the gateway may have left orders, and the switch      *)
(* wound.                                                                  *)
Init ==
  /\ status = "DISCONNECTED" /\ ready = FALSE /\ partial = FALSE
  /\ download = "UNDEFINED"
  /\ due = 0 /\ idle = 0 /\ readyFor = 0
  /\ shown = [o \in Orders |-> [status |-> "UNDEFINED", traded |-> 0]]
  /\ answers = [o \in Orders |-> {}]
  /\ reported = [t \in Trades |-> 0]
  /\ account = [long |-> 0, short |-> 0]
  /\ link = "down" /\ inbox = <<>> /\ outbox = <<>>
  /\ pending = <<>> /\ topics = {}
  /\ orders \in [Orders -> {NoOrder, Resting}] /\ position \in LeftPositions
  /\ armed \in BOOLEAN /\ fuse = IF armed THEN Timeout ELSE 0
  /\ tape = {} /\ unseen = {}
  /\ budget = Budget

Spend(event) ==
  /\ budget[event] > 0
  /\ budget' = [budget EXCEPT ![event] = @ - 1]

-------------------------------------------------------------------------------
(* The connection and the timer.                                           *)

TransportReady ==
  /\ link = "down"
  /\ link' = "up"
  /\ status' = "LOGIN_SENT"
  /\ inbox' = <<[type |-> "welcome"]>>
  /\ UNCHANGED <<ready, partial, download, users, outbox, exchange, clocks>>
  /\ UNCHANGED <<seen, budget>>

Executed(m) == IF m.type = "execution" THEN DOMAIN m.rows ELSE {}
TradesOf(m) ==
  {<<o, m.rows[o].order.cum>> :
     o \in {p \in Executed(m) : m.rows[p].type = "TRADE"}}

\* mutant: the next heartbeat stays where it was
KeepHeartbeat ==
  /\ ready' = FALSE /\ partial' = FALSE /\ download' = "UNDEFINED"
  /\ UNCHANGED due
ForgetSession ==
  /\ ready' = FALSE /\ partial' = FALSE /\ download' = "UNDEFINED"
  /\ due' = 0

(* Disconnected: everything is forgotten, and what is on the wire is lost. *)
TransportLost ==
  /\ link = "up"
  /\ Spend("disconnect")
  /\ link' = "down"
  /\ status' = "DISCONNECTED"
  /\ ForgetSession
  /\ readyFor' = 0
  /\ inbox' = <<>> /\ outbox' = <<>> /\ pending' = <<>> /\ topics' = {}
  /\ tape' = tape \ UNION {TradesOf(inbox[n]) : n \in DOMAIN inbox}
  /\ unseen' = unseen \cup UNION {Executed(inbox[n]) : n \in DOMAIN inbox}
  /\ UNCHANGED <<users, orders, position, armed, fuse, idle>>

(* send_cancel_all_after cuts the time to whole milliseconds.              *)
SendCancelAllAfter(time) ==
  [op |-> "cancelAllAfter", timeout |-> (time \div Millisecond) * Millisecond,
   age |-> 0]

OnTimer ==
  /\ idle' = 0
  /\ IF link = "up" /\ Enabled /\ ready /\ due = 0
     THEN /\ due' = Quarter
          /\ outbox' = Append(outbox, SendCancelAllAfter(CancelAllAfter))
     ELSE UNCHANGED <<due, outbox>>
  /\ UNCHANGED <<session, users, link, inbox, exchange, readyFor, seen, budget>>

-------------------------------------------------------------------------------
(* Messages.                                                               *)

Receive(type) ==
  /\ link = "up"
  /\ inbox # <<>> /\ Head(inbox).type = type
  /\ inbox' = Tail(inbox)

SendSubscribe == [op |-> "subscribe", timeout |-> 0, age |-> 0]
\* mutant: an unused switch is left as it is
SubscribeOnly == <<SendSubscribe>>
WelcomeRequests ==
  IF Enabled THEN <<SendSubscribe>> ELSE <<SendSubscribe, SendCancelAllAfter(0)>>

(* Welcome starts the download, and stops the switch if it is not used.    *)
OnWelcome ==
  /\ Receive("welcome")
  /\ download' = "SUBSCRIBE" /\ status' = "DOWNLOADING"
  /\ outbox' = outbox \o WelcomeRequests
  /\ UNCHANGED <<ready, partial, users, link, exchange, clocks, seen, budget>>

ShownAs(row, new) == [status |-> new, traded |-> row.cum]

(* Order, the first PARTIAL: every row is published as a SNAPSHOT, and the *)
(* download is done.                                                       *)
SnapshotAnswer(row) ==
  <<IF row.status = "CANCELED" THEN "CANCEL_ORDER" ELSE "UNDEFINED",
    IF row.status = "REJECTED" THEN "REJECTED" ELSE "ACCEPTED">>

OnOrderPartial ==
  LET rows == Head(inbox).rows IN
  /\ Receive("order")
  /\ ~partial /\ Head(inbox).action = "PARTIAL"
  /\ partial' = TRUE
  /\ shown' = [o \in Orders |->
       IF o \in DOMAIN rows
       THEN ShownAs(rows[o], ComputeOrderStatus(rows[o].status, rows[o].working))
       ELSE shown[o]]
  /\ answers' = [o \in Orders |->
       IF o \in DOMAIN rows THEN answers[o] \cup {SnapshotAnswer(rows[o])}
                            ELSE answers[o]]
  /\ IF download = "SUBSCRIBE"
     THEN download' = "DONE" /\ status' = "READY" /\ ready' = TRUE
     ELSE UNCHANGED <<download, status, ready>>
  /\ unseen' = unseen \ {o \in DOMAIN rows : rows[o] = orders[o]}
  /\ UNCHANGED <<reported, account, link, outbox, exchange, clocks, tape, budget>>

(* Every other order message is ignored: executions say it all.            *)
OnOrderIgnored ==
  /\ Receive("order")
  /\ partial \/ Head(inbox).action # "PARTIAL"
  /\ UNCHANGED <<session, users, link, outbox, exchange, clocks, seen, budget>>

(* Execution: every row is published, whatever the action, and a TRADE     *)
(* also as a fill.                                                         *)
ExecutionAnswer(type) == <<ComputeRequestType(type), ComputeRequestStatus(type)>>

\* mutant: every execution of an order that has traded is taken for a fill
AnyFills(m) == {<<o, m.rows[o].order.cum>> :
                  o \in {p \in Executed(m) : m.rows[p].order.cum > 0}}
Fills(m) == TradesOf(m)

OnExecution ==
  LET m == Head(inbox)
      rows == m.rows
  IN
  /\ Receive("execution")
  /\ shown' = [o \in Orders |->
       IF o \in DOMAIN rows
       THEN ShownAs(rows[o].order, MapOrdStatus[rows[o].order.status])
       ELSE shown[o]]
  /\ answers' = [o \in Orders |->
       IF o \in DOMAIN rows THEN answers[o] \cup {ExecutionAnswer(rows[o].type)}
                            ELSE answers[o]]
  /\ reported' = [t \in Trades |-> IF t \in Fills(m) THEN reported[t] + 1
                                                     ELSE reported[t]]
  /\ unseen' = unseen \ DOMAIN rows
  /\ UNCHANGED <<session, account, link, outbox, exchange, clocks, tape, budget>>

\* mutants: a short position is taken for a negative long one, or for none
Signed(q) == [long |-> q, short |-> 0]
OnlyLong(q) == [long |-> IF q > 0 THEN q ELSE 0, short |-> 0]
LongShort(q) == [long |-> IF q > 0 THEN q ELSE 0, short |-> IF q < 0 THEN -q ELSE 0]

OnPosition ==
  /\ Receive("position")
  /\ account' = LongShort(Head(inbox).quantity)
  /\ UNCHANGED <<session, shown, answers, reported, link, outbox, exchange>>
  /\ UNCHANGED <<clocks, seen, budget>>

-------------------------------------------------------------------------------
(* The exchange.                                                           *)

Serve(op) ==
  /\ link = "up"
  /\ outbox # <<>> /\ Head(outbox).op = op
  /\ outbox' = Tail(outbox)

ExchangeSubscribes ==
  /\ Serve("subscribe")
  /\ pending' = pending \o Topics
  /\ UNCHANGED <<session, users, link, inbox, topics, orders, position>>
  /\ UNCHANGED <<armed, fuse, clocks, seen, budget>>

ExchangeWinds ==
  /\ Serve("cancelAllAfter")
  /\ armed' = (Head(outbox).timeout > 0)
  /\ fuse' = Head(outbox).timeout
  /\ UNCHANGED <<session, users, link, inbox, pending, topics, orders>>
  /\ UNCHANGED <<position, clocks, seen, budget>>

(* The topics of a request start one by one, each with its PARTIAL: no     *)
(* executions; all open orders and perhaps others; the position.           *)
Partial(topic) ==
  CASE topic = "execution" -> {<<[type |-> "execution", rows |-> [o \in {} |-> 0]]>>}
    [] topic = "order" ->
         {<<[type |-> "order", action |-> "PARTIAL",
             rows |-> [o \in OpenOrders \cup closed |-> orders[o]]]>> :
            closed \in SUBSET {o \in Orders : orders[o] # NoOrder}}
    [] topic = "position" -> {<<[type |-> "position", quantity |-> position]>>}
    [] OTHER -> {<<>>}

TopicStarts ==
  /\ pending # <<>>
  /\ pending' = Tail(pending)
  /\ topics' = topics \cup {Head(pending)}
  /\ \E messages \in Partial(Head(pending)) : inbox' = inbox \o messages
  /\ UNCHANGED <<session, users, link, outbox, orders, position, armed, fuse>>
  /\ UNCHANGED <<clocks, seen, budget>>

TopicRefused ==
  /\ pending # <<>>
  /\ Spend("refuse")
  /\ pending' = Tail(pending)
  /\ UNCHANGED <<session, users, wire, topics, orders, position, armed, fuse>>
  /\ UNCHANGED <<clocks, seen>>

(* Executions take effect and are streamed, with the orders they change    *)
(* and the position.                                                       *)
Stream(topic, message) == IF topic \in topics THEN <<message>> ELSE <<>>

Execute(rows) ==
  LET execution == [type |-> "execution", rows |-> rows]
      changes == [o \in DOMAIN rows |-> rows[o].order]
  IN
  /\ orders' = [o \in Orders |-> IF o \in DOMAIN rows THEN rows[o].order
                                                     ELSE orders[o]]
  /\ inbox' = inbox
       \o Stream("execution", execution)
       \o Stream("order", [type |-> "order", action |-> "UPDATE", rows |-> changes])
       \o Stream("position", [type |-> "position", quantity |-> position'])
  /\ IF "execution" \in topics
     THEN tape' = tape \cup TradesOf(execution) /\ UNCHANGED unseen
     ELSE unseen' = unseen \cup DOMAIN rows /\ UNCHANGED tape

OrderChanges ==
  /\ Spend("change")
  /\ \E o \in Orders, type \in ExecType, new \in Order :
       /\ Executes(type, orders[o], new)
       /\ position' = IF SideOf[o] = "BUY" THEN position + new.cum - orders[o].cum
                                           ELSE position - new.cum + orders[o].cum
       /\ Execute([p \in {o} |-> [type |-> type, order |-> new]])
  /\ UNCHANGED <<session, users, link, outbox, pending, topics, armed, fuse, clocks>>

(* The switch: every open order is cancelled.                              *)
SwitchFires ==
  /\ armed /\ fuse = 0
  /\ armed' = FALSE
  /\ UNCHANGED position
  /\ Execute([o \in OpenOrders |->
               [type |-> "CANCELED",
                order |-> [orders[o] EXCEPT !.status = "CANCELED",
                                            !.working = FALSE]]])
  /\ UNCHANGED <<session, users, link, outbox, pending, topics, fuse, clocks>>
  /\ UNCHANGED budget

(* A tick.  Timers, requests and the switch do not wait beyond their time. *)
Less(n) == IF n = 0 THEN 0 ELSE n - 1

Tick ==
  /\ idle < Period
  /\ \A n \in DOMAIN outbox : outbox[n].age < Delay
  /\ ~(armed /\ fuse = 0)
  /\ due' = Less(due) /\ idle' = idle + 1
  /\ fuse' = Less(fuse)
  /\ readyFor' = IF ready /\ readyFor <= Period + Delay THEN readyFor + 1
                                                       ELSE readyFor
  /\ outbox' = [n \in DOMAIN outbox |-> [outbox[n] EXCEPT !.age = @ + 1]]
  /\ UNCHANGED <<session, users, link, inbox, pending, topics, orders>>
  /\ UNCHANGED <<position, armed, seen, budget>>

-------------------------------------------------------------------------------
Handle == \/ OnWelcome \/ OnOrderPartial \/ OnOrderIgnored \/ OnExecution
          \/ OnPosition

Answering == ExchangeSubscribes \/ ExchangeWinds \/ TopicStarts

Next == \/ TransportReady \/ TransportLost \/ OnTimer \/ Handle
        \/ Answering \/ TopicRefused \/ OrderChanges \/ SwitchFires \/ Tick

(* The connection manager reconnects, the event loop parses what has       *)
(* arrived, and the exchange serves what it was asked.                     *)
Fairness == WF_vars(TransportReady) /\ WF_vars(Handle) /\ WF_vars(Answering)

Spec == Init /\ [][Next]_vars
FairSpec == Spec /\ Fairness

-------------------------------------------------------------------------------
(* Properties.                                                             *)

(* A view says what the exchange says, by either translation.              *)
Says(view, order) ==
  /\ view.traded = order.cum
  /\ view.status \in {MapOrdStatus[order.status],
                       ComputeOrderStatus(order.status, order.working)}

(* From READY on, with every message read, the users see each open order   *)
(* as it is, and each closed one whose end the session was told of: no     *)
(* change falls between the executions and the snapshot of orders          *)
(* (drop_copy.cpp:268-279 and 381-394).  A refused topic of executions     *)
(* only logs.                                                              *)
OrdersCurrent ==
  ready /\ "execution" \in topics /\ inbox = <<>> =>
    \A o \in Orders : Open(orders[o]) \/ (o \notin unseen /\ orders[o] # NoOrder)
                      => Says(shown[o], orders[o])

(* A trade is reported once if it was sent and has arrived, and never      *)
(* otherwise: not by a snapshot, not after a reconnect, not by an          *)
(* execution of another kind (drop_copy.cpp:466-502).                      *)
FillsExact ==
  \A t \in Trades :
    reported[t] = IF t \in tape /\ \A n \in DOMAIN inbox : t \notin TradesOf(inbox[n])
                  THEN 1 ELSE 0

(* A request is only said to be answered as the exchange has answered it:  *)
(* a cancel is accepted for orders that are canceled, a create for orders  *)
(* that were taken, and refused for those that were not (utils.hpp:14-58,  *)
(* order_update.cpp:31-32).                                                *)
AnswersTrue ==
  \A o \in Orders : \A a \in answers[o] :
    /\ a = <<"CANCEL_ORDER", "ACCEPTED">> => orders[o].status = "CANCELED"
    /\ a = <<"CREATE_ORDER", "ACCEPTED">> =>
         orders[o].status \notin {"NONE", "REJECTED"}
    /\ a = <<"UNDEFINED", "REJECTED">> => orders[o].status = "REJECTED"

(* With every message read, the position shown is the exchange's, on one   *)
(* side only (drop_copy.cpp:515-539).                                      *)
PositionCurrent ==
  "position" \in topics /\ inbox = <<>> =>
    /\ account.long - account.short = position
    /\ account.long = 0 \/ account.short = 0

(* The switch never fires on a session that has been READY for longer than *)
(* it takes to wind it once, provided the timeout is longer than the time  *)
(* between two windings (drop_copy.cpp:120-128).                           *)
Protected ==
  Enabled /\ Timeout > Quarter + Period + Delay
  => (readyFor > Period + Delay => armed /\ fuse > 0)

(* Why: before the first winding of the session has arrived it is either   *)
(* not yet sent, with a timer to come, or under way; after that the switch *)
(* has the timeout left, less what went by since the last one to arrive    *)
(* was sent, and another is sent before long.                              *)
ClockType ==
  /\ ready \in BOOLEAN /\ armed \in BOOLEAN
  /\ due \in 0..Quarter /\ idle \in 0..Period
  /\ readyFor \in Nat /\ fuse \in Nat
  /\ outbox \in Seq(Request)
  /\ \A n \in DOMAIN outbox : outbox[n].age <= Delay

Windings == {n \in DOMAIN outbox : outbox[n].op = "cancelAllAfter"}

Unsent == due = 0 /\ readyFor <= idle
FirstUnderWay == \E n \in Windings : readyFor <= Period + outbox[n].age
LastArrived == armed /\ IF due > 0 THEN fuse >= Timeout - Quarter + due
                                  ELSE fuse >= Timeout - Quarter - idle
NextUnderWay ==
  armed /\ \E n \in Windings :
             fuse >= Timeout - Quarter - Period - outbox[n].age

SwitchWound ==
  /\ ClockType
  /\ ready => link = "up"
  /\ ~ready => due = 0 /\ readyFor = 0
  /\ \A n \in Windings : outbox[n].timeout = Timeout
  /\ ready => Unsent \/ FirstUnderWay \/ LastArrived \/ NextUnderWay

(* A switch wound by an earlier run does not threaten a gateway that is    *)
(* told not to use it (drop_copy.cpp:302-304).                             *)
Disarmed == ~Enabled => (readyFor > Delay => ~armed)

(* Why: the request to stop the switch is sent with the subscription.      *)
SwitchStopped ==
  /\ ClockType
  /\ ~ready => readyFor = 0
  /\ \A n \in Windings : outbox[n].timeout = 0
  /\ ready \/ download = "SUBSCRIBE" =>
       ~armed \/ \E n \in Windings : readyFor <= outbox[n].age

(* A session gets READY for good, and shows what is open as it is.         *)
EventuallyTold ==
  <>[](ready /\ \A o \in OpenOrders : Says(shown[o], orders[o]))

(* index.rst:399-405: a Triggered order is shown as ACCEPTED, an           *)
(* Untriggered one as WORKING.                                             *)
DocumentedStatus ==
  inbox = <<>> /\ ready => \A o \in Orders \ unseen :
    /\ orders[o].status = "TRIGGERED" => shown[o].status = "ACCEPTED"
    /\ orders[o].status = "UNTRIGGERED" => shown[o].status = "WORKING"

===============================================================================
