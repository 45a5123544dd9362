------------------------------ MODULE OrderEntry ------------------------------
(***************************************************************************)
(* gateway/order_entry.cpp and the round robin of gateway/controller.cpp:  *)
(* the requests of the users of one account on their way to the exchange,  *)
(* over HTTP connections that are lost, time out and answer out of step.   *)
(*                                                                         *)
(* A request is named by its target (an order, or All for a request to     *)
(* cancel every order) and its version: it is the entry of the target's    *)
(* journal at that version.  The HTTP client and the exchange are modelled *)
(* as order_entry.cpp uses them.  Executions reach the users through the   *)
(* drop copy (DropCopy.tla), here a channel that delivers in order.        *)
(***************************************************************************)
EXTENDS OrderStatus, ErrorText, Integers, Sequences, FiniteSets

CONSTANTS Orders, All,
          Connections,     \* flag number_of_order_entry_connections
          Pipelining,      \* flag rest_allow_order_request_pipeline
          ExpiresTimeout,  \* flag rest_expires_timeout, in seconds
          RequestTimeout,  \* flag rest_request_timeout, in seconds
          Versions,        \* bound: so many requests for a target
          Requests,        \* bound: so many requests
          Troubles,        \* bound: what the environment may do ...
          Budget           \* ... and so often in all

ASSUME ConnectionsAssumption == Connections \in Nat \ {0}
ASSUME TargetsAssumption == All \notin Orders /\ IsFiniteSet(Orders)
ASSUME FlagsAssumption == /\ Pipelining \in BOOLEAN
                          /\ ExpiresTimeout \in Nat /\ RequestTimeout \in Nat
ASSUME BoundsAssumption == /\ Versions \in Nat /\ Requests \in Nat
                           /\ Budget \in Nat
                           /\ Troubles \subseteq {"disconnect", "fault", "limit",
                                                 "refuse"}

VARIABLES
  index,       \* OrderEntryRR::index_
  link,        \* connection_status_ of each connection
  calls,       \* HTTP client: the requests of each connection, oldest first
  orphans,     \* the network: requests nobody awaits the answer of any more
  orders,      \* exchange: the orders
  stream,      \* executions on their way to the users
  shown,       \* dispatcher: the newest update of each order
  journal,     \* dispatcher: the requests for each target, and their answers
  served,      \* history: requests per connection since a connection changed
  overtook,    \* history: served before the request they build on
  budget       \* what is left of Budget

gateway == <<index, link>>
wire == <<calls, orphans>>
exchange == <<orders, stream>>
users == <<shown, journal>>
history == <<served, overtook>>
vars == <<gateway, wire, exchange, users, history, budget>>

(* What costs a trouble is done as long as there is some left.             *)
Spend(cost) ==
  IF cost = "none" THEN budget' = budget
  ELSE cost \in Troubles /\ budget > 0 /\ budget' = budget - 1

-------------------------------------------------------------------------------
(* Requests, answers and responses.                                        *)

Targets == Orders \cup {All}
RequestType == {"CREATE_ORDER", "MODIFY_ORDER", "CANCEL_ORDER",
                "CANCEL_ALL_ORDERS"}
Ids == {id \in Targets \X (1..Versions) : id[2] \in DOMAIN journal[id[1]]}
Request(id) == journal[id[1]][id[2]]

RequestStatus == {"ACCEPTED", "REJECTED", "FORWARDED", "FAILED", "TIMEOUT",
                  "DISCONNECTED", "ERROR", "UNDEFINED"}
Error == ListedErrors \cup {"UNDEFINED", "UNKNOWN", "TIMEOUT", "NETWORK_ERROR",
                           "NOT_READY"}
Answer == [origin : {"EXCHANGE", "GATEWAY"}, status : RequestStatus, error : Error]
AnswerOf(origin, status, error) ==
  [origin |-> origin, status |-> status, error |-> error]

(* A row names an order, its status and when it got it.  The text is that  *)
(* of the error, or the ordRejReason of the row.                           *)
Response(category, rows, text) ==
  [category |-> category, rows |-> rows, text |-> text]
NoResponse == Response("NONE", {}, <<>>)

TypeOK ==
  /\ index \in 0..(Connections - 1)
  /\ link \in [0..(Connections - 1) -> {"UNDEFINED", "READY", "DISCONNECTED"}]
  /\ DOMAIN calls = DOMAIN link
  /\ \A c \in DOMAIN calls : \A i \in DOMAIN calls[c] :
       calls[c][i].id \in Ids
  /\ orphans \subseteq Ids /\ overtook \subseteq Ids
  /\ orders \in [Orders -> [status : {"NONE", "NEW", "FILLED", "CANCELED",
                                      "REJECTED"},
                            version : 0..Versions, revision : Nat]]
  /\ shown \in [Orders -> [status : {"UNDEFINED", "WORKING", "COMPLETED",
                                     "CANCELED", "REJECTED"}, revision : Nat]]
  /\ DOMAIN journal = Targets
  /\ \A id \in Ids :
       /\ Request(id).type \in RequestType
       /\ Request(id).orig \in 0..(id[2] - 1) /\ Request(id).named \in BOOLEAN
       /\ Request(id).fate \in {"open", "done", "refused", "limited"}
       /\ Request(id).answers \in Seq(Answer)
  /\ served \in [DOMAIN link -> Nat]
  /\ budget \in 0..Budget

-------------------------------------------------------------------------------
(* Controller::OrderEntryRR::get_next: the first connection in the ring,   *)
(* from index_ on, that is ready.                                          *)
Ring == 0..(Connections - 1)
Ready(c) == link[c] = "READY"
NoneReady == \A c \in Ring : ~Ready(c)
Offset(c) == IF c >= index THEN c - index ELSE c - index + Connections
NextReady ==
  CHOOSE c \in Ring : Ready(c) /\ \A d \in Ring : Ready(d) => Offset(c) <= Offset(d)

\* mutant: the search starts where the last one ended
SameIndex(c) == c
\* mutant: the end of the ring is not its beginning
NoWrap(c) == c + 1
IndexAfter(c) == (c + 1) % Connections

(* compute_expires: rounded up to a second.  The exchange refuses a        *)
(* request that reaches it later; time is not modelled, and any may.       *)
\* mutant: the wrong flag
ExpiresLate == RequestTimeout + 1
ExpiresAfter == ExpiresTimeout + 1

(* get_quality_of_service: IMMEDIATE sends a request at once, CRITICAL     *)
(* once the connection has the answer to the one before.                   *)
Sent(c) == IF Pipelining THEN DOMAIN calls[c] ELSE DOMAIN calls[c] \cap {1}
Unserved(c) == {i \in DOMAIN calls[c] : calls[c][i].response = NoResponse}

-------------------------------------------------------------------------------
(* Requests: Controller, get_next and OrderEntry's create_order,           *)
(* modify_order, cancel_order and cancel_all_orders.                       *)

Size == Cardinality(Ids)
Entry(type, orig, named) == [type |-> type, orig |-> orig, named |-> named,
                             fate |-> "open", answers |-> <<>>]
(* With no connection ready the request fails with NotReady.  The request  *)
(* to cancel all is answered once when sent, and again when served.        *)
Forward(target, entry) ==
  /\ Len(journal[target]) < Versions /\ Size < Requests
  /\ LET id == <<target, Len(journal[target]) + 1>>
         c == NextReady
         first == IF NoneReady
                  THEN <<AnswerOf("GATEWAY", "FAILED", "NOT_READY")>>
                  ELSE IF entry.type = "CANCEL_ALL_ORDERS"
                  THEN <<AnswerOf("GATEWAY", "FORWARDED", "UNDEFINED")>>
                  ELSE <<>>
     IN /\ journal' = [journal EXCEPT
                         ![target] = Append(@, [entry EXCEPT !.answers = first])]
        /\ IF NoneReady THEN UNCHANGED <<index, calls, served>>
           ELSE /\ index' = IndexAfter(c)
                /\ calls' = [calls EXCEPT ![c] = Append(@,
                     [id |-> id, response |-> NoResponse])]
                /\ served' = [served EXCEPT ![c] = @ + 1]
  /\ UNCHANGED <<link, orphans, exchange, shown, overtook, budget>>

Ended == {"COMPLETED", "CANCELED", "REJECTED"}
Live(o) == journal[o] # <<>> /\ shown[o].status \notin Ended

CreateOrder(o) == journal[o] = <<>> /\ Forward(o, Entry("CREATE_ORDER", 0, FALSE))
(* A modification names the version it replaces.                           *)
ModifyOrder(o) ==
  /\ Live(o)
  /\ \E v \in 1..Len(journal[o]) :
       /\ journal[o][v].type # "CANCEL_ORDER"
       /\ Forward(o, Entry("MODIFY_ORDER", v, FALSE))
(* A cancellation names the order as the exchange does, if it is known.    *)
CancelOrder(o) ==
  Live(o) /\ Forward(o, Entry("CANCEL_ORDER", 0, shown[o].revision > 0))
CancelAllOrders == Forward(All, Entry("CANCEL_ALL_ORDERS", 0, FALSE))

-------------------------------------------------------------------------------
(* Answers.                                                                *)

(* process_response, and the handlers it is given.  Network errors reach   *)
(* it as exceptions, as does what cannot be parsed.                        *)
Origin(response) ==
  IF response.category \in {"TIMEOUT", "DISCONNECTED"} THEN "GATEWAY"
  ELSE "EXCHANGE"
RowAnswers(type, response) ==
  IF type = "CANCEL_ALL_ORDERS" THEN {"ACCEPTED"}
  ELSE {ComputeRowStatus(row.status) : row \in response.rows}
Status(type, response) ==
  CASE response.category = "SUCCESS" -> CHOOSE s \in RowAnswers(type, response) : TRUE
    [] response.category \in {"CLIENT_ERROR", "SERVER_ERROR"} -> "REJECTED"
    [] response.category \in {"TIMEOUT", "DISCONNECTED"} -> response.category
    [] OTHER -> "ERROR"
ErrorOf(response) ==
  CASE response.category \in {"SUCCESS", "CLIENT_ERROR"} -> GuessError(response.text)
    [] response.category = "TIMEOUT" -> "TIMEOUT"
    [] response.category = "DISCONNECTED" -> "NETWORK_ERROR"
    [] OTHER -> "UNKNOWN"
ThisAnswer(type, response) ==
  AnswerOf(Origin(response), Status(type, response), ErrorOf(response))

\* mutant: 5xx falls through to the default, which throws
FallThrough(type, response) ==
  <<ThisAnswer(type, response)>> \o
    IF response.category = "SERVER_ERROR"
    THEN <<AnswerOf("EXCHANGE", "ERROR", "UNKNOWN")>> ELSE <<>>
Replies(type, response) == <<ThisAnswer(type, response)>>

Tell(j, id, response) ==
  [j EXCEPT ![id[1]][id[2]].answers = @ \o Replies(j[id[1]][id[2]].type, response)]

(* The server keeps the newest update of an order, by update_time_utc, and *)
(* an update without a status changes nothing.                             *)
\* mutant: the time of arrival
Arrived(old, row) == TRUE
Newer(old, row) == row.revision >= old.revision
Show(old, row, status) ==
  IF status # "UNDEFINED" /\ Newer(old, row)
  THEN [status |-> status, revision |-> row.revision] ELSE old

(* The rows that answer the request to cancel all are not passed on.       *)
ShowRows(type, rows) ==
  [o \in Orders |->
     LET mine == {row \in rows : row.order = o /\ type # "CANCEL_ALL_ORDERS"}
     IN IF mine = {} THEN shown[o]
        ELSE LET row == CHOOSE row \in mine : TRUE
             IN Show(shown[o], row, ComputeOrderStatus(row.status, row.status = "NEW"))]

(* The client calls back: create_order_ack, modify_order_ack,              *)
(* cancel_order_ack and cancel_all_orders_ack.                             *)
HandleResponse(c) ==
  /\ calls[c] # <<>> /\ Head(calls[c]).response # NoResponse
  /\ LET call == Head(calls[c]) IN
       /\ journal' = Tell(journal, call.id, call.response)
       /\ shown' = ShowRows(Request(call.id).type, call.response.rows)
  /\ calls' = [calls EXCEPT ![c] = Tail(@)]
  /\ UNCHANGED <<gateway, orphans, exchange, history, budget>>

(* The answer to the oldest request does not come in time, and the client  *)
(* calls back with an error.  Unless it has expired, the request may still *)
(* be under way.                                                           *)
Timeout(c) ==
  /\ calls[c] # <<>>
  /\ LET call == Head(calls[c]) IN
       /\ journal' = Tell(journal, call.id, Response("TIMEOUT", {}, <<>>))
       /\ orphans' = IF 1 \in Unserved(c) /\ RequestTimeout < ExpiresAfter
                     THEN orphans \cup {call.id} ELSE orphans
  /\ calls' = [calls EXCEPT ![c] = Tail(@)]
  /\ UNCHANGED <<gateway, exchange, shown, history, budget>>

-------------------------------------------------------------------------------
(* Connections: Client::Connected and Client::Disconnected.                *)

Connected(c) ==
  /\ ~Ready(c)
  /\ link' = [link EXCEPT ![c] = "READY"]
  /\ served' = [d \in Ring |-> 0]
  /\ UNCHANGED <<index, wire, exchange, users, overtook, budget>>

TellAll(c) ==
  LET lost == {calls[c][i].id : i \in DOMAIN calls[c]}
  IN [t \in Targets |-> [v \in DOMAIN journal[t] |->
        IF <<t, v>> \in lost
        THEN Tell(journal, <<t, v>>, Response("DISCONNECTED", {}, <<>>))[t][v]
        ELSE journal[t][v]]]

(* The client calls back for every request; what was sent and is not       *)
(* served may still be under way.                                          *)
Disconnected(c) ==
  /\ Ready(c) /\ Spend("disconnect")
  /\ link' = [link EXCEPT ![c] = "DISCONNECTED"]
  /\ journal' = TellAll(c)
  /\ orphans' = orphans \cup {calls[c][i].id : i \in Sent(c) \cap Unserved(c)}
  /\ calls' = [calls EXCEPT ![c] = <<>>]
  /\ served' = [d \in Ring |-> 0]
  /\ UNCHANGED <<index, exchange, shown, overtook>>

-------------------------------------------------------------------------------
(* The exchange.  A reaction says what becomes of the orders, of the       *)
(* request and of the bounds, and what is answered.                        *)

Row(o, status, new) == [order |-> o, status |-> status, revision |-> new[o].revision]
Turn(o, status, version) ==
  [orders EXCEPT ![o] = [status |-> status, version |-> version,
                         revision |-> @.revision + 1]]
Done(o, new, cost) ==
  [orders |-> new, fate |-> "done", cost |-> cost,
   response |-> Response("SUCCESS", {Row(o, new[o].status, new)}, <<>>)]
(* A rejected order is entered as such, and its row may say why.           *)
Rejected(o, version, text) ==
  LET new == Turn(o, "REJECTED", version) IN
  [orders |-> new, fate |-> "refused", cost |-> "refuse",
   response |-> Response("SUCCESS", {Row(o, new[o].status, new)}, text)]
Refuse(text, cost) ==
  [orders |-> orders, fate |-> "refused", cost |-> cost,
   response |-> Response("CLIENT_ERROR", {}, text)]
(* An order that cannot be cancelled: a row without a status.              *)
NotCanceled(o) ==
  [orders |-> orders, fate |-> "refused", cost |-> "none",
   response |-> Response("SUCCESS", {Row(o, "UNKNOWN", orders)}, <<>>)]

Resting == {o \in Orders : orders[o].status = "NEW"}
Swept == [o \in Orders |-> IF o \in Resting THEN Turn(o, "CANCELED", orders[o].version)[o]
                           ELSE orders[o]]
SweptRows == {Row(o, "CANCELED", Swept) : o \in Resting}

BadPrice == Refuse(<<"invalid", "price">>, "refuse")
Fair(id) ==
  LET o == id[1] type == Request(id).type IN
  CASE type = "CREATE_ORDER" ->
         {Done(o, Turn(o, "NEW", id[2]), "none"), BadPrice}
           \cup {Rejected(o, id[2], text) : text \in {<<>>, <<"invalid", "price">>}}
    [] type = "MODIFY_ORDER" ->
         IF orders[o].version # Request(id).orig
         THEN {Refuse(<<"invalid", "origClOrdID">>, "none")}
         ELSE IF o \notin Resting THEN {Refuse(<<"invalid", "ordStatus">>, "none")}
         ELSE {Done(o, Turn(o, "NEW", id[2]), "none"), BadPrice}
    [] type = "CANCEL_ORDER" ->
         IF ~Request(id).named THEN {Refuse(<<"invalid", "orderID">>, "none")}
         ELSE IF o \notin Resting THEN {NotCanceled(o)}
         ELSE {Done(o, Turn(o, "CANCELED", orders[o].version), "none")}
    [] OTHER -> {[orders |-> Swept, fate |-> "done", cost |-> "none",
                  response |-> Response("SUCCESS", SweptRows, <<>>)]}

(* 5xx, whatever became of the request, or an answer that is not readable. *)
Garbled(r) == [r EXCEPT !.cost = "fault",
                        !.response = Response("SERVER_ERROR", {}, <<>>)]
Unreadable(r) == [r EXCEPT !.cost = "fault",
                           !.response = Response("OTHER", {}, <<>>)]
Overloaded ==
  [Refuse(<<"rate", "limit", "exceeded,", "retry", "in", "1", "seconds.">>, "limit")
     EXCEPT !.fate = "limited"]
Late == Refuse(<<"request", "has", "expired">>, "fault")
Reactions(id) ==
  {Late, Overloaded, Garbled(Late)} \cup Fair(id)
  \cup UNION {{Garbled(r), Unreadable(r)} : r \in {f \in Fair(id) : f.cost = "none"}}

(* Each order that changed is reported by an execution.                    *)
Report(new) ==
  LET changed == {o \in Orders : new[o] # orders[o]}
  IN \E news \in [1..Cardinality(changed) -> changed] :
       /\ {news[i] : i \in DOMAIN news} = changed
       /\ stream' = stream \o [i \in DOMAIN news |->
                                 Row(news[i], new[news[i]].status, new)]

React(id, r) ==
  /\ orders' = r.orders
  /\ Report(r.orders)
  /\ journal' = [journal EXCEPT ![id[1]][id[2]].fate = r.fate]
  /\ Spend(r.cost)
  /\ overtook' = IF Request(id).type = "MODIFY_ORDER" /\
                    Request(<<id[1], Request(id).orig>>).fate = "open"
                 THEN overtook \cup {id} ELSE overtook

Serve(c) ==
  /\ \E i \in Sent(c) \cap Unserved(c) :
       /\ \A j \in 1..(i - 1) : j \notin Unserved(c)
       /\ \E r \in Reactions(calls[c][i].id) :
            /\ React(calls[c][i].id, r)
            /\ calls' = [calls EXCEPT ![c][i].response = r.response]
  /\ UNCHANGED <<gateway, orphans, shown, served>>
ServeOrphan ==
  /\ \E id \in orphans :
       /\ orphans' = orphans \ {id}
       /\ \E r \in Fair(id) : React(id, r)
  /\ UNCHANGED <<gateway, calls, shown, served>>

Fill(o) ==
  /\ o \in Resting
  /\ orders' = Turn(o, "FILLED", orders[o].version)
  /\ Report(orders')
  /\ UNCHANGED <<gateway, wire, users, history, budget>>

(* The drop copy tells the users of an execution.                          *)
ExecutionArrives ==
  /\ stream # <<>>
  /\ LET row == Head(stream) IN
       shown' = [shown EXCEPT ![row.order] = Show(@, row, MapOrdStatus[row.status])]
  /\ stream' = Tail(stream)
  /\ UNCHANGED <<gateway, wire, orders, journal, history, budget>>

-------------------------------------------------------------------------------
Init ==
  /\ index = 0
  /\ link = [c \in Ring |-> "UNDEFINED"]
  /\ calls = [c \in Ring |-> <<>>]
  /\ orphans = {} /\ overtook = {}
  /\ orders = [o \in Orders |-> [status |-> "NONE", version |-> 0, revision |-> 0]]
  /\ stream = <<>>
  /\ shown = [o \in Orders |-> [status |-> "UNDEFINED", revision |-> 0]]
  /\ journal = [t \in Targets |-> <<>>]
  /\ served = [c \in Ring |-> 0]
  /\ budget = Budget

Next ==
  \/ \E o \in Orders : CreateOrder(o) \/ ModifyOrder(o) \/ CancelOrder(o) \/ Fill(o)
  \/ CancelAllOrders
  \/ \E c \in Ring : \/ Connected(c) \/ Disconnected(c)
                     \/ Serve(c) \/ HandleResponse(c) \/ Timeout(c)
  \/ ServeOrphan \/ ExecutionArrives

Spec == Init /\ [][Next]_vars

-------------------------------------------------------------------------------
Told(id, statuses) ==
  \E i \in DOMAIN Request(id).answers : Request(id).answers[i].status \in statuses
Waiting(id) == \E c \in Ring : \E i \in DOMAIN calls[c] : calls[c][i].id = id
Final(id) ==
  {i \in DOMAIN Request(id).answers : Request(id).answers[i].status # "FORWARDED"}

(* Whatever becomes of a request, of its answer and of its connection, the *)
(* user has exactly one final answer to it, and none as long as the client *)
(* has yet to call back.  FORWARDED comes before it.                       *)
AnsweredOnce ==
  \A id \in Ids :
    IF Waiting(id) THEN Final(id) = {}
    ELSE \E last \in DOMAIN Request(id).answers :
           Final(id) = {last} /\ last = Len(Request(id).answers)

(* What is ACCEPTED was done: the exchange has the order, it is changed or *)
(* ended, and the users are shown as much.  What is REJECTED for a known   *)
(* reason was not done.                                                    *)
AnswersMatch ==
  \A id \in Ids :
    /\ Told(id, {"ACCEPTED"}) =>
         /\ Request(id).fate = "done"
         /\ id[1] # All => shown[id[1]].revision > 0
         /\ Request(id).type = "CANCEL_ORDER" =>
              /\ orders[id[1]].status = "CANCELED"
              /\ shown[id[1]].status = "CANCELED"
    /\ \A i \in DOMAIN Request(id).answers :
         LET answer == Request(id).answers[i] IN
         answer.status = "REJECTED" /\ answer.error \notin {"UNDEFINED", "UNKNOWN"}
           => Request(id).fate = "refused"

(* The reason the user is given is the reason there was: guess_error picks *)
(* the first of its texts that fits.  One case is beside the truth: a      *)
(* modification that overtakes, on another connection, the request it      *)
(* builds on is said to be too late.                                       *)
ReasonTrue ==
  \A id \in Ids : \A i \in DOMAIN Request(id).answers :
    LET error == Request(id).answers[i].error
        request == Request(id)
    IN CASE error = "TOO_LATE_TO_MODIFY_OR_CANCEL" ->
              \/ orders[id[1]].status # "NEW"
              \/ orders[id[1]].version # request.orig
              \/ id \in overtook
         [] error = "INVALID_ORDER_ID" -> request.type = "CANCEL_ORDER" /\ ~request.named
         [] error = "INVALID_PRICE" -> request.type \in {"CREATE_ORDER", "MODIFY_ORDER"}
         [] OTHER -> error \in {"UNDEFINED", "UNKNOWN", "TIMEOUT", "NETWORK_ERROR",
                                "NOT_READY"}

(* While the same connections are ready, they get the same number of       *)
(* requests, but for one: get_next takes them in turn, wherever index_ was *)
(* when a connection came or went.                                         *)
TakenInTurn ==
  \A c, d \in Ring : Ready(c) /\ Ready(d) => served[c] <= served[d] + 1

(* Two channels tell of an order, the answers and the executions, and they *)
(* are not in step: still the users see the exchange's status as soon as   *)
(* every execution has arrived, an answer that comes last or never does    *)
(* notwithstanding.                                                        *)
NewestTold ==
  stream = <<>> =>
    \A o \in Orders :
      shown[o].status = IF orders[o].status = "NONE" THEN "UNDEFINED"
                        ELSE MapOrdStatus[orders[o].status]

(* A request that timed out is settled: if it was not done by then, it is  *)
(* never done, because it expires first.                                   *)
TimeoutSettles ==
  [][\A id \in Ids : Told(id, {"TIMEOUT"}) /\ Request(id).fate = "open"
       => Request(id)'.fate # "done"]_vars

(* What the exchange refuses for too many requests is answered as such     *)
(* (utils.cpp lists the texts).                                            *)
RateLimitTold ==
  \A id \in Ids : \A i \in DOMAIN Request(id).answers :
    LET answer == Request(id).answers[i] IN
    Request(id).fate = "limited" /\ answer.status = "REJECTED"
      => answer.error = "REQUEST_RATE_LIMIT_REACHED"

===============================================================================
