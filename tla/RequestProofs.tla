----------------------------- MODULE RequestProofs -----------------------------
(***************************************************************************)
(* The requests of OrderEntry and their answers, for any number of orders, *)
(* connections and requests: they are taken in turn by the connections     *)
(* that are ready, and each gets one final answer.                         *)
(***************************************************************************)
EXTENDS OrderEntry, WellFoundedInduction, TLAPS

-------------------------------------------------------------------------------
(* The ring.                                                               *)

LEMMA LeastNatural ==
  ASSUME NEW S, S \subseteq Nat, S # {}
  PROVE  \E m \in S : \A n \in S : m <= n
<1> DEFINE R == OpToRel(<, Nat)
<1>1. IsWellFoundedOn(R, Nat)
  BY NatLessThanWellFounded DEF OpToRel, R
<1>2. PICK m \in S : \A n \in S : <<n, m>> \notin R
  <2> HIDE DEF R
  <2> QED
    BY <1>1, WFMin
<1>3. \A n \in S : ~(n < m)
  BY <1>2 DEF OpToRel
<1> QED
  BY <1>3

LEMMA RingType == Connections \in Nat /\ Connections > 0 /\ Ring \subseteq Nat
  BY ConnectionsAssumption DEF Ring

LEMMA RingNext ==
  ASSUME NEW c \in Ring
  PROVE  /\ IndexAfter(c) \in Ring
         /\ IndexAfter(c) = IF c = Connections - 1 THEN 0 ELSE c + 1
<1>1. CASE c = Connections - 1
  <2>1. IndexAfter(c) = Connections % Connections
    BY <1>1, RingType DEF IndexAfter, Ring
  <2>2. Connections % Connections = 0
    BY RingType
  <2> QED
    BY <1>1, <2>1, <2>2, RingType DEF Ring
<1>2. CASE c # Connections - 1
  <2>1. c + 1 \in 0..(Connections - 1)
    BY <1>2, RingType DEF Ring
  <2>2. (c + 1) % Connections = c + 1
    BY <2>1, RingType
  <2> QED
    BY <1>2, <2>1, <2>2 DEF Ring, IndexAfter
<1> QED
  BY <1>1, <1>2

(* Seen from index_, every connection has a place of its own.             *)
LEMMA Offsets ==
  ASSUME index \in Ring
  PROVE  /\ \A c \in Ring : Offset(c) \in Ring
         /\ \A c, d \in Ring : Offset(c) = Offset(d) => c = d
  BY RingType DEF Ring, Offset

(* get_next finds a ready connection if there is one, and the nearest.     *)
LEMMA NextIsReady ==
  ASSUME index \in Ring, ~NoneReady
  PROVE  /\ NextReady \in Ring /\ Ready(NextReady)
         /\ \A d \in Ring : Ready(d) => Offset(NextReady) <= Offset(d)
<1> DEFINE S == {Offset(c) : c \in {d \in Ring : Ready(d)}}
<1>1. S \subseteq Nat /\ S # {}
  BY Offsets, RingType, ZenonT(60) DEF NoneReady
<1>2. PICK m \in S : \A n \in S : m <= n
  <2> HIDE DEF S
  <2> QED
    BY <1>1, LeastNatural
<1>3. \E c \in Ring : Ready(c) /\ \A d \in Ring : Ready(d) => Offset(c) <= Offset(d)
  BY <1>2
<1> QED
  BY <1>3 DEF NextReady

-------------------------------------------------------------------------------
(* The invariant.                                                          *)

TurnType == /\ index \in Ring
            /\ link \in [Ring -> {"UNDEFINED", "READY", "DISCONNECTED"}]
            /\ served \in [Ring -> Nat]

(* The nearer a ready connection is, the fewer requests it had, and none   *)
(* is ahead of another by more than one.                                   *)
NearestHadFewest ==
  \A c, d \in Ring :
    Ready(c) /\ Ready(d) /\ Offset(c) <= Offset(d) =>
      served[c] <= served[d] /\ served[d] <= served[c] + 1

Turns == TurnType /\ NearestHadFewest

LEMMA TurnsMeanTakenInTurn ==
  ASSUME Turns
  PROVE  TakenInTurn
<1> SUFFICES ASSUME NEW c \in Ring, NEW d \in Ring, Ready(c), Ready(d)
             PROVE  served[c] <= served[d] + 1
  BY DEF TakenInTurn
<1>1. Offset(c) \in Nat /\ Offset(d) \in Nat /\ served[c] \in Nat /\ served[d] \in Nat
  BY Offsets, RingType DEF Turns, TurnType
<1>2. CASE Offset(c) <= Offset(d)
  BY <1>1, <1>2 DEF Turns, NearestHadFewest
<1>3. CASE Offset(d) <= Offset(c)
  BY <1>1, <1>3 DEF Turns, NearestHadFewest
<1> QED
  BY <1>1, <1>2, <1>3

LEMMA TurnsInitially ==
  ASSUME Init
  PROVE  Turns
<1>1. index \in Ring
  BY RingType DEF Init, Ring
<1>2. link \in [Ring -> {"UNDEFINED", "READY", "DISCONNECTED"}]
      /\ served \in [Ring -> Nat]
  BY DEF Init
<1>3. \A c \in Ring : ~Ready(c)
  BY DEF Init, Ready
<1> QED
  BY <1>1, <1>2, <1>3 DEF Turns, TurnType, NearestHadFewest

(* A connection that comes or goes starts the count anew.                  *)
LEMMA LinkKeepsTurns ==
  ASSUME Turns, NEW c \in Ring, Connected(c) \/ Disconnected(c)
  PROVE  Turns'
<1>1. index' = index
  BY DEF Connected, Disconnected
<1>2. link' \in [Ring -> {"UNDEFINED", "READY", "DISCONNECTED"}]
  BY DEF Connected, Disconnected, Turns, TurnType
<1>3. served' = [d \in Ring |-> 0]
  BY DEF Connected, Disconnected
<1> QED
  BY <1>1, <1>2, <1>3 DEF Turns, TurnType, NearestHadFewest

(* The connection that is served was the nearest and is now the farthest;  *)
(* the others come nearer, all by the same.                                *)
LEMMA ServingTurns ==
  ASSUME index \in Ring, ~NoneReady, index' = IndexAfter(NextReady), link' = link,
         NEW c \in Ring, NEW d \in Ring, Ready(c), Ready(d),
         Offset(c)' <= Offset(d)'
  PROVE  \/ c = d
         \/ d = NextReady
         \/ c # NextReady /\ d # NextReady /\ Offset(c) <= Offset(d)
<1> DEFINE e == NextReady
<1>1. e \in Ring /\ Ready(e) /\ Offset(e) <= Offset(c) /\ Offset(e) <= Offset(d)
  BY NextIsReady
<1> HIDE DEF e
<1>2. index' = IF e = Connections - 1 THEN 0 ELSE e + 1
  BY <1>1, RingNext DEF e
<1>3. \A f \in Ring :
        Offset(f)' = IF f >= index' THEN f - index' ELSE f - index' + Connections
  BY DEF Offset
<1>4. \A f \in Ring : Offset(e) <= Offset(f) =>
        Offset(f)' = IF f = e THEN Connections - 1 ELSE Offset(f) - Offset(e) - 1
  <2> SUFFICES ASSUME NEW f \in Ring, Offset(e) <= Offset(f)
               PROVE  Offset(f)' = IF f = e THEN Connections - 1
                                   ELSE Offset(f) - Offset(e) - 1
    OBVIOUS
  <2>1. Offset(f)' = IF f >= index' THEN f - index' ELSE f - index' + Connections
    BY <1>3
  <2>2. Offset(f) = (IF f >= index THEN f - index ELSE f - index + Connections)
        /\ Offset(e) = (IF e >= index THEN e - index ELSE e - index + Connections)
    BY DEF Offset
  <2>3. /\ f \in Int /\ e \in Int /\ index \in Int /\ Connections \in Int
        /\ 0 <= f /\ f < Connections /\ 0 <= e /\ e < Connections
        /\ 0 <= index /\ index < Connections
    BY <1>1, RingType DEF Ring
  <2> HIDE DEF Offset
  <2> QED
    BY <1>2, <2>1, <2>2, <2>3
<1>5. Offset(c) \in Ring /\ Offset(d) \in Ring /\ Offset(e) \in Ring
      /\ (Offset(d) = Offset(e) => d = e)
  BY <1>1, Offsets
<1>6. CASE d = e
  BY <1>6 DEF e
<1>7. CASE c = e /\ d # e
  BY <1>1, <1>4, <1>5, <1>7, RingType DEF Ring
<1>8. CASE c # e /\ d # e
  BY <1>1, <1>4, <1>5, <1>8, RingType DEF Ring, e
<1> QED
  BY <1>6, <1>7, <1>8

LEMMA ForwardKeepsTurns ==
  ASSUME Turns, NEW target, NEW entry, Forward(target, entry)
  PROVE  Turns'
<1>1. CASE NoneReady
  <2>1. UNCHANGED <<index, link, served>>
    BY <1>1 DEF Forward
  <2> QED
    BY <2>1 DEF Turns, TurnType, NearestHadFewest, Ready, Offset
<1>2. CASE ~NoneReady
  <2> DEFINE e == NextReady
  <2>1. index' = IndexAfter(e) /\ link' = link
        /\ served' = [served EXCEPT ![e] = @ + 1]
    BY <1>2 DEF Forward
  <2>2. index \in Ring /\ served \in [Ring -> Nat]
    BY DEF Turns, TurnType
  <2>3. e \in Ring /\ Ready(e) /\ \A f \in Ring : Ready(f) => Offset(e) <= Offset(f)
    BY <1>2, <2>2, NextIsReady
  <2>4. TurnType'
    BY <2>1, <2>2, <2>3, RingNext DEF Turns, TurnType
  <2>5. ASSUME NEW c \in Ring, NEW d \in Ring, Ready(c)', Ready(d)',
               Offset(c)' <= Offset(d)'
        PROVE  served'[c] <= served'[d] /\ served'[d] <= served'[c] + 1
    <3>1. Ready(c) /\ Ready(d)
      BY <2>1, <2>5 DEF Ready
    <3>2. \/ c = d
          \/ d = e
          \/ c # e /\ d # e /\ Offset(c) <= Offset(d)
      BY <1>2, <2>1, <2>2, <2>5, <3>1, ServingTurns
    <3>3. /\ served[c] \in Nat /\ served[d] \in Nat /\ served[e] \in Nat
          /\ served[e] <= served[c] /\ served[c] <= served[e] + 1
      BY <2>2, <2>3, <3>1 DEF Turns, NearestHadFewest
    <3>4. \A f \in Ring : served'[f] = IF f = e THEN served[f] + 1 ELSE served[f]
      BY <2>1, <2>2
    <3>5. Offset(c) <= Offset(d) => served[c] <= served[d] /\ served[d] <= served[c] + 1
      BY <3>1 DEF Turns, NearestHadFewest
    <3> HIDE DEF e
    <3> QED
      BY <2>3, <3>2, <3>3, <3>4, <3>5
  <2> QED
    BY <2>4, <2>5 DEF Turns, NearestHadFewest
<1> QED
  BY <1>1, <1>2

LEMMA TurnsKept ==
  ASSUME Turns, [Next]_vars
  PROVE  Turns'
<1>1. CASE UNCHANGED <<index, link, served>>
  BY <1>1 DEF Turns, TurnType, NearestHadFewest, Ready, Offset
<1>2. ASSUME NEW o \in Orders, CreateOrder(o) \/ ModifyOrder(o) \/ CancelOrder(o)
      PROVE  Turns'
  BY <1>2, ForwardKeepsTurns DEF CreateOrder, ModifyOrder, CancelOrder
<1>3. CASE CancelAllOrders
  BY <1>3, ForwardKeepsTurns DEF CancelAllOrders
<1>4. ASSUME NEW c \in Ring, Connected(c) \/ Disconnected(c)
      PROVE  Turns'
  BY <1>4, LinkKeepsTurns
<1>5. ASSUME \/ \E o \in Orders : Fill(o)
             \/ \E c \in Ring : Serve(c) \/ HandleResponse(c) \/ Timeout(c)
             \/ ServeOrphan \/ ExecutionArrives
             \/ UNCHANGED vars
      PROVE  UNCHANGED <<index, link, served>>
  BY <1>5 DEF Fill, Serve, HandleResponse, Timeout, ServeOrphan, ExecutionArrives,
              vars, gateway, history
<1> QED
  BY <1>1, <1>2, <1>3, <1>4, <1>5 DEF Next

(* The requests are taken in turn by the connections that are ready, for   *)
(* any number of connections: get_next prefers none and skips none.        *)
THEOREM RoundRobin == Spec => []TakenInTurn
<1>1. Init => Turns
  BY TurnsInitially
<1>2. Turns /\ [Next]_vars => Turns'
  BY TurnsKept
<1>3. Turns => TakenInTurn
  BY TurnsMeanTakenInTurn
<1> QED
  BY <1>1, <1>2, <1>3, PTL DEF Spec

-------------------------------------------------------------------------------
(* Sets of values.                                                         *)

Statuses == {"NONE", "NEW", "FILLED", "CANCELED", "REJECTED"}
RowStatuses == {"NEW", "FILLED", "CANCELED", "REJECTED", "UNKNOWN"}
RowSet == [order : Orders, status : RowStatuses, revision : Nat]
Categories == {"NONE", "SUCCESS", "CLIENT_ERROR", "SERVER_ERROR", "OTHER",
               "TIMEOUT", "DISCONNECTED"}
Texts == {<<>>, <<"invalid", "price">>, <<"request", "has", "expired">>,
          <<"rate", "limit", "exceeded,", "retry", "in", "1", "seconds.">>,
          <<"invalid", "origClOrdID">>, <<"invalid", "ordStatus">>,
          <<"invalid", "orderID">>}
Responses == [category : Categories, rows : SUBSET RowSet, text : Texts]
Fates == {"open", "done", "refused", "limited"}
EntrySet == [type : RequestType, orig : 0..Versions, named : BOOLEAN,
             fate : Fates, answers : Seq(Answer)]
OrderSet == [status : Statuses, version : 0..Versions, revision : Nat]
IdSet == Targets \X (1..Versions)
CallSet == [id : IdSet, response : Responses]

-------------------------------------------------------------------------------
(* Answers.                                                                *)

LEMMA GuessType ==
  ASSUME NEW message
  PROVE  GuessError(message) \in Error
<1>1. CASE message = <<>> \/ Hits(message) = {}
  BY <1>1 DEF GuessError, Error
<1>2. CASE message # <<>> /\ Hits(message) # {}
  <2>1. Hits(message) \subseteq Nat
    <3>1. \E m \in Nat : DOMAIN Listed = 1..m
      BY DEF Listed
    <3> QED
      BY <3>1 DEF Hits
  <2>2. \E n \in Hits(message) : \A k \in Hits(message) : n <= k
    <3> HIDE DEF Hits
    <3> QED
      BY <1>2, <2>1, LeastNatural
  <2> DEFINE n == CHOOSE n \in Hits(message) : \A k \in Hits(message) : n <= k
  <2>3. n \in DOMAIN Listed
    BY <2>2 DEF Hits
  <2> QED
    BY <1>2, <2>3 DEF GuessError, Error, ListedErrors
<1> QED
  BY <1>1, <1>2

(* A response answers a request if it has a row, when it must have one.    *)
Answers(response, type) ==
  response.category = "SUCCESS" /\ type # "CANCEL_ALL_ORDERS" => response.rows # {}

LEMMA RepliesType ==
  ASSUME NEW type \in RequestType, NEW response \in Responses, Answers(response, type)
  PROVE  /\ Replies(type, response) = <<ThisAnswer(type, response)>>
         /\ ThisAnswer(type, response) \in Answer
         /\ ThisAnswer(type, response).status # "FORWARDED"
<1>1. Origin(response) \in {"EXCHANGE", "GATEWAY"}
  BY DEF Origin
<1>2. ErrorOf(response) \in Error
  BY GuessType DEF ErrorOf, Error
<1>3. Status(type, response) \in RequestStatus /\ Status(type, response) # "FORWARDED"
  <2>1. CASE response.category = "SUCCESS"
    <3>1. RowAnswers(type, response) # {}
      BY <2>1 DEF RowAnswers, Answers
    <3>2. RowAnswers(type, response) \subseteq {"ACCEPTED", "REJECTED", "UNDEFINED"}
      BY DEF RowAnswers, ComputeRowStatus
    <3>3. Status(type, response) \in RowAnswers(type, response)
      BY <2>1, <3>1 DEF Status
    <3> QED
      BY <3>2, <3>3 DEF RequestStatus
  <2>2. CASE response.category \in {"CLIENT_ERROR", "SERVER_ERROR"}
    <3>1. Status(type, response) = "REJECTED"
      BY <2>2 DEF Status
    <3> QED
      BY <3>1 DEF RequestStatus
  <2>3. CASE response.category \in {"TIMEOUT", "DISCONNECTED"}
    <3>1. Status(type, response) = response.category
      BY <2>3 DEF Status
    <3> QED
      BY <2>3, <3>1 DEF RequestStatus
  <2>4. CASE response.category \in {"NONE", "OTHER"}
    <3>1. Status(type, response) = "ERROR"
      BY <2>4 DEF Status
    <3> QED
      BY <3>1 DEF RequestStatus
  <2> QED
    BY <2>1, <2>2, <2>3, <2>4 DEF Responses, Categories
<1> QED
  BY <1>1, <1>2, <1>3 DEF Replies, ThisAnswer, AnswerOf, Answer

-------------------------------------------------------------------------------
(* The journal.                                                            *)

JournalType ==
  /\ journal \in [Targets -> Seq(EntrySet)]
  /\ \A t \in Targets :
       /\ Len(journal[t]) <= Versions
       /\ \A v \in DOMAIN journal[t] :
            /\ journal[t][v].orig < v
            /\ journal[t][v].type = "CANCEL_ALL_ORDERS" <=> t = All

LEMMA IdsType ==
  ASSUME JournalType
  PROVE  /\ Ids \subseteq IdSet
         /\ \A id \in Ids : /\ id[1] \in Targets /\ id[2] \in DOMAIN journal[id[1]]
                            /\ id = <<id[1], id[2]>>
                            /\ Request(id) \in EntrySet
                            /\ Request(id) = journal[id[1]][id[2]]
         /\ \A t \in Targets : \A v \in DOMAIN journal[t] :
              <<t, v>> \in Ids /\ Request(<<t, v>>) = journal[t][v]
<1>1. Ids \subseteq IdSet
  BY DEF Ids, IdSet
<1>2. ASSUME NEW id \in Ids
      PROVE  /\ id[1] \in Targets /\ id[2] \in DOMAIN journal[id[1]]
             /\ id = <<id[1], id[2]>>
             /\ Request(id) \in EntrySet
             /\ Request(id) = journal[id[1]][id[2]]
  <2>1. id[1] \in Targets /\ id[2] \in DOMAIN journal[id[1]] /\ id = <<id[1], id[2]>>
    BY DEF Ids
  <2>2. journal[id[1]] \in Seq(EntrySet)
    BY <2>1 DEF JournalType
  <2>3. journal[id[1]][id[2]] \in EntrySet
    BY <2>1, <2>2
  <2> QED
    BY <2>1, <2>3 DEF Request
<1>3. ASSUME NEW t \in Targets, NEW v \in DOMAIN journal[t]
      PROVE  <<t, v>> \in Ids /\ Request(<<t, v>>) = journal[t][v]
  <2>1. journal[t] \in Seq(EntrySet) /\ Len(journal[t]) <= Versions
    BY DEF JournalType
  <2>2. v \in 1..Versions
    BY <2>1, BoundsAssumption
  <2> QED
    BY <2>2 DEF Ids, Request
<1> QED
  BY <1>1, <1>2, <1>3

(* Entries change: their answers and their fate, and nothing else.         *)
Rewritten(j) ==
  /\ j \in [Targets -> Seq(EntrySet)]
  /\ \A t \in Targets :
       /\ DOMAIN j[t] = DOMAIN journal[t] /\ Len(j[t]) = Len(journal[t])
       /\ \A v \in DOMAIN journal[t] :
            /\ j[t][v].type = journal[t][v].type
            /\ j[t][v].orig = journal[t][v].orig
            /\ j[t][v].named = journal[t][v].named

LEMMA RewrittenJournal ==
  ASSUME JournalType, Rewritten(journal')
  PROVE  /\ JournalType' /\ Ids' = Ids
         /\ \A id \in Ids : Request(id).type = Request(id)'.type
<1>1. JournalType'
  BY SMTT(30) DEF JournalType, Rewritten
<1>2. Ids' = Ids
  BY DEF Ids, Rewritten
<1>3. \A id \in Ids : Request(id).type = Request(id)'.type
  BY IdsType DEF Request, Rewritten
<1> QED
  BY <1>1, <1>2, <1>3

(* One entry is replaced.                                                  *)
LEMMA EntryReplaced ==
  ASSUME JournalType, NEW t \in Targets, NEW v \in DOMAIN journal[t],
         NEW e \in EntrySet,
         e.type = journal[t][v].type, e.orig = journal[t][v].orig,
         e.named = journal[t][v].named
  PROVE  LET j == [journal EXCEPT ![t] = [@ EXCEPT ![v] = e]] IN
         /\ Rewritten(j)
         /\ \A u \in Targets : \A w \in DOMAIN journal[u] :
              j[u][w] = IF u = t /\ w = v THEN e ELSE journal[u][w]
<1> DEFINE s == [journal[t] EXCEPT ![v] = e]
           j == [journal EXCEPT ![t] = s]
<1>1. journal[t] \in Seq(EntrySet)
  BY DEF JournalType
<1>2. /\ s \in Seq(EntrySet) /\ DOMAIN s = DOMAIN journal[t] /\ Len(s) = Len(journal[t])
      /\ \A w \in DOMAIN s : s[w] = IF w = v THEN e ELSE journal[t][w]
  BY <1>1
<1>3. \A u \in Targets : j[u] = IF u = t THEN s ELSE journal[u]
  BY DEF JournalType
<1>4. j \in [Targets -> Seq(EntrySet)]
  BY <1>2 DEF JournalType
<1> HIDE DEF s, j
<1>5. Rewritten(j)
  BY <1>2, <1>3, <1>4 DEF Rewritten
<1>6. \A u \in Targets : \A w \in DOMAIN journal[u] :
        j[u][w] = IF u = t /\ w = v THEN e ELSE journal[u][w]
  BY <1>2, <1>3
<1> QED
  BY <1>5, <1>6 DEF s, j

LEMMA OneMore ==
  ASSUME NEW S, NEW s \in Seq(S), NEW x \in S
  PROVE  Append(s, x) \in Seq(S) /\ s \o <<x>> = Append(s, x)
  OBVIOUS

(* Requests are given their final answer, and nothing else changes.        *)
Given(j, answered) ==
  /\ Rewritten(j)
  /\ \A id \in Ids :
       /\ id \notin answered => j[id[1]][id[2]].answers = Request(id).answers
       /\ id \in answered =>
            \E a \in Answer : /\ a.status # "FORWARDED"
                              /\ j[id[1]][id[2]].answers = Append(Request(id).answers, a)

SameFates(j) == \A id \in Ids : j[id[1]][id[2]].fate = Request(id).fate

LEMMA TellGives ==
  ASSUME JournalType, NEW id \in Ids, NEW response \in Responses,
         Answers(response, Request(id).type)
  PROVE  /\ Given(Tell(journal, id, response), {id}) /\ SameFates(Tell(journal, id, response))
         /\ Tell(journal, id, response)[id[1]][id[2]].answers
              = Append(Request(id).answers, ThisAnswer(Request(id).type, response))
<1> DEFINE t == id[1]
           v == id[2]
           a == ThisAnswer(Request(id).type, response)
           e == [Request(id) EXCEPT !.answers = Append(@, a)]
           j == [journal EXCEPT ![t] = [@ EXCEPT ![v] = e]]
<1>1. t \in Targets /\ v \in DOMAIN journal[t] /\ Request(id) \in EntrySet
      /\ Request(id) = journal[t][v] /\ Request(id).type \in RequestType
  BY IdsType DEF EntrySet
<1>2. a \in Answer /\ a.status # "FORWARDED"
      /\ Replies(Request(id).type, response) = <<a>>
  BY <1>1, RepliesType
<1> HIDE DEF a
<1>3. Request(id).answers \in Seq(Answer)
      /\ Append(Request(id).answers, a) \in Seq(Answer)
      /\ Request(id).answers \o <<a>> = Append(Request(id).answers, a)
  <2>1. Request(id).answers \in Seq(Answer)
    BY <1>1 DEF EntrySet
  <2> QED
    BY <1>2, <2>1, OneMore
<1>4. e \in EntrySet /\ e.type = Request(id).type /\ e.orig = Request(id).orig
      /\ e.named = Request(id).named /\ e.fate = Request(id).fate
      /\ e.answers = Append(Request(id).answers, a)
  BY <1>1, <1>3 DEF EntrySet
<1>5. Tell(journal, id, response) = j
  BY <1>1, <1>2, <1>3 DEF Tell
<1> HIDE DEF e
<1>6. Rewritten(j)
      /\ \A u \in Targets : \A w \in DOMAIN journal[u] :
           j[u][w] = IF u = t /\ w = v THEN e ELSE journal[u][w]
  <2>1. e.type = journal[t][v].type /\ e.orig = journal[t][v].orig
        /\ e.named = journal[t][v].named
    BY <1>1, <1>4
  <2> HIDE DEF t, v
  <2> QED
    BY <1>1, <1>4, <2>1, EntryReplaced
<1> HIDE DEF j
<1>7. ASSUME NEW k \in Ids
      PROVE  /\ j[k[1]][k[2]].fate = Request(k).fate
             /\ k # id => j[k[1]][k[2]].answers = Request(k).answers
             /\ k = id => j[k[1]][k[2]].answers = Append(Request(k).answers, a)
  <2>1. /\ k[1] \in Targets /\ k[2] \in DOMAIN journal[k[1]]
        /\ Request(k) = journal[k[1]][k[2]]
        /\ k = <<k[1], k[2]>> /\ id = <<t, v>>
    BY IdsType
  <2>2. CASE k = id
    <3>1. j[k[1]][k[2]] = e
      BY <1>6, <2>1, <2>2
    <3> QED
      BY <1>4, <2>2, <3>1
  <2>3. CASE k # id
    <3>1. j[k[1]][k[2]] = journal[k[1]][k[2]]
      BY <1>6, <2>1, <2>3
    <3> QED
      BY <2>1, <2>3, <3>1
  <2> QED
    BY <2>2, <2>3
<1>8. Given(j, {id}) /\ SameFates(j)
  BY <1>2, <1>6, <1>7 DEF Given, SameFates
<1>9. j[id[1]][id[2]].answers = Append(Request(id).answers, a)
  BY <1>7
<1> QED
  BY <1>5, <1>8, <1>9 DEF a

-------------------------------------------------------------------------------
(* The exchange.                                                           *)

(* Orders that change get a status and the next revision.                  *)
Stepped(new) ==
  /\ new \in [Orders -> OrderSet]
  /\ \A o \in Orders :
       \/ new[o] = orders[o]
       \/ new[o].revision = orders[o].revision + 1 /\ new[o].status # "NONE"

(* What a row says of its order was so once, and is so still if the order  *)
(* has not changed since.                                                  *)
SaysOf(row, order) ==
  /\ row.revision <= order.revision
  /\ row.revision = order.revision /\ row.status # "UNKNOWN" => row.status = order.status

(* What the proofs need to know of a reaction to a request.                *)
Sound(r, type) ==
  /\ r = [orders |-> r.orders, fate |-> r.fate, cost |-> r.cost, response |-> r.response]
  /\ Stepped(r.orders) /\ r.fate \in Fates
  /\ r.response \in Responses /\ Answers(r.response, type)
  /\ \A row \in r.response.rows : SaysOf(row, r.orders[row.order])

OrdersType == orders \in [Orders -> OrderSet]

LEMMA TurnSteps ==
  ASSUME OrdersType, NEW o \in Orders, NEW version \in 0..Versions,
         NEW status \in RowStatuses \ {"UNKNOWN"}
  PROVE  /\ Stepped(Turn(o, status, version))
         /\ Turn(o, status, version)[o].status = status
         /\ Row(o, status, Turn(o, status, version)) \in RowSet
         /\ SaysOf(Row(o, status, Turn(o, status, version)), Turn(o, status, version)[o])
<1> DEFINE new == Turn(o, status, version)
           e == [status |-> status, version |-> version, revision |-> orders[o].revision + 1]
<1>1. new = [orders EXCEPT ![o] = e]
  BY DEF Turn
<1>2. orders[o].revision \in Nat /\ e \in OrderSet
  BY DEF OrdersType, OrderSet, RowStatuses, Statuses
<1>3. new \in [Orders -> OrderSet] /\ new[o] = e
      /\ \A p \in Orders : p # o => new[p] = orders[p]
  <2> HIDE DEF e
  <2> QED
    BY <1>1, <1>2 DEF OrdersType
<1> HIDE DEF new
<1>4. Stepped(new) /\ new[o].status = status
  BY <1>2, <1>3 DEF Stepped, RowStatuses
<1>5. Row(o, status, new) \in RowSet /\ SaysOf(Row(o, status, new), new[o])
  BY <1>2, <1>3 DEF Row, RowSet, SaysOf
<1> QED
  BY <1>4, <1>5 DEF new

LEMMA Unstepped ==
  ASSUME OrdersType
  PROVE  Stepped(orders)
  BY DEF OrdersType, Stepped

LEMMA TurnSound ==
  ASSUME OrdersType, NEW o \in Orders, NEW version \in 0..Versions,
         NEW status \in RowStatuses \ {"UNKNOWN"}, NEW type,
         NEW new, new = Turn(o, status, version), NEW fate \in Fates, NEW cost,
         NEW text \in Texts, NEW r,
         r = [orders |-> new, fate |-> fate, cost |-> cost,
              response |-> Response("SUCCESS", {Row(o, new[o].status, new)}, text)]
  PROVE  Sound(r, type)
<1> DEFINE row == Row(o, new[o].status, new)
<1>1. Stepped(new) /\ row \in RowSet /\ SaysOf(row, new[o]) /\ row.order = o
  BY TurnSteps DEF Row
<1> HIDE DEF row
<1>3. Response("SUCCESS", {row}, text) \in Responses
  BY <1>1 DEF Response, Responses, Categories
<1>4. Response("SUCCESS", {row}, text).rows = {row}
  BY DEF Response
<1>5. r.orders = new /\ r.fate = fate /\ r.response = Response("SUCCESS", {row}, text)
      /\ r = [orders |-> r.orders, fate |-> r.fate, cost |-> r.cost,
              response |-> r.response]
  BY DEF row
<1>6. Sound(r, type)
  <2>1. r.response.rows = {row}
    BY <1>4, <1>5
  <2>2. Answers(r.response, type)
    BY <2>1 DEF Answers
  <2>3. \A x \in r.response.rows : SaysOf(x, r.orders[x.order])
    BY <1>1, <1>5, <2>1
  <2>4. Stepped(r.orders) /\ r.fate \in Fates /\ r.response \in Responses
    BY <1>1, <1>3, <1>5
  <2> QED
    BY <1>5, <2>2, <2>3, <2>4 DEF Sound
<1> QED
  BY <1>6

LEMMA DoneSound ==
  ASSUME OrdersType, NEW o \in Orders, NEW version \in 0..Versions,
         NEW status \in RowStatuses \ {"UNKNOWN"}, NEW cost, NEW type
  PROVE  Sound(Done(o, Turn(o, status, version), cost), type)
<1>1. PICK new : new = Turn(o, status, version)
  OBVIOUS
<1>2. <<>> \in Texts /\ "done" \in Fates
  BY DEF Texts, Fates
<1>3. Done(o, new, cost)
        = [orders |-> new, fate |-> "done", cost |-> cost,
           response |-> Response("SUCCESS", {Row(o, new[o].status, new)}, <<>>)]
  BY DEF Done
<1> QED
  BY <1>1, <1>2, <1>3, TurnSound

LEMMA RejectedSound ==
  ASSUME OrdersType, NEW o \in Orders, NEW version \in 0..Versions,
         NEW text \in Texts, NEW type
  PROVE  Sound(Rejected(o, version, text), type)
<1>1. PICK new : new = Turn(o, "REJECTED", version)
  OBVIOUS
<1>2. "refused" \in Fates /\ "REJECTED" \in RowStatuses \ {"UNKNOWN"}
  BY DEF Fates, RowStatuses
<1>3. Rejected(o, version, text)
        = [orders |-> new, fate |-> "refused", cost |-> "refuse",
           response |-> Response("SUCCESS", {Row(o, new[o].status, new)}, text)]
  BY <1>1 DEF Rejected
<1> QED
  BY <1>1, <1>2, <1>3, TurnSound

LEMMA RefuseSound ==
  ASSUME OrdersType, NEW text \in Texts, NEW cost, NEW type
  PROVE  Sound(Refuse(text, cost), type)
<1>1. Response("CLIENT_ERROR", {}, text) \in Responses
  BY DEF Response, Responses, Categories
<1> QED
  BY <1>1, Unstepped DEF Refuse, Sound, Fates, Answers, Response

LEMMA NotCanceledSound ==
  ASSUME OrdersType, NEW o \in Orders, NEW type
  PROVE  Sound(NotCanceled(o), type)
<1> DEFINE row == Row(o, "UNKNOWN", orders)
<1>1. row \in RowSet /\ row.order = o /\ SaysOf(row, orders[o])
  <2>1. orders[o] \in OrderSet
    BY DEF OrdersType
  <2>2. orders[o].revision \in Nat
    BY <2>1 DEF OrderSet
  <2> QED
    BY <2>2 DEF Row, RowSet, RowStatuses, SaysOf
<1> HIDE DEF row
<1>2. Response("SUCCESS", {row}, <<>>) \in Responses
  BY <1>1 DEF Response, Responses, Categories, Texts
<1> QED
  BY <1>1, <1>2, Unstepped DEF NotCanceled, Sound, Fates, Answers, Response, row

LEMMA SweptSound ==
  ASSUME OrdersType, NEW r,
         r = [orders |-> Swept, fate |-> "done", cost |-> "none",
              response |-> Response("SUCCESS", SweptRows, <<>>)]
  PROVE  Sound(r, "CANCEL_ALL_ORDERS")
<1>1. \A o \in Orders :
        /\ o \in Resting => Swept[o] = Turn(o, "CANCELED", orders[o].version)[o]
        /\ o \notin Resting => Swept[o] = orders[o]
        /\ orders[o] \in OrderSet /\ orders[o].version \in 0..Versions
  <2>1. \A o \in Orders : orders[o] \in OrderSet
    BY DEF OrdersType
  <2> QED
    BY <2>1 DEF Swept, OrderSet
<1>2. ASSUME NEW o \in Resting
      PROVE  /\ o \in Orders /\ Swept[o] \in OrderSet
             /\ Swept[o].revision = orders[o].revision + 1 /\ Swept[o].status = "CANCELED"
             /\ Row(o, "CANCELED", Swept) \in RowSet
             /\ Row(o, "CANCELED", Swept).order = o
             /\ SaysOf(Row(o, "CANCELED", Swept), Swept[o])
  <2> DEFINE new == Turn(o, "CANCELED", orders[o].version)
  <2>1. o \in Orders
    BY DEF Resting
  <2>2. Stepped(new) /\ new[o].status = "CANCELED" /\ Swept[o] = new[o]
    BY <1>1, <2>1, TurnSteps DEF RowStatuses
  <2>3. new[o] \in OrderSet /\ orders[o] \in OrderSet
    BY <2>1, <2>2 DEF Stepped, OrdersType
  <2>4. orders[o].status = "NEW"
    BY DEF Resting
  <2>5. new[o].revision = orders[o].revision + 1
    BY <2>1, <2>2, <2>4 DEF Stepped
  <2> HIDE DEF new
  <2>6. Row(o, "CANCELED", Swept) \in RowSet /\ Row(o, "CANCELED", Swept).order = o
        /\ SaysOf(Row(o, "CANCELED", Swept), Swept[o])
    BY <2>1, <2>2, <2>3 DEF Row, RowSet, RowStatuses, OrderSet, SaysOf
  <2> QED
    BY <2>1, <2>2, <2>3, <2>5, <2>6
<1>3. Swept \in [Orders -> OrderSet]
  BY <1>1, <1>2 DEF Swept
<1>4. Stepped(Swept)
  BY <1>1, <1>2, <1>3 DEF Stepped
<1>5. SweptRows \subseteq RowSet /\ \A row \in SweptRows : SaysOf(row, Swept[row.order])
  BY <1>2 DEF SweptRows
<1>6. Response("SUCCESS", SweptRows, <<>>) \in Responses
  BY <1>5 DEF Response, Responses, Categories, Texts
<1> QED
  BY <1>4, <1>5, <1>6 DEF Sound, Fates, Answers, Response

LEMMA FairSound ==
  ASSUME OrdersType, JournalType, NEW id \in Ids, NEW r \in Fair(id)
  PROVE  Sound(r, Request(id).type)
<1> DEFINE o == id[1]
           type == Request(id).type
<1>1. id \in IdSet /\ type \in RequestType /\ (type = "CANCEL_ALL_ORDERS" <=> o = All)
  <2>1. id \in IdSet /\ id[1] \in Targets /\ id[2] \in DOMAIN journal[id[1]]
        /\ Request(id) \in EntrySet /\ Request(id) = journal[id[1]][id[2]]
    BY IdsType
  <2> QED
    BY <2>1 DEF EntrySet, JournalType
<1>2. id[2] \in 0..Versions /\ (o \in Orders \/ o = All)
  BY <1>1 DEF IdSet, Targets
<1>3. <<"invalid", "origClOrdID">> \in Texts /\ <<"invalid", "ordStatus">> \in Texts
      /\ <<"invalid", "orderID">> \in Texts
      /\ {<<>>, <<"invalid", "price">>} \subseteq Texts
  BY DEF Texts
<1>4. BadPrice = Refuse(BadPrice.response.text, "refuse")
      /\ BadPrice.response.text \in Texts
  BY DEF BadPrice, Refuse, Response, Texts
<1>5. Sound(BadPrice, type)
  BY <1>4, RefuseSound
<1>6. {"NEW", "REJECTED", "CANCELED"} \subseteq RowStatuses \ {"UNKNOWN"}
  BY DEF RowStatuses
<1>7. CASE type = "CREATE_ORDER"
  <2>1. \/ r \in {Done(o, Turn(o, "NEW", id[2]), "none"), BadPrice}
        \/ \E text \in {<<>>, <<"invalid", "price">>} : r = Rejected(o, id[2], text)
    BY <1>7 DEF Fair
  <2>2. o \in Orders
    BY <1>1, <1>2, <1>7
  <2>3. Sound(Done(o, Turn(o, "NEW", id[2]), "none"), type)
    BY <1>2, <1>6, <2>2, DoneSound
  <2>4. ASSUME NEW text \in {<<>>, <<"invalid", "price">>}
        PROVE  Sound(Rejected(o, id[2], text), type)
    BY <1>2, <1>3, <2>2, RejectedSound
  <2> QED
    BY <1>5, <2>1, <2>3, <2>4
<1>8. CASE type = "MODIFY_ORDER"
  <2>1. o \in Orders
    BY <1>1, <1>2, <1>8
  <2>2. r \in {Refuse(<<"invalid", "origClOrdID">>, "none"),
              Refuse(<<"invalid", "ordStatus">>, "none"),
              Done(o, Turn(o, "NEW", id[2]), "none"), BadPrice}
    BY <1>8 DEF Fair
  <2>3. Sound(Done(o, Turn(o, "NEW", id[2]), "none"), type)
    BY <1>2, <1>6, <2>1, DoneSound
  <2>4. Sound(Refuse(<<"invalid", "origClOrdID">>, "none"), type)
        /\ Sound(Refuse(<<"invalid", "ordStatus">>, "none"), type)
    BY <1>3, RefuseSound
  <2> QED
    BY <1>5, <2>2, <2>3, <2>4
<1>9. CASE type = "CANCEL_ORDER"
  <2>1. o \in Orders
    BY <1>1, <1>2, <1>9
  <2>2. r \in {Refuse(<<"invalid", "orderID">>, "none"), NotCanceled(o),
              Done(o, Turn(o, "CANCELED", orders[o].version), "none")}
    BY <1>9 DEF Fair
  <2>3. orders[o].version \in 0..Versions
    <3>1. orders[o] \in OrderSet
      BY <2>1 DEF OrdersType
    <3> QED
      BY <3>1 DEF OrderSet
  <2>4. Sound(Done(o, Turn(o, "CANCELED", orders[o].version), "none"), type)
    BY <1>6, <2>1, <2>3, DoneSound
  <2>5. Sound(Refuse(<<"invalid", "orderID">>, "none"), type)
    BY <1>3, RefuseSound
  <2>6. Sound(NotCanceled(o), type)
    BY <2>1, NotCanceledSound
  <2> QED
    BY <2>2, <2>4, <2>5, <2>6
<1>10. CASE type = "CANCEL_ALL_ORDERS"
  <2>1. r = [orders |-> Swept, fate |-> "done", cost |-> "none",
             response |-> Response("SUCCESS", SweptRows, <<>>)]
    BY <1>10 DEF Fair
  <2> QED
    BY <1>10, <2>1, SweptSound
<1> QED
  BY <1>1, <1>7, <1>8, <1>9, <1>10 DEF RequestType

LEMMA ReactionSound ==
  ASSUME OrdersType, JournalType, NEW id \in Ids, NEW r \in Reactions(id)
  PROVE  Sound(r, Request(id).type)
<1> DEFINE type == Request(id).type
<1>1. ASSUME NEW q, Sound(q, type)
      PROVE  Sound(Garbled(q), type) /\ Sound(Unreadable(q), type)
  <2>1. ASSUME NEW category \in {"SERVER_ERROR", "OTHER"}, NEW x,
               x = [q EXCEPT !.cost = "fault", !.response = Response(category, {}, <<>>)]
        PROVE  Sound(x, type)
    <3>1. /\ x.orders = q.orders /\ x.fate = q.fate
          /\ x.response = Response(category, {}, <<>>)
          /\ x = [orders |-> x.orders, fate |-> x.fate, cost |-> x.cost,
                  response |-> x.response]
      <4>1. q = [orders |-> q.orders, fate |-> q.fate, cost |-> q.cost,
                 response |-> q.response]
        BY <1>1 DEF Sound
      <4> DEFINE a == q.orders b == q.fate c == q.cost d == q.response
                 s == Response(category, {}, <<>>)
      <4>2. q = [orders |-> a, fate |-> b, cost |-> c, response |-> d]
        BY <4>1
      <4> HIDE DEF a, b, c, d, s
      <4>3. x = [orders |-> a, fate |-> b, cost |-> "fault", response |-> s]
        BY <2>1, <4>2 DEF s
      <4> QED
        BY <4>3 DEF a, b, s
    <3>2. Response(category, {}, <<>>) \in Responses
      BY DEF Response, Responses, Categories, Texts
    <3>3. Answers(x.response, type) /\ x.response.rows = {}
      BY <3>1 DEF Answers, Response
    <3>4. Stepped(x.orders) /\ x.fate \in Fates
      BY <1>1, <3>1 DEF Sound
    <3> QED
      BY <3>1, <3>2, <3>3, <3>4 DEF Sound
  <2> QED
    BY <2>1 DEF Garbled, Unreadable
<1>2. Late = Refuse(Late.response.text, "fault") /\ Late.response.text \in Texts
  BY DEF Late, Refuse, Response, Texts
<1>3. Sound(Late, type)
  BY <1>2, RefuseSound
<1>4. Sound(Overloaded, type)
  <2> DEFINE text == <<"rate", "limit", "exceeded,", "retry", "in", "1", "seconds.">>
             d == Refuse(text, "limit")
  <2>1. Overloaded = [d EXCEPT !.fate = "limited"] /\ text \in Texts
    BY DEF Overloaded, Texts, Refuse, Response
  <2> HIDE DEF text
  <2>2. /\ Overloaded.orders = d.orders /\ Overloaded.fate = "limited"
        /\ Overloaded.response = d.response
        /\ Overloaded = [orders |-> Overloaded.orders, fate |-> Overloaded.fate,
                         cost |-> Overloaded.cost, response |-> Overloaded.response]
    BY <2>1 DEF Refuse
  <2>3. Sound(d, type)
    BY <2>1, RefuseSound
  <2> HIDE DEF d
  <2> QED
    BY <2>2, <2>3 DEF Sound, Fates
<1>5. \A f \in Fair(id) : Sound(f, type)
  BY FairSound
<1>6. \/ r \in {Late, Overloaded, Garbled(Late)} \cup Fair(id)
      \/ \E f \in Fair(id) : r \in {Garbled(f), Unreadable(f)}
  BY DEF Reactions
<1> QED
  BY <1>1, <1>3, <1>4, <1>5, <1>6

-------------------------------------------------------------------------------
(* The wire.                                                               *)

WireType ==
  /\ calls \in [Ring -> Seq(CallSet)]
  /\ \A c \in Ring : \A i \in DOMAIN calls[c] :
       /\ calls[c][i].id \in Ids
       /\ Answers(calls[c][i].response, Request(calls[c][i].id).type)
  /\ orphans \subseteq Ids /\ overtook \subseteq Ids

(* No request is made twice.                                               *)
WaitsOnce ==
  \A c, d \in Ring : \A i \in DOMAIN calls[c], k \in DOMAIN calls[d] :
    calls[c][i].id = calls[d][k].id => c = d /\ i = k

LEMMA CallType ==
  ASSUME WireType, NEW c \in Ring, NEW i \in DOMAIN calls[c]
  PROVE  /\ calls[c][i] \in CallSet /\ calls[c][i].id \in Ids
         /\ calls[c][i].response \in Responses
         /\ Answers(calls[c][i].response, Request(calls[c][i].id).type)
         /\ Waiting(calls[c][i].id)
<1>1. calls[c] \in Seq(CallSet)
  BY DEF WireType
<1>2. calls[c][i] \in CallSet
  BY <1>1
<1> QED
  BY <1>2 DEF WireType, CallSet, Waiting

(* The oldest call of a connection is taken off.                           *)
LEMMA CallTaken ==
  ASSUME WireType, WaitsOnce, NEW c \in Ring, calls[c] # <<>>,
         calls' = [calls EXCEPT ![c] = Tail(@)]
  PROVE  /\ 1 \in DOMAIN calls[c] /\ Head(calls[c]) = calls[c][1]
         /\ calls' \in [Ring -> Seq(CallSet)] /\ WaitsOnce'
         /\ \A d \in Ring : \A i \in DOMAIN calls'[d] :
              \E k \in DOMAIN calls[d] : calls'[d][i] = calls[d][k]
         /\ \A id : Waiting(id)' <=> Waiting(id) /\ id # calls[c][1].id
<1> DEFINE Old(d, i) == IF d = c THEN i + 1 ELSE i
<1>1. calls[c] \in Seq(CallSet)
  BY DEF WireType
<1>2. /\ 1 \in DOMAIN calls[c] /\ Head(calls[c]) = calls[c][1]
      /\ Tail(calls[c]) \in Seq(CallSet)
      /\ \A i \in DOMAIN Tail(calls[c]) : /\ i + 1 \in DOMAIN calls[c] /\ i + 1 # 1
                                          /\ Tail(calls[c])[i] = calls[c][i + 1]
      /\ \A k \in DOMAIN calls[c] \ {1} : /\ k - 1 \in DOMAIN Tail(calls[c])
                                         /\ Tail(calls[c])[k - 1] = calls[c][k]
      /\ \A i, k \in DOMAIN Tail(calls[c]) : i + 1 = k + 1 => i = k
  BY <1>1
<1>3. /\ calls'[c] = Tail(calls[c])
      /\ \A d \in Ring : d # c => calls'[d] = calls[d]
      /\ calls' \in [Ring -> Seq(CallSet)]
  <2> DEFINE tail == Tail(calls[c])
  <2> HIDE DEF tail
  <2>1. calls' = [calls EXCEPT ![c] = tail] /\ tail \in Seq(CallSet)
    BY <1>2 DEF tail
  <2> QED
    BY <2>1 DEF WireType, tail
<1>4. \A d \in Ring : \A i \in DOMAIN calls'[d] :
        /\ Old(d, i) \in DOMAIN calls[d] /\ calls'[d][i] = calls[d][Old(d, i)]
        /\ d = c => Old(d, i) # 1
        /\ \A k \in DOMAIN calls'[d] : Old(d, i) = Old(d, k) => i = k
  <2> SUFFICES ASSUME NEW d \in Ring, NEW i \in DOMAIN calls'[d]
               PROVE  /\ Old(d, i) \in DOMAIN calls[d]
                      /\ calls'[d][i] = calls[d][Old(d, i)]
                      /\ d = c => Old(d, i) # 1
                      /\ \A k \in DOMAIN calls'[d] : Old(d, i) = Old(d, k) => i = k
    OBVIOUS
  <2>1. CASE d = c
    <3>1. \A k : Old(d, k) = k + 1
      BY <2>1
    <3> HIDE DEF Old
    <3> QED
      BY <1>2, <1>3, <2>1, <3>1
  <2>2. CASE d # c
    BY <1>3, <2>2
  <2> QED
    BY <2>1, <2>2
<1>5. \A d \in Ring : \A k \in DOMAIN calls[d] : d # c \/ k # 1 =>
        \E i \in DOMAIN calls'[d] : calls'[d][i] = calls[d][k]
  <2> SUFFICES ASSUME NEW d \in Ring, NEW k \in DOMAIN calls[d], d # c \/ k # 1
               PROVE  \E i \in DOMAIN calls'[d] : calls'[d][i] = calls[d][k]
    OBVIOUS
  <2>1. CASE d = c
    <3>1. k - 1 \in DOMAIN Tail(calls[c]) /\ Tail(calls[c])[k - 1] = calls[c][k]
      BY <1>2, <2>1
    <3> QED
      BY <1>3, <2>1, <3>1
  <2>2. CASE d # c
    BY <1>3, <2>2
  <2> QED
    BY <2>1, <2>2
<1> HIDE DEF Old
<1>6. WaitsOnce'
  BY <1>4 DEF WaitsOnce
<1>7. ASSUME NEW id
      PROVE  Waiting(id)' <=> Waiting(id) /\ id # calls[c][1].id
  <2>1. ASSUME Waiting(id)'
        PROVE  Waiting(id) /\ id # calls[c][1].id
    BY <1>2, <1>4, <2>1 DEF Waiting, WaitsOnce
  <2>2. ASSUME Waiting(id), id # calls[c][1].id
        PROVE  Waiting(id)'
    BY <1>5, <2>2 DEF Waiting
  <2> QED
    BY <2>1, <2>2
<1> QED
  BY <1>2, <1>3, <1>4, <1>6, <1>7

-------------------------------------------------------------------------------
(* One final answer.                                                       *)

LEMMA GivenAnswers ==
  ASSUME JournalType, AnsweredOnce, NEW answered \in SUBSET Ids,
         \A id \in answered : Waiting(id),
         Given(journal', answered),
         \A id \in Ids : Waiting(id)' <=> Waiting(id) /\ id \notin answered
  PROVE  AnsweredOnce'
<1>1. Ids' = Ids
  BY RewrittenJournal DEF Given
<1> SUFFICES ASSUME NEW id \in Ids
             PROVE  IF Waiting(id)' THEN Final(id)' = {}
                    ELSE \E last \in DOMAIN Request(id)'.answers :
                           Final(id)' = {last} /\ last = Len(Request(id)'.answers)
  BY <1>1 DEF AnsweredOnce
<1> DEFINE answers == Request(id).answers
<1>2. Request(id)' = journal'[id[1]][id[2]]
  BY DEF Request
<1>3. CASE id \notin answered
  <2>1. Request(id)'.answers = answers
    BY <1>2, <1>3 DEF Given
  <2>2. Final(id)' = Final(id)
    BY <2>1 DEF Final
  <2>3. Waiting(id)' <=> Waiting(id)
    BY <1>3
  <2> QED
    BY <2>1, <2>2, <2>3 DEF AnsweredOnce
<1>4. CASE id \in answered
  <2>1. PICK a \in Answer : a.status # "FORWARDED"
                           /\ Request(id)'.answers = Append(answers, a)
    BY <1>2, <1>4 DEF Given
  <2>2. answers \in Seq(Answer)
    BY IdsType DEF EntrySet
  <2>3. \A i \in DOMAIN answers : answers[i].status = "FORWARDED"
    BY <1>4 DEF AnsweredOnce, Final
  <2> DEFINE all == Append(answers, a)
             last == Len(answers) + 1
  <2>4. /\ DOMAIN all = DOMAIN answers \cup {last} /\ Len(all) = last /\ all[last] = a
        /\ last \in DOMAIN all
        /\ \A i \in DOMAIN answers : all[i] = answers[i]
    BY <2>2
  <2> HIDE DEF all, last
  <2>5. {i \in DOMAIN all : all[i].status # "FORWARDED"} = {last}
    BY <2>1, <2>3, <2>4
  <2>6. Final(id)' = {last} /\ Request(id)'.answers = all
    BY <2>1, <2>5 DEF Final, all
  <2>7. ~Waiting(id)'
    BY <1>4
  <2> QED
    BY <2>4, <2>6, <2>7
<1> QED
  BY <1>3, <1>4

LEMMA TellAllGives ==
  ASSUME JournalType, WireType, NEW c \in Ring
  PROVE  LET lost == {calls[c][i].id : i \in DOMAIN calls[c]}
         IN lost \subseteq Ids /\ Given(TellAll(c), lost)
<1> DEFINE lost == {calls[c][i].id : i \in DOMAIN calls[c]}
           gone == Response("DISCONNECTED", {}, <<>>)
           j == TellAll(c)
<1>1. lost \subseteq Ids
  BY DEF WireType
<1>2. gone \in Responses /\ \A type : Answers(gone, type)
  BY DEF Response, Responses, Categories, Texts, Answers
<1>3. \A t \in Targets :
        /\ journal[t] \in Seq(EntrySet)
        /\ \A v \in DOMAIN journal[t] :
             <<t, v>> \in Ids /\ Request(<<t, v>>) = journal[t][v]
             /\ journal[t][v] \in EntrySet
  <2>1. \A t \in Targets : journal[t] \in Seq(EntrySet)
    BY DEF JournalType
  <2> QED
    BY <2>1, IdsType
<1> DEFINE told(id) == Tell(journal, id, gone)[id[1]][id[2]]
<1>4. ASSUME NEW id \in Ids
      PROVE  /\ told(id) \in EntrySet
             /\ told(id).type = Request(id).type /\ told(id).orig = Request(id).orig
             /\ told(id).named = Request(id).named
             /\ \E a \in Answer : /\ a.status # "FORWARDED"
                                 /\ told(id).answers = Append(Request(id).answers, a)
  <2>1. Given(Tell(journal, id, gone), {id})
    BY <1>2, TellGives
  <2>2. id[1] \in Targets /\ id[2] \in DOMAIN journal[id[1]]
        /\ Request(id) = journal[id[1]][id[2]]
    BY IdsType
  <2>3. Tell(journal, id, gone)[id[1]] \in Seq(EntrySet)
        /\ id[2] \in DOMAIN Tell(journal, id, gone)[id[1]]
    BY <2>1, <2>2 DEF Given, Rewritten
  <2>4. told(id) \in EntrySet
    BY <2>3
  <2> QED
    BY <2>1, <2>2, <2>4, ZenonT(60) DEF Given, Rewritten
<1> DEFINE entry(t, v) == IF <<t, v>> \in lost THEN told(<<t, v>>) ELSE journal[t][v]
<1>5. j = [t \in Targets |-> [v \in DOMAIN journal[t] |-> entry(t, v)]]
  BY DEF TellAll
<1>6. ASSUME NEW t \in Targets, NEW v \in DOMAIN journal[t]
      PROVE  entry(t, v) \in EntrySet
  BY <1>1, <1>3, <1>4
<1> HIDE DEF told, gone, lost, j
<1>7. ASSUME NEW t \in Targets
      PROVE  /\ j[t] \in Seq(EntrySet)
             /\ DOMAIN j[t] = DOMAIN journal[t] /\ Len(j[t]) = Len(journal[t])
             /\ \A v \in DOMAIN journal[t] : j[t][v] = entry(t, v)
  <2>1. j[t] = [v \in DOMAIN journal[t] |-> entry(t, v)]
    BY <1>5
  <2>2. journal[t] \in Seq(EntrySet)
    BY <1>3
  <2>3. DOMAIN journal[t] = 1..Len(journal[t]) /\ Len(journal[t]) \in Nat
    BY <2>2
  <2>4. \A v \in 1..Len(journal[t]) : entry(t, v) \in EntrySet
    BY <1>6, <2>3
  <2> HIDE DEF entry
  <2> DEFINE n == Len(journal[t])
  <2>5. j[t] = [v \in 1..n |-> entry(t, v)] /\ n \in Nat
        /\ \A v \in 1..n : entry(t, v) \in EntrySet
    BY <2>1, <2>3, <2>4
  <2> HIDE DEF n
  <2>6. j[t] \in Seq(EntrySet) /\ Len(j[t]) = n /\ DOMAIN j[t] = 1..n
    BY <2>5
  <2> QED
    BY <2>1, <2>3, <2>6 DEF n
<1>8. Rewritten(j)
  <2>1. j \in [Targets -> Seq(EntrySet)]
    BY <1>5, <1>7
  <2>2. ASSUME NEW t \in Targets, NEW v \in DOMAIN journal[t]
        PROVE  /\ j[t][v].type = journal[t][v].type
               /\ j[t][v].orig = journal[t][v].orig
               /\ j[t][v].named = journal[t][v].named
    <3>1. <<t, v>> \in Ids /\ Request(<<t, v>>) = journal[t][v]
      BY <1>3
    <3>2. j[t][v] = IF <<t, v>> \in lost THEN told(<<t, v>>) ELSE journal[t][v]
      BY <1>7
    <3>3. CASE <<t, v>> \in lost
      <4>1. j[t][v] = told(<<t, v>>)
        BY <3>2, <3>3
      <4> HIDE DEF entry
      <4> QED
        BY <1>4, <3>1, <4>1
    <3>4. CASE <<t, v>> \notin lost
      BY <3>2, <3>4
    <3> QED
      BY <3>3, <3>4
  <2> QED
    BY <1>7, <2>1, <2>2 DEF Rewritten
<1>9. ASSUME NEW id \in Ids
      PROVE  /\ id \notin lost => j[id[1]][id[2]].answers = Request(id).answers
             /\ id \in lost =>
                  \E a \in Answer :
                    /\ a.status # "FORWARDED"
                    /\ j[id[1]][id[2]].answers = Append(Request(id).answers, a)
  <2>1. /\ id[1] \in Targets /\ id[2] \in DOMAIN journal[id[1]]
        /\ Request(id) = journal[id[1]][id[2]] /\ id = <<id[1], id[2]>>
    BY IdsType
  <2>2. j[id[1]][id[2]] = IF id \in lost THEN told(id) ELSE Request(id)
    BY <1>7, <2>1
  <2> QED
    BY <1>4, <2>2
<1>10. Given(j, lost)
  BY <1>8, <1>9 DEF Given
<1> QED
  BY <1>1, <1>10 DEF j, lost

-------------------------------------------------------------------------------
(* Requests.                                                               *)

(* The journal with one more entry.                                        *)
LEMMA EntryAdded ==
  ASSUME JournalType, NEW t \in Targets, NEW e \in EntrySet, NEW id,
         id = <<t, Len(journal[t]) + 1>>,
         Len(journal[t]) < Versions, e.orig <= Len(journal[t]),
         e.type = "CANCEL_ALL_ORDERS" <=> t = All,
         journal' = [journal EXCEPT ![t] = Append(@, e)]
  PROVE  /\ JournalType' /\ id \in IdSet /\ id \notin Ids /\ Ids' = Ids \cup {id}
         /\ Request(id)' = e
         /\ \A k \in Ids : Request(k)' = Request(k)
<1> DEFINE n == Len(journal[t]) + 1
           all == Append(journal[t], e)
<1>1. journal[t] \in Seq(EntrySet)
  BY DEF JournalType
<1>2. /\ n \in 1..Versions /\ n \notin DOMAIN journal[t]
      /\ all \in Seq(EntrySet) /\ Len(all) = n /\ all[n] = e
      /\ DOMAIN all = DOMAIN journal[t] \cup {n}
      /\ \A v \in DOMAIN journal[t] : all[v] = journal[t][v]
  BY <1>1, BoundsAssumption
<1>3. n - 1 = Len(journal[t]) /\ e.orig < n /\ id = <<t, n>>
  BY <1>1 DEF EntrySet
<1> HIDE DEF n, all
<1>4. journal' = [journal EXCEPT ![t] = all]
  BY DEF all
<1>5. /\ journal' \in [Targets -> Seq(EntrySet)] /\ journal'[t] = all
      /\ \A u \in Targets : u # t => journal'[u] = journal[u]
  BY <1>2, <1>4 DEF JournalType
<1>6. JournalType'
  <2>1. ASSUME NEW u \in Targets
        PROVE  /\ Len(journal'[u]) <= Versions
               /\ \A v \in DOMAIN journal'[u] :
                    /\ journal'[u][v].orig < v
                    /\ journal'[u][v].type = "CANCEL_ALL_ORDERS" <=> u = All
    <3>1. CASE u # t
      BY <1>5, <3>1 DEF JournalType
    <3>2. CASE u = t
      <4>1. Len(all) <= Versions
        BY <1>2, BoundsAssumption
      <4>2. \A v \in DOMAIN all :
              /\ all[v].orig < v
              /\ all[v].type = "CANCEL_ALL_ORDERS" <=> t = All
        BY <1>2, <1>3 DEF JournalType
      <4> QED
        BY <1>5, <3>2, <4>1, <4>2
    <3> QED
      BY <3>1, <3>2
  <2> QED
    BY <1>5, <2>1 DEF JournalType
<1>7. id \in IdSet
  BY <1>2, <1>3 DEF IdSet
<1>8. id \notin Ids
  BY <1>2, <1>3, IdsType
<1>9. Ids' = Ids \cup {id}
  <2>1. ASSUME NEW k \in Targets \X (1..Versions)
        PROVE  k[2] \in DOMAIN journal'[k[1]]
                 <=> k[2] \in DOMAIN journal[k[1]] \/ k = id
    <3>1. k = <<k[1], k[2]>> /\ k[1] \in Targets
      OBVIOUS
    <3>2. CASE k[1] = t
      BY <1>2, <1>3, <1>5, <3>1, <3>2
    <3>3. CASE k[1] # t
      BY <1>3, <1>5, <3>1, <3>3
    <3> QED
      BY <3>2, <3>3
  <2> QED
    BY <1>7, <2>1 DEF Ids, IdSet
<1>10. Request(id)' = e
  BY <1>2, <1>3, <1>5 DEF Request
<1>11. ASSUME NEW k \in Ids
       PROVE  Request(k)' = Request(k)
  <2>1. k[1] \in Targets /\ k[2] \in DOMAIN journal[k[1]]
    BY IdsType
  <2> QED
    BY <1>2, <1>5, <2>1 DEF Request
<1> QED
  BY <1>6, <1>7, <1>8, <1>9, <1>10, <1>11

(* A call is added to a connection.                                        *)
LEMMA CallAdded ==
  ASSUME WireType, WaitsOnce, NEW c \in Ring, NEW id \in IdSet, id \notin Ids,
         NEW call, call = [id |-> id, response |-> NoResponse],
         calls' = [calls EXCEPT ![c] = Append(@, call)]
  PROVE  /\ calls' \in [Ring -> Seq(CallSet)] /\ WaitsOnce'
         /\ \A d \in Ring : \A i \in DOMAIN calls'[d] :
              \/ calls'[d][i] = call
              \/ \E k \in DOMAIN calls[d] : calls'[d][i] = calls[d][k]
         /\ \A k : Waiting(k)' <=> Waiting(k) \/ k = id
<1> DEFINE all == Append(calls[c], call)
           n == Len(calls[c]) + 1
<1>1. calls[c] \in Seq(CallSet)
  BY DEF WireType
<1>2. call \in CallSet /\ call.id = id
  BY DEF CallSet, NoResponse, Response, Responses, Categories, Texts
<1>3. /\ all \in Seq(CallSet) /\ n \in DOMAIN all /\ all[n] = call
      /\ DOMAIN all = DOMAIN calls[c] \cup {n} /\ n \notin DOMAIN calls[c]
      /\ \A i \in DOMAIN calls[c] : all[i] = calls[c][i]
  BY <1>1, <1>2
<1> HIDE DEF all, n
<1>4. /\ calls' \in [Ring -> Seq(CallSet)] /\ calls'[c] = all
      /\ \A d \in Ring : d # c => calls'[d] = calls[d]
  <2>1. calls' = [calls EXCEPT ![c] = all]
    BY DEF all
  <2> QED
    BY <1>3, <2>1 DEF WireType
<1>5. \A d \in Ring : \A i \in DOMAIN calls[d] : calls[d][i].id # id
  BY DEF WireType
<1>6. \A d \in Ring : \A i \in DOMAIN calls'[d] :
        \/ d = c /\ i = n /\ calls'[d][i] = call
        \/ i \in DOMAIN calls[d] /\ calls'[d][i] = calls[d][i]
  BY <1>3, <1>4
<1>7. \A d \in Ring : \A i \in DOMAIN calls[d] :
        i \in DOMAIN calls'[d] /\ calls'[d][i] = calls[d][i]
  BY <1>3, <1>4
<1>8. WaitsOnce'
  <2> SUFFICES ASSUME NEW d \in Ring, NEW f \in Ring, NEW i \in DOMAIN calls'[d],
                      NEW k \in DOMAIN calls'[f], calls'[d][i].id = calls'[f][k].id
               PROVE  d = f /\ i = k
    BY DEF WaitsOnce
  <2>1. CASE d = c /\ i = n /\ calls'[d][i] = call
    BY <1>2, <1>5, <1>6, <2>1
  <2>2. CASE i \in DOMAIN calls[d] /\ calls'[d][i] = calls[d][i]
    <3>1. k \in DOMAIN calls[f] /\ calls'[f][k] = calls[f][k]
      BY <1>2, <1>5, <1>6, <2>2
    <3> QED
      BY <2>2, <3>1 DEF WaitsOnce
  <2> QED
    BY <1>6, <2>1, <2>2
<1>9. ASSUME NEW k
      PROVE  Waiting(k)' <=> Waiting(k) \/ k = id
  <2>1. ASSUME Waiting(k)'
        PROVE  Waiting(k) \/ k = id
    BY <1>2, <1>6, <2>1 DEF Waiting
  <2>2. ASSUME Waiting(k)
        PROVE  Waiting(k)'
    BY <1>7, <2>2 DEF Waiting
  <2>3. n \in DOMAIN calls'[c] /\ calls'[c][n].id = id
    BY <1>2, <1>3, <1>4
  <2>4. Waiting(id)'
    BY <2>3 DEF Waiting
  <2> QED
    BY <2>1, <2>2, <2>4
<1> QED
  BY <1>4, <1>6, <1>8, <1>9

(* What the proof carries from step to step.                               *)
Answering == /\ JournalType /\ WireType /\ WaitsOnce /\ OrdersType
             /\ AnsweredOnce

LEMMA ForwardAnswers ==
  ASSUME TurnType, Answering, NEW t \in Targets, NEW entry \in EntrySet,
         entry.orig <= Len(journal[t]),
         entry.type = "CANCEL_ALL_ORDERS" <=> t = All, Forward(t, entry)
  PROVE  Answering'
<1> DEFINE first == IF NoneReady
                    THEN <<AnswerOf("GATEWAY", "FAILED", "NOT_READY")>>
                    ELSE IF entry.type = "CANCEL_ALL_ORDERS"
                    THEN <<AnswerOf("GATEWAY", "FORWARDED", "UNDEFINED")>>
                    ELSE <<>>
           e == [entry EXCEPT !.answers = first]
<1>1. /\ first \in Seq(Answer)
      /\ NoneReady => first = <<AnswerOf("GATEWAY", "FAILED", "NOT_READY")>>
      /\ ~NoneReady => \A i \in DOMAIN first : first[i].status = "FORWARDED"
  <2>1. AnswerOf("GATEWAY", "FAILED", "NOT_READY") \in Answer
    BY DEF AnswerOf, Answer, RequestStatus, Error
  <2>2. AnswerOf("GATEWAY", "FORWARDED", "UNDEFINED") \in Answer
        /\ AnswerOf("GATEWAY", "FORWARDED", "UNDEFINED").status = "FORWARDED"
    BY DEF AnswerOf, Answer, RequestStatus, Error
  <2> QED
    BY <2>1, <2>2
<1> HIDE DEF first
<1>2. e \in EntrySet /\ e.type = entry.type /\ e.orig = entry.orig
      /\ e.answers = first
  BY <1>1 DEF EntrySet
<1>3. /\ Len(journal[t]) < Versions
      /\ journal' = [journal EXCEPT ![t] = Append(@, e)]
      /\ UNCHANGED <<orphans, orders, overtook>>
  BY DEF Forward, first, exchange
<1> HIDE DEF e
<1>4. PICK id : id = <<t, Len(journal[t]) + 1>>
  OBVIOUS
<1>5. /\ JournalType' /\ id \in IdSet /\ id \notin Ids /\ Ids' = Ids \cup {id}
      /\ Request(id)' = e
      /\ \A k \in Ids : Request(k)' = Request(k)
  BY <1>2, <1>3, <1>4, EntryAdded, ZenonT(60) DEF Answering
<1>6. OrdersType' /\ orphans' \subseteq Ids' /\ overtook' \subseteq Ids'
  BY <1>3, <1>5 DEF Answering, OrdersType, WireType
<1>7. \A d \in Ring : \A i \in DOMAIN calls[d] :
        /\ calls[d][i].id \in Ids
        /\ calls[d][i].id \in Ids'
        /\ Answers(calls[d][i].response,
                   journal'[calls[d][i].id[1]][calls[d][i].id[2]].type)
  <2> SUFFICES ASSUME NEW d \in Ring, NEW i \in DOMAIN calls[d], NEW k,
                      k = calls[d][i].id
               PROVE  /\ k \in Ids /\ k \in Ids'
                      /\ Answers(calls[d][i].response, journal'[k[1]][k[2]].type)
    OBVIOUS
  <2>1. k \in Ids /\ Answers(calls[d][i].response, Request(k).type)
    BY DEF Answering, WireType
  <2> QED
    BY <1>5, <2>1 DEF Request
<1>8. ~Waiting(id)
  BY <1>5, <1>7 DEF Waiting
<1>9. \A k \in Ids : Final(k)' = Final(k)
  BY <1>5 DEF Final
<1>10. CASE NoneReady
  <2>1. calls' = calls
    BY <1>10 DEF Forward
  <2>2. WireType' /\ WaitsOnce' /\ \A k : Waiting(k)' <=> Waiting(k)
    <3>1. WireType'
      <4>1. calls' \in [Ring -> Seq(CallSet)]
        BY <2>1 DEF Answering, WireType
      <4>2. \A d \in Ring : \A i \in DOMAIN calls'[d] :
              /\ calls'[d][i].id \in Ids'
              /\ Answers(calls'[d][i].response,
                         journal'[calls'[d][i].id[1]][calls'[d][i].id[2]].type)
        BY <1>7, <2>1
      <4> QED
        BY <1>6, <4>1, <4>2, Zenon DEF WireType, Request, Answers
    <3> QED
      BY <2>1, <3>1 DEF Answering, WaitsOnce, Waiting
  <2>3. Request(id)'.answers = <<AnswerOf("GATEWAY", "FAILED", "NOT_READY")>>
    BY <1>1, <1>2, <1>5, <1>10
  <2>4. Final(id)' = {1} /\ 1 \in DOMAIN Request(id)'.answers
        /\ Len(Request(id)'.answers) = 1
    BY <2>3 DEF Final, AnswerOf
  <2>5. AnsweredOnce'
    <3> SUFFICES ASSUME NEW k \in Ids'
                 PROVE  IF Waiting(k)' THEN Final(k)' = {}
                        ELSE \E last \in DOMAIN Request(k)'.answers :
                               Final(k)' = {last} /\ last = Len(Request(k)'.answers)
      BY DEF AnsweredOnce
    <3>1. CASE k = id
      BY <1>8, <2>2, <2>4, <3>1
    <3>2. CASE k \in Ids
      BY <1>5, <1>9, <2>2, <3>2 DEF Answering, AnsweredOnce
    <3> QED
      BY <1>5, <3>1, <3>2
  <2> QED
    BY <1>5, <1>6, <2>2, <2>5 DEF Answering
<1>11. CASE ~NoneReady
  <2>1. PICK c \in Ring : c = NextReady
    BY <1>11, NextIsReady DEF TurnType
  <2>2. PICK call : call = [id |-> id, response |-> NoResponse]
    OBVIOUS
  <2>3. calls' = [calls EXCEPT ![c] = Append(@, call)]
    BY <1>4, <1>11, <2>1, <2>2 DEF Forward
  <2>4. /\ calls' \in [Ring -> Seq(CallSet)]
        /\ WaitsOnce'
        /\ \A d \in Ring : \A i \in DOMAIN calls'[d] :
             \/ calls'[d][i] = call
             \/ \E k \in DOMAIN calls[d] : calls'[d][i] = calls[d][k]
        /\ \A k : Waiting(k)' <=> Waiting(k) \/ k = id
    <3>1. WireType /\ WaitsOnce /\ id \in IdSet /\ id \notin Ids
      BY <1>5 DEF Answering
    <3>2. calls' \in [Ring -> Seq(CallSet)]
      BY <2>2, <2>3, <3>1, CallAdded
    <3>3. WaitsOnce'
      BY <2>2, <2>3, <3>1, CallAdded
    <3>4. \A k : Waiting(k)' <=> Waiting(k) \/ k = id
      BY <2>2, <2>3, <3>1, CallAdded
    <3>5. \A d \in Ring : \A i \in DOMAIN calls'[d] :
             \/ calls'[d][i] = call
             \/ \E k \in DOMAIN calls[d] : calls'[d][i] = calls[d][k]
      BY <2>2, <2>3, <3>1, CallAdded
    <3> QED
      BY <3>2, <3>3, <3>4, <3>5
  <2>5. call.id = id /\ \A type : Answers(call.response, type)
    BY <2>2 DEF NoResponse, Response, Answers
  <2>6. WireType'
    <3>1. Answers(call.response, journal'[id[1]][id[2]].type) /\ id \in Ids'
      BY <1>5, <2>5
    <3>2. \A d \in Ring : \A i \in DOMAIN calls'[d] :
            /\ calls'[d][i].id \in Ids'
            /\ Answers(calls'[d][i].response,
                       journal'[calls'[d][i].id[1]][calls'[d][i].id[2]].type)
      BY <1>7, <2>4, <2>5, <3>1, ZenonT(60)
    <3> QED
      BY <1>6, <2>4, <3>2, Zenon DEF WireType, Request, Answers
  <2>7. Final(id)' = {}
    BY <1>1, <1>2, <1>5, <1>11 DEF Final
  <2>8. AnsweredOnce'
    <3> SUFFICES ASSUME NEW k \in Ids'
                 PROVE  IF Waiting(k)' THEN Final(k)' = {}
                        ELSE \E last \in DOMAIN Request(k)'.answers :
                               Final(k)' = {last} /\ last = Len(Request(k)'.answers)
      BY DEF AnsweredOnce
    <3>1. CASE k = id
      BY <2>4, <2>7, <3>1
    <3>2. CASE k \in Ids
      BY <1>5, <1>9, <2>4, <3>2 DEF Answering, AnsweredOnce
    <3> QED
      BY <1>5, <3>1, <3>2
  <2> QED
    BY <1>5, <1>6, <2>4, <2>6, <2>8 DEF Answering
<1> QED
  BY <1>10, <1>11

LEMMA RequestsAnswered ==
  ASSUME TurnType, Answering,
         \/ CancelAllOrders
         \/ \E o \in Orders : CreateOrder(o) \/ ModifyOrder(o) \/ CancelOrder(o)
  PROVE  Answering'
<1> DEFINE Fits(t, entry) == /\ entry \in EntrySet /\ entry.orig <= Len(journal[t])
                             /\ entry.type = "CANCEL_ALL_ORDERS" <=> t = All
<1>1. \A t \in Targets : Len(journal[t]) \in Nat /\ Len(journal[t]) <= Versions
  BY DEF Answering, JournalType
<1>2. /\ 0 \in 0..Versions
      /\ \A t \in Targets : /\ 0 <= Len(journal[t])
                           /\ \A v \in 1..Len(journal[t]) : v \in 0..Versions
  BY <1>1, BoundsAssumption
<1>3. ASSUME NEW t \in Targets, NEW entry, Fits(t, entry), Forward(t, entry)
      PROVE  Answering'
  BY <1>3, ForwardAnswers
<1> HIDE DEF Fits
<1>4. All \in Targets /\ \A o \in Orders : o \in Targets /\ o # All
  BY TargetsAssumption DEF Targets
<1>5. CASE CancelAllOrders
  <2> DEFINE entry == Entry("CANCEL_ALL_ORDERS", 0, FALSE)
  <2>1. Fits(All, entry)
    BY <1>2, <1>4 DEF Entry, EntrySet, RequestType, Fates, Fits
  <2>2. Forward(All, entry)
    BY <1>5 DEF CancelAllOrders
  <2> HIDE DEF entry
  <2> QED
    BY <1>3, <1>4, <2>1, <2>2
<1>6. ASSUME NEW o \in Orders, CreateOrder(o) PROVE Answering'
  <2> DEFINE entry == Entry("CREATE_ORDER", 0, FALSE)
  <2>1. Fits(o, entry)
    BY <1>2, <1>4 DEF Entry, EntrySet, RequestType, Fates, Fits
  <2>2. Forward(o, entry)
    BY <1>6 DEF CreateOrder
  <2> HIDE DEF entry
  <2> QED
    BY <1>3, <1>4, <2>1, <2>2
<1>7. ASSUME NEW o \in Orders, ModifyOrder(o) PROVE Answering'
  <2>1. PICK v \in 1..Len(journal[o]) : Forward(o, Entry("MODIFY_ORDER", v, FALSE))
    BY <1>7 DEF ModifyOrder
  <2> DEFINE entry == Entry("MODIFY_ORDER", v, FALSE)
  <2>2. Fits(o, entry)
    BY <1>2, <1>4 DEF Entry, EntrySet, RequestType, Fates, Fits
  <2>3. Forward(o, entry)
    BY <2>1
  <2> HIDE DEF entry
  <2> QED
    BY <1>3, <1>4, <2>2, <2>3
<1>8. ASSUME NEW o \in Orders, CancelOrder(o) PROVE Answering'
  <2> DEFINE entry == Entry("CANCEL_ORDER", 0, shown[o].revision > 0)
  <2>2. Fits(o, entry)
    BY <1>2, <1>4 DEF Entry, EntrySet, RequestType, Fates, Fits
  <2>3. Forward(o, entry)
    BY <1>8 DEF CancelOrder
  <2> HIDE DEF entry
  <2> QED
    BY <1>3, <1>4, <2>2, <2>3
<1> QED
  BY <1>5, <1>6, <1>7, <1>8

-------------------------------------------------------------------------------
(* The other steps.                                                        *)

(* The journal is rewritten, calls are taken off or their response comes.  *)
LEMMA WireKept ==
  ASSUME JournalType, WireType, Rewritten(journal'),
         calls' \in [Ring -> Seq(CallSet)],
         \A d \in Ring : \A i \in DOMAIN calls'[d] :
           \E k \in DOMAIN calls[d] :
             /\ calls'[d][i].id = calls[d][k].id
             /\ Answers(calls'[d][i].response, Request(calls[d][k].id).type),
         orphans' \subseteq Ids, overtook' \subseteq Ids
  PROVE  WireType'
<1>1. Ids' = Ids /\ \A id \in Ids : journal'[id[1]][id[2]].type = Request(id).type
  BY RewrittenJournal DEF Request
<1>2. \A d \in Ring : \A i \in DOMAIN calls'[d] :
        /\ calls'[d][i].id \in Ids'
        /\ Answers(calls'[d][i].response,
                   journal'[calls'[d][i].id[1]][calls'[d][i].id[2]].type)
  <2> SUFFICES ASSUME NEW d \in Ring, NEW i \in DOMAIN calls'[d], NEW id,
                      id = calls'[d][i].id
               PROVE  /\ id \in Ids'
                      /\ Answers(calls'[d][i].response, journal'[id[1]][id[2]].type)
    OBVIOUS
  <2>1. id \in Ids /\ Answers(calls'[d][i].response, Request(id).type)
    BY DEF WireType
  <2> QED
    BY <1>1, <2>1
<1> QED
  BY <1>1, <1>2 DEF WireType, Request, Answers

(* A request comes to its fate, and no answer changes.                     *)
LEMMA FateRewrites ==
  ASSUME JournalType, NEW id \in Ids, NEW fate \in Fates,
         journal' = [journal EXCEPT ![id[1]][id[2]].fate = fate]
  PROVE  Given(journal', {})
<1> DEFINE t == id[1]
           v == id[2]
           e == [Request(id) EXCEPT !.fate = fate]
           j == [journal EXCEPT ![t] = [@ EXCEPT ![v] = e]]
<1>1. t \in Targets /\ v \in DOMAIN journal[t] /\ Request(id) \in EntrySet
      /\ Request(id) = journal[t][v]
  BY IdsType
<1>2. e \in EntrySet /\ e.type = Request(id).type /\ e.orig = Request(id).orig
      /\ e.named = Request(id).named /\ e.answers = Request(id).answers
  BY <1>1 DEF EntrySet
<1>3. journal' = j
  BY <1>1
<1> HIDE DEF e
<1>4. Rewritten(j)
      /\ \A u \in Targets : \A w \in DOMAIN journal[u] :
           j[u][w] = IF u = t /\ w = v THEN e ELSE journal[u][w]
  <2>1. e.type = journal[t][v].type /\ e.orig = journal[t][v].orig
        /\ e.named = journal[t][v].named
    BY <1>1, <1>2
  <2> HIDE DEF t, v
  <2> QED
    BY <1>1, <1>2, <2>1, EntryReplaced
<1> HIDE DEF j
<1>5. ASSUME NEW k \in Ids
      PROVE  j[k[1]][k[2]].answers = Request(k).answers
  <2>1. k[1] \in Targets /\ k[2] \in DOMAIN journal[k[1]]
        /\ Request(k) = journal[k[1]][k[2]]
    BY IdsType
  <2> QED
    BY <1>1, <1>2, <1>4, <2>1
<1> QED
  BY <1>3, <1>4, <1>5 DEF Given

LEMMA ReactKeeps ==
  ASSUME JournalType, WireType, OrdersType, NEW id \in Ids, NEW r,
         Sound(r, Request(id).type), React(id, r)
  PROVE  OrdersType' /\ Given(journal', {}) /\ overtook' \subseteq Ids
<1>1. OrdersType'
  BY DEF React, Sound, Stepped, OrdersType
<1>2. Given(journal', {})
  <2>1. r.fate \in Fates
    BY DEF Sound
  <2>2. journal' = [journal EXCEPT ![id[1]][id[2]].fate = r.fate]
    BY DEF React
  <2> QED
    BY <2>1, <2>2, FateRewrites
<1>3. overtook' \subseteq Ids
  BY DEF React, WireType
<1> QED
  BY <1>1, <1>2, <1>3

(* The exchange's answer to a call arrives at the connection.              *)
LEMMA ServeAnswers ==
  ASSUME Answering, NEW c \in Ring, Serve(c)
  PROVE  Answering'
<1>1. PICK i \in Sent(c) \cap Unserved(c) :
        \E r \in Reactions(calls[c][i].id) :
          /\ React(calls[c][i].id, r)
          /\ calls' = [calls EXCEPT ![c][i].response = r.response]
  BY DEF Serve
<1>2. PICK id : id = calls[c][i].id
  OBVIOUS
<1>3. PICK r \in Reactions(id) :
        React(id, r) /\ calls' = [calls EXCEPT ![c][i].response = r.response]
  BY <1>1, <1>2
<1>4. orphans' = orphans /\ i \in DOMAIN calls[c]
  BY DEF Serve, Unserved
<1>5. calls[c] \in Seq(CallSet) /\ calls[c][i] \in CallSet /\ id \in Ids
  BY <1>2, <1>4, CallType DEF Answering, WireType
<1>6. Sound(r, Request(id).type)
  BY <1>5, ReactionSound DEF Answering
<1>7. OrdersType' /\ Given(journal', {}) /\ overtook' \subseteq Ids
  BY <1>3, <1>5, <1>6, ReactKeeps DEF Answering
<1>8. r.response \in Responses /\ Answers(r.response, Request(id).type)
  BY <1>6 DEF Sound
<1> DEFINE call == [id |-> id, response |-> r.response]
           s == [calls[c] EXCEPT ![i] = call]
<1>9. call \in CallSet /\ call = [calls[c][i] EXCEPT !.response = r.response]
  BY <1>2, <1>5, <1>8 DEF CallSet
<1>10. s \in Seq(CallSet) /\ DOMAIN s = DOMAIN calls[c]
       /\ \A k \in DOMAIN s : s[k] = IF k = i THEN call ELSE calls[c][k]
  <2> HIDE DEF call
  <2> QED
    BY <1>4, <1>5, <1>9
<1>11. calls' = [calls EXCEPT ![c] = s]
  BY <1>3, <1>4, <1>9 DEF Answering, WireType
<1>12. call.id = calls[c][i].id /\ call.response = r.response
  BY <1>2
<1> HIDE DEF s, call
<1>13. /\ calls' \in [Ring -> Seq(CallSet)]
       /\ \A d \in Ring :
            /\ DOMAIN calls'[d] = DOMAIN calls[d]
            /\ \A k \in DOMAIN calls[d] :
                 calls'[d][k] = IF d = c /\ k = i THEN call ELSE calls[d][k]
  BY <1>10, <1>11 DEF Answering, WireType
<1>14. \A d \in Ring : \A k \in DOMAIN calls'[d] :
         k \in DOMAIN calls[d] /\ calls'[d][k].id = calls[d][k].id
  BY <1>12, <1>13
<1>15. WaitsOnce' /\ \A k : Waiting(k)' <=> Waiting(k)
  <2>1. WaitsOnce'
    BY <1>14 DEF Answering, WaitsOnce
  <2>2. ASSUME NEW k
        PROVE  Waiting(k)' <=> Waiting(k)
    <3>1. ASSUME NEW d \in Ring, NEW n
          PROVE  n \in DOMAIN calls'[d] /\ calls'[d][n].id = k
                   <=> n \in DOMAIN calls[d] /\ calls[d][n].id = k
      BY <1>13, <1>14
    <3> QED
      BY <3>1 DEF Waiting
  <2> QED
    BY <2>1, <2>2
<1>16. \A d \in Ring : \A k \in DOMAIN calls'[d] :
         Answers(calls'[d][k].response, Request(calls[d][k].id).type)
  <2> SUFFICES ASSUME NEW d \in Ring, NEW k \in DOMAIN calls[d]
               PROVE  Answers(calls'[d][k].response, Request(calls[d][k].id).type)
    BY <1>13
  <2>1. CASE d = c /\ k = i
    BY <1>2, <1>8, <1>12, <1>13, <2>1
  <2>2. CASE ~(d = c /\ k = i)
    BY <1>13, <2>2 DEF Answering, WireType
  <2> QED
    BY <2>1, <2>2
<1>17. WireType'
  BY <1>4, <1>7, <1>13, <1>14, <1>16, WireKept DEF Answering, WireType, Given
<1>18. JournalType' /\ AnsweredOnce'
  <2>1. JournalType'
    BY <1>7, RewrittenJournal DEF Answering, Given
  <2>2. {} \in SUBSET Ids /\ \A k \in {} : Waiting(k)
    OBVIOUS
  <2>3. \A k \in Ids : Waiting(k)' <=> Waiting(k) /\ k \notin {}
    BY <1>15
  <2>4. JournalType /\ AnsweredOnce
    BY DEF Answering
  <2> QED
    BY <1>7, <2>1, <2>2, <2>3, <2>4, GivenAnswers
<1> QED
  BY <1>7, <1>15, <1>17, <1>18 DEF Answering

(* Requests are answered whose calls are taken off.                        *)
LEMMA AnswersGiven ==
  ASSUME Answering, NEW answered \in SUBSET Ids,
         \A id \in answered : Waiting(id), Given(journal', answered),
         \A id \in Ids : Waiting(id)' <=> Waiting(id) /\ id \notin answered,
         calls' \in [Ring -> Seq(CallSet)], WaitsOnce',
         \A d \in Ring : \A i \in DOMAIN calls'[d] :
           \E k \in DOMAIN calls[d] : calls'[d][i] = calls[d][k],
         OrdersType', orphans' \subseteq Ids, overtook' \subseteq Ids
  PROVE  Answering'
<1>1. JournalType /\ WireType /\ AnsweredOnce /\ Rewritten(journal')
  BY DEF Answering, Given
<1>2. JournalType'
  BY <1>1, RewrittenJournal
<1>3. AnsweredOnce'
  BY <1>1, GivenAnswers
<1>4. \A d \in Ring : \A i \in DOMAIN calls'[d] :
        \E k \in DOMAIN calls[d] :
          /\ calls'[d][i].id = calls[d][k].id
          /\ Answers(calls'[d][i].response, Request(calls[d][k].id).type)
  <2> SUFFICES ASSUME NEW d \in Ring, NEW i \in DOMAIN calls'[d]
               PROVE  \E k \in DOMAIN calls[d] :
                        /\ calls'[d][i].id = calls[d][k].id
                        /\ Answers(calls'[d][i].response, Request(calls[d][k].id).type)
    OBVIOUS
  <2>1. PICK k \in DOMAIN calls[d] : calls'[d][i] = calls[d][k]
    OBVIOUS
  <2>2. Answers(calls[d][k].response, Request(calls[d][k].id).type)
    BY <1>1 DEF WireType
  <2> QED
    BY <2>1, <2>2
<1>5. WireType'
  BY <1>1, <1>4, WireKept
<1> QED
  BY <1>2, <1>3, <1>5 DEF Answering

(* The client calls back with a response, or because none came.            *)
LEMMA CallAnswered ==
  ASSUME Answering, NEW c \in Ring, calls[c] # <<>>, NEW response \in Responses,
         Answers(response, Request(Head(calls[c]).id).type),
         journal' = Tell(journal, Head(calls[c]).id, response),
         calls' = [calls EXCEPT ![c] = Tail(@)],
         orders' = orders, orphans' \subseteq Ids, overtook' = overtook
  PROVE  Answering'
<1>1. WireType /\ WaitsOnce /\ JournalType /\ OrdersType'
  BY DEF Answering, OrdersType
<1>2. /\ 1 \in DOMAIN calls[c] /\ Head(calls[c]) = calls[c][1]
      /\ calls' \in [Ring -> Seq(CallSet)] /\ WaitsOnce'
      /\ \A d \in Ring : \A i \in DOMAIN calls'[d] :
           \E k \in DOMAIN calls[d] : calls'[d][i] = calls[d][k]
  BY <1>1, CallTaken
<1>3. \A k : Waiting(k)' <=> Waiting(k) /\ k # calls[c][1].id
  BY <1>1, CallTaken
<1>4. PICK id : id = calls[c][1].id
  OBVIOUS
<1>5. id \in Ids /\ Waiting(id)
  BY <1>1, <1>2, <1>4, CallType
<1>6. Answers(response, Request(id).type) /\ journal' = Tell(journal, id, response)
  BY <1>2, <1>4
<1>11. PICK answered : answered = {id}
  OBVIOUS
<1>7. Given(journal', answered)
  BY <1>1, <1>5, <1>6, <1>11, TellGives
<1>8. answered \in SUBSET Ids /\ \A k \in answered : Waiting(k)
  BY <1>5, <1>11
<1>9. \A k \in Ids : Waiting(k)' <=> Waiting(k) /\ k \notin answered
  BY <1>3, <1>4, <1>11
<1>10. overtook' \subseteq Ids
  BY <1>1 DEF WireType
<1> QED
  BY <1>1, <1>2, <1>7, <1>8, <1>9, <1>10, AnswersGiven

LEMMA CallbackAnswers ==
  ASSUME Answering, NEW c \in Ring, HandleResponse(c) \/ Timeout(c)
  PROVE  Answering'
<1>1. WireType /\ WaitsOnce /\ calls[c] # <<>>
  BY DEF Answering, HandleResponse, Timeout
<1>2. 1 \in DOMAIN calls[c] /\ Head(calls[c]) = calls[c][1]
  <2>1. calls[c] \in Seq(CallSet)
    BY <1>1 DEF WireType
  <2> QED
    BY <1>1, <2>1
<1>3. /\ Head(calls[c]).id \in Ids /\ Head(calls[c]).response \in Responses
      /\ Answers(Head(calls[c]).response, Request(Head(calls[c]).id).type)
      /\ orphans \subseteq Ids
  BY <1>1, <1>2, CallType DEF WireType
<1>4. CASE HandleResponse(c)
  <2>1. /\ journal' = Tell(journal, Head(calls[c]).id, Head(calls[c]).response)
        /\ calls' = [calls EXCEPT ![c] = Tail(@)]
        /\ orders' = orders /\ orphans' = orphans /\ overtook' = overtook
    BY <1>4 DEF HandleResponse, exchange, history
  <2> QED
    BY <1>1, <1>3, <2>1, CallAnswered
<1>5. CASE Timeout(c)
  <2> DEFINE none == Response("TIMEOUT", {}, <<>>)
  <2>1. none \in Responses /\ \A type : Answers(none, type)
    BY DEF Response, Responses, Categories, Texts, Answers
  <2>2. journal' = Tell(journal, Head(calls[c]).id, none)
    BY <1>5 DEF Timeout
  <2>3. calls' = [calls EXCEPT ![c] = Tail(@)]
        /\ orders' = orders /\ overtook' = overtook
    BY <1>5 DEF Timeout, exchange, history
  <2>4. orphans' \subseteq Ids
    BY <1>3, <1>5 DEF Timeout
  <2> HIDE DEF none
  <2> QED
    BY <1>1, <2>1, <2>2, <2>3, <2>4, CallAnswered
<1> QED
  BY <1>4, <1>5

LEMMA LostAnswers ==
  ASSUME Answering, NEW c \in Ring, Disconnected(c)
  PROVE  Answering'
<1>1. WireType /\ WaitsOnce /\ JournalType /\ OrdersType
  BY DEF Answering
<1>2. PICK lost : lost = {calls[c][i].id : i \in DOMAIN calls[c]}
  OBVIOUS
<1>3. lost \in SUBSET Ids /\ Given(journal', lost)
  BY <1>1, <1>2, TellAllGives DEF Disconnected
<1>4. \A id \in lost : Waiting(id)
  BY <1>2 DEF Waiting
<1>5. calls' = [calls EXCEPT ![c] = <<>>] /\ orders' = orders /\ overtook' = overtook
  BY DEF Disconnected, exchange
<1>6. /\ calls' \in [Ring -> Seq(CallSet)] /\ calls'[c] = <<>>
      /\ \A d \in Ring : d # c => calls'[d] = calls[d]
  BY <1>1, <1>5 DEF WireType
<1>7. \A d \in Ring : \A i \in DOMAIN calls'[d] :
        d # c /\ i \in DOMAIN calls[d] /\ calls'[d][i] = calls[d][i]
  BY <1>6
<1>8. WaitsOnce'
  BY <1>1, <1>7 DEF WaitsOnce
<1>9. ASSUME NEW id \in Ids
      PROVE  Waiting(id)' <=> Waiting(id) /\ id \notin lost
  <2>1. ASSUME Waiting(id)'
        PROVE  Waiting(id) /\ id \notin lost
    <3>1. PICK d \in Ring : \E i \in DOMAIN calls'[d] : calls'[d][i].id = id
      BY <2>1 DEF Waiting
    <3> QED
      BY <1>1, <1>2, <1>7, <3>1 DEF Waiting, WaitsOnce
  <2>2. ASSUME Waiting(id), id \notin lost
        PROVE  Waiting(id)'
    <3>1. PICK d \in Ring : \E i \in DOMAIN calls[d] : calls[d][i].id = id
      BY <2>2 DEF Waiting
    <3>2. d # c
      BY <1>2, <2>2, <3>1
    <3> QED
      BY <1>6, <3>1, <3>2 DEF Waiting
  <2> QED
    BY <2>1, <2>2
<1>10. orphans' \subseteq Ids /\ overtook' \subseteq Ids /\ OrdersType'
  <2>1. \A i \in DOMAIN calls[c] : calls[c][i].id \in Ids
    BY <1>1 DEF WireType
  <2>2. \A i \in Sent(c) \cap Unserved(c) : i \in DOMAIN calls[c]
    BY DEF Unserved
  <2> QED
    BY <1>1, <1>5, <2>1, <2>2 DEF Disconnected, WireType, OrdersType
<1> QED
  BY <1>3, <1>4, <1>6, <1>7, <1>8, <1>9, <1>10, AnswersGiven

LEMMA OrphanAnswers ==
  ASSUME Answering, ServeOrphan
  PROVE  Answering'
<1>1. WireType /\ WaitsOnce /\ JournalType /\ OrdersType
  BY DEF Answering
<1>2. PICK id \in orphans : orphans' = orphans \ {id} /\ \E r \in Fair(id) : React(id, r)
  BY DEF ServeOrphan
<1>3. PICK r \in Fair(id) : React(id, r)
  BY <1>2
<1>4. id \in Ids /\ orphans' \subseteq Ids
  BY <1>1, <1>2 DEF WireType
<1>5. Sound(r, Request(id).type)
  BY <1>1, <1>4, FairSound
<1>6. OrdersType' /\ Given(journal', {}) /\ overtook' \subseteq Ids
  BY <1>1, <1>3, <1>4, <1>5, ReactKeeps
<1>7. calls' = calls
  BY DEF ServeOrphan
<1>8. WaitsOnce' /\ calls' \in [Ring -> Seq(CallSet)]
  BY <1>1, <1>7 DEF WaitsOnce, WireType
<1>9. \A k \in Ids : Waiting(k)' <=> Waiting(k) /\ k \notin {}
  BY <1>7 DEF Waiting
<1>10. \A d \in Ring : \A i \in DOMAIN calls'[d] :
         \E k \in DOMAIN calls[d] : calls'[d][i] = calls[d][k]
  BY <1>7
<1>11. {} \in SUBSET Ids /\ \A k \in {} : Waiting(k)
  OBVIOUS
<1> QED
  BY <1>4, <1>6, <1>8, <1>9, <1>10, <1>11, AnswersGiven

LEMMA FillSteps ==
  ASSUME OrdersType, NEW o \in Orders, Fill(o)
  PROVE  OrdersType'
<1>1. orders[o] \in OrderSet
  BY DEF OrdersType
<1>2. orders[o].version \in 0..Versions
  BY <1>1 DEF OrderSet
<1>3. Stepped(Turn(o, "FILLED", orders[o].version))
  BY <1>2, TurnSteps DEF RowStatuses
<1> QED
  BY <1>3 DEF Fill, Stepped, OrdersType

(* Nothing that the requests and their answers depend on.                  *)
LEMMA ElsewhereAnswers ==
  ASSUME Answering, OrdersType', UNCHANGED <<calls, orphans, overtook, journal>>
  PROVE  Answering'
<1>1. JournalType' /\ Ids' = Ids /\ WaitsOnce'
  BY DEF Answering, JournalType, Ids, WaitsOnce
<1>2. WireType'
  BY <1>1 DEF Answering, WireType, Request, Answers
<1>3. AnsweredOnce'
  <2> SUFFICES ASSUME NEW id \in Ids
               PROVE  IF Waiting(id)' THEN Final(id)' = {}
                      ELSE \E last \in DOMAIN Request(id)'.answers :
                             Final(id)' = {last} /\ last = Len(Request(id)'.answers)
    BY <1>1 DEF AnsweredOnce
  <2>1. Request(id)' = Request(id)
    BY DEF Request
  <2>2. Final(id)' = Final(id)
    BY <2>1 DEF Final
  <2>3. Waiting(id)' <=> Waiting(id)
    BY DEF Waiting
  <2> QED
    BY <2>1, <2>2, <2>3 DEF Answering, AnsweredOnce
<1> QED
  BY <1>1, <1>2, <1>3 DEF Answering

LEMMA AnsweringInitially ==
  ASSUME Init
  PROVE  Answering
<1>1. JournalType
  BY BoundsAssumption DEF Init, JournalType
<1>2. Ids = {}
  BY DEF Init, Ids
<1>3. WireType /\ WaitsOnce
  BY DEF Init, WireType, WaitsOnce
<1>4. OrdersType
  BY BoundsAssumption DEF Init, OrdersType, OrderSet, Statuses
<1>5. AnsweredOnce
  BY <1>2 DEF AnsweredOnce
<1> QED
  BY <1>1, <1>3, <1>4, <1>5 DEF Answering

LEMMA AnsweringKept ==
  ASSUME Turns, Answering, [Next]_vars
  PROVE  Answering'
<1>1. TurnType /\ OrdersType
  BY DEF Turns, Answering
<1>2. CASE \/ CancelAllOrders
           \/ \E o \in Orders : CreateOrder(o) \/ ModifyOrder(o) \/ CancelOrder(o)
  BY <1>1, <1>2, RequestsAnswered
<1>3. CASE \E c \in Ring : Serve(c)
  BY <1>3, ServeAnswers
<1>4. CASE \E c \in Ring : HandleResponse(c) \/ Timeout(c)
  BY <1>4, CallbackAnswers
<1>5. CASE \E c \in Ring : Disconnected(c)
  BY <1>5, LostAnswers
<1>6. CASE ServeOrphan
  BY <1>6, OrphanAnswers
<1>7. CASE \E o \in Orders : Fill(o)
  <2>1. OrdersType'
    BY <1>1, <1>7, FillSteps
  <2>2. UNCHANGED <<calls, orphans, overtook, journal>>
    BY <1>7 DEF Fill, wire, users, history
  <2> QED
    BY <2>1, <2>2, ElsewhereAnswers
<1>8. CASE (\E c \in Ring : Connected(c)) \/ ExecutionArrives \/ UNCHANGED vars
  <2>1. UNCHANGED <<calls, orphans, overtook, journal, orders>>
    BY <1>8 DEF Connected, ExecutionArrives, vars, wire, exchange, users, history
  <2>2. OrdersType'
    BY <1>1, <2>1 DEF OrdersType
  <2> QED
    BY <2>1, <2>2, ElsewhereAnswers
<1> QED
  BY <1>2, <1>3, <1>4, <1>5, <1>6, <1>7, <1>8 DEF Next

(* For any number of orders, connections and requests, and however the     *)
(* connections are lost and the answers late: to each request the user has *)
(* exactly one final answer, and none while the client has yet to call     *)
(* back (the calls to create_order_ack and its likes, process_response).   *)
THEOREM OneFinalAnswer == Spec => []AnsweredOnce
<1>1. Init => Turns /\ Answering
  BY TurnsInitially, AnsweringInitially
<1>2. Turns /\ Answering /\ [Next]_vars => (Turns /\ Answering)'
  BY TurnsKept, AnsweringKept
<1>3. Answering => AnsweredOnce
  BY DEF Answering
<1> QED
  BY <1>1, <1>2, <1>3, PTL DEF Spec

===============================================================================
