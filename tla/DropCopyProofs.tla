---------------------------- MODULE DropCopyProofs ----------------------------
(***************************************************************************)
(* DropCopy, for all orders, flags, times and budgets.  The dead man's     *)
(* switch: in use, it does not fire on a READY session; not in use, it is  *)
(* stopped.  What the users are told: the types, fills, answers, the       *)
(* position and orders.                                                    *)
(***************************************************************************)
EXTENDS DropCopy, TLAPS

-------------------------------------------------------------------------------
(* Times and requests.                                                     *)

LEMMA Times ==
  /\ Quarter \in Nat /\ Timeout \in Nat
  /\ Period \in Nat /\ Delay \in Nat
<1>1. Quarter \in Nat
  BY SwitchAssumption DEF Quarter
<1>2. CancelAllAfter \div Millisecond \in Nat
  BY SwitchAssumption
<1>3. \A n \in Nat : n * Millisecond \in Nat
  BY SwitchAssumption
<1> QED
  BY <1>1, <1>2, <1>3, TimeAssumption DEF Timeout

(* The requests the session sends.                                         *)
LEMMA Requests ==
  /\ SendSubscribe \in Request /\ SendSubscribe.age = 0
  /\ SendSubscribe.op = "subscribe"
  /\ SendCancelAllAfter(CancelAllAfter) \in Request
  /\ SendCancelAllAfter(CancelAllAfter).op = "cancelAllAfter"
  /\ SendCancelAllAfter(CancelAllAfter).age = 0
  /\ SendCancelAllAfter(CancelAllAfter).timeout = Timeout
  /\ SendCancelAllAfter(0) \in Request
  /\ SendCancelAllAfter(0).op = "cancelAllAfter"
  /\ SendCancelAllAfter(0).age = 0 /\ SendCancelAllAfter(0).timeout = 0
<1>1. 0 \div Millisecond = 0
  BY SwitchAssumption
<1>2. 0 * Millisecond = 0
  BY SwitchAssumption
<1> QED
  BY <1>1, <1>2, Times DEF SendSubscribe, SendCancelAllAfter, Request, Timeout

(* Appending a request of age 0 keeps the requests before it.              *)
LEMMA Appended ==
  ASSUME NEW s \in Seq(Request), NEW r \in Request
  PROVE  /\ Append(s, r) \in Seq(Request)
         /\ DOMAIN Append(s, r) = DOMAIN s \cup {Len(s) + 1}
         /\ Len(s) + 1 \notin DOMAIN s
         /\ Append(s, r)[Len(s) + 1] = r
         /\ \A n \in DOMAIN s : Append(s, r)[n] = s[n]
  OBVIOUS

LEMMA Served ==
  ASSUME NEW s \in Seq(Request), s # <<>>
  PROVE  /\ Head(s) = s[1] /\ 1 \in DOMAIN s
         /\ Tail(s) \in Seq(Request)
         /\ \A n \in DOMAIN s : n # 1 => n - 1 \in DOMAIN Tail(s)
                                         /\ Tail(s)[n - 1] = s[n]
         /\ \A n \in DOMAIN Tail(s) : n + 1 \in DOMAIN s /\ n + 1 # 1
                                      /\ Tail(s)[n] = s[n + 1]
  OBVIOUS

-------------------------------------------------------------------------------
(* Types of what the switch depends on.                                    *)

(* An empty wire, an appended request, a served one, and older ones.       *)
LEMMA WelcomeWire ==
  ASSUME ClockType, outbox' = outbox \o WelcomeRequests
  PROVE  /\ outbox' \in Seq(Request)
         /\ \A n \in DOMAIN outbox : n \in DOMAIN outbox' /\ outbox'[n] = outbox[n]
         /\ \A n \in DOMAIN outbox' \ DOMAIN outbox :
              /\ outbox'[n].age = 0
              /\ outbox'[n] = SendSubscribe
                 \/ (~Enabled /\ outbox'[n] = SendCancelAllAfter(0))
         /\ ~Enabled => \E n \in DOMAIN outbox' : outbox'[n] = SendCancelAllAfter(0)
<1> DEFINE a == SendSubscribe
           b == SendCancelAllAfter(0)
<1>1. outbox \in Seq(Request) /\ a \in Request /\ b \in Request
      /\ a.age = 0 /\ b.age = 0
  BY Requests DEF ClockType
<1> HIDE DEF a, b
<1>2. CASE Enabled
  <2>1. outbox' = outbox \o <<a>>
    BY <1>2 DEF WelcomeRequests, a
  <2> QED
    BY <1>1, <1>2, <2>1 DEF a
<1>3. CASE ~Enabled
  <2>1. outbox' = outbox \o <<a, b>>
    BY <1>3 DEF WelcomeRequests, a, b
  <2>2. /\ outbox' \in Seq(Request) /\ Len(outbox') = Len(outbox) + 2
        /\ \A n \in DOMAIN outbox : n \in DOMAIN outbox' /\ outbox'[n] = outbox[n]
        /\ outbox'[Len(outbox) + 1] = a /\ outbox'[Len(outbox) + 2] = b
    BY <1>1, <2>1
  <2>3. \A n \in DOMAIN outbox' \ DOMAIN outbox :
          n = Len(outbox) + 1 \/ n = Len(outbox) + 2
    BY <1>1, <2>2
  <2>4. Len(outbox) + 2 \in DOMAIN outbox'
    BY <1>1, <2>2
  <2> QED
    BY <1>1, <1>3, <2>2, <2>3, <2>4 DEF a, b
<1> QED
  BY <1>2, <1>3

LEMMA OlderWire ==
  ASSUME ClockType, Tick
  PROVE  /\ outbox' \in Seq(Request) /\ DOMAIN outbox' = DOMAIN outbox
         /\ \A n \in DOMAIN outbox :
              /\ outbox'[n].op = outbox[n].op
              /\ outbox'[n].timeout = outbox[n].timeout
              /\ outbox'[n].age = outbox[n].age + 1
              /\ outbox'[n].age <= Delay
<1>1. outbox \in Seq(Request)
  BY DEF ClockType
<1>2. \A n \in DOMAIN outbox :
        /\ outbox[n] \in Request
        /\ [outbox[n] EXCEPT !.age = @ + 1] \in Request
        /\ [outbox[n] EXCEPT !.age = @ + 1].op = outbox[n].op
        /\ [outbox[n] EXCEPT !.age = @ + 1].timeout = outbox[n].timeout
        /\ [outbox[n] EXCEPT !.age = @ + 1].age = outbox[n].age + 1
  <2> SUFFICES ASSUME NEW n \in DOMAIN outbox
               PROVE  /\ outbox[n] \in Request
                      /\ [outbox[n] EXCEPT !.age = @ + 1] \in Request
                      /\ [outbox[n] EXCEPT !.age = @ + 1].op = outbox[n].op
                      /\ [outbox[n] EXCEPT !.age = @ + 1].timeout = outbox[n].timeout
                      /\ [outbox[n] EXCEPT !.age = @ + 1].age = outbox[n].age + 1
    OBVIOUS
  <2>1. outbox[n] \in Request
    BY <1>1
  <2> QED
    BY <2>1 DEF Request
<1>3. outbox' = [n \in DOMAIN outbox |-> [outbox[n] EXCEPT !.age = @ + 1]]
  BY DEF Tick
<1>4. \A n \in DOMAIN outbox : outbox[n].age \in Nat /\ outbox[n].age < Delay
  BY <1>2 DEF Tick, Request
<1>5. DOMAIN outbox = 1..Len(outbox) /\ Len(outbox) \in Nat
  BY <1>1
<1>6. outbox' \in Seq(Request)
  BY <1>2, <1>3, <1>5
<1>7. DOMAIN outbox' = DOMAIN outbox
  BY <1>3
<1>8. \A n \in DOMAIN outbox : outbox'[n] = [outbox[n] EXCEPT !.age = @ + 1]
  BY <1>3
<1>9. ASSUME NEW n \in DOMAIN outbox
      PROVE  /\ outbox'[n].op = outbox[n].op
             /\ outbox'[n].timeout = outbox[n].timeout
             /\ outbox'[n].age = outbox[n].age + 1
             /\ outbox'[n].age <= Delay
  <2>1. outbox'[n].age = outbox[n].age + 1
    BY <1>2, <1>8
  <2>2. outbox[n].age + 1 <= Delay
    BY <1>4, Times
  <2> QED
    BY <1>2, <1>8, <2>1, <2>2
<1> QED
  BY <1>6, <1>7, <1>9

(* Every step keeps the times in their range.                              *)
LEMMA EmptyWire ==
  ASSUME outbox' = <<>>
  PROVE  /\ outbox' \in Seq(Request) /\ DOMAIN outbox' = {}
         /\ \A n \in DOMAIN outbox' : outbox'[n].age <= Delay
OBVIOUS

LEMMA ClockInit == Init => ClockType
<1> SUFFICES ASSUME Init PROVE ClockType
  OBVIOUS
<1>1. outbox \in Seq(Request) /\ \A n \in DOMAIN outbox : outbox[n].age <= Delay
  BY DEF Init
<1>2. fuse \in Nat /\ armed \in BOOLEAN
  BY Times DEF Init
<1>3. ready = FALSE /\ due = 0 /\ idle = 0 /\ readyFor = 0
  BY DEF Init
<1>4. 0 \in 0..Quarter /\ 0 \in 0..Period
  BY Times
<1> QED
  BY <1>1, <1>2, <1>3, <1>4 DEF ClockType

LEMMA TickTimes ==
  ASSUME ClockType, Tick
  PROVE  /\ due' = (IF due = 0 THEN 0 ELSE due - 1) /\ due' \in 0..Quarter
         /\ idle' = idle + 1 /\ idle' \in 0..Period
         /\ fuse' = (IF fuse = 0 THEN 0 ELSE fuse - 1) /\ fuse' \in Nat
         /\ readyFor' \in Nat /\ readyFor' <= readyFor + 1
         /\ armed => fuse > 0
BY Times, SMTT(30) DEF Tick, ClockType, Less

LEMMA ClockNext ==
  ASSUME ClockType, [Next]_vars
  PROVE  ClockType'
<1>1. CASE TransportReady
  BY <1>1 DEF ClockType, TransportReady, exchange, clocks
<1>2. CASE TransportLost
  <2>1. /\ ready' = FALSE /\ due' = 0 /\ readyFor' = 0 /\ outbox' = <<>>
        /\ armed' = armed /\ fuse' = fuse /\ idle' = idle
    BY <1>2 DEF TransportLost, ForgetSession
  <2>2. 0 \in 0..Quarter
    BY Times
  <2> QED
    BY <2>1, <2>2, EmptyWire DEF ClockType
<1>3. CASE OnTimer
  <2>1. CASE due' = due /\ outbox' = outbox
    BY <1>3, <2>1, Times DEF ClockType, OnTimer, session, exchange
  <2>2. CASE due' = Quarter /\ outbox' = Append(outbox, SendCancelAllAfter(CancelAllAfter))
    <3>1. outbox' \in Seq(Request) /\ \A n \in DOMAIN outbox' : outbox'[n].age <= Delay
      BY <2>2, Requests, Appended, Times DEF ClockType
    <3> QED
      BY <1>3, <2>2, <3>1, Times DEF ClockType, OnTimer, session, exchange
  <2> QED
    BY <1>3, <2>1, <2>2 DEF OnTimer
<1>4. CASE OnWelcome
  <2>1. outbox' \in Seq(Request) /\ \A n \in DOMAIN outbox' : outbox'[n].age <= Delay
    BY <1>4, WelcomeWire, Times DEF OnWelcome, ClockType
  <2> QED
    BY <1>4, <2>1 DEF ClockType, OnWelcome, exchange, clocks
<1>5. CASE OnOrderPartial
  BY <1>5 DEF ClockType, OnOrderPartial, exchange, clocks
<1>6. CASE OnOrderIgnored \/ OnExecution \/ OnPosition
  BY <1>6 DEF ClockType, OnOrderIgnored, OnExecution, OnPosition, session,
              exchange, clocks
<1>7. CASE ExchangeSubscribes \/ ExchangeWinds
  <2>1. outbox # <<>> /\ outbox' = Tail(outbox)
    BY <1>7 DEF ExchangeSubscribes, ExchangeWinds, Serve
  <2>2. outbox' \in Seq(Request) /\ \A n \in DOMAIN outbox' : outbox'[n].age <= Delay
    BY <2>1, Served DEF ClockType
  <2>3. Head(outbox) \in Request
    BY <2>1 DEF ClockType
  <2>4. armed' \in BOOLEAN /\ fuse' \in Nat
    <3>1. Head(outbox).timeout \in Nat
      BY <2>3 DEF Request
    <3>2. CASE ExchangeSubscribes
      BY <3>2 DEF ExchangeSubscribes, ClockType
    <3>3. CASE ExchangeWinds
      BY <3>1, <3>3 DEF ExchangeWinds
    <3> QED
      BY <1>7, <3>2, <3>3
  <2> QED
    BY <1>7, <2>2, <2>4 DEF ClockType, ExchangeSubscribes, ExchangeWinds,
                            session, clocks
<1>8. CASE TopicStarts \/ TopicRefused \/ OrderChanges \/ SwitchFires
  BY <1>8 DEF ClockType, TopicStarts, TopicRefused, OrderChanges, SwitchFires,
              session, wire, clocks
<1>9. CASE Tick
  <2>1. outbox' \in Seq(Request) /\ \A n \in DOMAIN outbox' : outbox'[n].age <= Delay
    BY <1>9, OlderWire
  <2> QED
    BY <1>9, <2>1, TickTimes DEF ClockType, Tick, session
<1>10. CASE UNCHANGED vars
  BY <1>10 DEF ClockType, vars, session, wire, exchange, clocks
<1> QED
  BY <1>1, <1>2, <1>3, <1>4, <1>5, <1>6, <1>7, <1>8, <1>9, <1>10
     DEF Next, Handle, Answering

-------------------------------------------------------------------------------
(* The switch in use.                                                      *)

InTime == Timeout > Quarter + Period + Delay
Winding == Unsent \/ FirstUnderWay \/ LastArrived \/ NextUnderWay

LEMMA SwitchInit == Init => SwitchWound
<1> SUFFICES ASSUME Init PROVE SwitchWound
  OBVIOUS
<1>1. ready = FALSE /\ due = 0 /\ readyFor = 0 /\ Windings = {}
  BY DEF Init, Windings
<1> QED
  BY <1>1, ClockInit DEF SwitchWound

LEMMA QuietKeeps ==
  ASSUME SwitchWound, ClockType',
         UNCHANGED <<ready, due, idle, readyFor, outbox, armed, fuse>>,
         link' = link \/ link' = "up"
  PROVE  SwitchWound'
BY DEF SwitchWound, Windings, Unsent, FirstUnderWay, LastArrived, NextUnderWay

(* As long as the windings under way stay there, the clocks alone do not   *)
(* disturb the switch.                                                     *)
LEMMA WireKeeps ==
  ASSUME ClockType, Winding,
         UNCHANGED <<due, idle, readyFor, armed, fuse>>,
         \A n \in Windings : \E k \in Windings' : outbox'[k].age = outbox[n].age
  PROVE  Winding'
<1>1. CASE Unsent \/ LastArrived
  BY <1>1 DEF Winding, Unsent, LastArrived
<1>2. CASE FirstUnderWay
  BY <1>2 DEF Winding, FirstUnderWay
<1>3. CASE NextUnderWay
  BY <1>3 DEF Winding, NextUnderWay
<1> QED
  BY <1>1, <1>2, <1>3 DEF Winding

LEMMA WelcomeKeeps ==
  ASSUME Enabled, SwitchWound, ClockType', OnWelcome
  PROVE  SwitchWound'
<1>1. outbox' = outbox \o WelcomeRequests /\ ClockType
  BY DEF OnWelcome, SwitchWound
<1>2. /\ \A n \in DOMAIN outbox : n \in DOMAIN outbox' /\ outbox'[n] = outbox[n]
      /\ \A n \in DOMAIN outbox' \ DOMAIN outbox : outbox'[n].op = "subscribe"
  BY <1>1, WelcomeWire, Requests
<1>3. Windings' = Windings /\ \A n \in Windings : outbox'[n] = outbox[n]
  BY <1>2 DEF Windings
<1>4. UNCHANGED <<ready, link, due, idle, readyFor, armed, fuse>>
  BY DEF OnWelcome, exchange, clocks
<1>5. ready => Winding'
  BY <1>1, <1>3, <1>4, WireKeeps DEF SwitchWound, Winding
<1> QED
  BY <1>3, <1>4, <1>5 DEF SwitchWound, Winding

LEMMA TimerKeeps ==
  ASSUME Enabled, InTime, SwitchWound, ClockType', OnTimer
  PROVE  SwitchWound'
<1>1. /\ UNCHANGED <<ready, link, readyFor, armed, fuse>>
      /\ idle' = 0 /\ ClockType
  BY DEF OnTimer, session, exchange, SwitchWound
<1>2. CASE ready /\ due = 0
  <2>1. /\ due' = Quarter
        /\ outbox' = Append(outbox, SendCancelAllAfter(CancelAllAfter))
    BY <1>2 DEF OnTimer, SwitchWound
  <2> DEFINE new == Len(outbox) + 1
  <2>2. /\ \A n \in DOMAIN outbox : n \in DOMAIN outbox' /\ outbox'[n] = outbox[n]
        /\ DOMAIN outbox' = DOMAIN outbox \cup {new}
        /\ outbox'[new] = SendCancelAllAfter(CancelAllAfter)
    BY <1>1, <2>1, Appended, Requests DEF ClockType
  <2>3. /\ new \in Windings' /\ outbox'[new].age = 0
        /\ outbox'[new].timeout = Timeout
    BY <2>2, Requests DEF Windings
  <2>4. /\ Windings \subseteq Windings'
        /\ \A n \in Windings : outbox'[n] = outbox[n]
        /\ Windings' \subseteq Windings \cup {new}
    BY <2>2 DEF Windings
  <2> HIDE DEF new
  <2>5. ASSUME Unsent PROVE Winding'
    <3>1. readyFor' <= Period + outbox'[new].age
      BY <1>1, <2>3, <2>5, Times DEF Unsent, ClockType
    <3> QED
      BY <2>3, <3>1 DEF Winding, FirstUnderWay
  <2>6. ASSUME FirstUnderWay PROVE Winding'
    BY <1>1, <2>4, <2>6 DEF FirstUnderWay, Winding
  <2>7. ASSUME LastArrived PROVE Winding'
    <3>1. fuse' >= Timeout - Quarter - Period - outbox'[new].age /\ armed'
      BY <1>1, <1>2, <2>3, <2>7, Times DEF LastArrived, ClockType
    <3> QED
      BY <2>3, <3>1 DEF Winding, NextUnderWay
  <2>8. ASSUME NextUnderWay PROVE Winding'
    BY <1>1, <2>4, <2>8 DEF NextUnderWay, Winding
  <2> QED
    BY <1>1, <1>2, <2>3, <2>4, <2>5, <2>6, <2>7, <2>8 DEF SwitchWound, Winding
<1>3. CASE ~(ready /\ due = 0)
  <2>1. due' = due /\ outbox' = outbox
    BY <1>3 DEF OnTimer
  <2>2. Windings' = Windings
    BY <2>1 DEF Windings
  <2>3. CASE ready
    <3>1. ~Unsent /\ due > 0
      BY <1>1, <1>3, <2>3, Times DEF Unsent, ClockType
    <3>2. ASSUME FirstUnderWay PROVE Winding'
      BY <1>1, <2>1, <2>2, <3>2 DEF Winding, FirstUnderWay
    <3>3. ASSUME LastArrived PROVE Winding'
      BY <1>1, <2>1, <3>1, <3>3 DEF Winding, LastArrived
    <3>4. ASSUME NextUnderWay PROVE Winding'
      BY <1>1, <2>1, <2>2, <3>4 DEF Winding, NextUnderWay
    <3>5. Winding'
      BY <2>3, <3>1, <3>2, <3>3, <3>4 DEF SwitchWound
    <3> QED
      BY <1>1, <2>1, <2>2, <2>3, <3>5 DEF SwitchWound, Winding
  <2>4. CASE ~ready
    BY <1>1, <2>1, <2>2, <2>4 DEF SwitchWound
  <2> QED
    BY <2>3, <2>4
<1> QED
  BY <1>2, <1>3

LEMMA PartialKeeps ==
  ASSUME SwitchWound, ClockType', OnOrderPartial
  PROVE  SwitchWound'
<1>1. /\ UNCHANGED <<link, outbox, due, idle, readyFor, armed, fuse>>
      /\ link = "up" /\ ClockType
  BY DEF OnOrderPartial, exchange, clocks, Receive, SwitchWound
<1>2. CASE ready
  <2>1. ready' = ready
    BY <1>2 DEF OnOrderPartial
  <2> QED
    BY <1>1, <2>1, QuietKeeps
<1>3. CASE ~ready
  <2>1. Unsent'
    BY <1>1, <1>3, Times DEF SwitchWound, Unsent, ClockType
  <2> QED
    BY <1>1, <1>3, <2>1 DEF SwitchWound, Windings
<1> QED
  BY <1>2, <1>3

LEMMA LostKeeps ==
  ASSUME SwitchWound, ClockType', TransportLost
  PROVE  SwitchWound'
<1>1. ready' = FALSE /\ due' = 0 /\ readyFor' = 0 /\ outbox' = <<>>
  BY DEF TransportLost, ForgetSession
<1>2. Windings' = {}
  BY <1>1 DEF Windings
<1> QED
  BY <1>1, <1>2 DEF SwitchWound

(* A served request leaves the queue; a winding winds the switch.          *)
LEMMA ServeKeeps ==
  ASSUME InTime, SwitchWound, ClockType', ExchangeSubscribes \/ ExchangeWinds
  PROVE  SwitchWound'
<1>1. /\ UNCHANGED <<ready, link, due, idle, readyFor>> /\ ClockType
      /\ outbox # <<>> /\ outbox' = Tail(outbox)
  BY DEF ExchangeSubscribes, ExchangeWinds, Serve, session, clocks, SwitchWound
<1>2. /\ Head(outbox) = outbox[1] /\ 1 \in DOMAIN outbox
      /\ \A n \in DOMAIN outbox : n # 1 => n - 1 \in DOMAIN outbox'
                                           /\ outbox'[n - 1] = outbox[n]
      /\ \A n \in DOMAIN outbox' : n + 1 \in DOMAIN outbox
                                  /\ outbox'[n] = outbox[n + 1]
  BY <1>1, Served DEF ClockType
<1>3. /\ \A n \in Windings : n # 1 => n - 1 \in Windings'
                                     /\ outbox'[n - 1].age = outbox[n].age
      /\ \A n \in Windings' : outbox'[n].timeout = Timeout
  BY <1>2 DEF Windings, SwitchWound
<1>4. CASE ExchangeSubscribes
  <2>1. 1 \notin Windings /\ UNCHANGED <<armed, fuse>>
    BY <1>2, <1>4 DEF ExchangeSubscribes, Serve, Windings
  <2>2. ready => Winding'
    BY <1>1, <1>3, <2>1, WireKeeps DEF SwitchWound, Winding
  <2> QED
    BY <1>1, <1>3, <2>2 DEF SwitchWound, Winding
<1>5. CASE ExchangeWinds
  <2>1. 1 \in Windings
    BY <1>2, <1>5 DEF ExchangeWinds, Serve, Windings
  <2>2. Head(outbox).timeout = Timeout
    BY <1>2, <2>1 DEF SwitchWound
  <2>3. armed' = (Timeout > 0) /\ fuse' = Timeout
    BY <1>5, <2>2 DEF ExchangeWinds
  <2>4. LastArrived'
    <3>1. due \in Nat /\ due <= Quarter /\ idle \in Nat
      BY <1>1, Times DEF ClockType
    <3>2. Timeout > 0 /\ Timeout >= Timeout - Quarter + due
          /\ Timeout >= Timeout - Quarter - idle
      BY <3>1, Times DEF InTime
    <3>3. armed'
      BY <2>3, <3>2
    <3> QED
      BY <1>1, <2>3, <3>2, <3>3 DEF LastArrived
  <2> QED
    BY <1>1, <1>3, <2>4 DEF SwitchWound
<1> QED
  BY <1>4, <1>5

(* The time left is never gone while the next winding is on its way.       *)
LEMMA FuseLeft ==
  ASSUME InTime, ClockType, LastArrived \/ NextUnderWay
  PROVE  fuse > 0 /\ armed
<1>1. CASE LastArrived
  BY <1>1, Times DEF LastArrived, InTime, ClockType
<1>2. CASE NextUnderWay
  <2>1. PICK n \in Windings : fuse >= Timeout - Quarter - Period - outbox[n].age
    BY <1>2 DEF NextUnderWay
  <2>2. outbox[n].age <= Delay /\ outbox[n].age \in Nat
    <3>1. n \in DOMAIN outbox /\ outbox[n] \in Request
      BY DEF Windings, ClockType
    <3> QED
      BY <3>1 DEF ClockType, Request
  <2> QED
    BY <1>2, <2>1, <2>2, Times DEF InTime, ClockType, NextUnderWay
<1> QED
  BY <1>1, <1>2

LEMMA FiresKeeps ==
  ASSUME InTime, SwitchWound, ClockType', SwitchFires
  PROVE  SwitchWound'
<1>1. /\ UNCHANGED <<ready, link, outbox, due, idle, readyFor, fuse>>
      /\ fuse = 0 /\ ClockType
  BY DEF SwitchFires, session, clocks, SwitchWound
<1>2. ready => Unsent \/ FirstUnderWay
  BY <1>1, FuseLeft DEF SwitchWound, ClockType
<1>3. Windings' = Windings
  BY <1>1 DEF Windings
<1> QED
  BY <1>1, <1>2, <1>3 DEF SwitchWound, Unsent, FirstUnderWay

LEMMA TickKeeps ==
  ASSUME InTime, SwitchWound, ClockType', Tick
  PROVE  SwitchWound'
<1>1. UNCHANGED <<ready, link, armed>> /\ ClockType
  BY DEF Tick, session, SwitchWound
<1>2. /\ Windings' = Windings
      /\ \A n \in Windings : /\ outbox'[n].timeout = outbox[n].timeout
                             /\ outbox'[n].age = outbox[n].age + 1
                             /\ outbox[n].age \in Nat
  <2>1. \A n \in DOMAIN outbox : outbox[n] \in Request
    BY <1>1 DEF ClockType
  <2>2. \A n \in DOMAIN outbox : outbox[n].age \in Nat
    BY <2>1 DEF Request
  <2> QED
    BY <1>1, <2>2, OlderWire DEF Windings
<1>3. CASE ~ready
  <2>1. due' = 0 /\ readyFor' = 0
    BY <1>3 DEF Tick, SwitchWound, Less
  <2> QED
    BY <1>1, <1>2, <1>3, <2>1 DEF SwitchWound
<1>4. CASE ready
  <2>1. ASSUME Unsent PROVE Winding'
    <3>1. Unsent'
      BY <1>1, <2>1, TickTimes, Times DEF Unsent, ClockType
    <3> QED
      BY <3>1 DEF Winding
  <2>2. ASSUME FirstUnderWay PROVE Winding'
    <3>1. PICK n \in Windings : readyFor <= Period + outbox[n].age
      BY <2>2 DEF FirstUnderWay
    <3>2. readyFor' <= Period + outbox'[n].age
      <4>1. /\ readyFor \in Nat /\ readyFor' \in Nat /\ readyFor' <= readyFor + 1
            /\ outbox[n].age \in Nat /\ outbox'[n].age = outbox[n].age + 1
        BY <1>1, <1>2, TickTimes DEF ClockType
      <4> QED
        BY <3>1, <4>1, Times
    <3> QED
      BY <1>2, <3>1, <3>2 DEF Winding, FirstUnderWay
  <2>3. ASSUME LastArrived PROVE Winding'
    <3>1. fuse > 0 /\ armed
      BY <1>1, <2>3, FuseLeft
    <3>2. LastArrived'
      <4>1. /\ due \in Nat /\ due' = (IF due = 0 THEN 0 ELSE due - 1)
            /\ idle \in Nat /\ idle' = idle + 1
            /\ fuse \in Nat /\ fuse' = fuse - 1 /\ armed'
        BY <1>1, <3>1, TickTimes, Times DEF ClockType
      <4>2. CASE due > 1
        BY <2>3, <4>1, <4>2, Times DEF LastArrived
      <4>3. CASE due = 1
        BY <2>3, <4>1, <4>3, Times DEF LastArrived
      <4>4. CASE due = 0
        BY <2>3, <4>1, <4>4, Times DEF LastArrived
      <4> QED
        BY <4>1, <4>2, <4>3, <4>4
    <3> QED
      BY <3>2 DEF Winding
  <2>4. ASSUME NextUnderWay PROVE Winding'
    <3>1. PICK n \in Windings : fuse >= Timeout - Quarter - Period - outbox[n].age
      BY <2>4 DEF NextUnderWay
    <3>2. fuse > 0 /\ armed
      BY <1>1, <2>4, FuseLeft
    <3>3. fuse' >= Timeout - Quarter - Period - outbox'[n].age
      BY <1>1, <1>2, <3>1, <3>2, TickTimes, Times, SMTT(30) DEF ClockType
    <3> QED
      BY <1>1, <1>2, <3>1, <3>2, <3>3 DEF Winding, NextUnderWay
  <2>5. Winding'
    BY <1>4, <2>1, <2>2, <2>3, <2>4 DEF SwitchWound
  <2> QED
    BY <1>1, <1>2, <1>4, <2>5 DEF SwitchWound, Winding
<1> QED
  BY <1>3, <1>4

LEMMA SwitchNext ==
  ASSUME Enabled, InTime, SwitchWound, [Next]_vars
  PROVE  SwitchWound'
<1>1. ClockType'
  BY ClockNext DEF SwitchWound
<1>2. CASE TransportReady
  BY <1>1, <1>2, QuietKeeps DEF TransportReady, exchange, clocks
<1>3. CASE OnOrderIgnored \/ OnExecution \/ OnPosition
  BY <1>1, <1>3, QuietKeeps DEF OnOrderIgnored, OnExecution, OnPosition,
                                session, exchange, clocks
<1>4. CASE TopicStarts \/ TopicRefused \/ OrderChanges
  BY <1>1, <1>4, QuietKeeps DEF TopicStarts, TopicRefused, OrderChanges,
                                session, wire, clocks
<1>5. CASE UNCHANGED vars
  BY <1>1, <1>5, QuietKeeps DEF vars, session, wire, exchange, clocks
<1> QED
  BY <1>1, <1>2, <1>3, <1>4, <1>5, WelcomeKeeps, TimerKeeps, PartialKeeps,
     LostKeeps, ServeKeeps, FiresKeeps, TickKeeps DEF Next, Handle, Answering

(* A READY session with a switch in use always has the next winding due or *)
(* under way before what is left of the timeout runs out, also after a     *)
(* disconnect (next_cancel_all_after_ of drop_copy.cpp).                   *)
THEOREM Winds == ASSUME Enabled, InTime PROVE Spec => []SwitchWound
BY SwitchInit, SwitchNext, PTL DEF Spec

(* A switch in use, with a timeout longer than two timers and a request    *)
(* may take to wind it, never fires on a session that has been READY for   *)
(* longer than it takes to wind it once: for every timeout, timer period   *)
(* and delay, and any number of reconnects.                                *)
THEOREM SwitchProtects == Spec => []Protected
<1>1. CASE Enabled /\ InTime
  <2>1. SwitchWound => Protected
    <3> SUFFICES ASSUME SwitchWound, readyFor > Period + Delay
                 PROVE  armed /\ fuse > 0
      BY <1>1 DEF Protected
    <3>1. ready /\ ClockType /\ readyFor \in Nat
      BY Times DEF SwitchWound, ClockType
    <3>2. ~Unsent
      BY <3>1, Times DEF Unsent, ClockType
    <3>3. ~FirstUnderWay
      <4> SUFFICES ASSUME NEW n \in Windings
                   PROVE  ~(readyFor <= Period + outbox[n].age)
        BY DEF FirstUnderWay
      <4>1. outbox[n] \in Request /\ outbox[n].age <= Delay
        BY <3>1 DEF ClockType, Windings
      <4>2. outbox[n].age \in Nat
        BY <4>1 DEF Request
      <4> QED
        BY <3>1, <4>1, <4>2, Times
    <3> QED
      BY <1>1, <3>1, <3>2, <3>3, FuseLeft DEF SwitchWound
  <2> QED
    BY <1>1, <2>1, Winds, PTL
<1>2. CASE ~(Enabled /\ InTime)
  <2>1. Protected
    BY <1>2 DEF Protected, InTime
  <2> QED
    BY <2>1, PTL
<1> QED
  BY <1>1, <1>2

-------------------------------------------------------------------------------
(* The switch not in use.                                                  *)

Starting == ready \/ download = "SUBSCRIBE"
Stopping == ~armed \/ \E n \in Windings : readyFor <= outbox[n].age

LEMMA StoppedInit == Init => SwitchStopped
<1> SUFFICES ASSUME Init PROVE SwitchStopped
  OBVIOUS
<1>1. /\ ready = FALSE /\ download = "UNDEFINED" /\ readyFor = 0
      /\ Windings = {}
  BY DEF Init, Windings
<1> QED
  BY <1>1, ClockInit DEF SwitchStopped

LEMMA QuietStopped ==
  ASSUME SwitchStopped, ClockType',
         UNCHANGED <<ready, readyFor, outbox>>,
         armed' => armed, Starting' => Starting
  PROVE  SwitchStopped'
BY DEF SwitchStopped, Windings, Starting

LEMMA WelcomeStops ==
  ASSUME ~Enabled, SwitchStopped, ClockType', OnWelcome
  PROVE  SwitchStopped'
<1>1. /\ outbox' = outbox \o WelcomeRequests /\ ClockType
      /\ UNCHANGED <<ready, readyFor, armed>>
  BY DEF OnWelcome, exchange, clocks, SwitchStopped
<1>2. /\ \A n \in DOMAIN outbox : n \in DOMAIN outbox' /\ outbox'[n] = outbox[n]
      /\ \A n \in DOMAIN outbox' \ DOMAIN outbox :
           outbox'[n].op = "subscribe" \/ outbox'[n].timeout = 0
  BY <1>1, WelcomeWire, Requests
<1>3. PICK k \in DOMAIN outbox' : outbox'[k] = SendCancelAllAfter(0)
  BY <1>1, WelcomeWire
<1>4. k \in Windings' /\ outbox'[k].age = 0
  BY <1>3, Requests DEF Windings
<1>5. \A n \in Windings' : outbox'[n].timeout = 0
  BY <1>2 DEF Windings, SwitchStopped
<1>6. Stopping'
  <2>1. CASE ready
    <3>1. Stopping
      BY <2>1 DEF SwitchStopped, Stopping
    <3>2. \A n \in Windings : n \in Windings' /\ outbox'[n].age = outbox[n].age
      BY <1>2 DEF Windings
    <3> QED
      BY <1>1, <3>1, <3>2 DEF Stopping
  <2>2. CASE ~ready
    <3>1. readyFor' <= outbox'[k].age
      BY <1>1, <1>4, <2>2 DEF SwitchStopped
    <3> QED
      BY <1>4, <3>1 DEF Stopping
  <2> QED
    BY <2>1, <2>2
<1> QED
  BY <1>1, <1>5, <1>6 DEF SwitchStopped, Stopping

LEMMA ServeStops ==
  ASSUME SwitchStopped, ClockType', ExchangeSubscribes \/ ExchangeWinds
  PROVE  SwitchStopped'
<1>1. /\ UNCHANGED <<ready, download, readyFor>> /\ ClockType
      /\ outbox # <<>> /\ outbox' = Tail(outbox)
  BY DEF ExchangeSubscribes, ExchangeWinds, Serve, session, clocks, SwitchStopped
<1>2. /\ Head(outbox) = outbox[1] /\ 1 \in DOMAIN outbox
      /\ \A n \in DOMAIN outbox : n # 1 => n - 1 \in DOMAIN outbox'
                                           /\ outbox'[n - 1] = outbox[n]
      /\ \A n \in DOMAIN outbox' : n + 1 \in DOMAIN outbox
                                  /\ outbox'[n] = outbox[n + 1]
  BY <1>1, Served DEF ClockType
<1>3. /\ \A n \in Windings : n # 1 => n - 1 \in Windings'
                                     /\ outbox'[n - 1].age = outbox[n].age
      /\ \A n \in Windings' : outbox'[n].timeout = 0
  BY <1>2 DEF Windings, SwitchStopped
<1>4. ASSUME Starting PROVE Stopping'
  <2>1. CASE ExchangeSubscribes
    <3>1. 1 \notin Windings /\ armed' = armed
      BY <1>2, <2>1 DEF ExchangeSubscribes, Serve, Windings
    <3>2. Stopping
      BY <1>4 DEF SwitchStopped, Starting, Stopping
    <3> QED
      BY <1>1, <1>3, <3>1, <3>2 DEF Stopping
  <2>2. CASE ExchangeWinds
    <3>1. 1 \in Windings
      BY <1>2, <2>2 DEF ExchangeWinds, Serve, Windings
    <3>2. Head(outbox).timeout = 0
      BY <1>2, <3>1 DEF SwitchStopped
    <3>3. armed' => Head(outbox).timeout > 0
      BY <2>2 DEF ExchangeWinds
    <3>4. ~armed'
      BY <3>2, <3>3
    <3> QED
      BY <3>4 DEF Stopping
  <2> QED
    BY <2>1, <2>2
<1> QED
  BY <1>1, <1>3, <1>4 DEF SwitchStopped, Starting, Stopping

LEMMA TickStops ==
  ASSUME SwitchStopped, ClockType', Tick
  PROVE  SwitchStopped'
<1>1. UNCHANGED <<ready, download, armed>> /\ ClockType
  BY DEF Tick, session, SwitchStopped
<1>2. \A n \in DOMAIN outbox : outbox[n] \in Request
  BY <1>1 DEF ClockType
<1>3. \A n \in DOMAIN outbox : outbox[n].age \in Nat
  BY <1>2 DEF Request
<1>4. /\ Windings' = Windings
      /\ \A n \in Windings : /\ outbox'[n].timeout = outbox[n].timeout
                             /\ outbox'[n].age = outbox[n].age + 1
                             /\ outbox[n].age \in Nat
  BY <1>1, <1>3, OlderWire DEF Windings
<1>5. ASSUME Starting PROVE Stopping'
  <2>1. CASE ~armed
    BY <1>1, <2>1 DEF Stopping
  <2>2. CASE \E n \in Windings : readyFor <= outbox[n].age
    <3>1. PICK n \in Windings : readyFor <= outbox[n].age
      BY <2>2
    <3>2. readyFor' <= outbox'[n].age
      <4>1. /\ readyFor \in Nat /\ readyFor' \in Nat /\ readyFor' <= readyFor + 1
            /\ outbox[n].age \in Nat /\ outbox'[n].age = outbox[n].age + 1
        BY <1>1, <1>4, TickTimes DEF ClockType
      <4> QED
        BY <3>1, <4>1
    <3> QED
      BY <1>4, <3>1, <3>2 DEF Stopping
  <2> QED
    BY <1>5, <2>1, <2>2 DEF SwitchStopped, Starting
<1>6. ~ready => readyFor' = 0
  BY DEF Tick, SwitchStopped
<1> QED
  BY <1>1, <1>4, <1>5, <1>6 DEF SwitchStopped, Starting, Stopping

LEMMA StoppedNext ==
  ASSUME ~Enabled, SwitchStopped, [Next]_vars
  PROVE  SwitchStopped'
<1>1. ClockType'
  BY ClockNext DEF SwitchStopped
<1>2. CASE TransportReady
  BY <1>1, <1>2, QuietStopped DEF TransportReady, exchange, clocks, Starting
<1>3. CASE TransportLost
  <2>1. /\ ready' = FALSE /\ readyFor' = 0 /\ outbox' = <<>>
        /\ download' = "UNDEFINED"
    BY <1>3 DEF TransportLost, ForgetSession
  <2>2. Windings' = {}
    BY <2>1 DEF Windings
  <2> QED
    BY <1>1, <2>1, <2>2 DEF SwitchStopped
<1>4. CASE OnTimer
  BY <1>1, <1>4, QuietStopped DEF OnTimer, session, exchange, Starting
<1>5. CASE OnOrderPartial
  <2>1. UNCHANGED <<readyFor, outbox, armed>>
    BY <1>5 DEF OnOrderPartial, exchange, clocks
  <2>2. CASE download = "SUBSCRIBE"
    <3>1. /\ \/ ready' = ready
             \/ ~ready /\ ready'
          /\ Starting
      BY <1>5, <2>2 DEF OnOrderPartial, Starting, SwitchStopped, ClockType
    <3> QED
      BY <1>1, <2>1, <3>1 DEF SwitchStopped, Windings, Starting
  <2>3. CASE download # "SUBSCRIBE"
    <3>1. UNCHANGED <<ready, download>>
      BY <1>5, <2>3 DEF OnOrderPartial
    <3> QED
      BY <1>1, <2>1, <3>1, QuietStopped DEF Starting
  <2> QED
    BY <2>2, <2>3
<1>6. CASE OnOrderIgnored \/ OnExecution \/ OnPosition
  BY <1>1, <1>6, QuietStopped DEF OnOrderIgnored, OnExecution, OnPosition,
                                  session, exchange, clocks, Starting
<1>7. CASE TopicStarts \/ TopicRefused \/ OrderChanges \/ SwitchFires
  <2>1. UNCHANGED <<ready, download, readyFor, outbox>>
    BY <1>7 DEF TopicStarts, TopicRefused, OrderChanges, SwitchFires, session,
                wire, clocks
  <2>2. armed' = armed \/ armed' = FALSE
    BY <1>7 DEF TopicStarts, TopicRefused, OrderChanges, SwitchFires
  <2> QED
    BY <1>1, <2>1, <2>2, QuietStopped DEF Starting
<1>8. CASE UNCHANGED vars
  BY <1>1, <1>8, QuietStopped DEF vars, session, wire, exchange, clocks, Starting
<1> QED
  BY <1>1, <1>2, <1>3, <1>4, <1>5, <1>6, <1>7, <1>8, WelcomeStops, ServeStops,
     TickStops DEF Next, Handle, Answering

(* A gateway told not to use the switch has asked the exchange to stop it, *)
(* and the request arrives or has arrived (drop_copy.cpp:302-304).         *)
THEOREM StopIsAsked == ASSUME ~Enabled PROVE Spec => []SwitchStopped
<1>1. SwitchStopped /\ [Next]_vars => SwitchStopped'
  BY StoppedNext
<1> QED
  BY <1>1, StoppedInit, PTL DEF Spec

(* A gateway that does not use the switch stops one that an earlier run    *)
(* has wound, no later than it takes to serve a request after READY, and   *)
(* never winds it, whatever the flags that leave it unused.                *)
THEOREM SwitchUnused == Spec => []Disarmed
<1>1. CASE ~Enabled
  <2>1. Init => SwitchStopped
    BY StoppedInit
  <2>2. SwitchStopped /\ [Next]_vars => SwitchStopped'
    BY <1>1, StoppedNext
  <2>3. SwitchStopped => Disarmed
    <3> SUFFICES ASSUME SwitchStopped, readyFor > Delay
                 PROVE  ~armed
      BY DEF Disarmed
    <3>1. ready /\ ClockType /\ readyFor \in Nat
      BY Times DEF SwitchStopped, ClockType
    <3>2. \A n \in Windings : outbox[n] \in Request /\ outbox[n].age <= Delay
      BY <3>1 DEF ClockType, Windings
    <3>3. \A n \in Windings : outbox[n].age \in Nat
      BY <3>2 DEF Request
    <3>4. \A n \in Windings : ~(readyFor <= outbox[n].age)
      BY <3>1, <3>2, <3>3, Times
    <3> QED
      BY <3>1, <3>4 DEF SwitchStopped
  <2> QED
    BY <2>1, <2>2, <2>3, PTL DEF Spec
<1>2. CASE Enabled
  <2>1. Disarmed
    BY <1>2 DEF Disarmed
  <2> QED
    BY <2>1, PTL
<1> QED
  BY <1>1, <1>2

-------------------------------------------------------------------------------
(* Types of what the users are told, and of the messages that tell it.     *)

LEMMA Behind ==
  ASSUME NEW S, NEW s \in Seq(S), s # <<>>
  PROVE  /\ Head(s) = s[1] /\ Head(s) \in S /\ Tail(s) \in Seq(S)
         /\ 1 \in DOMAIN s
         /\ \A n \in DOMAIN Tail(s) : /\ n \in Nat /\ n >= 1 /\ n + 1 \in DOMAIN s
                                      /\ Tail(s)[n] = s[n + 1]
         /\ \A n \in DOMAIN s : n # 1 => /\ n \in Nat /\ n - 1 \in DOMAIN Tail(s)
                                         /\ Tail(s)[n - 1] = s[n]
  OBVIOUS

LEMMA Longer ==
  ASSUME NEW S, NEW s \in Seq(S), NEW x \in S
  PROVE  /\ s \o <<x>> \in Seq(S) /\ s \o <<>> = s
         /\ DOMAIN (s \o <<x>>) = DOMAIN s \cup {Len(s) + 1}
         /\ Len(s) + 1 \notin DOMAIN s
         /\ \A n \in DOMAIN s : n \in Nat /\ n < Len(s) + 1
         /\ Len(s) \in Nat /\ Len(s \o <<x>>) = Len(s) + 1
         /\ (s \o <<x>>)[Len(s) + 1] = x
         /\ \A n \in DOMAIN s : (s \o <<x>>)[n] = s[n]
  OBVIOUS

(* The rows of a message are of orders the exchange has.                   *)
Lists(m) ==
  /\ m.type = "execution" =>
       \A o \in DOMAIN m.rows : /\ m.rows[o].order.status \in OrdStatus
                                /\ m.rows[o].type = "TRADE" => m.rows[o].order.cum > 0
  /\ m.type = "order" => \A o \in DOMAIN m.rows : m.rows[o].status \in OrdStatus
Known == \A n \in DOMAIN inbox : Lists(inbox[n])
Timely == /\ fuse <= Timeout /\ readyFor <= Period + Delay + 1
          /\ \A n \in DOMAIN outbox : outbox[n].timeout <= Timeout
Placed == \A o \in Orders : orders[o] = NoOrder \/ orders[o].status \in OrdStatus
Typed == TypeOK /\ ClockType /\ Known /\ Timely /\ Placed

LEMMA ExecutionRows ==
  ASSUME NEW rows
  PROVE  rows \in Executions <=> /\ DOMAIN rows \subseteq Orders
                                 /\ rows \in [DOMAIN rows -> ExecRow]
BY DEF Executions

LEMMA SnapshotRows ==
  ASSUME NEW rows
  PROVE  rows \in Snapshots <=> /\ DOMAIN rows \subseteq Orders
                                /\ rows \in [DOMAIN rows -> Order]
BY DEF Snapshots

LEMMA ReadExecution ==
  ASSUME NEW m \in Message, m.type = "execution"
  PROVE  /\ m.rows \in Executions /\ DOMAIN m.rows \subseteq Orders
         /\ \A o \in DOMAIN m.rows : /\ m.rows[o].type \in ExecType
                                     /\ m.rows[o].order \in Order
<1>1. m.rows \in Executions
  BY DEF Message
<1>2. DOMAIN m.rows \subseteq Orders /\ m.rows \in [DOMAIN m.rows -> ExecRow]
  BY <1>1, ExecutionRows
<1>3. \A o \in DOMAIN m.rows : m.rows[o] \in ExecRow
  BY <1>2
<1> QED
  BY <1>1, <1>2, <1>3 DEF ExecRow

LEMMA ReadOrder ==
  ASSUME NEW m \in Message, m.type = "order"
  PROVE  /\ m.action \in {"PARTIAL", "UPDATE"}
         /\ m.rows \in Snapshots /\ DOMAIN m.rows \subseteq Orders
         /\ \A o \in DOMAIN m.rows : m.rows[o] \in Order
<1>1. m.rows \in Snapshots /\ m.action \in {"PARTIAL", "UPDATE"}
  BY DEF Message
<1>2. DOMAIN m.rows \subseteq Orders /\ m.rows \in [DOMAIN m.rows -> Order]
  BY <1>1, SnapshotRows
<1> QED
  BY <1>1, <1>2

LEMMA StatusesShown ==
  ASSUME NEW order \in Order, order.status \in OrdStatus
  PROVE  /\ MapOrdStatus[order.status] \in
              {"UNDEFINED", "SENT", "ACCEPTED", "WORKING", "SUSPENDED",
               "COMPLETED", "EXPIRED", "CANCELED", "REJECTED", "STOPPED"}
         /\ ComputeOrderStatus(order.status, order.working) \in
              {"UNDEFINED", "SENT", "ACCEPTED", "WORKING", "SUSPENDED",
               "COMPLETED", "EXPIRED", "CANCELED", "REJECTED", "STOPPED"}
<1>1. MapOrdStatus[order.status] \in
        {"UNDEFINED", "SENT", "ACCEPTED", "WORKING", "SUSPENDED",
         "COMPLETED", "EXPIRED", "CANCELED", "REJECTED", "STOPPED"}
  BY DEF MapOrdStatus, OrdStatus
<1> QED
  BY <1>1 DEF ComputeOrderStatus

LEMMA Shows ==
  ASSUME NEW order \in Order, order.status \in OrdStatus
  PROVE  /\ ShownAs(order, MapOrdStatus[order.status]) \in View
         /\ ShownAs(order, ComputeOrderStatus(order.status, order.working)) \in View
         /\ Says(ShownAs(order, MapOrdStatus[order.status]), order)
         /\ Says(ShownAs(order, ComputeOrderStatus(order.status, order.working)), order)
<1>1. order.cum \in 0..Quantity
  BY DEF Order
<1> QED
  BY <1>1, StatusesShown DEF ShownAs, View, Says

LEMMA AnswerTypes ==
  /\ \A type \in ExecType : ExecutionAnswer(type) \in Answer
  /\ \A row \in Order : SnapshotAnswer(row) \in Answer
BY DEF ExecutionAnswer, SnapshotAnswer, Answer, ComputeRequestType, ComputeRequestStatus

(* The exchange's orders change by lawful executions, and every topic that *)
(* is streamed says so.                                                    *)
Lawful(rows) ==
  \A o \in DOMAIN rows : /\ rows[o].order.status \in OrdStatus
                         /\ Executes(rows[o].type, orders[o], rows[o].order)

Canceled(order) == [order EXCEPT !.status = "CANCELED", !.working = FALSE]
Triggered(order) == [order EXCEPT !.status = "TRIGGERED", !.working = TRUE]

LEMMA CancelsTo ==
  ASSUME NEW order \in Order
  PROVE  /\ Canceled(order) \in Order /\ Canceled(order).status = "CANCELED"
         /\ Canceled(order).cum = order.cum
         /\ Triggered(order).status = "TRIGGERED" /\ Triggered(order).cum = order.cum
BY DEF Canceled, Triggered, Order, OrdStatus

LEMMA ExecutesTo ==
  ASSUME NEW old \in Order, NEW new \in Order, NEW type \in ExecType,
         Executes(type, old, new)
  PROVE  /\ new.status \in OrdStatus
         /\ old.cum <= new.cum
         /\ type = "TRADE" => old.cum < new.cum
<1>1. old.status \in OrdStatus \cup {"NONE"} /\ new.cum \in Nat /\ old.cum \in Nat
  BY QuantityAssumption DEF Order
<1>2. NoOrder.cum = 0 /\ NoOrder.status = "NONE"
  BY DEF NoOrder
<1>3. CASE type = "NEW"
  BY <1>1, <1>2, <1>3 DEF Executes, OrdStatus
<1>4. CASE type = "REJECTED"
  BY <1>1, <1>2, <1>4 DEF Executes, OrdStatus, NoOrder
<1>5. CASE type = "UNKNOWN"
  <2>1. new = Triggered(old)
    BY <1>5, Zenon DEF Executes, Triggered
  <2> QED
    BY <1>1, <1>5, <2>1, CancelsTo DEF OrdStatus
<1>6. CASE type = "TRADE"
  <2>1. new.cum > old.cum /\ new.status \in {"PARTIALLY_FILLED", "FILLED"}
    BY <1>6 DEF Executes
  <2> QED
    BY <1>1, <2>1 DEF OrdStatus
<1>7. CASE type = "CANCELED"
  <2>1. new = Canceled(old)
    BY <1>7, Zenon DEF Executes, Canceled
  <2> QED
    BY <1>1, <1>7, <2>1, CancelsTo DEF OrdStatus
<1>8. CASE type \in {"REPLACED", "CANCEL_REJECT"}
  BY <1>1, <1>8 DEF Executes, OrdStatus, Open
<1> QED
  BY <1>3, <1>4, <1>5, <1>6, <1>7, <1>8 DEF Executes

LEMMA Executing ==
  ASSUME TypeOK, OrderChanges \/ SwitchFires
  PROVE  /\ \E rows \in Executions : Lawful(rows) /\ Execute(rows)
         /\ position' \in Int
         /\ UNCHANGED <<session, users, link, outbox, pending, topics, due, idle>>
<1>1. CASE OrderChanges
  <2>1. PICK o \in Orders, type \in ExecType, new \in Order :
          /\ Executes(type, orders[o], new)
          /\ position' = IF SideOf[o] = "BUY" THEN position + new.cum - orders[o].cum
                                              ELSE position - new.cum + orders[o].cum
          /\ Execute([p \in {o} |-> [type |-> type, order |-> new]])
    BY <1>1 DEF OrderChanges
  <2> DEFINE rows == [p \in {o} |-> [type |-> type, order |-> new]]
  <2>2. rows \in Executions
    <3>1. DOMAIN rows = {o} /\ rows \in [{o} -> ExecRow]
      BY DEF ExecRow
    <3> HIDE DEF rows
    <3> QED
      BY <3>1, ExecutionRows
  <2>3. orders[o] \in Order
    BY DEF TypeOK
  <2>4. Lawful(rows)
    BY <2>1, <2>3, ExecutesTo DEF Lawful
  <2>5. position' \in Int
    <3>1. position \in Int /\ new.cum \in Int /\ orders[o].cum \in Int
      BY <2>3, QuantityAssumption DEF TypeOK, Order
    <3> QED
      BY <2>1, <3>1
  <2> HIDE DEF rows
  <2> QED
    BY <1>1, <2>1, <2>2, <2>4, <2>5 DEF OrderChanges, clocks, rows
<1>2. CASE SwitchFires
  <2> DEFINE rows == [o \in OpenOrders |-> [type |-> "CANCELED",
                                             order |-> Canceled(orders[o])]]
  <2>1. \A o \in OpenOrders : /\ o \in Orders /\ orders[o] \in Order /\ Open(orders[o])
                              /\ Canceled(orders[o]) \in Order
                              /\ Canceled(orders[o]).status \in OrdStatus
    BY CancelsTo DEF OpenOrders, TypeOK, OrdStatus
  <2>2. \A o \in OpenOrders : /\ rows[o] \in ExecRow /\ rows[o].type = "CANCELED"
                              /\ rows[o].order = Canceled(orders[o])
    BY <2>1 DEF ExecRow, ExecType
  <2>3. DOMAIN rows = OpenOrders /\ rows \in [OpenOrders -> ExecRow]
    BY <2>2
  <2>4. Execute(rows)
    BY <1>2, Zenon DEF SwitchFires, Canceled
  <2> HIDE DEF rows
  <2>5. rows \in Executions
    <3>1. OpenOrders \subseteq Orders
      BY DEF OpenOrders
    <3> QED
      BY <2>3, <3>1, ExecutionRows
  <2>6. ASSUME NEW o \in OpenOrders
        PROVE  Executes("CANCELED", orders[o], Canceled(orders[o]))
    BY <2>1, Zenon DEF Executes, Canceled
  <2>7. Lawful(rows)
    BY <2>1, <2>2, <2>3, <2>6 DEF Lawful
  <2>8. position' = position /\ UNCHANGED <<session, users, link, outbox, pending, topics>>
    BY <1>2, Zenon DEF SwitchFires
  <2>9. UNCHANGED clocks /\ position \in Int
    BY <1>2, Zenon DEF SwitchFires, TypeOK
  <2>10. UNCHANGED <<due, idle>>
    BY <2>9 DEF clocks
  <2> QED
    BY <2>4, <2>5, <2>7, <2>8, <2>9, <2>10
<1> QED
  BY <1>1, <1>2

(* What one execution message adds to the inbox.                           *)
Told(rows) == [type |-> "execution", rows |-> rows]
Updated(rows) == [type |-> "order", action |-> "UPDATE",
                  rows |-> [o \in DOMAIN rows |-> rows[o].order]]
Positioned == [type |-> "position", quantity |-> position]

LEMMA Messages ==
  /\ \A rows \in Executions : Told(rows) \in Message /\ Updated(rows) \in Message
  /\ position \in Int => Positioned \in Message
<1>1. ASSUME NEW rows \in Executions
      PROVE  [o \in DOMAIN rows |-> rows[o].order] \in Snapshots
  <2> DEFINE changes == [o \in DOMAIN rows |-> rows[o].order]
  <2>1. DOMAIN rows \subseteq Orders /\ \A o \in DOMAIN rows : rows[o].order \in Order
    BY ExecutionRows DEF ExecRow
  <2>2. DOMAIN changes = DOMAIN rows /\ changes \in [DOMAIN changes -> Order]
    BY <2>1
  <2> HIDE DEF changes
  <2>3. changes \in Snapshots
    BY <2>1, <2>2, SnapshotRows
  <2> QED
    BY <2>3 DEF changes
<1>2. ASSUME NEW rows \in Executions
      PROVE  Updated(rows) \in Message
  BY <1>1 DEF Updated, Message
<1>3. ASSUME NEW rows \in Executions
      PROVE  Told(rows) \in Message
  BY DEF Told, Message
<1> QED
  BY <1>2, <1>3 DEF Positioned, Message

LEMMA Streaming ==
  ASSUME NEW s \in Seq(Message), NEW m \in Message, NEW topic
  PROVE  s \o Stream(topic, m) = IF topic \in topics THEN s \o <<m>> ELSE s
BY Longer DEF Stream

LEMMA Streamed ==
  ASSUME inbox \in Seq(Message), NEW rows \in Executions, Execute(rows), position' \in Int
  PROVE  /\ inbox' \in Seq(Message)
         /\ \A n \in DOMAIN inbox : n \in DOMAIN inbox' /\ inbox'[n] = inbox[n]
         /\ "execution" \in topics =>
              \E k \in DOMAIN inbox' :
                /\ inbox'[k] = Told(rows)
                /\ \A n \in DOMAIN inbox : n < k
                /\ \A n \in DOMAIN inbox' :
                     n \in DOMAIN inbox \/ n = k \/ inbox'[n] = Updated(rows)
                     \/ inbox'[n] = Positioned'
         /\ "execution" \notin topics =>
              \A n \in DOMAIN inbox' :
                n \in DOMAIN inbox \/ inbox'[n] = Updated(rows) \/ inbox'[n] = Positioned'
         /\ "position" \in topics =>
              \E k \in DOMAIN inbox' : /\ inbox'[k] = Positioned'
                                       /\ \A n \in DOMAIN inbox' : n <= k
         /\ topics = {} => inbox' = inbox
<1> DEFINE a == Told(rows)
           b == Updated(rows)
           c == Positioned'
           s1 == inbox \o Stream("execution", a)
           s2 == s1 \o Stream("order", b)
           s3 == s2 \o Stream("position", c)
<1>1. inbox' = s3
  BY Zenon DEF Execute, Told, Updated, Positioned
<1>2. a \in Message /\ b \in Message
  BY Messages
<1>3. c \in Message
  BY DEF Positioned, Message
<1> HIDE DEF a, b, c
<1>4. s1 = IF "execution" \in topics THEN inbox \o <<a>> ELSE inbox
  BY <1>2, Streaming
<1> HIDE DEF s1
<1>5. /\ s1 \in Seq(Message)
      /\ \A n \in DOMAIN inbox : n \in DOMAIN s1 /\ s1[n] = inbox[n]
      /\ "execution" \notin topics => s1 = inbox
      /\ "execution" \in topics => \E k \in DOMAIN s1 :
            /\ s1[k] = a /\ \A n \in DOMAIN inbox : n < k
            /\ \A n \in DOMAIN s1 : n \in DOMAIN inbox \/ n = k
  <2>1. CASE "execution" \in topics
    <3>1. s1 = inbox \o <<a>>
      BY <1>4, <2>1
    <3>2. /\ s1 \in Seq(Message) /\ DOMAIN s1 = DOMAIN inbox \cup {Len(inbox) + 1}
          /\ \A n \in DOMAIN inbox : n < Len(inbox) + 1 /\ s1[n] = inbox[n]
          /\ s1[Len(inbox) + 1] = a
      BY <1>2, <3>1, Longer
    <3> QED
      BY <2>1, <3>2
  <2>2. CASE "execution" \notin topics
    BY <1>4, <2>2
  <2> QED
    BY <2>1, <2>2
<1>6. s2 = IF "order" \in topics THEN s1 \o <<b>> ELSE s1
  BY <1>2, <1>5, Streaming
<1> HIDE DEF s2
<1>7. /\ s2 \in Seq(Message)
      /\ \A n \in DOMAIN s1 : n \in DOMAIN s2 /\ s2[n] = s1[n]
      /\ \A n \in DOMAIN s2 : n \in DOMAIN s1 \/ s2[n] = b
  <2>1. CASE "order" \in topics
    <3>1. s2 = s1 \o <<b>>
      BY <1>6, <2>1
    <3>2. /\ s2 \in Seq(Message) /\ DOMAIN s2 = DOMAIN s1 \cup {Len(s1) + 1}
          /\ \A n \in DOMAIN s1 : s2[n] = s1[n]
          /\ s2[Len(s1) + 1] = b
      BY <1>2, <1>5, <3>1, Longer
    <3> QED
      BY <3>2
  <2>2. CASE "order" \notin topics
    BY <1>5, <1>6, <2>2
  <2> QED
    BY <2>1, <2>2
<1>8. s3 = IF "position" \in topics THEN s2 \o <<c>> ELSE s2
  BY <1>3, <1>7, Streaming
<1> HIDE DEF s3
<1>9. /\ s3 \in Seq(Message)
      /\ \A n \in DOMAIN s2 : n \in DOMAIN s3 /\ s3[n] = s2[n]
      /\ \A n \in DOMAIN s3 : n \in DOMAIN s2 \/ s3[n] = c
      /\ "position" \in topics =>
           \E k \in DOMAIN s3 : s3[k] = c /\ \A n \in DOMAIN s3 : n <= k
  <2>1. CASE "position" \in topics
    <3>1. s3 = s2 \o <<c>>
      BY <1>8, <2>1
    <3>2. /\ s3 \in Seq(Message) /\ DOMAIN s3 = DOMAIN s2 \cup {Len(s2) + 1}
          /\ \A n \in DOMAIN s2 : n \in Nat /\ n < Len(s2) + 1 /\ s3[n] = s2[n]
          /\ s3[Len(s2) + 1] = c /\ Len(s2) \in Nat
      BY <1>3, <1>7, <3>1, Longer
    <3> QED
      BY <3>2
  <2>2. CASE "position" \notin topics
    BY <1>7, <1>8, <2>2
  <2> QED
    BY <2>1, <2>2
<1>10. ASSUME "execution" \in topics
       PROVE  \E k \in DOMAIN s3 :
                /\ s3[k] = a
                /\ \A n \in DOMAIN inbox : n < k
                /\ \A n \in DOMAIN s3 : n \in DOMAIN inbox \/ n = k \/ s3[n] = b
                                        \/ s3[n] = c
  <2>1. PICK k \in DOMAIN s1 : /\ s1[k] = a /\ \A n \in DOMAIN inbox : n < k
                               /\ \A n \in DOMAIN s1 : n \in DOMAIN inbox \/ n = k
    BY <1>5, <1>10
  <2>2. k \in DOMAIN s3 /\ s3[k] = a
    BY <1>7, <1>9, <2>1
  <2> QED
    BY <1>7, <1>9, <2>1, <2>2
<1>11. ASSUME "execution" \notin topics
       PROVE  \A n \in DOMAIN s3 : n \in DOMAIN inbox \/ s3[n] = b \/ s3[n] = c
  BY <1>5, <1>7, <1>9, <1>11
<1>12. \A n \in DOMAIN inbox : n \in DOMAIN s3 /\ s3[n] = inbox[n]
  BY <1>5, <1>7, <1>9
<1>13. topics = {} => s3 = inbox
  BY <1>5, <1>6, <1>8
<1> QED
  BY <1>1, <1>9, <1>10, <1>11, <1>12, <1>13 DEF a, b, c

(* What the start of a topic adds: at most its PARTIAL.                    *)
Silence == [type |-> "execution", rows |-> [o \in {} |-> 0]]
SnapshotOf(closed) == [type |-> "order", action |-> "PARTIAL",
                       rows |-> [o \in OpenOrders \cup closed |-> orders[o]]]
Starts(topic, m) ==
  \/ topic = "execution" /\ m = Silence
  \/ topic = "order" /\ \E closed \in SUBSET {o \in Orders : orders[o] # NoOrder} :
                          m = SnapshotOf(closed)
  \/ topic = "position" /\ m = Positioned

LEMMA SnapshotMessage ==
  ASSUME orders \in [Orders -> Order],
         NEW closed \in SUBSET {o \in Orders : orders[o] # NoOrder}
  PROVE  /\ SnapshotOf(closed) \in Message
         /\ SnapshotOf(closed).type = "order" /\ SnapshotOf(closed).action = "PARTIAL"
         /\ DOMAIN SnapshotOf(closed).rows = OpenOrders \cup closed
         /\ OpenOrders \cup closed \subseteq Orders
         /\ \A o \in OpenOrders \cup closed : SnapshotOf(closed).rows[o] = orders[o]
<1> DEFINE rows == [o \in OpenOrders \cup closed |-> orders[o]]
<1>1. OpenOrders \cup closed \subseteq Orders
  BY DEF OpenOrders
<1>2. DOMAIN rows \subseteq Orders /\ rows \in [DOMAIN rows -> Order]
  BY <1>1
<1>3. SnapshotOf(closed) = [type |-> "order", action |-> "PARTIAL", rows |-> rows]
  BY DEF SnapshotOf
<1>4. DOMAIN rows = OpenOrders \cup closed /\ \A o \in DOMAIN rows : rows[o] = orders[o]
  OBVIOUS
<1> HIDE DEF rows
<1>5. rows \in Snapshots
  BY <1>2, SnapshotRows
<1> QED
  BY <1>1, <1>3, <1>4, <1>5 DEF Message

LEMMA Started ==
  ASSUME inbox \in Seq(Message), orders \in [Orders -> Order], position \in Int, TopicStarts
  PROVE  /\ inbox' \in Seq(Message)
         /\ \A n \in DOMAIN inbox : n \in DOMAIN inbox' /\ inbox'[n] = inbox[n]
         /\ \/ /\ inbox' = inbox
               /\ Head(pending) \notin {"execution", "order", "position"}
            \/ \E k \in DOMAIN inbox' : /\ Starts(Head(pending), inbox'[k])
                                        /\ DOMAIN inbox' = DOMAIN inbox \cup {k}
                                        /\ \A n \in DOMAIN inbox : n < k
                                        /\ k \notin DOMAIN inbox
<1>1. PICK messages \in Partial(Head(pending)) : inbox' = inbox \o messages
  BY DEF TopicStarts
<1>2. CASE Head(pending) \notin {"execution", "order", "position"}
  <2>1. messages = <<>>
    BY <1>1, <1>2 DEF Partial
  <2> QED
    BY <1>1, <1>2, <2>1
<1>3. CASE Head(pending) \in {"execution", "order", "position"}
  <2>1. \E m : messages = <<m>> /\ Starts(Head(pending), m)
    BY <1>1, <1>3, Zenon DEF Partial, Starts, Silence, SnapshotOf, Positioned
  <2>2. PICK m : messages = <<m>> /\ Starts(Head(pending), m)
    BY <2>1
  <2>3. m \in Message
    <3>1. CASE m = Silence
      <4> DEFINE none == [o \in {} |-> 0]
      <4>1. DOMAIN none \subseteq Orders /\ none \in [DOMAIN none -> ExecRow]
        OBVIOUS
      <4> HIDE DEF none
      <4>2. none \in Executions
        BY <4>1, ExecutionRows
      <4> QED
        BY <3>1, <4>2 DEF Silence, Message, none
    <3>2. CASE m = Positioned
      BY <3>2, Messages
    <3> QED
      BY <2>2, <3>1, <3>2, SnapshotMessage DEF Starts
  <2>4. inbox' = inbox \o <<m>>
    BY <1>1, <2>2
  <2>5. /\ inbox' \in Seq(Message) /\ DOMAIN inbox' = DOMAIN inbox \cup {Len(inbox) + 1}
        /\ \A n \in DOMAIN inbox : n < Len(inbox) + 1 /\ inbox'[n] = inbox[n]
        /\ inbox'[Len(inbox) + 1] = m /\ Len(inbox) + 1 \notin DOMAIN inbox
    BY <2>3, <2>4, Longer
  <2> QED
    BY <2>2, <2>5
<1> QED
  BY <1>2, <1>3

-------------------------------------------------------------------------------
(* Every step keeps the types.                                             *)

LEMMA TypedInit == Init => Typed
<1> SUFFICES ASSUME Init PROVE Typed
  OBVIOUS
<1>1. ClockType
  BY ClockInit
<1>2. /\ 0 \in 0..Quarter /\ 0 \in 0..Period /\ 0 \in 0..Period + Delay + 1
      /\ Timeout \in 0..Timeout /\ 0 \in 0..Timeout /\ 0 <= Period + Delay + 1
  BY Times
<1>3. fuse \in 0..Timeout /\ fuse <= Timeout
  BY <1>2, Times DEF Init
<1>4. orders \in [Orders -> Order]
  <2>1. NoOrder \in Order /\ Resting \in Order
    BY QuantityAssumption DEF NoOrder, Resting, Order, OrdStatus
  <2> QED
    BY <2>1 DEF Init
<1>5. shown \in [Orders -> View]
  <2>1. [status |-> "UNDEFINED", traded |-> 0] \in View
    BY QuantityAssumption DEF View
  <2> QED
    BY <2>1 DEF Init
<1>6. /\ inbox \in Seq(Message) /\ outbox \in Seq(Request)
      /\ pending \in Seq({"execution", "order", "margin", "position"})
      /\ Known
  BY DEF Init, Known
<1>7. budget \in [Events -> Nat]
  BY BudgetAssumption DEF Init
<1>8. /\ answers \in [Orders -> SUBSET Answer] /\ reported \in [Trades -> Nat]
      /\ account \in [long : Nat, short : Nat]
  BY DEF Init
<1>9. /\ status = "DISCONNECTED" /\ ready = FALSE /\ partial = FALSE
      /\ download = "UNDEFINED" /\ due = 0 /\ idle = 0 /\ readyFor = 0
      /\ link = "down" /\ topics = {} /\ tape = {} /\ unseen = {}
      /\ outbox = <<>> /\ position \in Int /\ armed \in BOOLEAN
  BY LeftPositionsAssumption DEF Init
<1>10. Timely
  BY <1>2, <1>3, <1>9 DEF Timely
<1>11. /\ status \in {"DISCONNECTED", "LOGIN_SENT", "DOWNLOADING", "READY"}
       /\ ready \in BOOLEAN /\ partial \in BOOLEAN
       /\ download \in {"UNDEFINED", "SUBSCRIBE", "DONE"}
       /\ due \in 0..Quarter /\ idle \in 0..Period /\ readyFor \in 0..Period + Delay + 1
       /\ link \in {"down", "up"} /\ position \in Int
       /\ topics \subseteq {"execution", "order", "margin", "position"}
       /\ tape \subseteq Trades /\ unseen \subseteq Orders
  <2>1. due \in 0..Quarter /\ idle \in 0..Period /\ readyFor \in 0..Period + Delay + 1
    BY <1>2, <1>9, Zenon
  <2>2. position \in Int
    BY <1>9
  <2>3. topics \subseteq {"execution", "order", "margin", "position"} /\ unseen \subseteq Orders
        /\ tape \subseteq Trades
    BY <1>9, Zenon
  <2>4. /\ status \in {"DISCONNECTED", "LOGIN_SENT", "DOWNLOADING", "READY"}
        /\ ready \in BOOLEAN /\ partial \in BOOLEAN
        /\ download \in {"UNDEFINED", "SUBSCRIBE", "DONE"} /\ link \in {"down", "up"}
    BY <1>9
  <2> QED
    BY <2>1, <2>2, <2>3, <2>4
<1>12. TypeOK
  BY <1>3, <1>4, <1>5, <1>6, <1>7, <1>8, <1>9, <1>11, Zenon DEF TypeOK
<1>13. Placed
  BY DEF Placed, Init, Resting, OrdStatus
<1> QED
  BY <1>1, <1>6, <1>10, <1>12, <1>13 DEF Typed

(* The flags, and what is left of the environment.                         *)
Flags ==
  /\ status \in {"DISCONNECTED", "LOGIN_SENT", "DOWNLOADING", "READY"}
  /\ ready \in BOOLEAN /\ partial \in BOOLEAN
  /\ download \in {"UNDEFINED", "SUBSCRIBE", "DONE"}
  /\ link \in {"down", "up"}
  /\ budget \in [Events -> Nat]

LEMMA Spends ==
  ASSUME budget \in [Events -> Nat], NEW event \in Events, Spend(event)
  PROVE  budget' \in [Events -> Nat]
BY DEF Spend

LEMMA FlagsNext == Flags /\ [Next]_vars => Flags'
<1> SUFFICES ASSUME Flags, [Next]_vars PROVE Flags'
  OBVIOUS
<1>1. CASE TransportLost \/ TopicRefused \/ OrderChanges
  <2>1. budget' \in [Events -> Nat]
    BY <1>1, Spends DEF TransportLost, TopicRefused, OrderChanges, Flags, Events
  <2> QED
    BY <1>1, <2>1 DEF TransportLost, TopicRefused, OrderChanges, Flags, ForgetSession,
                      session, wire
<1>2. CASE TransportReady \/ OnTimer \/ OnWelcome \/ OnOrderPartial
  BY <1>2 DEF TransportReady, OnTimer, OnWelcome, OnOrderPartial, Flags, session, Receive
<1>3. CASE OnOrderIgnored \/ OnExecution \/ OnPosition \/ Answering \/ Tick
  BY <1>3 DEF OnOrderIgnored, OnExecution, OnPosition, Answering, ExchangeSubscribes,
              ExchangeWinds, TopicStarts, Tick, Flags, session
<1>4. CASE SwitchFires
  <2>1. UNCHANGED <<session, link, budget>>
    BY <1>4, Zenon DEF SwitchFires
  <2> QED
    BY <2>1 DEF Flags, session
<1>5. CASE UNCHANGED vars
  BY <1>5 DEF vars, Flags, session, wire
<1> QED
  BY <1>1, <1>2, <1>3, <1>4, <1>5 DEF Next, Handle

(* The times.                                                              *)
LEMMA TimelyNext == Typed /\ [Next]_vars => Timely'
<1> SUFFICES ASSUME Typed, [Next]_vars PROVE Timely'
  OBVIOUS
<1>1. /\ outbox \in Seq(Request) /\ ClockType /\ Timely
      /\ \A n \in DOMAIN outbox : outbox[n].timeout <= Timeout
  BY DEF Typed, ClockType, Timely
<1>2. CASE UNCHANGED <<fuse, readyFor, outbox>>
  BY <1>1, <1>2 DEF Timely
<1>3. CASE TransportLost
  <2>1. UNCHANGED fuse /\ readyFor' = 0 /\ outbox' = <<>>
    BY <1>3 DEF TransportLost
  <2> QED
    BY <1>1, <2>1, Times DEF Timely
<1>4. CASE OnTimer
  <2>1. UNCHANGED <<fuse, readyFor>>
    BY <1>4 DEF OnTimer, exchange
  <2>2. CASE outbox' = Append(outbox, SendCancelAllAfter(CancelAllAfter))
    <3>1. \A n \in DOMAIN outbox' : outbox'[n].timeout <= Timeout
      BY <1>1, <2>2, Requests, Appended, Times
    <3> QED
      BY <1>1, <2>1, <3>1 DEF Timely
  <2> QED
    BY <1>2, <1>4, <2>1, <2>2 DEF OnTimer
<1>5. CASE OnWelcome
  <2>1. UNCHANGED <<fuse, readyFor>> /\ outbox' = outbox \o WelcomeRequests
    BY <1>5 DEF OnWelcome, exchange, clocks
  <2>2. SendSubscribe.timeout <= Timeout /\ SendCancelAllAfter(0).timeout <= Timeout
    BY Requests, Times DEF SendSubscribe
  <2>3. \A n \in DOMAIN outbox' : outbox'[n].timeout <= Timeout
    BY <1>1, <2>1, <2>2, WelcomeWire
  <2> QED
    BY <1>1, <2>1, <2>3 DEF Timely
<1>6. CASE ExchangeSubscribes \/ ExchangeWinds
  <2>1. /\ outbox # <<>> /\ outbox' = Tail(outbox) /\ UNCHANGED readyFor
        /\ fuse' = fuse \/ fuse' = Head(outbox).timeout
    BY <1>6 DEF ExchangeSubscribes, ExchangeWinds, Serve, clocks
  <2>2. /\ \A n \in DOMAIN outbox' : outbox'[n].timeout <= Timeout
        /\ Head(outbox).timeout <= Timeout
    BY <1>1, <2>1, Served
  <2> QED
    BY <1>1, <2>1, <2>2 DEF Timely
<1>7. CASE Tick
  <2>1. \A n \in DOMAIN outbox' : outbox'[n].timeout <= Timeout
    BY <1>1, <1>7, OlderWire
  <2>2. fuse' <= Timeout
    <3>1. fuse \in Nat /\ fuse <= Timeout
      BY <1>1 DEF Timely, ClockType
    <3>2. fuse' = fuse \/ fuse' = fuse - 1
      BY <1>1, <1>7, TickTimes
    <3> QED
      BY <3>1, <3>2, Times
  <2>3. readyFor' <= Period + Delay + 1
    BY <1>1, <1>7, Times DEF Tick, Timely, ClockType
  <2> QED
    BY <2>1, <2>2, <2>3 DEF Timely
<1>8. CASE \/ TransportReady \/ OnOrderPartial \/ OnOrderIgnored \/ OnExecution \/ OnPosition
           \/ TopicStarts \/ TopicRefused
  BY <1>2, <1>8 DEF TransportReady, OnOrderPartial, OnOrderIgnored, OnExecution, OnPosition,
                    TopicStarts, TopicRefused, exchange, clocks, wire
<1>9. CASE OrderChanges \/ SwitchFires \/ UNCHANGED vars
  BY <1>2, <1>9, Zenon DEF OrderChanges, SwitchFires, vars, exchange, clocks, wire
<1> QED
  BY <1>3, <1>4, <1>5, <1>6, <1>7, <1>8, <1>9 DEF Next, Handle, Answering

(* The messages, and the topics they belong to.                            *)
TopicNames == {"execution", "order", "margin", "position"}
Wires == /\ inbox \in Seq(Message) /\ Known
         /\ pending \in Seq(TopicNames) /\ topics \subseteq TopicNames

LEMMA ReadKnown ==
  ASSUME Typed, NEW type, Receive(type)
  PROVE  /\ inbox' \in Seq(Message) /\ Known'
         /\ Head(inbox) \in Message /\ Head(inbox).type = type /\ Lists(Head(inbox))
<1>1. inbox \in Seq(Message) /\ inbox # <<>> /\ inbox' = Tail(inbox) /\ Known
      /\ Head(inbox).type = type
  BY DEF Typed, TypeOK, Receive
<1>2. /\ inbox' \in Seq(Message) /\ Head(inbox) \in Message
      /\ Head(inbox) = inbox[1] /\ 1 \in DOMAIN inbox
      /\ \A n \in DOMAIN inbox' : n + 1 \in DOMAIN inbox /\ inbox'[n] = inbox[n + 1]
  BY <1>1, Behind
<1>3. Known'
  BY <1>1, <1>2 DEF Known
<1> QED
  BY <1>1, <1>2, <1>3 DEF Known

LEMMA ExecutingKnown ==
  ASSUME Typed, NEW rows \in Executions, Lawful(rows), Execute(rows), position' \in Int
  PROVE  inbox' \in Seq(Message) /\ Known'
<1>1. inbox \in Seq(Message) /\ Known
  BY DEF Typed, TypeOK
<1>2. Lists(Told(rows))
  <2>1. ASSUME NEW o \in DOMAIN rows
        PROVE  /\ rows[o].order.status \in OrdStatus
               /\ rows[o].type = "TRADE" => rows[o].order.cum > 0
    <3>1. rows[o] \in ExecRow /\ o \in Orders
      BY ExecutionRows
    <3>2. orders[o] \in Order /\ rows[o].order \in Order /\ rows[o].type \in ExecType
      BY <3>1 DEF Typed, TypeOK, ExecRow
    <3>3. orders[o].cum \in Nat /\ rows[o].order.cum \in Nat
      BY <3>2, QuantityAssumption DEF Order
    <3> QED
      BY <3>2, <3>3, ExecutesTo DEF Lawful
  <2> QED
    BY <2>1 DEF Lists, Told
<1>3. Lists(Updated(rows))
  BY DEF Lists, Updated, Lawful
<1>4. Lists(Positioned')
  BY DEF Lists, Positioned
<1>5. inbox' \in Seq(Message)
  BY <1>1, Streamed
<1>6. ASSUME NEW n \in DOMAIN inbox' PROVE Lists(inbox'[n])
  <2>1. CASE n \in DOMAIN inbox
    BY <1>1, <2>1, Streamed DEF Known
  <2>2. CASE n \notin DOMAIN inbox
    <3>1. inbox'[n] = Told(rows) \/ inbox'[n] = Updated(rows) \/ inbox'[n] = Positioned'
      BY <1>1, <2>2, Streamed
    <3> QED
      BY <1>2, <1>3, <1>4, <3>1
  <2> QED
    BY <2>1, <2>2
<1> QED
  BY <1>5, <1>6 DEF Known

LEMMA StartingKnown ==
  ASSUME Typed, TopicStarts
  PROVE  inbox' \in Seq(Message) /\ Known'
<1>1. inbox \in Seq(Message) /\ Known /\ orders \in [Orders -> Order] /\ position \in Int
  BY DEF Typed, TypeOK
<1>2. ASSUME NEW topic, NEW m, Starts(topic, m) PROVE Lists(m)
  <2>1. CASE m = Silence
    BY <2>1 DEF Silence, Lists
  <2>2. CASE m = Positioned
    BY <2>2 DEF Positioned, Lists
  <2>3. ASSUME NEW closed \in SUBSET {o \in Orders : orders[o] # NoOrder},
               m = SnapshotOf(closed)
        PROVE  Lists(m)
    <3>1. \A o \in DOMAIN m.rows : m.rows[o] = orders[o] /\ o \in Orders
                                   /\ o \in OpenOrders \cup closed
      BY <1>1, <2>3, SnapshotMessage
    <3>2. \A o \in OpenOrders : orders[o].status \in OrdStatus
      BY DEF OpenOrders, Open, OrdStatus
    <3>3. \A o \in Orders : orders[o] # NoOrder => orders[o].status \in OrdStatus
      BY DEF Typed, Placed
    <3>4. m.type = "order"
      BY <1>1, <2>3, SnapshotMessage
    <3> QED
      BY <3>1, <3>2, <3>3, <3>4 DEF Lists
  <2> QED
    BY <1>2, <2>1, <2>2, <2>3 DEF Starts
<1>3. inbox' \in Seq(Message)
  BY <1>1, Started
<1>4. ASSUME NEW n \in DOMAIN inbox' PROVE Lists(inbox'[n])
  BY <1>1, <1>2, Started DEF Known
<1> QED
  BY <1>3, <1>4 DEF Known

LEMMA WiresNext == Typed /\ [Next]_vars => Wires'
<1> SUFFICES ASSUME Typed, [Next]_vars PROVE Wires'
  OBVIOUS
<1>1. Wires
  BY Zenon DEF Typed, TypeOK, Wires, TopicNames
<1>2. CASE TransportReady \/ TransportLost
  <2>1. \/ inbox' = <<[type |-> "welcome"]>> /\ UNCHANGED <<pending, topics>>
        \/ inbox' = <<>> /\ pending' = <<>> /\ topics' = {}
    BY <1>2 DEF TransportReady, TransportLost, exchange
  <2>2. inbox' \in Seq(Message)
    <3> DEFINE w == [type |-> "welcome"]
    <3>1. w \in Message
      BY DEF Message
    <3> HIDE DEF w
    <3>2. <<w>> \in Seq(Message) /\ <<>> \in Seq(Message)
      BY <3>1
    <3> QED
      BY <2>1, <3>2 DEF w
  <2>3. Known'
    BY <2>1 DEF Known, Lists
  <2> QED
    BY <1>1, <2>1, <2>2, <2>3 DEF Wires
<1>3. CASE Handle
  <2>1. \E type : Receive(type)
    BY <1>3 DEF Handle, OnWelcome, OnOrderPartial, OnOrderIgnored, OnExecution, OnPosition
  <2>2. inbox' \in Seq(Message) /\ Known'
    BY <2>1, ReadKnown
  <2>3. UNCHANGED <<pending, topics>>
    BY <1>3 DEF Handle, OnWelcome, OnOrderPartial, OnOrderIgnored, OnExecution, OnPosition,
                exchange
  <2> QED
    BY <1>1, <2>2, <2>3 DEF Wires
<1>4. CASE ExchangeSubscribes
  <2>1. pending' = pending \o Topics /\ Topics \in Seq(TopicNames)
    BY <1>4 DEF ExchangeSubscribes, Topics, TopicNames
  <2>2. pending' \in Seq(TopicNames)
    BY <1>1, <2>1 DEF Wires
  <2>3. UNCHANGED <<inbox, topics>>
    BY <1>4 DEF ExchangeSubscribes
  <2> QED
    BY <1>1, <2>2, <2>3 DEF Wires, Known
<1>5. CASE TopicStarts
  <2>1. inbox' \in Seq(Message) /\ Known'
    BY <1>5, StartingKnown
  <2>2. pending # <<>> /\ pending' = Tail(pending) /\ topics' = topics \cup {Head(pending)}
    BY <1>5 DEF TopicStarts
  <2>3. pending' \in Seq(TopicNames) /\ Head(pending) \in TopicNames
    BY <1>1, <2>2, Behind DEF Wires
  <2> QED
    BY <1>1, <2>1, <2>2, <2>3 DEF Wires
<1>6. CASE TopicRefused
  <2>1. pending # <<>> /\ pending' = Tail(pending) /\ UNCHANGED <<inbox, topics>>
    BY <1>6 DEF TopicRefused, wire
  <2>2. pending' \in Seq(TopicNames)
    BY <1>1, <2>1, Behind DEF Wires
  <2> QED
    BY <1>1, <2>1, <2>2 DEF Wires, Known
<1>7. CASE OrderChanges \/ SwitchFires
  <2>1. TypeOK
    BY DEF Typed
  <2>2. PICK rows \in Executions : Lawful(rows) /\ Execute(rows)
    BY <1>7, <2>1, Executing
  <2>3. position' \in Int /\ UNCHANGED <<pending, topics>>
    BY <1>7, <2>1, Executing
  <2> QED
    BY <1>1, <2>2, <2>3, ExecutingKnown DEF Wires
<1>8. CASE OnTimer \/ ExchangeWinds \/ Tick \/ UNCHANGED vars
  <2>1. UNCHANGED <<inbox, pending, topics>>
    BY <1>8 DEF OnTimer, ExchangeWinds, Tick, vars, wire, exchange
  <2> QED
    BY <1>1, <2>1 DEF Wires, Known
<1> QED
  BY <1>2, <1>3, <1>4, <1>5, <1>6, <1>7, <1>8 DEF Next, Answering

(* The exchange's orders and its position, and what is kept about them.    *)
Books == /\ orders \in [Orders -> Order] /\ Placed /\ position \in Int
         /\ tape \subseteq Trades /\ unseen \subseteq Orders

LEMMA TradesTyped ==
  ASSUME NEW m \in Message, Lists(m)
  PROVE  TradesOf(m) \subseteq Trades /\ Executed(m) \subseteq Orders
<1>1. Executed(m) \subseteq Orders
  BY ReadExecution DEF Executed
<1>2. ASSUME NEW o \in Executed(m), m.rows[o].type = "TRADE"
      PROVE  m.rows[o].order.cum \in 1..Quantity
  <2>1. m.rows[o].order.cum \in 0..Quantity /\ m.rows[o].order.cum > 0
    BY <1>2, ReadExecution DEF Executed, Order, Lists
  <2> QED
    BY <2>1, QuantityAssumption
<1> QED
  BY <1>1, <1>2 DEF TradesOf, Trades

LEMMA Changed ==
  ASSUME TypeOK, Placed, NEW rows \in Executions, Lawful(rows), Execute(rows)
  PROVE  /\ orders' \in [Orders -> Order] /\ Placed'
         /\ DOMAIN rows \subseteq Orders
         /\ \A o \in Orders \ DOMAIN rows : orders'[o] = orders[o]
         /\ \A o \in DOMAIN rows : /\ orders'[o] = rows[o].order
                                   /\ rows[o].type \in ExecType
                                   /\ Executes(rows[o].type, orders[o], orders'[o])
                                   /\ orders[o] \in Order /\ orders'[o] \in Order
                                   /\ orders'[o].status \in OrdStatus
<1>1. orders' = [o \in Orders |-> IF o \in DOMAIN rows THEN rows[o].order ELSE orders[o]]
  BY Zenon DEF Execute
<1>2. DOMAIN rows \subseteq Orders /\ \A o \in DOMAIN rows : rows[o] \in ExecRow
  BY ExecutionRows
<1>3. \A o \in DOMAIN rows : rows[o].order \in Order /\ rows[o].type \in ExecType
  BY <1>2 DEF ExecRow
<1>4. orders' \in [Orders -> Order]
  BY <1>1, <1>3 DEF TypeOK
<1>5. Placed'
  BY <1>1, <1>2 DEF Placed, Lawful
<1> QED
  BY <1>1, <1>2, <1>3, <1>4, <1>5 DEF TypeOK, Lawful

LEMMA BooksNext == Typed /\ [Next]_vars => Books'
<1> SUFFICES ASSUME Typed, [Next]_vars PROVE Books'
  OBVIOUS
<1>1. Books /\ TypeOK
  BY Zenon DEF Typed, TypeOK, Books
<1>2. CASE UNCHANGED <<orders, position>> /\ tape' \subseteq tape /\ unseen' \subseteq unseen
  BY <1>1, <1>2 DEF Books, Placed
<1>3. CASE TransportLost
  <2>1. /\ UNCHANGED <<orders, position>> /\ tape' \subseteq tape
        /\ unseen' = unseen \cup UNION {Executed(inbox[n]) : n \in DOMAIN inbox}
    BY <1>3 DEF TransportLost
  <2>2. \A n \in DOMAIN inbox : Executed(inbox[n]) \subseteq Orders
    BY <1>1, TradesTyped DEF TypeOK, Typed, Known
  <2> QED
    BY <1>1, <2>1, <2>2 DEF Books, Placed
<1>4. CASE OrderChanges \/ SwitchFires
  <2>1. PICK rows \in Executions : Lawful(rows) /\ Execute(rows)
    BY <1>1, <1>4, Executing
  <2>2. position' \in Int
    BY <1>1, <1>4, Executing
  <2>3. orders' \in [Orders -> Order] /\ Placed' /\ DOMAIN rows \subseteq Orders
    BY <1>1, <2>1, Changed DEF Books
  <2>4. \/ tape' = tape \cup TradesOf(Told(rows)) /\ UNCHANGED unseen
        \/ unseen' = unseen \cup DOMAIN rows /\ UNCHANGED tape
    BY <2>1, Zenon DEF Execute, Told
  <2>5. TradesOf(Told(rows)) \subseteq Trades
    <3>1. ASSUME NEW o \in DOMAIN rows, rows[o].type = "TRADE"
          PROVE  rows[o].order.cum \in 1..Quantity
      <4>1. orders[o].cum \in 0..Quantity /\ orders'[o].cum \in 0..Quantity
            /\ orders[o].cum < orders'[o].cum /\ orders'[o] = rows[o].order
        BY <1>1, <2>1, <3>1, Changed, ExecutesTo DEF Books, Order
      <4> QED
        BY <4>1, QuantityAssumption
    <3> QED
      BY <2>3, <3>1 DEF TradesOf, Executed, Told, Trades
  <2> QED
    BY <1>1, <2>2, <2>3, <2>4, <2>5 DEF Books
<1>5. CASE Handle
  <2>1. UNCHANGED <<orders, position, tape>> /\ unseen' \subseteq unseen
    BY <1>5 DEF Handle, OnWelcome, OnOrderPartial, OnOrderIgnored, OnExecution, OnPosition,
                exchange, seen
  <2> QED
    BY <1>2, <2>1
<1>6. CASE TransportReady \/ OnTimer \/ Answering \/ TopicRefused \/ Tick \/ UNCHANGED vars
  <2>1. UNCHANGED <<orders, position, tape, unseen>>
    BY <1>6 DEF TransportReady, OnTimer, Answering, ExchangeSubscribes, ExchangeWinds,
                TopicStarts, TopicRefused, Tick, vars, exchange, seen
  <2> QED
    BY <1>2, <2>1
<1> QED
  BY <1>3, <1>4, <1>5, <1>6 DEF Next

(* What the users are told.                                                *)
Users == /\ shown \in [Orders -> View] /\ answers \in [Orders -> SUBSET Answer]
         /\ reported \in [Trades -> Nat] /\ account \in [long : Nat, short : Nat]

LEMMA Positions ==
  ASSUME NEW q \in Int
  PROVE  /\ LongShort(q) \in [long : Nat, short : Nat]
         /\ LongShort(q).long - LongShort(q).short = q
         /\ LongShort(q).long = 0 \/ LongShort(q).short = 0
BY DEF LongShort

LEMMA UsersNext == Typed /\ [Next]_vars => Users'
<1> SUFFICES ASSUME Typed, [Next]_vars PROVE Users'
  OBVIOUS
<1>1. Users
  BY Zenon DEF Typed, TypeOK, Users
<1>2. CASE UNCHANGED users
  BY <1>1, <1>2 DEF Users, users
<1>3. CASE OnOrderPartial
  <2> DEFINE m == Head(inbox)
  <2>1. m \in Message /\ m.type = "order" /\ Lists(m)
    BY <1>3, ReadKnown DEF OnOrderPartial
  <2>2. /\ shown' = [o \in Orders |->
             IF o \in DOMAIN m.rows
             THEN ShownAs(m.rows[o], ComputeOrderStatus(m.rows[o].status, m.rows[o].working))
             ELSE shown[o]]
        /\ answers' = [o \in Orders |->
             IF o \in DOMAIN m.rows THEN answers[o] \cup {SnapshotAnswer(m.rows[o])}
                                    ELSE answers[o]]
        /\ UNCHANGED <<reported, account>>
    BY <1>3 DEF OnOrderPartial
  <2> HIDE DEF m
  <2>3. \A o \in DOMAIN m.rows : m.rows[o] \in Order /\ m.rows[o].status \in OrdStatus
    BY <2>1, ReadOrder DEF Lists
  <2>4. shown' \in [Orders -> View]
    BY <1>1, <2>2, <2>3, Shows DEF Users
  <2>5. answers' \in [Orders -> SUBSET Answer]
    BY <1>1, <2>2, <2>3, AnswerTypes DEF Users
  <2> QED
    BY <1>1, <2>2, <2>4, <2>5 DEF Users
<1>4. CASE OnExecution
  <2> DEFINE m == Head(inbox)
  <2>1. m \in Message /\ m.type = "execution" /\ Lists(m)
    BY <1>4, ReadKnown DEF OnExecution
  <2>2. /\ shown' = [o \in Orders |->
             IF o \in DOMAIN m.rows
             THEN ShownAs(m.rows[o].order, MapOrdStatus[m.rows[o].order.status])
             ELSE shown[o]]
        /\ answers' = [o \in Orders |->
             IF o \in DOMAIN m.rows THEN answers[o] \cup {ExecutionAnswer(m.rows[o].type)}
                                    ELSE answers[o]]
        /\ reported' = [t \in Trades |-> IF t \in Fills(m) THEN reported[t] + 1
                                                           ELSE reported[t]]
        /\ UNCHANGED account
    BY <1>4 DEF OnExecution
  <2> HIDE DEF m
  <2>3. \A o \in DOMAIN m.rows : /\ m.rows[o].order \in Order /\ m.rows[o].type \in ExecType
                                 /\ m.rows[o].order.status \in OrdStatus
    BY <2>1, ReadExecution DEF Lists
  <2>4. shown' \in [Orders -> View]
    BY <1>1, <2>2, <2>3, Shows DEF Users
  <2>5. answers' \in [Orders -> SUBSET Answer]
    BY <1>1, <2>2, <2>3, AnswerTypes DEF Users
  <2>6. reported' \in [Trades -> Nat]
    BY <1>1, <2>2 DEF Users
  <2> QED
    BY <1>1, <2>2, <2>4, <2>5, <2>6 DEF Users
<1>5. CASE OnPosition
  <2>1. Head(inbox) \in Message /\ Head(inbox).type = "position"
    BY <1>5, ReadKnown DEF OnPosition
  <2>2. Head(inbox).quantity \in Int
    BY <2>1 DEF Message
  <2>3. account' \in [long : Nat, short : Nat]
    BY <1>5, <2>2, Positions DEF OnPosition
  <2> QED
    BY <1>1, <1>5, <2>3 DEF OnPosition, Users
<1>6. CASE OnWelcome \/ OnOrderIgnored
  BY <1>2, <1>6 DEF OnWelcome, OnOrderIgnored
<1>7. CASE \/ TransportReady \/ TransportLost \/ OnTimer \/ Answering \/ TopicRefused
           \/ Tick \/ UNCHANGED vars
  BY <1>2, <1>7 DEF TransportReady, TransportLost, OnTimer, Answering, ExchangeSubscribes,
                    ExchangeWinds, TopicStarts, TopicRefused, Tick, vars
<1>8. CASE OrderChanges \/ SwitchFires
  BY <1>2, <1>8, Executing DEF Typed
<1> QED
  BY <1>3, <1>4, <1>5, <1>6, <1>7, <1>8 DEF Next, Handle

LEMMA TypedNext == Typed /\ [Next]_vars => Typed'
<1> SUFFICES ASSUME Typed, [Next]_vars PROVE Typed'
  OBVIOUS
<1>1. Flags /\ ClockType
  BY Zenon DEF Typed, TypeOK, Flags
<1>2. ClockType' /\ Timely'
  BY <1>1, ClockNext, TimelyNext
<1>3. Flags' /\ Wires' /\ Books' /\ Users'
  BY <1>1, FlagsNext, WiresNext, BooksNext, UsersNext
<1>4. fuse' \in 0..Timeout /\ readyFor' \in 0..Period + Delay + 1
  BY <1>2, Times DEF Timely, ClockType
<1>5. TypeOK'
  BY <1>2, <1>3, <1>4, Zenon
     DEF TypeOK, ClockType, Flags, Wires, Books, Users, TopicNames
<1> QED
  BY <1>2, <1>3, <1>5 DEF Typed, Wires, Books

(* Every variable of the drop copy session, its users and the exchange     *)
(* keeps its type.                                                         *)
THEOREM DropCopyTypes == Spec => []TypeOK
<1>1. Typed => TypeOK
  BY DEF Typed
<1> QED
  BY <1>1, TypedInit, TypedNext, PTL DEF Spec

LEMMA AlwaysTyped == Spec => []Typed
BY TypedInit, TypedNext, PTL DEF Spec

-------------------------------------------------------------------------------
(* What most steps leave alone, and what a connection that is down holds.  *)

LEMMA Elsewhere ==
  ASSUME \/ OnTimer \/ ExchangeSubscribes \/ ExchangeWinds \/ TopicRefused \/ Tick
         \/ UNCHANGED vars
  PROVE  UNCHANGED <<users, inbox, orders, position, topics, partial, ready, tape, unseen>>
BY DEF OnTimer, ExchangeSubscribes, ExchangeWinds, TopicRefused, Tick, vars, session, wire,
       exchange, seen

LEMMA Reading ==
  ASSUME Typed, NEW type, Receive(type)
  PROVE  /\ Head(inbox) = inbox[1] /\ 1 \in DOMAIN inbox
         /\ inbox[1] \in Message /\ inbox[1].type = type /\ Lists(inbox[1])
         /\ \A n \in DOMAIN inbox' : /\ n \in Nat /\ n >= 1 /\ n + 1 \in DOMAIN inbox
                                     /\ inbox'[n] = inbox[n + 1]
         /\ \A n \in DOMAIN inbox : /\ n \in Nat /\ n >= 1
                                    /\ n # 1 => /\ n - 1 \in DOMAIN inbox'
                                                /\ inbox'[n - 1] = inbox[n]
<1>1. inbox \in Seq(Message) /\ inbox # <<>> /\ inbox' = Tail(inbox)
  BY DEF Typed, TypeOK, Receive
<1>2. \A n \in DOMAIN inbox : n \in Nat /\ n >= 1
  BY <1>1
<1> QED
  BY <1>1, <1>2, Behind, ReadKnown

Down == link = "down" => /\ inbox = <<>> /\ outbox = <<>>
                         /\ pending = <<>> /\ topics = {}

LEMMA DownNext == Typed /\ Down /\ [Next]_vars => Down'
<1> SUFFICES ASSUME Typed, Down, [Next]_vars, link' = "down"
             PROVE  inbox' = <<>> /\ outbox' = <<>> /\ pending' = <<>> /\ topics' = {}
  BY DEF Down
<1>1. CASE TransportLost
  BY <1>1 DEF TransportLost
<1>2. CASE TransportReady
  BY <1>2 DEF TransportReady
<1>3. CASE \/ Handle \/ ExchangeSubscribes \/ ExchangeWinds
  <2>1. link = "up" /\ link' = link
    BY <1>3 DEF Handle, OnWelcome, OnOrderPartial, OnOrderIgnored, OnExecution, OnPosition,
                Receive, ExchangeSubscribes, ExchangeWinds, Serve
  <2> QED
    BY <2>1
<1>4. CASE OrderChanges \/ SwitchFires
  <2>1. TypeOK /\ inbox \in Seq(Message)
    BY DEF Typed, TypeOK
  <2>2. /\ position' \in Int /\ UNCHANGED <<link, outbox, pending, topics>>
    BY <1>4, <2>1, Executing
  <2>3. PICK rows \in Executions : Execute(rows)
    BY <1>4, <2>1, Executing
  <2> QED
    BY <2>1, <2>2, <2>3, Streamed DEF Down
<1>5. CASE TopicStarts \/ TopicRefused
  <2>1. pending # <<>> /\ link' = link
    BY <1>5 DEF TopicStarts, TopicRefused, wire
  <2> QED
    BY <2>1 DEF Down
<1>6. CASE OnTimer
  BY <1>6 DEF OnTimer, Down, exchange
<1>7. CASE Tick
  BY <1>7 DEF Tick, Down
<1>8. CASE UNCHANGED vars
  BY <1>8 DEF vars, Down, wire, exchange
<1> QED
  BY <1>1, <1>2, <1>3, <1>4, <1>5, <1>6, <1>7, <1>8 DEF Next, Answering

LEMMA AlwaysDown == Spec => [](Typed /\ Down)
<1>1. Init => Down
  BY DEF Init, Down
<1> QED
  BY <1>1, TypedInit, TypedNext, DownNext, PTL DEF Spec

-------------------------------------------------------------------------------
(* Fills.                                                                  *)

(* The trades on their way are on the tape, each of them once, and the     *)
(* next of an order is beyond all before.                                  *)
Sold ==
  /\ \A n \in DOMAIN inbox : TradesOf(inbox[n]) \subseteq tape
  /\ \A n, k \in DOMAIN inbox : n # k => TradesOf(inbox[n]) \cap TradesOf(inbox[k]) = {}
  /\ \A t \in tape : t[2] <= orders[t[1]].cum
Filled == FillsExact /\ Sold

LEMMA NoTrades ==
  ASSUME NEW m, m.type # "execution" \/ m = Silence
  PROVE  TradesOf(m) = {}
BY DEF TradesOf, Executed, Silence

LEMMA TradesTold ==
  ASSUME NEW rows
  PROVE  TradesOf(Told(rows)) = {<<o, rows[o].order.cum>> :
                                   o \in {p \in DOMAIN rows : rows[p].type = "TRADE"}}
BY DEF TradesOf, Executed, Told

(* A step that adds no trade and takes none.                               *)
LEMMA NoneSold ==
  ASSUME Filled, UNCHANGED <<reported, tape, orders>>,
         \A n \in DOMAIN inbox' : TradesOf(inbox'[n]) = {}
                                  \/ \E k \in DOMAIN inbox : TradesOf(inbox'[n]) = TradesOf(inbox[k]),
         \A k \in DOMAIN inbox : TradesOf(inbox[k]) = {}
                                 \/ \E n \in DOMAIN inbox' : TradesOf(inbox'[n]) = TradesOf(inbox[k]),
         \A n, k \in DOMAIN inbox' :
           n # k => TradesOf(inbox'[n]) \cap TradesOf(inbox'[k]) = {}
  PROVE  Filled'
<1>1. \A t \in Trades : (\A n \in DOMAIN inbox : t \notin TradesOf(inbox[n]))
                        <=> (\A n \in DOMAIN inbox' : t \notin TradesOf(inbox'[n]))
  OBVIOUS
<1>2. FillsExact'
  BY <1>1 DEF Filled, FillsExact
<1>3. Sold'
  BY DEF Filled, Sold
<1> QED
  BY <1>2, <1>3 DEF Filled

LEMMA ReadingSold ==
  ASSUME Typed, Filled, NEW type \in {"welcome", "order", "position"}, Receive(type),
         UNCHANGED <<reported, tape, orders>>
  PROVE  Filled'
<1>1. /\ 1 \in DOMAIN inbox /\ inbox[1].type # "execution"
      /\ \A n \in DOMAIN inbox' : n + 1 \in DOMAIN inbox /\ inbox'[n] = inbox[n + 1] /\ n \in Nat
      /\ \A n \in DOMAIN inbox : n # 1 => n - 1 \in DOMAIN inbox' /\ inbox'[n - 1] = inbox[n]
  BY Reading
<1>2. TradesOf(inbox[1]) = {}
  BY <1>1, NoTrades
<1>3. \A n, k \in DOMAIN inbox' :
        n # k => TradesOf(inbox'[n]) \cap TradesOf(inbox'[k]) = {}
  <2> SUFFICES ASSUME NEW n \in DOMAIN inbox', NEW k \in DOMAIN inbox', n # k
               PROVE  TradesOf(inbox[n + 1]) \cap TradesOf(inbox[k + 1]) = {}
    BY <1>1
  <2>1. n + 1 # k + 1 /\ n + 1 \in DOMAIN inbox /\ k + 1 \in DOMAIN inbox
    BY <1>1
  <2> QED
    BY <2>1, Zenon DEF Filled, Sold
<1> QED
  BY <1>1, <1>2, <1>3, NoneSold

LEMMA ExecutionSold ==
  ASSUME Typed, Filled, OnExecution
  PROVE  Filled'
<1> DEFINE m == inbox[1]
<1>1. /\ 1 \in DOMAIN inbox /\ Head(inbox) = m
      /\ \A n \in DOMAIN inbox' : /\ n \in Nat /\ n >= 1 /\ n + 1 \in DOMAIN inbox
                                  /\ inbox'[n] = inbox[n + 1]
      /\ \A n \in DOMAIN inbox : n # 1 => n - 1 \in DOMAIN inbox' /\ inbox'[n - 1] = inbox[n]
  BY Reading DEF OnExecution
<1>2. /\ reported' = [t \in Trades |-> IF t \in Fills(Head(inbox)) THEN reported[t] + 1
                                                                   ELSE reported[t]]
      /\ UNCHANGED <<tape, orders>>
  BY DEF OnExecution, exchange
<1>3. \A t \in Trades : reported'[t] = IF t \in TradesOf(m) THEN reported[t] + 1
                                                            ELSE reported[t]
  BY <1>1, <1>2 DEF Fills
<1>4. /\ TradesOf(m) \subseteq tape
      /\ \A k \in DOMAIN inbox : k # 1 => TradesOf(m) \cap TradesOf(inbox[k]) = {}
  BY <1>1 DEF Filled, Sold
<1> HIDE DEF m
<1>5. ASSUME NEW t \in Trades
      PROVE  reported'[t] = IF t \in tape' /\ \A n \in DOMAIN inbox' : t \notin TradesOf(inbox'[n])
                            THEN 1 ELSE 0
  <2>1. reported[t] = IF t \in tape /\ \A n \in DOMAIN inbox : t \notin TradesOf(inbox[n])
                      THEN 1 ELSE 0
    BY DEF Filled, FillsExact
  <2>2. CASE t \in TradesOf(m)
    <3>1. reported[t] = 0 /\ t \in tape
      BY <1>1, <1>4, <2>1, <2>2 DEF m
    <3>2. \A n \in DOMAIN inbox' : t \notin TradesOf(inbox'[n])
      <4> SUFFICES ASSUME NEW n \in DOMAIN inbox' PROVE t \notin TradesOf(inbox[n + 1])
        BY <1>1
      <4>1. n + 1 # 1 /\ n + 1 \in DOMAIN inbox
        BY <1>1
      <4> QED
        BY <1>4, <2>2, <4>1
    <3> QED
      BY <1>2, <1>3, <2>2, <3>1, <3>2
  <2>3. CASE t \notin TradesOf(m)
    <3>1. (\A n \in DOMAIN inbox : t \notin TradesOf(inbox[n]))
          <=> (\A n \in DOMAIN inbox' : t \notin TradesOf(inbox'[n]))
      BY <1>1, <2>3 DEF m
    <3> QED
      BY <1>2, <1>3, <2>1, <2>3, <3>1
  <2> QED
    BY <2>2, <2>3
<1>6. \A n, k \in DOMAIN inbox' :
        n # k => TradesOf(inbox'[n]) \cap TradesOf(inbox'[k]) = {}
  <2> SUFFICES ASSUME NEW n \in DOMAIN inbox', NEW k \in DOMAIN inbox', n # k
               PROVE  TradesOf(inbox[n + 1]) \cap TradesOf(inbox[k + 1]) = {}
    BY <1>1
  <2>1. n + 1 # k + 1 /\ n + 1 \in DOMAIN inbox /\ k + 1 \in DOMAIN inbox
    BY <1>1
  <2> QED
    BY <2>1, Zenon DEF Filled, Sold
<1>7. Sold'
  BY <1>1, <1>2, <1>6 DEF Filled, Sold
<1> QED
  BY <1>5, <1>7 DEF Filled, FillsExact

LEMMA ExecutingSold ==
  ASSUME Typed, Filled, OrderChanges \/ SwitchFires
  PROVE  Filled'
<1>1. /\ TypeOK /\ Placed /\ inbox \in Seq(Message) /\ orders \in [Orders -> Order]
      /\ tape \subseteq Trades
  BY DEF Typed, TypeOK
<1>2. PICK rows \in Executions : Lawful(rows) /\ Execute(rows)
  BY <1>1, Executing
<1>3. position' \in Int /\ UNCHANGED <<users, topics>>
  BY <1>1, Executing
<1> DEFINE new == TradesOf(Told(rows))
<1>4. \A o \in Orders : orders[o].cum <= orders'[o].cum
  <2> SUFFICES ASSUME NEW o \in Orders PROVE orders[o].cum <= orders'[o].cum
    OBVIOUS
  <2>1. orders[o].cum \in Nat
    BY <1>1, QuantityAssumption DEF Order
  <2>2. CASE o \in DOMAIN rows
    BY <1>1, <1>2, <2>2, Changed, ExecutesTo
  <2>3. CASE o \notin DOMAIN rows
    BY <1>1, <1>2, <2>1, <2>3, Changed
  <2> QED
    BY <2>2, <2>3
<1>5. \A t \in new : /\ t[2] = orders'[t[1]].cum /\ t[1] \in Orders
                     /\ orders[t[1]].cum < t[2] /\ t \notin tape
  <2> SUFFICES ASSUME NEW o \in DOMAIN rows, rows[o].type = "TRADE"
               PROVE  /\ rows[o].order.cum = orders'[o].cum /\ o \in Orders
                      /\ orders[o].cum < rows[o].order.cum
                      /\ <<o, rows[o].order.cum>> \notin tape
    BY TradesTold
  <2>1. /\ rows[o].order.cum = orders'[o].cum /\ o \in Orders
        /\ orders[o].cum < orders'[o].cum
    BY <1>1, <1>2, Changed, ExecutesTo
  <2>2. orders[o].cum \in Nat /\ orders'[o].cum \in Nat
    BY <1>1, <1>2, <2>1, Changed, QuantityAssumption DEF Order
  <2>3. ASSUME <<o, rows[o].order.cum>> \in tape PROVE FALSE
    <3>1. rows[o].order.cum <= orders[o].cum
      BY <2>3 DEF Filled, Sold
    <3> QED
      BY <2>1, <2>2, <3>1
  <2> QED
    BY <2>1, <2>3
<1>6. TradesOf(Updated(rows)) = {} /\ TradesOf(Positioned') = {}
  BY NoTrades DEF Updated, Positioned
<1>7. /\ \A n \in DOMAIN inbox : n \in DOMAIN inbox' /\ inbox'[n] = inbox[n] /\ n \in Nat
      /\ \A t \in tape : t[1] \in Orders /\ t[2] \in Nat
  BY <1>1, <1>2, <1>3, Streamed, QuantityAssumption DEF Trades
<1>8. \A t \in tape : t[2] <= orders'[t[1]].cum
  <2> SUFFICES ASSUME NEW t \in tape PROVE t[2] <= orders'[t[1]].cum
    OBVIOUS
  <2>1. t[2] <= orders[t[1]].cum /\ orders[t[1]].cum <= orders'[t[1]].cum
    BY <1>4, <1>7 DEF Filled, Sold
  <2>2. t[2] \in Nat /\ orders[t[1]].cum \in Nat /\ orders'[t[1]].cum \in Nat
    <3>1. orders[t[1]] \in Order /\ orders'[t[1]] \in Order
      BY <1>1, <1>2, <1>7, Changed
    <3> QED
      BY <1>7, <3>1, QuantityAssumption DEF Order
  <2> QED
    BY <2>1, <2>2
<1>9. CASE "execution" \in topics
  <2>1. tape' = tape \cup new
    BY <1>2, <1>9, Zenon DEF Execute, Told
  <2>2. PICK k \in DOMAIN inbox' :
          /\ inbox'[k] = Told(rows) /\ \A n \in DOMAIN inbox : n < k
          /\ \A n \in DOMAIN inbox' : n \in DOMAIN inbox \/ n = k
                                      \/ inbox'[n] = Updated(rows) \/ inbox'[n] = Positioned'
    BY <1>1, <1>2, <1>3, <1>9, Streamed
  <2> HIDE DEF new
  <2>3. /\ TradesOf(inbox'[k]) = new /\ k \notin DOMAIN inbox
        /\ \A n \in DOMAIN inbox' : n \in DOMAIN inbox \/ n = k \/ TradesOf(inbox'[n]) = {}
    BY <1>6, <1>7, <2>2 DEF new
  <2>4. FillsExact'
    <3> SUFFICES ASSUME NEW t \in Trades
                 PROVE  reported[t] =
                          IF t \in tape \cup new
                             /\ \A n \in DOMAIN inbox' : t \notin TradesOf(inbox'[n])
                          THEN 1 ELSE 0
      BY <1>3, <2>1 DEF FillsExact, users
    <3>1. reported[t] = IF t \in tape /\ \A n \in DOMAIN inbox : t \notin TradesOf(inbox[n])
                        THEN 1 ELSE 0
      BY DEF Filled, FillsExact
    <3>2. CASE t \in new
      BY <1>5, <2>3, <3>1, <3>2
    <3>3. CASE t \notin new
      BY <1>7, <2>3, <3>1, <3>3
    <3> QED
      BY <3>2, <3>3
  <2>5. \A n \in DOMAIN inbox' : TradesOf(inbox'[n]) \subseteq tape'
    BY <1>7, <2>1, <2>3 DEF Filled, Sold
  <2>6. ASSUME NEW n \in DOMAIN inbox', NEW j \in DOMAIN inbox', n # j
        PROVE  TradesOf(inbox'[n]) \cap TradesOf(inbox'[j]) = {}
    BY <1>5, <1>7, <2>3, <2>6 DEF Filled, Sold
  <2>7. \A t \in tape' : t[2] <= orders'[t[1]].cum
    <3>1. \A t \in new : t[2] <= orders'[t[1]].cum
      <4> SUFFICES ASSUME NEW t \in new PROVE t[2] <= orders'[t[1]].cum
        OBVIOUS
      <4>1. t[2] = orders'[t[1]].cum /\ orders'[t[1]] \in Order
        BY <1>1, <1>2, <1>5, Changed
      <4> QED
        BY <4>1, QuantityAssumption DEF Order
    <3> QED
      BY <1>8, <2>1, <3>1
  <2> QED
    BY <2>4, <2>5, <2>6, <2>7 DEF Filled, Sold
<1>10. CASE "execution" \notin topics
  <2>1. tape' = tape /\ UNCHANGED reported
    BY <1>2, <1>3, <1>10, Zenon DEF Execute, users
  <2>2. \A n \in DOMAIN inbox' : n \in DOMAIN inbox \/ TradesOf(inbox'[n]) = {}
    BY <1>1, <1>2, <1>3, <1>6, <1>10, Streamed
  <2>3. \A t \in Trades : (\A n \in DOMAIN inbox : t \notin TradesOf(inbox[n]))
                          <=> (\A n \in DOMAIN inbox' : t \notin TradesOf(inbox'[n]))
    BY <1>7, <2>2
  <2>4. FillsExact'
    BY <2>1, <2>3 DEF Filled, FillsExact
  <2>5. Sold'
    BY <1>7, <1>8, <2>1, <2>2 DEF Filled, Sold
  <2> QED
    BY <2>4, <2>5 DEF Filled
<1> QED
  BY <1>9, <1>10

LEMMA FilledNext == Typed /\ Down /\ Filled /\ [Next]_vars => Filled'
<1> SUFFICES ASSUME Typed, Down, Filled, [Next]_vars PROVE Filled'
  OBVIOUS
<1>1. inbox \in Seq(Message) /\ orders \in [Orders -> Order] /\ position \in Int
  BY DEF Typed, TypeOK
<1>2. CASE TransportReady
  <2>1. /\ inbox = <<>> /\ inbox' = <<[type |-> "welcome"]>>
        /\ UNCHANGED <<reported, tape, orders>>
    BY <1>2 DEF TransportReady, Down, users, exchange, seen
  <2>2. DOMAIN inbox = {} /\ DOMAIN inbox' = {1} /\ inbox'[1].type = "welcome"
    BY <2>1
  <2>3. TradesOf(inbox'[1]) = {}
    BY <2>2, NoTrades
  <2> QED
    BY <2>1, <2>2, <2>3, NoneSold
<1>3. CASE TransportLost
  <2>1. /\ inbox' = <<>> /\ UNCHANGED <<reported, orders>>
        /\ tape' = tape \ UNION {TradesOf(inbox[n]) : n \in DOMAIN inbox}
    BY <1>3 DEF TransportLost, users
  <2>2. DOMAIN inbox' = {}
    BY <2>1
  <2>3. FillsExact'
    <3> SUFFICES ASSUME NEW t \in Trades
                 PROVE  reported[t] = IF t \in tape' THEN 1 ELSE 0
      BY <2>1, <2>2 DEF FillsExact
    <3>1. t \in tape' <=> t \in tape /\ \A n \in DOMAIN inbox : t \notin TradesOf(inbox[n])
      BY <2>1
    <3> QED
      BY <3>1 DEF Filled, FillsExact
  <2>4. Sold'
    BY <2>1, <2>2 DEF Filled, Sold
  <2> QED
    BY <2>3, <2>4 DEF Filled
<1>4. CASE OnWelcome \/ OnOrderPartial \/ OnOrderIgnored \/ OnPosition
  <2>1. \E type \in {"welcome", "order", "position"} : Receive(type)
    BY <1>4 DEF OnWelcome, OnOrderPartial, OnOrderIgnored, OnPosition
  <2>2. UNCHANGED <<reported, tape, orders>>
    BY <1>4 DEF OnWelcome, OnOrderPartial, OnOrderIgnored, OnPosition, users, exchange, seen
  <2> QED
    BY <2>1, <2>2, ReadingSold
<1>5. CASE TopicStarts
  <2>1. UNCHANGED <<reported, tape, orders>>
    BY <1>5 DEF TopicStarts, users, seen
  <2>2. \A topic, m : Starts(topic, m) => TradesOf(m) = {}
    <3>1. Positioned.type # "execution"
          /\ \A closed : SnapshotOf(closed).type # "execution"
      BY DEF SnapshotOf, Positioned
    <3> QED
      BY <3>1, NoTrades, Zenon DEF Starts
  <2>3. /\ \A n \in DOMAIN inbox : n \in DOMAIN inbox' /\ inbox'[n] = inbox[n]
        /\ \A n \in DOMAIN inbox' : n \in DOMAIN inbox \/ TradesOf(inbox'[n]) = {}
    BY <1>1, <1>5, <2>2, Started
  <2>4. \A n, k \in DOMAIN inbox' :
          n # k => TradesOf(inbox'[n]) \cap TradesOf(inbox'[k]) = {}
    BY <2>3 DEF Filled, Sold
  <2> QED
    BY <2>1, <2>3, <2>4, NoneSold
<1>6. CASE \/ OnTimer \/ ExchangeSubscribes \/ ExchangeWinds \/ TopicRefused \/ Tick
           \/ UNCHANGED vars
  BY <1>6, Elsewhere DEF Filled, FillsExact, Sold, users
<1> QED
  BY <1>2, <1>3, <1>4, <1>5, <1>6, ExecutionSold, ExecutingSold DEF Next, Handle, Answering

(* A trade is reported to the users once if it was sent and has arrived,   *)
(* and never otherwise, for any number of orders, sessions and losses      *)
(* (drop_copy.cpp:466-502).                                                *)
THEOREM FillsOnce == Spec => []FillsExact
<1>1. Init => Filled
  BY DEF Init, Filled, FillsExact, Sold
<1>2. Filled => FillsExact
  BY DEF Filled
<1> QED
  BY <1>1, <1>2, FilledNext, AlwaysDown, PTL DEF Spec

-------------------------------------------------------------------------------
(* Answers.                                                                *)

IsPartial(m) == m.type = "order" /\ m.action = "PARTIAL"
Tells(m, o) == (m.type = "execution" \/ IsPartial(m)) /\ o \in DOMAIN m.rows

TrueOf(answer, order) ==
  /\ answer = <<"CANCEL_ORDER", "ACCEPTED">> => order.status = "CANCELED"
  /\ answer = <<"CREATE_ORDER", "ACCEPTED">> => order.status \notin {"NONE", "REJECTED"}
  /\ answer = <<"UNDEFINED", "REJECTED">> => order.status = "REJECTED"
AnswerOf(m, o) == IF m.type = "execution" THEN ExecutionAnswer(m.rows[o].type)
                                          ELSE SnapshotAnswer(m.rows[o])

(* Also the answers on their way are true.                                 *)
Honest(m) == \A o \in Orders : Tells(m, o) => TrueOf(AnswerOf(m, o), orders[o])
Answered == AnswersTrue /\ \A n \in DOMAIN inbox : Honest(inbox[n])

LEMMA StaysTrue ==
  ASSUME NEW old \in Order, NEW new \in Order, NEW type \in ExecType,
         Executes(type, old, new)
  PROVE  /\ \A answer : TrueOf(answer, old) => TrueOf(answer, new)
         /\ TrueOf(ExecutionAnswer(type), new)
<1>1. CASE type = "NEW"
  <2>1. old.status = "NONE" /\ new.status \in {"NEW", "UNTRIGGERED"}
    BY <1>1 DEF Executes, NoOrder
  <2> QED
    BY <1>1, <2>1 DEF TrueOf, ExecutionAnswer, ComputeRequestType, ComputeRequestStatus
<1>2. CASE type = "REJECTED"
  <2>1. old.status = "NONE" /\ new.status = "REJECTED"
    BY <1>2 DEF Executes, NoOrder
  <2> QED
    BY <1>2, <2>1 DEF TrueOf, ExecutionAnswer, ComputeRequestType, ComputeRequestStatus
<1>3. CASE type = "UNKNOWN"
  <2>1. new = Triggered(old) /\ Open(old)
    BY <1>3, Zenon DEF Executes, Triggered
  <2>2. new.status = "TRIGGERED" /\ old.status \notin {"CANCELED", "REJECTED"}
    BY <2>1, CancelsTo DEF Open
  <2> QED
    BY <1>3, <2>2 DEF TrueOf, ExecutionAnswer, ComputeRequestType, ComputeRequestStatus
<1>4. CASE type = "TRADE"
  <2>1. new.status \in {"PARTIALLY_FILLED", "FILLED"} /\ Open(old)
    BY <1>4 DEF Executes
  <2> QED
    BY <1>4, <2>1 DEF Open, TrueOf, ExecutionAnswer, ComputeRequestType, ComputeRequestStatus
<1>5. CASE type = "CANCELED"
  <2>1. new = Canceled(old) /\ Open(old)
    BY <1>5, Zenon DEF Executes, Canceled
  <2>2. new.status = "CANCELED" /\ old.status \notin {"CANCELED", "REJECTED"}
    BY <2>1, CancelsTo DEF Open
  <2> QED
    BY <1>5, <2>2 DEF TrueOf, ExecutionAnswer, ComputeRequestType, ComputeRequestStatus
<1>6. CASE type \in {"REPLACED", "CANCEL_REJECT"}
  <2>1. new = old
    BY <1>6 DEF Executes
  <2> QED
    BY <1>6, <2>1 DEF TrueOf, ExecutionAnswer, ComputeRequestType, ComputeRequestStatus
<1> QED
  BY <1>1, <1>2, <1>3, <1>4, <1>5, <1>6 DEF Executes

LEMMA ReadingAnswers ==
  ASSUME Typed, Answered, NEW type, Receive(type), UNCHANGED orders,
         \A o \in Orders : \A answer \in answers'[o] :
           answer \in answers[o] \/ (Tells(inbox[1], o) /\ answer = AnswerOf(inbox[1], o))
  PROVE  Answered'
<1>1. /\ 1 \in DOMAIN inbox
      /\ \A n \in DOMAIN inbox' : n + 1 \in DOMAIN inbox /\ inbox'[n] = inbox[n + 1]
  BY Reading
<1>2. ASSUME NEW o \in Orders, NEW answer \in answers'[o] PROVE TrueOf(answer, orders[o])
  <2>1. CASE answer \in answers[o]
    BY <2>1 DEF Answered, AnswersTrue, TrueOf
  <2>2. CASE Tells(inbox[1], o) /\ answer = AnswerOf(inbox[1], o)
    BY <1>1, <2>2 DEF Answered, Honest
  <2> QED
    BY <1>2, <2>1, <2>2
<1>3. AnswersTrue'
  BY <1>2 DEF AnswersTrue, TrueOf
<1>4. ASSUME NEW n \in DOMAIN inbox', NEW o \in Orders, Tells(inbox'[n], o)
      PROVE  TrueOf(AnswerOf(inbox'[n], o), orders'[o])
  <2>1. Honest(inbox[n + 1]) /\ inbox'[n] = inbox[n + 1]
    BY <1>1 DEF Answered
  <2> QED
    BY <1>4, <2>1 DEF Honest
<1> QED
  BY <1>3, <1>4 DEF Answered, Honest

LEMMA ExecutingAnswers ==
  ASSUME Typed, Answered, OrderChanges \/ SwitchFires
  PROVE  Answered'
<1>1. /\ TypeOK /\ Placed /\ inbox \in Seq(Message) /\ orders \in [Orders -> Order]
  BY DEF Typed, TypeOK
<1>2. PICK rows \in Executions : Lawful(rows) /\ Execute(rows)
  BY <1>1, Executing
<1>3. position' \in Int /\ UNCHANGED <<users, topics>>
  BY <1>1, Executing
<1>4. ASSUME NEW o \in Orders, NEW answer, TrueOf(answer, orders[o])
      PROVE  TrueOf(answer, orders'[o])
  BY <1>1, <1>2, <1>4, Changed, StaysTrue
<1>5. AnswersTrue'
  BY <1>3, <1>4 DEF Answered, AnswersTrue, TrueOf, users
<1>6. ASSUME NEW o \in DOMAIN rows
      PROVE  TrueOf(ExecutionAnswer(rows[o].type), orders'[o])
  BY <1>1, <1>2, Changed, StaysTrue
<1>7. ASSUME NEW n \in DOMAIN inbox', NEW o \in Orders, Tells(inbox'[n], o)
      PROVE  TrueOf(AnswerOf(inbox'[n], o), orders'[o])
  <2>1. CASE n \in DOMAIN inbox
    <3>1. inbox'[n] = inbox[n]
      BY <1>1, <1>2, <1>3, <2>1, Streamed
    <3> QED
      BY <1>4, <1>7, <2>1, <3>1 DEF Answered, Honest
  <2>2. CASE n \notin DOMAIN inbox
    <3>1. inbox'[n] = Told(rows) \/ inbox'[n] = Updated(rows) \/ inbox'[n] = Positioned'
      BY <1>1, <1>2, <1>3, <2>2, Streamed
    <3>2. ~Tells(Updated(rows), o) /\ ~Tells(Positioned', o)
      BY DEF Tells, IsPartial, Updated, Positioned
    <3>3. inbox'[n] = Told(rows) /\ o \in DOMAIN rows
      BY <1>7, <3>1, <3>2 DEF Tells, Told, IsPartial
    <3>4. AnswerOf(inbox'[n], o) = ExecutionAnswer(rows[o].type)
      BY <3>3 DEF AnswerOf, Told
    <3> QED
      BY <1>6, <3>3, <3>4
  <2> QED
    BY <2>1, <2>2
<1> QED
  BY <1>5, <1>7 DEF Answered, Honest

LEMMA StartingAnswers ==
  ASSUME Typed, Answered, TopicStarts
  PROVE  Answered'
<1>1. inbox \in Seq(Message) /\ orders \in [Orders -> Order] /\ position \in Int
  BY DEF Typed, TypeOK
<1>2. UNCHANGED <<answers, orders>>
  BY DEF TopicStarts, users
<1>3. ASSUME NEW topic, NEW m, Starts(topic, m) PROVE Honest(m)
  <2>1. CASE m = Silence \/ m = Positioned
    BY <2>1 DEF Honest, Tells, IsPartial, Silence, Positioned
  <2>2. ASSUME NEW closed \in SUBSET {o \in Orders : orders[o] # NoOrder},
               m = SnapshotOf(closed)
        PROVE  Honest(m)
    <3>1. \A o \in DOMAIN m.rows : m.rows[o] = orders[o]
      BY <1>1, <2>2, SnapshotMessage
    <3>2. m.type = "order"
      BY <1>1, <2>2, SnapshotMessage
    <3>3. \A order : TrueOf(SnapshotAnswer(order), order)
      BY DEF TrueOf, SnapshotAnswer
    <3> QED
      BY <3>1, <3>2, <3>3 DEF Honest, Tells, AnswerOf
  <2> QED
    BY <1>3, <2>1, <2>2 DEF Starts
<1>4. ASSUME NEW n \in DOMAIN inbox' PROVE Honest(inbox'[n])
  BY <1>1, <1>3, Started DEF Answered
<1> QED
  BY <1>2, <1>4 DEF Answered, AnswersTrue, Honest

LEMMA AnsweredNext == Typed /\ Answered /\ [Next]_vars => Answered'
<1> SUFFICES ASSUME Typed, Answered, [Next]_vars PROVE Answered'
  OBVIOUS
<1>1. CASE TransportReady
  <2>1. inbox' = <<[type |-> "welcome"]>> /\ UNCHANGED <<answers, orders>>
    BY <1>1 DEF TransportReady, users, exchange
  <2>2. DOMAIN inbox' = {1} /\ inbox'[1].type = "welcome"
    BY <2>1
  <2> QED
    BY <2>1, <2>2 DEF Answered, AnswersTrue, Honest, Tells, IsPartial
<1>2. CASE TransportLost
  <2>1. inbox' = <<>> /\ UNCHANGED <<answers, orders>>
    BY <1>2 DEF TransportLost, users
  <2> QED
    BY <2>1 DEF Answered, AnswersTrue
<1>3. CASE OnWelcome \/ OnOrderIgnored \/ OnPosition
  <2>1. PICK type : Receive(type)
    BY <1>3 DEF OnWelcome, OnOrderIgnored, OnPosition
  <2>2. UNCHANGED <<answers, orders>>
    BY <1>3 DEF OnWelcome, OnOrderIgnored, OnPosition, users, exchange
  <2>3. \A o \in Orders : \A answer \in answers'[o] : answer \in answers[o]
    BY <2>2
  <2> QED
    BY <2>1, <2>2, <2>3, ReadingAnswers
<1>4. CASE OnOrderPartial
  <2>1. /\ Receive("order") /\ UNCHANGED orders /\ Head(inbox).action = "PARTIAL"
        /\ answers' = [o \in Orders |->
             IF o \in DOMAIN Head(inbox).rows
             THEN answers[o] \cup {SnapshotAnswer(Head(inbox).rows[o])} ELSE answers[o]]
    BY <1>4 DEF OnOrderPartial, exchange
  <2>2. Head(inbox) = inbox[1] /\ inbox[1].type = "order"
    BY <2>1, Reading
  <2>3. \A o \in Orders : \A answer \in answers'[o] :
          answer \in answers[o] \/ (Tells(inbox[1], o) /\ answer = AnswerOf(inbox[1], o))
    BY <2>1, <2>2 DEF Tells, IsPartial, AnswerOf
  <2> QED
    BY <2>1, <2>3, ReadingAnswers
<1>5. CASE OnExecution
  <2>1. /\ Receive("execution") /\ UNCHANGED orders
        /\ answers' = [o \in Orders |->
             IF o \in DOMAIN Head(inbox).rows
             THEN answers[o] \cup {ExecutionAnswer(Head(inbox).rows[o].type)} ELSE answers[o]]
    BY <1>5 DEF OnExecution, exchange
  <2>2. Head(inbox) = inbox[1] /\ inbox[1].type = "execution"
    BY <2>1, Reading
  <2>3. \A o \in Orders : \A answer \in answers'[o] :
          answer \in answers[o] \/ (Tells(inbox[1], o) /\ answer = AnswerOf(inbox[1], o))
    BY <2>1, <2>2 DEF Tells, AnswerOf
  <2> QED
    BY <2>1, <2>3, ReadingAnswers
<1>6. CASE \/ OnTimer \/ ExchangeSubscribes \/ ExchangeWinds \/ TopicRefused \/ Tick
           \/ UNCHANGED vars
  BY <1>6, Elsewhere DEF Answered, AnswersTrue, Honest, users
<1> QED
  BY <1>1, <1>2, <1>3, <1>4, <1>5, <1>6, ExecutingAnswers, StartingAnswers
     DEF Next, Handle, Answering

(* The users are never told of an answer the exchange has not given, by a  *)
(* snapshot or by an execution, whatever is lost (utils.hpp:14-58,         *)
(* order_update.cpp:31-32).                                                *)
THEOREM AnswersStayTrue == Spec => []AnswersTrue
<1>1. Init => Answered
  BY DEF Init, Answered, AnswersTrue
<1>2. Answered => AnswersTrue
  BY DEF Answered
<1> QED
  BY <1>1, <1>2, AnsweredNext, AlwaysTyped, PTL DEF Spec

-------------------------------------------------------------------------------
(* The position.                                                           *)

(* The position last spoken of is the exchange's, on the wire or shown.    *)
Spoken ==
  "position" \in topics =>
    \/ \E n \in DOMAIN inbox :
         /\ inbox[n].type = "position" /\ inbox[n].quantity = position
         /\ \A k \in DOMAIN inbox : inbox[k].type = "position" => k <= n
    \/ /\ account = LongShort(position)
       /\ \A k \in DOMAIN inbox : inbox[k].type # "position"

LEMMA ReadingSpoken ==
  ASSUME Typed, Spoken, NEW type, Receive(type), UNCHANGED <<topics, position>>,
         account' = IF type = "position" THEN LongShort(inbox[1].quantity) ELSE account
  PROVE  Spoken'
<1> SUFFICES ASSUME "position" \in topics PROVE Spoken'
  BY DEF Spoken
<1>1. /\ 1 \in DOMAIN inbox /\ inbox[1].type = type
      /\ \A n \in DOMAIN inbox' : /\ n \in Nat /\ n >= 1 /\ n + 1 \in DOMAIN inbox
                                  /\ inbox'[n] = inbox[n + 1]
      /\ \A n \in DOMAIN inbox : /\ n \in Nat /\ n >= 1
                                 /\ n # 1 => n - 1 \in DOMAIN inbox' /\ inbox'[n - 1] = inbox[n]
  BY Reading
<1>2. CASE \E n \in DOMAIN inbox :
             /\ inbox[n].type = "position" /\ inbox[n].quantity = position
             /\ \A k \in DOMAIN inbox : inbox[k].type = "position" => k <= n
  <2>1. PICK n \in DOMAIN inbox :
             /\ inbox[n].type = "position" /\ inbox[n].quantity = position
             /\ \A k \in DOMAIN inbox : inbox[k].type = "position" => k <= n
    BY <1>2
  <2>2. CASE n = 1
    <3>1. \A k \in DOMAIN inbox' : inbox'[k].type # "position"
      BY <1>1, <2>1, <2>2
    <3> QED
      BY <1>1, <2>1, <2>2, <3>1 DEF Spoken
  <2>3. CASE n # 1
    <3>1. n - 1 \in DOMAIN inbox' /\ inbox'[n - 1] = inbox[n]
      BY <1>1, <2>3
    <3>2. \A k \in DOMAIN inbox' : inbox'[k].type = "position" => k <= n - 1
      BY <1>1, <2>1
    <3> QED
      BY <2>1, <3>1, <3>2 DEF Spoken
  <2> QED
    BY <2>2, <2>3
<1>3. CASE /\ account = LongShort(position)
           /\ \A k \in DOMAIN inbox : inbox[k].type # "position"
  <2>1. account' = account /\ \A k \in DOMAIN inbox' : inbox'[k].type # "position"
    BY <1>1, <1>3
  <2> QED
    BY <1>3, <2>1 DEF Spoken
<1> QED
  BY <1>2, <1>3 DEF Spoken

LEMMA ExecutingSpoken ==
  ASSUME Typed, Spoken, OrderChanges \/ SwitchFires
  PROVE  Spoken'
<1>1. TypeOK /\ inbox \in Seq(Message)
  BY DEF Typed, TypeOK
<1>2. PICK rows \in Executions : Execute(rows)
  BY <1>1, Executing
<1>3. position' \in Int /\ UNCHANGED topics
  BY <1>1, Executing
<1>4. ASSUME "position" \in topics
      PROVE  \E n \in DOMAIN inbox' :
               /\ inbox'[n].type = "position" /\ inbox'[n].quantity = position'
               /\ \A k \in DOMAIN inbox' : k <= n
  <2>1. PICK n \in DOMAIN inbox' : inbox'[n] = Positioned' /\ \A k \in DOMAIN inbox' : k <= n
    BY <1>1, <1>2, <1>3, <1>4, Streamed
  <2> QED
    BY <2>1 DEF Positioned
<1> QED
  BY <1>3, <1>4 DEF Spoken

LEMMA StartingSpoken ==
  ASSUME Typed, Spoken, TopicStarts
  PROVE  Spoken'
<1>1. /\ inbox \in Seq(Message) /\ orders \in [Orders -> Order] /\ position \in Int
      /\ \A n \in DOMAIN inbox : n \in Nat
  BY DEF Typed, TypeOK
<1>2. UNCHANGED <<account, position>> /\ topics' = topics \cup {Head(pending)}
  BY DEF TopicStarts, users
<1> SUFFICES ASSUME "position" \in topics' PROVE Spoken'
  BY DEF Spoken
<1>3. CASE inbox' = inbox
  <2>1. "position" \in topics
    BY <1>1, <1>2, <1>3, Started
  <2> QED
    BY <1>2, <1>3, <2>1 DEF Spoken
<1>4. CASE \E k \in DOMAIN inbox' : /\ Starts(Head(pending), inbox'[k])
                                    /\ DOMAIN inbox' = DOMAIN inbox \cup {k}
                                    /\ \A n \in DOMAIN inbox : n < k
                                    /\ k \notin DOMAIN inbox
  <2>1. PICK k \in DOMAIN inbox' : /\ Starts(Head(pending), inbox'[k])
                                   /\ DOMAIN inbox' = DOMAIN inbox \cup {k}
                                   /\ \A n \in DOMAIN inbox : n < k
                                   /\ k \notin DOMAIN inbox
    BY <1>4
  <2>2. /\ \A n \in DOMAIN inbox : inbox'[n] = inbox[n]
        /\ inbox' \in Seq(Message)
    BY <1>1, Started
  <2>3. k \in Nat
    BY <2>2
  <2>4. CASE Head(pending) = "position"
    <3>1. inbox'[k] = Positioned
      BY <2>1, <2>4, Zenon DEF Starts
    <3>2. inbox'[k].type = "position" /\ inbox'[k].quantity = position
      BY <3>1 DEF Positioned
    <3>3. \A n \in DOMAIN inbox' : n <= k
      BY <1>1, <2>1, <2>3
    <3> QED
      BY <1>2, <3>2, <3>3 DEF Spoken
  <2>5. CASE Head(pending) # "position"
    <3>1. "position" \in topics
      BY <1>2, <2>5
    <3>2. inbox'[k].type # "position"
      <4>1. Silence.type # "position" /\ \A closed : SnapshotOf(closed).type # "position"
        BY DEF Silence, SnapshotOf
      <4> QED
        BY <2>1, <2>5, <4>1, Zenon DEF Starts
    <3> QED
      BY <1>2, <2>1, <2>2, <3>1, <3>2 DEF Spoken
  <2> QED
    BY <2>4, <2>5
<1> QED
  BY <1>1, <1>3, <1>4, Started

LEMMA SpokenNext == Typed /\ Down /\ Spoken /\ [Next]_vars => Spoken'
<1> SUFFICES ASSUME Typed, Down, Spoken, [Next]_vars PROVE Spoken'
  OBVIOUS
<1>1. CASE TransportReady \/ TransportLost
  <2>1. topics' = {}
    BY <1>1 DEF TransportReady, TransportLost, Down, exchange
  <2> QED
    BY <2>1 DEF Spoken
<1>2. CASE OnWelcome \/ OnOrderIgnored \/ OnOrderPartial \/ OnExecution
  <2>1. PICK type \in {"welcome", "order", "execution"} : Receive(type)
    BY <1>2 DEF OnWelcome, OnOrderIgnored, OnOrderPartial, OnExecution
  <2>2. UNCHANGED <<topics, position, account>>
    BY <1>2 DEF OnWelcome, OnOrderIgnored, OnOrderPartial, OnExecution, users, exchange
  <2> QED
    BY <2>1, <2>2, ReadingSpoken
<1>3. CASE OnPosition
  <2>1. /\ Receive("position") /\ UNCHANGED <<topics, position>>
        /\ account' = LongShort(Head(inbox).quantity)
    BY <1>3 DEF OnPosition, exchange
  <2>2. Head(inbox) = inbox[1]
    BY <2>1, Reading
  <2> QED
    BY <2>1, <2>2, ReadingSpoken
<1>4. CASE \/ OnTimer \/ ExchangeSubscribes \/ ExchangeWinds \/ TopicRefused \/ Tick
           \/ UNCHANGED vars
  BY <1>4, Elsewhere DEF Spoken, users
<1> QED
  BY <1>1, <1>2, <1>3, <1>4, ExecutingSpoken, StartingSpoken DEF Next, Handle, Answering

(* With every message read, the position shown is the exchange's, on one   *)
(* side only, whatever traded while nobody listened (drop_copy.cpp:        *)
(* 515-539).                                                               *)
THEOREM PositionFollows == Spec => []PositionCurrent
<1>1. Init => Spoken
  BY DEF Init, Spoken
<1>2. Typed /\ Spoken => PositionCurrent
  <2> SUFFICES ASSUME Typed, Spoken, "position" \in topics, inbox = <<>>
               PROVE  /\ account.long - account.short = position
                      /\ account.long = 0 \/ account.short = 0
    BY DEF PositionCurrent
  <2>1. account = LongShort(position) /\ position \in Int
    BY DEF Spoken, Typed, TypeOK
  <2> QED
    BY <2>1, Positions
<1> QED
  BY <1>1, <1>2, SpokenNext, AlwaysDown, PTL DEF Spec

-------------------------------------------------------------------------------
(* The order of a session: Welcome, the subscription, the topics one by    *)
(* one, and of orders a single PARTIAL.                                    *)

Subscriptions == {n \in DOMAIN outbox : outbox[n].op = "subscribe"}
Partials == {n \in DOMAIN inbox : IsPartial(inbox[n])}
Fresh == pending = <<>> /\ topics = {} /\ ~partial
Orderly == <<"order", "margin", "position">>
Waiting == {<<>>, <<"position">>, <<"margin", "position">>, Orderly, Topics}

Asked ==
  /\ pending \in Waiting
  /\ link = "down" => ~partial
  /\ (\E n \in DOMAIN inbox : inbox[n].type = "welcome") =>
       Fresh /\ Subscriptions = {} /\ inbox = <<[type |-> "welcome"]>>
  /\ Subscriptions # {} => Fresh /\ inbox = <<>>
  /\ \A n, k \in Subscriptions : n = k
  /\ Partials # {} \/ partial => pending # Topics /\ pending # Orderly
  /\ partial => Partials = {}
  /\ \A n, k \in Partials : n = k
  /\ ready => partial
  /\ "execution" \notin topics => \A n \in DOMAIN inbox : Executed(inbox[n]) = {}

LEMMA WaitingNext ==
  /\ <<>> \in Waiting /\ Topics \in Waiting /\ Topics # <<>> /\ Orderly # Topics
  /\ \A s \in Waiting : s # <<>> =>
       /\ Tail(s) \in Waiting /\ Tail(s) # Topics
       /\ s = Topics <=> Head(s) = "execution"
       /\ s = Orderly <=> Head(s) = "order"
       /\ Tail(s) = Orderly <=> s = Topics
<1>1. /\ Len(Topics) = 4 /\ Len(Orderly) = 3 /\ Len(<<"margin", "position">>) = 2
      /\ Len(<<"position">>) = 1
      /\ Head(Topics) = "execution" /\ Head(Orderly) = "order"
      /\ Head(<<"margin", "position">>) = "margin" /\ Head(<<"position">>) = "position"
  BY DEF Topics, Orderly
<1>2. /\ Tail(Topics) = Orderly /\ Tail(Orderly) = <<"margin", "position">>
      /\ Tail(<<"margin", "position">>) = <<"position">> /\ Tail(<<"position">>) = <<>>
  BY DEF Topics, Orderly
<1>3. Len(<<>>) = 0
  OBVIOUS
<1>4. /\ \A s \in {Topics, Orderly, <<"margin", "position">>, <<"position">>} : s # <<>>
      /\ Topics # Orderly
      /\ Topics \notin {<<"margin", "position">>, <<"position">>, <<>>}
      /\ Orderly \notin {<<"margin", "position">>, <<"position">>, <<>>}
  BY <1>1, <1>3, <1>2, SMTT(30)
<1>5. \A s \in Waiting : s # <<>> =>
        s \in {Topics, Orderly, <<"margin", "position">>, <<"position">>}
  BY DEF Waiting
<1>6. /\ <<>> \in Waiting /\ Topics \in Waiting /\ Orderly \in Waiting
      /\ <<"margin", "position">> \in Waiting /\ <<"position">> \in Waiting
  BY DEF Waiting
<1> HIDE DEF Topics, Orderly
<1> QED
  BY <1>1, <1>2, <1>4, <1>5, <1>6

LEMMA OneSubscription ==
  ASSUME outbox \in Seq(Request), outbox' = outbox \o WelcomeRequests, Subscriptions = {}
  PROVE  \A n, k \in Subscriptions' : n = k
<1> DEFINE a == SendSubscribe
           b == SendCancelAllAfter(0)
<1>1. a \in Request /\ b \in Request /\ b.op # "subscribe"
  BY Requests
<1> HIDE DEF a, b
<1>2. outbox' = outbox \o <<a>> \/ outbox' = outbox \o <<a, b>>
  BY DEF WelcomeRequests, a, b
<1>3. ASSUME NEW n \in DOMAIN outbox', outbox'[n].op = "subscribe"
      PROVE  n = Len(outbox) + 1
  <2>1. n \notin DOMAIN outbox
    <3>1. ASSUME n \in DOMAIN outbox PROVE outbox'[n] = outbox[n]
      BY <1>1, <1>2, <3>1
    <3> QED
      BY <1>3, <3>1 DEF Subscriptions
  <2>2. CASE outbox' = outbox \o <<a>>
    BY <1>1, <2>1, <2>2
  <2>3. CASE outbox' = outbox \o <<a, b>>
    <3>1. n = Len(outbox) + 1 \/ n = Len(outbox) + 2
      BY <1>1, <2>1, <2>3
    <3>2. outbox'[Len(outbox) + 2] = b
      BY <1>1, <2>3
    <3> QED
      BY <1>1, <1>3, <3>1, <3>2
  <2> QED
    BY <1>2, <2>2, <2>3
<1> QED
  BY <1>3 DEF Subscriptions

(* A step that reads a message, other than Welcome.                        *)
LEMMA ReadingAsked ==
  ASSUME Typed, Asked, NEW type \in {"order", "execution", "position"}, Receive(type),
         UNCHANGED <<link, outbox, pending, topics>>,
         \/ UNCHANGED <<partial, ready>>
         \/ IsPartial(inbox[1]) /\ partial'
  PROVE  Asked'
<1>1. /\ 1 \in DOMAIN inbox /\ inbox[1].type = type
      /\ \A n \in DOMAIN inbox' : /\ n \in Nat /\ n >= 1 /\ n + 1 \in DOMAIN inbox
                                  /\ inbox'[n] = inbox[n + 1]
  BY Reading
<1>2. inbox # <<>>
  BY DEF Receive
<1>3. /\ Subscriptions = {} /\ Subscriptions' = {} /\ link = "up"
      /\ \A n \in DOMAIN inbox : inbox[n].type # "welcome"
  <2>1. Subscriptions = {}
    BY <1>2 DEF Asked
  <2>2. inbox # <<[type |-> "welcome"]>>
    BY <1>1
  <2> QED
    BY <2>1, <2>2 DEF Asked, Subscriptions, Receive
<1>4. \A n \in Partials' : n + 1 \in Partials /\ n >= 1 /\ n \in Nat
  BY <1>1 DEF Partials
<1>5. \A n, k \in Partials' : n = k
  BY <1>4 DEF Asked
<1>6. CASE UNCHANGED <<partial, ready>>
  <2>1. Partials' # {} => Partials # {}
    BY <1>4
  <2> QED
    BY <1>1, <1>3, <1>5, <1>6, <2>1 DEF Asked
<1>7. CASE IsPartial(inbox[1]) /\ partial'
  <2>1. 1 \in Partials
    BY <1>1, <1>7 DEF Partials
  <2>2. Partials' = {}
    BY <1>4, <2>1 DEF Asked
  <2> QED
    BY <1>1, <1>3, <1>7, <2>1, <2>2 DEF Asked
<1> QED
  BY <1>6, <1>7

LEMMA ExecutingAsked ==
  ASSUME Typed, Asked, OrderChanges \/ SwitchFires
  PROVE  Asked'
<1>1. TypeOK /\ inbox \in Seq(Message)
  BY DEF Typed, TypeOK
<1>2. PICK rows \in Executions : Execute(rows)
  BY <1>1, Executing
<1>3. /\ position' \in Int
      /\ UNCHANGED <<link, outbox, pending, topics, partial, ready>>
  BY <1>1, Executing DEF session
<1>4. CASE topics = {}
  <2>1. inbox' = inbox
    BY <1>1, <1>2, <1>3, <1>4, Streamed
  <2>2. Subscriptions' = Subscriptions /\ Partials' = Partials /\ (Fresh' <=> Fresh)
    BY <1>3, <2>1 DEF Subscriptions, Partials, Fresh
  <2> QED
    BY <1>3, <2>1, <2>2 DEF Asked
<1>5. CASE topics # {}
  <2>1. Subscriptions = {} /\ Subscriptions' = {}
        /\ \A n \in DOMAIN inbox : inbox[n].type # "welcome"
    BY <1>3, <1>5 DEF Asked, Fresh, Subscriptions
  <2>2. /\ ~IsPartial(Told(rows)) /\ ~IsPartial(Updated(rows)) /\ ~IsPartial(Positioned')
        /\ Told(rows).type # "welcome" /\ Updated(rows).type # "welcome"
        /\ Positioned'.type # "welcome"
        /\ Executed(Updated(rows)) = {} /\ Executed(Positioned') = {}
    BY DEF IsPartial, Told, Updated, Positioned, Executed
  <2>3. \A n \in DOMAIN inbox' :
          \/ n \in DOMAIN inbox /\ inbox'[n] = inbox[n]
          \/ inbox'[n] \in {Told(rows), Updated(rows), Positioned'}
    BY <1>1, <1>2, <1>3, Streamed
  <2>4. Partials' = Partials
    BY <1>1, <1>2, <1>3, <2>2, <2>3, Streamed DEF Partials
  <2>5. \A n \in DOMAIN inbox' : inbox'[n].type # "welcome"
    BY <2>1, <2>2, <2>3
  <2>6. "execution" \notin topics => \A n \in DOMAIN inbox' : Executed(inbox'[n]) = {}
    BY <1>1, <1>2, <1>3, <2>2, Streamed DEF Asked
  <2> QED
    BY <1>3, <2>1, <2>4, <2>5, <2>6 DEF Asked
<1> QED
  BY <1>4, <1>5

LEMMA StartingAsked ==
  ASSUME Typed, Asked, Down, TopicStarts \/ TopicRefused
  PROVE  Asked'
<1>1. /\ inbox \in Seq(Message) /\ orders \in [Orders -> Order] /\ position \in Int
  BY DEF Typed, TypeOK
<1>2. /\ pending # <<>> /\ pending' = Tail(pending) /\ pending \in Waiting
      /\ UNCHANGED <<link, outbox, partial, ready>> /\ link = "up"
  BY DEF TopicStarts, TopicRefused, session, wire, Asked, Down, Typed, TypeOK
<1>3. /\ pending' \in Waiting /\ pending' # Topics
      /\ pending' = Orderly => pending = Topics
      /\ pending = Orderly <=> Head(pending) = "order"
      /\ pending = Topics <=> Head(pending) = "execution"
      /\ pending = Orderly => pending' # Orderly
  BY <1>2, WaitingNext
<1>4. /\ Subscriptions = {} /\ Subscriptions' = {}
      /\ \A n \in DOMAIN inbox : inbox[n].type # "welcome"
  BY <1>2 DEF Asked, Fresh, Subscriptions
<1>5. CASE inbox' = inbox
  <2>1. Partials' = Partials /\ ("execution" \notin topics' => "execution" \notin topics)
    BY <1>5 DEF Partials, TopicStarts, TopicRefused
  <2> QED
    BY <1>2, <1>3, <1>4, <1>5, <2>1 DEF Asked
<1>6. CASE TopicStarts /\ \E k \in DOMAIN inbox' : /\ Starts(Head(pending), inbox'[k])
                                                   /\ DOMAIN inbox' = DOMAIN inbox \cup {k}
                                                   /\ \A n \in DOMAIN inbox : n < k
                                                   /\ k \notin DOMAIN inbox
  <2>1. PICK k \in DOMAIN inbox' : /\ Starts(Head(pending), inbox'[k])
                                   /\ DOMAIN inbox' = DOMAIN inbox \cup {k}
                                   /\ k \notin DOMAIN inbox
    BY <1>6
  <2>2. \A n \in DOMAIN inbox : inbox'[n] = inbox[n]
    BY <1>1, <1>6, Started
  <2>3. /\ Silence.type # "welcome" /\ Positioned.type # "welcome"
        /\ ~IsPartial(Silence) /\ ~IsPartial(Positioned)
        /\ Executed(Silence) = {} /\ Executed(Positioned) = {}
        /\ \A closed : /\ SnapshotOf(closed).type # "welcome"
                       /\ Executed(SnapshotOf(closed)) = {}
    BY DEF Silence, Positioned, SnapshotOf, IsPartial, Executed
  <2>4. inbox'[k].type # "welcome" /\ Executed(inbox'[k]) = {}
        /\ (IsPartial(inbox'[k]) => pending = Orderly)
    BY <1>3, <2>1, <2>3, Zenon DEF Starts
  <2>5. /\ \A n \in Partials' : n \in Partials \/ (n = k /\ pending = Orderly)
        /\ Partials \subseteq Partials'
    BY <2>1, <2>2, <2>4 DEF Partials
  <2>6. pending = Orderly => Partials = {} /\ ~partial
    BY DEF Asked
  <2>7. "execution" \notin topics' => "execution" \notin topics
    BY <1>6 DEF TopicStarts
  <2>8. "execution" \notin topics' => \A n \in DOMAIN inbox' : Executed(inbox'[n]) = {}
    BY <2>1, <2>2, <2>4, <2>7 DEF Asked
  <2>9. \A n \in DOMAIN inbox' : inbox'[n].type # "welcome"
    BY <1>4, <2>1, <2>2, <2>4
  <2>10. pending' = Orderly => Partials' = {} /\ ~partial
    <3>1. pending' = Orderly => Partials = {} /\ ~partial /\ pending # Orderly
      BY <1>3 DEF Asked
    <3> QED
      BY <2>5, <3>1
  <2>11. (\A n, j \in Partials' : n = j) /\ (partial => Partials' = {})
    BY <2>5, <2>6 DEF Asked
  <2> QED
    BY <1>2, <1>3, <1>4, <2>8, <2>9, <2>10, <2>11 DEF Asked
<1>7. CASE TopicRefused
  BY <1>5, <1>7 DEF TopicRefused, wire
<1> QED
  BY <1>1, <1>5, <1>6, <1>7, Started

LEMMA AskedNext == Typed /\ Down /\ Asked /\ [Next]_vars => Asked'
<1> SUFFICES ASSUME Typed, Down, Asked, [Next]_vars PROVE Asked'
  OBVIOUS
<1>1. outbox \in Seq(Request) /\ inbox \in Seq(Message) /\ ClockType
  BY DEF Typed, TypeOK
<1>2. CASE TransportReady
  <2>1. /\ inbox' = <<[type |-> "welcome"]>> /\ outbox' = <<>> /\ pending' = <<>>
        /\ topics' = {} /\ partial' = FALSE /\ ~ready' /\ link' = "up"
    BY <1>2 DEF TransportReady, Down, Asked, exchange, Typed, TypeOK
  <2>2. DOMAIN inbox' = {1} /\ inbox'[1].type = "welcome" /\ Subscriptions' = {}
    BY <2>1 DEF Subscriptions
  <2>3. Partials' = {} /\ Executed(inbox'[1]) = {}
    BY <2>2 DEF Partials, IsPartial, Executed
  <2> QED
    BY <2>1, <2>2, <2>3, WaitingNext DEF Asked, Fresh
<1>3. CASE TransportLost
  <2>1. /\ inbox' = <<>> /\ outbox' = <<>> /\ pending' = <<>> /\ topics' = {}
        /\ partial' = FALSE /\ ready' = FALSE
    BY <1>3 DEF TransportLost, ForgetSession
  <2>2. Partials' = {} /\ Subscriptions' = {}
    BY <2>1 DEF Partials, Subscriptions
  <2> QED
    BY <2>1, <2>2, WaitingNext DEF Asked
<1>4. CASE OnWelcome
  <2>1. /\ Receive("welcome") /\ outbox' = outbox \o WelcomeRequests
        /\ UNCHANGED <<link, pending, topics, partial, ready>>
    BY <1>4 DEF OnWelcome, exchange
  <2>2. \E n \in DOMAIN inbox : inbox[n].type = "welcome"
    BY <2>1, Reading
  <2>3. Fresh /\ Subscriptions = {} /\ inbox = <<[type |-> "welcome"]>>
    BY <2>2 DEF Asked
  <2>4. inbox' = <<>>
    BY <2>1, <2>3 DEF Receive
  <2>5. \A n, k \in Subscriptions' : n = k
    BY <1>1, <2>1, <2>3, OneSubscription
  <2>6. Partials' = {} /\ Fresh'
    BY <2>1, <2>3, <2>4 DEF Partials, Fresh
  <2> QED
    BY <2>1, <2>3, <2>4, <2>5, <2>6, WaitingNext DEF Asked, Fresh
<1>5. CASE OnOrderPartial
  <2>1. /\ Receive("order") /\ Head(inbox).action = "PARTIAL" /\ partial'
        /\ UNCHANGED <<link, outbox, pending, topics>>
    BY <1>5 DEF OnOrderPartial, exchange
  <2>2. IsPartial(inbox[1])
    BY <2>1, Reading DEF IsPartial
  <2> QED
    BY <2>1, <2>2, ReadingAsked
<1>6. CASE OnOrderIgnored \/ OnExecution \/ OnPosition
  <2>1. PICK type \in {"order", "execution", "position"} : Receive(type)
    BY <1>6 DEF OnOrderIgnored, OnExecution, OnPosition
  <2>2. UNCHANGED <<link, outbox, pending, topics, partial, ready>>
    BY <1>6 DEF OnOrderIgnored, OnExecution, OnPosition, session, exchange
  <2> QED
    BY <2>1, <2>2, ReadingAsked
<1>7. CASE OnTimer \/ Tick \/ UNCHANGED vars
  <2>1. UNCHANGED <<inbox, link, pending, topics, partial, ready>>
    BY <1>7 DEF OnTimer, Tick, vars, session, wire, exchange
  <2>2. Subscriptions' = Subscriptions
    <3>1. CASE outbox' = outbox
      BY <3>1 DEF Subscriptions
    <3>2. CASE outbox' = Append(outbox, SendCancelAllAfter(CancelAllAfter))
      BY <1>1, <3>2, Requests, Appended DEF Subscriptions
    <3>3. CASE Tick
      BY <1>1, <3>3, OlderWire DEF Subscriptions
    <3> QED
      BY <1>7, <3>1, <3>2, <3>3 DEF OnTimer, vars, wire
  <2>3. Partials' = Partials /\ (Fresh' <=> Fresh)
    BY <2>1 DEF Partials, Fresh
  <2> QED
    BY <2>1, <2>2, <2>3 DEF Asked
<1>8. CASE ExchangeWinds
  <2>1. /\ outbox # <<>> /\ outbox' = Tail(outbox)
        /\ UNCHANGED <<inbox, link, pending, topics, partial, ready>>
    BY <1>8 DEF ExchangeWinds, Serve, session
  <2>2. \A n \in Subscriptions' : n + 1 \in Subscriptions /\ n \in Nat
    <3>1. \A n \in DOMAIN outbox' : n \in Nat
      BY <1>1, <2>1
    <3> QED
      BY <1>1, <2>1, <3>1, Served DEF Subscriptions
  <2>3. Partials' = Partials /\ (Fresh' <=> Fresh)
    BY <2>1 DEF Partials, Fresh
  <2>4. \A n, k \in Subscriptions' : n = k
    BY <2>2 DEF Asked
  <2>5. Subscriptions' # {} => Subscriptions # {}
    BY <2>2
  <2> QED
    BY <2>1, <2>3, <2>4, <2>5 DEF Asked
<1>9. CASE ExchangeSubscribes
  <2>1. /\ outbox # <<>> /\ outbox' = Tail(outbox) /\ Head(outbox).op = "subscribe"
        /\ pending' = pending \o Topics
        /\ UNCHANGED <<inbox, link, topics, partial, ready>>
    BY <1>9 DEF ExchangeSubscribes, Serve, session
  <2>2. 1 \in Subscriptions
    BY <1>1, <2>1, Served DEF Subscriptions
  <2>3. Subscriptions' = {}
    <3>1. \A n \in Subscriptions' : n + 1 \in Subscriptions /\ n \in Nat /\ n >= 1
      <4>1. \A n \in DOMAIN outbox' : n \in Nat /\ n >= 1
        BY <1>1, <2>1
      <4> QED
        BY <1>1, <2>1, <4>1, Served DEF Subscriptions
    <3> QED
      BY <2>2, <3>1 DEF Asked
  <2>4. Fresh /\ inbox = <<>>
    BY <2>2 DEF Asked
  <2>5. pending' = Topics
    BY <2>1, <2>4 DEF Fresh, Topics
  <2>6. link = "up"
    BY <1>9 DEF ExchangeSubscribes, Serve
  <2>7. Partials' = {} /\ ~partial' /\ ~ready'
    BY <2>1, <2>4 DEF Partials, Fresh, Asked
  <2> QED
    BY <2>1, <2>3, <2>4, <2>5, <2>6, <2>7, WaitingNext DEF Asked
<1> QED
  BY <1>2, <1>3, <1>4, <1>5, <1>6, <1>7, <1>8, <1>9, ExecutingAsked, StartingAsked
     DEF Next, Handle, Answering

-------------------------------------------------------------------------------
(* What is shown of the orders.                                            *)

Later(o, n) == \E k \in DOMAIN inbox : k > n /\ o \in Executed(inbox[k])
Untold(o) == \A n \in DOMAIN inbox : o \notin Executed(inbox[n])

(* The last execution of an order on its way is true of it; a snapshot is, *)
(* unless an execution follows or the exchange is not asked for any; what  *)
(* is shown is, with neither; and a snapshot leaves no open order out.     *)
LastTrue(o) ==
  \A n \in DOMAIN inbox :
    o \in Executed(inbox[n]) /\ ~Later(o, n) => inbox[n].rows[o].order = orders[o]
SnapshotTrue(o) ==
  \A n \in Partials :
    o \in DOMAIN inbox[n].rows /\ ~Later(o, n) =>
      inbox[n].rows[o] = orders[o] \/ ("execution" \notin topics /\ o \in unseen)
EndTrue(o) ==
  ~Open(orders[o]) /\ orders[o] # NoOrder /\ o \notin unseen /\ Untold(o) =>
    Says(shown[o], orders[o])
NoneLeftOut(o) ==
  "execution" \in topics /\ Open(orders[o]) =>
    \A n \in Partials : o \in DOMAIN inbox[n].rows \/ Later(o, n)
OpenTrue(o) ==
  "execution" \in topics /\ Open(orders[o]) /\ partial /\ Untold(o) =>
    Says(shown[o], orders[o])

Follows(o) == /\ LastTrue(o) /\ SnapshotTrue(o) /\ EndTrue(o)
              /\ NoneLeftOut(o) /\ OpenTrue(o)
Followed == \A o \in Orders : Follows(o)

(* Of an order the step says nothing of.                                   *)
LEMMA UntouchedFollows ==
  ASSUME NEW o \in Orders, Follows(o),
         orders'[o] = orders[o], shown'[o] = shown[o],
         o \in unseen' <=> o \in unseen,
         "execution" \in topics' <=> "execution" \in topics,
         partial' = partial, Partials' = Partials,
         \A n \in DOMAIN inbox : n \in DOMAIN inbox' /\ inbox'[n] = inbox[n],
         \A n \in DOMAIN inbox' : n \in DOMAIN inbox \/ o \notin Executed(inbox'[n])
  PROVE  Follows(o)'
<1>1. /\ \A n : Later(o, n)' <=> Later(o, n)
      /\ Untold(o)' <=> Untold(o)
  BY DEF Later, Untold
<1>2. \A n \in Partials : n \in DOMAIN inbox
  BY DEF Partials
<1>3. LastTrue(o)'
  BY <1>1 DEF LastTrue, Follows
<1>4. SnapshotTrue(o)' /\ NoneLeftOut(o)'
  BY <1>1, <1>2 DEF SnapshotTrue, NoneLeftOut, Follows
<1>5. EndTrue(o)' /\ OpenTrue(o)'
  BY <1>1 DEF EndTrue, OpenTrue, Follows
<1> QED
  BY <1>3, <1>4, <1>5 DEF Follows

LEMMA ReadingFollows ==
  ASSUME Typed, NEW o \in Orders, Follows(o), NEW type, Receive(type),
         UNCHANGED <<orders, topics>>,
         \/ o \in unseen => o \in unseen'
         \/ Partials' = {}
         \/ "execution" \in topics
  PROVE  /\ LastTrue(o)' /\ SnapshotTrue(o)' /\ NoneLeftOut(o)'
         /\ Untold(o)' /\ o \notin Executed(inbox[1]) => Untold(o)
         /\ Untold(o)' => ~Later(o, 1)
<1>1. /\ 1 \in DOMAIN inbox
      /\ \A n \in DOMAIN inbox' : /\ n \in Nat /\ n >= 1 /\ n + 1 \in DOMAIN inbox
                                  /\ inbox'[n] = inbox[n + 1]
      /\ \A n \in DOMAIN inbox : /\ n \in Nat /\ n >= 1
                                 /\ n # 1 => /\ n - 1 \in DOMAIN inbox'
                                             /\ inbox'[n - 1] = inbox[n]
  BY Reading
<1>2. ASSUME NEW n \in DOMAIN inbox'
      PROVE  Later(o, n)' <=> Later(o, n + 1)
  <2>1. ASSUME NEW k \in DOMAIN inbox', k > n, o \in Executed(inbox'[k])
        PROVE  k + 1 \in DOMAIN inbox /\ k + 1 > n + 1 /\ o \in Executed(inbox[k + 1])
    BY <1>1, <2>1
  <2>2. ASSUME NEW k \in DOMAIN inbox, k > n + 1, o \in Executed(inbox[k])
        PROVE  k - 1 \in DOMAIN inbox' /\ k - 1 > n /\ o \in Executed(inbox'[k - 1])
    BY <1>1, <2>2
  <2> QED
    BY <2>1, <2>2 DEF Later
<1>3. \A n \in Partials' : n + 1 \in Partials /\ n \in DOMAIN inbox'
  BY <1>1 DEF Partials
<1>4. LastTrue(o)'
  BY <1>1, <1>2 DEF LastTrue, Follows
<1>5. SnapshotTrue(o)'
  BY <1>1, <1>2, <1>3 DEF SnapshotTrue, Follows
<1>6. NoneLeftOut(o)'
  BY <1>1, <1>2, <1>3 DEF NoneLeftOut, Follows
<1>7. ASSUME Untold(o)'
      PROVE  \A n \in DOMAIN inbox : n # 1 => o \notin Executed(inbox[n])
  BY <1>1, <1>7 DEF Untold
<1> QED
  BY <1>1, <1>4, <1>5, <1>6, <1>7 DEF Untold, Later

LEMMA SnapshotFollows ==
  ASSUME Typed, Asked, Followed, OnOrderPartial
  PROVE  Followed'
<1> SUFFICES ASSUME NEW o \in Orders PROVE Follows(o)'
  BY DEF Followed
<1> DEFINE rows == inbox[1].rows
<1>1. Receive("order") /\ Head(inbox).action = "PARTIAL"
  BY DEF OnOrderPartial
<1>2. /\ Head(inbox) = inbox[1] /\ inbox[1] \in Message /\ inbox[1].type = "order"
      /\ Lists(inbox[1]) /\ 1 \in DOMAIN inbox
  BY <1>1, Reading
<1>3. /\ UNCHANGED <<orders, topics>> /\ partial'
      /\ unseen' = unseen \ {p \in DOMAIN rows : rows[p] = orders[p]}
      /\ shown'[o] = IF o \in DOMAIN rows
                     THEN ShownAs(rows[o], ComputeOrderStatus(rows[o].status, rows[o].working))
                     ELSE shown[o]
  BY <1>2 DEF OnOrderPartial, exchange
<1>4. 1 \in Partials
  BY <1>1, <1>2 DEF Partials, IsPartial
<1>5. Partials' = {}
  <2>1. \A n \in Partials' : n + 1 \in Partials /\ n >= 1 /\ n \in Nat
    BY <1>1, Reading DEF Partials
  <2> QED
    BY <1>4, <2>1 DEF Asked
<1>6. Executed(inbox[1]) = {}
  BY <1>2 DEF Executed
<1>7. Follows(o)
  BY DEF Followed
<1>8. LastTrue(o)' /\ SnapshotTrue(o)' /\ NoneLeftOut(o)'
  BY <1>1, <1>3, <1>5, <1>7, ReadingFollows
<1>9. Untold(o)' => Untold(o) /\ ~Later(o, 1)
  BY <1>1, <1>3, <1>5, <1>6, <1>7, ReadingFollows
<1>10. ASSUME o \in DOMAIN rows, rows[o] = orders[o]
       PROVE  Says(shown'[o], orders'[o])
  <2>1. rows[o] \in Order /\ rows[o].status \in OrdStatus
    BY <1>2, <1>10, ReadOrder DEF Lists
  <2> QED
    BY <1>3, <1>10, <2>1, Shows
<1>11. EndTrue(o)'
  <2> SUFFICES ASSUME ~Open(orders[o]), orders[o] # NoOrder, o \notin unseen', Untold(o)'
               PROVE  Says(shown'[o], orders'[o])
    BY <1>3 DEF EndTrue
  <2>1. CASE o \in DOMAIN rows
    <3>1. rows[o] = orders[o] \/ o \in unseen
      BY <1>4, <1>7, <1>9, <2>1 DEF SnapshotTrue, Follows
    <3> QED
      BY <1>3, <1>10, <2>1, <3>1
  <2>2. CASE o \notin DOMAIN rows
    BY <1>3, <1>7, <1>9, <2>2 DEF EndTrue, Follows
  <2> QED
    BY <2>1, <2>2
<1>12. OpenTrue(o)'
  <2> SUFFICES ASSUME "execution" \in topics, Open(orders[o]), Untold(o)'
               PROVE  Says(shown'[o], orders'[o])
    BY <1>3 DEF OpenTrue
  <2>1. o \in DOMAIN rows
    BY <1>4, <1>7, <1>9 DEF NoneLeftOut, Follows
  <2>2. rows[o] = orders[o]
    BY <1>4, <1>7, <1>9, <2>1 DEF SnapshotTrue, Follows
  <2> QED
    BY <1>10, <2>1, <2>2
<1> QED
  BY <1>8, <1>11, <1>12 DEF Follows

LEMMA ExecutionFollows ==
  ASSUME Typed, Asked, Followed, OnExecution
  PROVE  Followed'
<1> SUFFICES ASSUME NEW o \in Orders PROVE Follows(o)'
  BY DEF Followed
<1> DEFINE rows == inbox[1].rows
<1>1. Receive("execution")
  BY DEF OnExecution
<1>2. /\ Head(inbox) = inbox[1] /\ inbox[1] \in Message /\ inbox[1].type = "execution"
      /\ Lists(inbox[1]) /\ 1 \in DOMAIN inbox
  BY <1>1, Reading
<1>3. /\ UNCHANGED <<orders, topics, partial>>
      /\ unseen' = unseen \ DOMAIN rows
      /\ shown'[o] = IF o \in DOMAIN rows
                     THEN ShownAs(rows[o].order, MapOrdStatus[rows[o].order.status])
                     ELSE shown[o]
  BY <1>2 DEF OnExecution, exchange, session
<1>4. Executed(inbox[1]) = DOMAIN rows
  BY <1>2 DEF Executed
<1>5. Follows(o)
  BY DEF Followed
<1>6. "execution" \in topics \/ o \notin DOMAIN rows
  BY <1>2, <1>4 DEF Asked
<1>7. (o \in unseen => o \in unseen') \/ "execution" \in topics
  BY <1>3, <1>6
<1>8. LastTrue(o)' /\ SnapshotTrue(o)' /\ NoneLeftOut(o)'
  BY <1>1, <1>3, <1>5, <1>7, ReadingFollows
<1>9. /\ Untold(o)' /\ o \notin DOMAIN rows => Untold(o)
      /\ Untold(o)' => ~Later(o, 1)
  BY <1>1, <1>3, <1>4, <1>5, <1>7, ReadingFollows
<1>10. CASE o \in DOMAIN rows
  <2>1. ASSUME Untold(o)' PROVE Says(shown'[o], orders'[o])
    <3>1. rows[o].order = orders[o]
      BY <1>2, <1>4, <1>5, <1>9, <1>10, <2>1 DEF LastTrue, Follows
    <3>2. rows[o].order \in Order /\ rows[o].order.status \in OrdStatus
      BY <1>2, <1>10, ReadExecution DEF Lists
    <3> QED
      BY <1>3, <1>10, <3>1, <3>2, Shows
  <2> QED
    BY <1>8, <2>1 DEF Follows, EndTrue, OpenTrue
<1>11. CASE o \notin DOMAIN rows
  <2>1. EndTrue(o)' /\ OpenTrue(o)'
    BY <1>3, <1>5, <1>9, <1>11 DEF EndTrue, OpenTrue, Follows
  <2> QED
    BY <1>8, <2>1 DEF Follows
<1> QED
  BY <1>10, <1>11

LEMMA ExecutingFollows ==
  ASSUME Typed, Asked, Followed, OrderChanges \/ SwitchFires
  PROVE  Followed'
<1> SUFFICES ASSUME NEW o \in Orders PROVE Follows(o)'
  BY DEF Followed
<1>1. TypeOK /\ Placed /\ inbox \in Seq(Message)
  BY DEF Typed, TypeOK
<1>2. PICK rows \in Executions : Lawful(rows) /\ Execute(rows)
  BY <1>1, Executing
<1>3. position' \in Int /\ UNCHANGED <<shown, partial, topics>>
  BY <1>1, Executing DEF users, session
<1>4. /\ \A n \in DOMAIN inbox : n \in DOMAIN inbox' /\ inbox'[n] = inbox[n]
      /\ o \in DOMAIN rows => orders'[o] = rows[o].order
      /\ o \notin DOMAIN rows => orders'[o] = orders[o]
  BY <1>1, <1>2, <1>3, Streamed, Changed
<1>5. /\ ~IsPartial(Told(rows)) /\ ~IsPartial(Updated(rows)) /\ ~IsPartial(Positioned')
      /\ Executed(Updated(rows)) = {} /\ Executed(Positioned') = {}
      /\ Executed(Told(rows)) = DOMAIN rows /\ Told(rows).rows = rows
  BY DEF IsPartial, Told, Updated, Positioned, Executed
<1>6. \A n \in DOMAIN inbox' : n \in DOMAIN inbox \/ ~IsPartial(inbox'[n])
  BY <1>1, <1>2, <1>3, <1>5, Streamed
<1>7. Partials' = Partials
  BY <1>4, <1>6 DEF Partials
<1>8. Follows(o)
  BY DEF Followed
<1>9. CASE "execution" \in topics
  <2>1. unseen' = unseen
    BY <1>2, <1>9, Zenon DEF Execute
  <2>2. PICK k \in DOMAIN inbox' :
          /\ inbox'[k] = Told(rows) /\ \A n \in DOMAIN inbox : n < k
          /\ \A n \in DOMAIN inbox' : n \in DOMAIN inbox \/ n = k
                                      \/ inbox'[n] = Updated(rows) \/ inbox'[n] = Positioned'
    BY <1>1, <1>2, <1>3, <1>9, Streamed
  <2>3. CASE o \in DOMAIN rows
    <3>1. o \in Executed(inbox'[k]) /\ inbox'[k].rows[o].order = orders'[o]
      BY <1>4, <1>5, <2>2, <2>3
    <3>2. \A n \in DOMAIN inbox : Later(o, n)'
      <4> SUFFICES ASSUME NEW n \in DOMAIN inbox
                   PROVE  \E j \in DOMAIN inbox' : j > n /\ o \in Executed(inbox'[j])
        BY DEF Later
      <4>1. k > n
        BY <2>2
      <4> QED
        BY <3>1, <4>1
    <3>3. ~Untold(o)'
      BY <3>1 DEF Untold
    <3>4. \A n \in DOMAIN inbox' : n \in DOMAIN inbox \/ n = k \/ o \notin Executed(inbox'[n])
      BY <1>5, <2>2
    <3>5. LastTrue(o)'
      BY <3>1, <3>2, <3>4 DEF LastTrue
    <3>6. \A n \in Partials' : n \in DOMAIN inbox
      BY <1>7 DEF Partials
    <3>7. SnapshotTrue(o)' /\ NoneLeftOut(o)'
      BY <3>2, <3>6 DEF SnapshotTrue, NoneLeftOut
    <3> QED
      BY <3>3, <3>5, <3>7 DEF Follows, EndTrue, OpenTrue
  <2>4. CASE o \notin DOMAIN rows
    <3>1. \A n \in DOMAIN inbox' : n \in DOMAIN inbox \/ o \notin Executed(inbox'[n])
      BY <1>5, <2>2, <2>4
    <3> QED
      BY <1>3, <1>4, <1>7, <1>8, <2>1, <2>4, <3>1, UntouchedFollows
  <2> QED
    BY <2>3, <2>4
<1>10. CASE "execution" \notin topics
  <2>1. unseen' = unseen \cup DOMAIN rows
    BY <1>2, <1>10, Zenon DEF Execute
  <2>2. \A n \in DOMAIN inbox' : n \in DOMAIN inbox \/ o \notin Executed(inbox'[n])
    BY <1>1, <1>2, <1>3, <1>5, <1>10, Streamed
  <2>3. CASE o \in DOMAIN rows
    <3>1. \A n \in DOMAIN inbox' : o \notin Executed(inbox'[n])
      BY <1>4, <1>10, <2>2 DEF Asked
    <3>2. o \in unseen' /\ "execution" \notin topics'
      BY <1>3, <1>10, <2>1, <2>3
    <3> QED
      BY <3>1, <3>2 DEF Follows, LastTrue, SnapshotTrue, EndTrue, NoneLeftOut, OpenTrue
  <2>4. CASE o \notin DOMAIN rows
    BY <1>3, <1>4, <1>7, <1>8, <2>1, <2>2, <2>4, UntouchedFollows
  <2> QED
    BY <2>3, <2>4
<1> QED
  BY <1>9, <1>10

LEMMA StartingFollows ==
  ASSUME Typed, Asked, Followed, TopicStarts
  PROVE  Followed'
<1> SUFFICES ASSUME NEW o \in Orders PROVE Follows(o)'
  BY DEF Followed
<1>1. /\ inbox \in Seq(Message) /\ orders \in [Orders -> Order] /\ position \in Int
  BY DEF Typed, TypeOK
<1>2. /\ UNCHANGED <<orders, shown, partial, unseen>>
      /\ topics' = topics \cup {Head(pending)} /\ pending # <<>> /\ pending \in Waiting
  BY DEF TopicStarts, users, session, seen, Asked
<1>3. Follows(o)
  BY DEF Followed
<1>4. /\ Executed(Silence) = {} /\ ~IsPartial(Silence)
      /\ Executed(Positioned) = {} /\ ~IsPartial(Positioned)
      /\ \A closed : Executed(SnapshotOf(closed)) = {}
  BY DEF Silence, Positioned, SnapshotOf, IsPartial, Executed
<1>5. ASSUME NEW n \in DOMAIN inbox', n \notin DOMAIN inbox
      PROVE  Starts(Head(pending), inbox'[n])
  BY <1>1, <1>5, Started
<1>6. /\ \A n \in DOMAIN inbox : n \in DOMAIN inbox' /\ inbox'[n] = inbox[n]
      /\ \A n \in DOMAIN inbox' : n \in DOMAIN inbox \/ o \notin Executed(inbox'[n])
  <2>1. \A m : Starts(Head(pending), m) => Executed(m) = {}
    BY <1>4, Zenon DEF Starts
  <2> QED
    BY <1>1, <1>5, <2>1, Started
<1>7. CASE Head(pending) # "execution" /\ Partials' = Partials
  BY <1>2, <1>3, <1>6, <1>7, UntouchedFollows
<1>8. /\ \A n : Later(o, n)' <=> Later(o, n)
      /\ Untold(o)' <=> Untold(o)
  BY <1>6 DEF Later, Untold
<1>9. LastTrue(o)'
  BY <1>2, <1>3, <1>6, <1>8 DEF LastTrue, Follows
<1>10. EndTrue(o)'
  BY <1>2, <1>3, <1>8 DEF EndTrue, Follows
<1>11. CASE Head(pending) = "execution"
  <2>1. Partials = {} /\ ~partial
    BY <1>2, <1>11, WaitingNext DEF Asked
  <2>2. \A n \in DOMAIN inbox' : n \in DOMAIN inbox \/ ~IsPartial(inbox'[n])
    <3>1. \A m : Starts("execution", m) => ~IsPartial(m)
      BY <1>4, Zenon DEF Starts
    <3> QED
      BY <1>5, <1>11, <3>1
  <2>3. Partials' = {}
    BY <1>6, <2>1, <2>2 DEF Partials
  <2>4. SnapshotTrue(o)' /\ NoneLeftOut(o)' /\ OpenTrue(o)'
    BY <1>2, <2>1, <2>3 DEF SnapshotTrue, NoneLeftOut, OpenTrue
  <2> QED
    BY <1>9, <1>10, <2>4 DEF Follows
<1>12. CASE Head(pending) = "order"
  <2>1. ASSUME NEW n \in DOMAIN inbox', n \notin DOMAIN inbox
        PROVE  /\ \A p \in DOMAIN inbox'[n].rows : inbox'[n].rows[p] = orders[p]
               /\ OpenOrders \subseteq DOMAIN inbox'[n].rows
    <3>1. Starts("order", inbox'[n])
      BY <1>5, <1>12, <2>1
    <3>2. PICK closed \in SUBSET {p \in Orders : orders[p] # NoOrder} :
            inbox'[n] = SnapshotOf(closed)
      BY <3>1, Zenon DEF Starts
    <3> QED
      BY <1>1, <3>2, SnapshotMessage
  <2>2. \A n \in Partials' : n \in DOMAIN inbox' /\ (n \in DOMAIN inbox => n \in Partials)
    BY <1>6 DEF Partials
  <2>3. SnapshotTrue(o)'
    BY <1>2, <1>3, <1>6, <1>8, <1>12, <2>1, <2>2 DEF SnapshotTrue, Follows
  <2>4. NoneLeftOut(o)'
    <3>1. Open(orders[o]) => o \in OpenOrders
      BY DEF OpenOrders
    <3> QED
      BY <1>2, <1>3, <1>6, <1>8, <1>12, <2>1, <2>2, <3>1 DEF NoneLeftOut, Follows
  <2>5. OpenTrue(o)'
    BY <1>2, <1>3, <1>8, <1>12 DEF OpenTrue, Follows
  <2> QED
    BY <1>9, <1>10, <2>3, <2>4, <2>5 DEF Follows
<1>13. CASE Head(pending) \notin {"execution", "order"}
  <2>1. \A m : Starts(Head(pending), m) => ~IsPartial(m)
    BY <1>4, <1>13, Zenon DEF Starts
  <2>2. Partials' = Partials
    BY <1>5, <1>6, <2>1 DEF Partials
  <2> QED
    BY <1>7, <1>13, <2>2
<1> QED
  BY <1>11, <1>12, <1>13

LEMMA FollowedNext == Typed /\ Down /\ Asked /\ Followed /\ [Next]_vars => Followed'
<1> SUFFICES ASSUME Typed, Down, Asked, Followed, [Next]_vars PROVE Followed'
  OBVIOUS
<1>1. CASE TransportReady
  <2>1. /\ inbox = <<>> /\ inbox' = <<[type |-> "welcome"]>>
        /\ UNCHANGED <<orders, shown, partial, unseen, topics>>
    BY <1>1 DEF TransportReady, Down, users, exchange, seen
  <2>2. DOMAIN inbox = {} /\ DOMAIN inbox' = {1} /\ inbox'[1].type = "welcome"
    BY <2>1
  <2>3. Partials = {} /\ Partials' = {} /\ Executed(inbox'[1]) = {}
    BY <2>2 DEF Partials, IsPartial, Executed
  <2>4. ASSUME NEW o \in Orders PROVE Follows(o)'
    BY <2>1, <2>2, <2>3, UntouchedFollows DEF Followed
  <2> QED
    BY <2>4 DEF Followed
<1>2. CASE TransportLost
  <2>1. /\ inbox' = <<>> /\ topics' = {} /\ UNCHANGED <<orders, shown>>
        /\ unseen' = unseen \cup UNION {Executed(inbox[n]) : n \in DOMAIN inbox}
    BY <1>2 DEF TransportLost, users
  <2>2. DOMAIN inbox' = {} /\ Partials' = {}
    BY <2>1 DEF Partials
  <2>3. ASSUME NEW o \in Orders PROVE Follows(o)'
    <3>1. o \notin unseen' => o \notin unseen /\ Untold(o)
      BY <2>1 DEF Untold
    <3>2. EndTrue(o)'
      BY <2>1, <3>1 DEF EndTrue, Followed, Follows
    <3> QED
      BY <2>1, <2>2, <3>2 DEF Follows, LastTrue, SnapshotTrue, NoneLeftOut, OpenTrue
  <2> QED
    BY <2>3 DEF Followed
<1>3. CASE OnWelcome \/ OnOrderIgnored \/ OnPosition
  <2>1. PICK type \in {"welcome", "order", "position"} : Receive(type)
    BY <1>3 DEF OnWelcome, OnOrderIgnored, OnPosition
  <2>2. UNCHANGED <<orders, shown, partial, unseen, topics>>
    BY <1>3 DEF OnWelcome, OnOrderIgnored, OnPosition, session, users, exchange, seen
  <2>3. Executed(inbox[1]) = {}
    BY <2>1, Reading DEF Executed
  <2>4. ASSUME NEW o \in Orders PROVE Follows(o)'
    <3>1. Follows(o)
      BY DEF Followed
    <3>2. LastTrue(o)' /\ SnapshotTrue(o)' /\ NoneLeftOut(o)' /\ (Untold(o)' => Untold(o))
      BY <2>1, <2>2, <2>3, <3>1, ReadingFollows
    <3>3. EndTrue(o)' /\ OpenTrue(o)'
      BY <2>2, <3>1, <3>2 DEF EndTrue, OpenTrue, Follows
    <3> QED
      BY <3>2, <3>3 DEF Follows
  <2> QED
    BY <2>4 DEF Followed
<1>4. CASE \/ OnTimer \/ ExchangeSubscribes \/ ExchangeWinds \/ TopicRefused \/ Tick
           \/ UNCHANGED vars
  <2>1. UNCHANGED <<shown, inbox, orders, topics, partial, unseen>>
    BY <1>4, Elsewhere DEF users
  <2>2. Partials' = Partials
    BY <2>1 DEF Partials
  <2>3. ASSUME NEW o \in Orders PROVE Follows(o)'
    BY <2>1, <2>2, UntouchedFollows DEF Followed
  <2> QED
    BY <2>3 DEF Followed
<1> QED
  BY <1>1, <1>2, <1>3, <1>4, SnapshotFollows, ExecutionFollows, ExecutingFollows,
     StartingFollows DEF Next, Handle, Answering

(* A READY session that has read all shows what is open as it is, and what *)
(* has ended as the exchange said, however executions and the snapshot mix *)
(* and whatever was lost before (drop_copy.cpp:268-279 and 381-394).       *)
THEOREM OrdersFollow == Spec => []OrdersCurrent
<1> DEFINE Inv == Typed /\ Down /\ Asked /\ Followed
<1>1. Init => Asked
  <2> SUFFICES ASSUME Init PROVE Asked
    OBVIOUS
  <2>1. inbox = <<>> /\ outbox = <<>> /\ pending = <<>> /\ topics = {} /\ ~partial /\ ~ready
    BY DEF Init
  <2>2. Partials = {} /\ Subscriptions = {}
    BY <2>1 DEF Partials, Subscriptions
  <2> QED
    BY <2>1, <2>2, WaitingNext DEF Asked
<1>2. Init => Followed
  <2> SUFFICES ASSUME Init, NEW o \in Orders PROVE Follows(o)
    BY DEF Followed
  <2>1. inbox = <<>> /\ topics = {} /\ orders[o] \in {NoOrder, Resting}
    BY DEF Init
  <2>2. orders[o] # NoOrder => Open(orders[o])
    BY <2>1 DEF Resting, Open
  <2> QED
    BY <2>1, <2>2 DEF Follows, LastTrue, SnapshotTrue, EndTrue, NoneLeftOut, OpenTrue,
                      Partials
<1>3. Inv => OrdersCurrent
  <2> SUFFICES ASSUME Inv, ready, "execution" \in topics, inbox = <<>>, NEW o \in Orders,
                      Open(orders[o]) \/ (o \notin unseen /\ orders[o] # NoOrder)
               PROVE  Says(shown[o], orders[o])
    BY DEF OrdersCurrent
  <2>1. Untold(o) /\ partial /\ Follows(o)
    BY DEF Untold, Asked, Followed
  <2> QED
    BY <2>1 DEF Follows, EndTrue, OpenTrue
<1>4. Inv /\ [Next]_vars => Inv'
  BY TypedNext, DownNext, AskedNext, FollowedNext
<1>5. Init => Inv
  BY <1>1, <1>2, TypedInit DEF Init, Down
<1> QED
  BY <1>3, <1>4, <1>5, PTL DEF Spec

===============================================================================
