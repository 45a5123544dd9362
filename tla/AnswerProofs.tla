------------------------------ MODULE AnswerProofs ------------------------------
(***************************************************************************)
(* What an answer means in OrderEntry, for any number of orders,           *)
(* connections and requests.  First that a request which timed out undone  *)
(* is never done, if requests expire before the gateway gives them up;     *)
(* then that a request comes to its fate once; at last that an answer is   *)
(* true: what is accepted was done, and what is refused for a reason was   *)
(* refused for it.                                                         *)
(***************************************************************************)
EXTENDS ShownProofs, SequenceTheorems

-------------------------------------------------------------------------------
(* The invariant: nobody awaits the answer of an orphan any more, and it   *)
(* did not time out.                                                       *)

TimedOut(id) == Told(id, {"TIMEOUT"})
Orphaned == \A id \in orphans : ~Waiting(id) /\ ~TimedOut(id)

LEMMA TimedOutWaitsNoMore ==
  ASSUME AnsweredOnce, NEW id \in Ids, TimedOut(id)
  PROVE  ~Waiting(id)
<1>1. Final(id) # {}
  BY DEF TimedOut, Told, Final
<1> QED
  BY <1>1 DEF AnsweredOnce

(* Orphans stay what they are while their entries have the same answers.   *)
LEMMA OrphansKept ==
  ASSUME Orphaned, NEW S, orphans' = S, S \subseteq orphans,
         \A id \in S : /\ Waiting(id)' => Waiting(id)
                       /\ Request(id)'.answers = Request(id).answers
  PROVE  Orphaned'
<1> SUFFICES ASSUME NEW id \in S
             PROVE  ~Waiting(id)' /\ ~TimedOut(id)'
  BY DEF Orphaned
<1>1. ~Waiting(id) /\ ~TimedOut(id)
  BY DEF Orphaned
<1>2. Request(id)'.answers = Request(id).answers
  OBVIOUS
<1>3. ~TimedOut(id)'
  BY <1>1, <1>2 DEF TimedOut, Told
<1> QED
  BY <1>1, <1>3

-------------------------------------------------------------------------------
(* Entries.                                                                *)

Unchanged(j) ==
  \A id \in Ids : /\ j[id[1]][id[2]].answers = Request(id).answers
                  /\ j[id[1]][id[2]].fate = Request(id).fate

(* A new entry changes no other.                                           *)
LEMMA ForwardUnchanged ==
  ASSUME JournalType, NEW t, NEW entry, Forward(t, entry)
  PROVE  Unchanged(journal')
<1>1. PICK e : journal' = [journal EXCEPT ![t] = Append(@, e)]
  BY DEF Forward
<1> SUFFICES ASSUME NEW id \in Ids
             PROVE  journal'[id[1]][id[2]] = Request(id)
  BY DEF Unchanged
<1>2. /\ id[1] \in Targets /\ id[2] \in DOMAIN journal[id[1]]
      /\ Request(id) = journal[id[1]][id[2]]
  BY IdsType
<1>3. CASE id[1] = t
  <2>1. journal[t] \in Seq(EntrySet) /\ id[2] \in DOMAIN journal[t]
    BY <1>2, <1>3 DEF JournalType
  <2>2. Append(journal[t], e)[id[2]] = journal[t][id[2]]
    BY <2>1
  <2>3. journal'[t] = Append(journal[t], e)
    BY <1>1, <1>2, <1>3 DEF JournalType
  <2> QED
    BY <1>2, <1>3, <2>2, <2>3
<1>4. CASE id[1] # t
  <2>1. journal'[id[1]] = journal[id[1]]
    BY <1>1, <1>2, <1>4 DEF JournalType
  <2> QED
    BY <1>2, <2>1
<1> QED
  BY <1>3, <1>4

LEMMA FateUnchanged ==
  ASSUME JournalType, NEW id \in Ids, NEW fate \in Fates,
         journal' = [journal EXCEPT ![id[1]][id[2]].fate = fate]
  PROVE  \A k \in Ids : k # id => Request(k)'.fate = Request(k).fate
<1> SUFFICES ASSUME NEW k \in Ids, k # id
             PROVE  journal'[k[1]][k[2]] = Request(k)
  BY DEF Request
<1>1. /\ k[1] \in Targets /\ k[2] \in DOMAIN journal[k[1]]
      /\ Request(k) = journal[k[1]][k[2]] /\ k = <<k[1], k[2]>>
      /\ id = <<id[1], id[2]>> /\ id[1] \in Targets
  BY IdsType
<1>2. CASE k[1] = id[1]
  <2>1. k[2] # id[2]
    BY <1>1, <1>2
  <2> DEFINE e == [journal[id[1]][id[2]] EXCEPT !.fate = fate]
             s == [journal[id[1]] EXCEPT ![id[2]] = e]
  <2>2. journal'[id[1]] = s
    BY <1>1 DEF JournalType
  <2> HIDE DEF e
  <2>3. s[k[2]] = journal[k[1]][k[2]]
    BY <1>1, <1>2, <2>1 DEF JournalType
  <2> QED
    BY <1>1, <1>2, <2>2, <2>3
<1>3. CASE k[1] # id[1]
  <2>1. journal'[k[1]] = journal[k[1]]
    BY <1>1, <1>3 DEF JournalType
  <2> QED
    BY <1>1, <2>1
<1> QED
  BY <1>2, <1>3

(* A lost request is answered, and not with a timeout.                     *)
LEMMA LostTold ==
  ASSUME JournalType, WireType, NEW c \in Ring, Disconnected(c), NEW id \in Ids
  PROVE  /\ Request(id)'.fate = Request(id).fate
         /\ \/ Request(id)'.answers = Request(id).answers
            \/ \E a \in Answer : /\ a.status = "DISCONNECTED" /\ a.error = "NETWORK_ERROR"
                                 /\ Request(id)'.answers = Append(Request(id).answers, a)
<1> DEFINE gone == Response("DISCONNECTED", {}, <<>>)
           t == id[1]
           v == id[2]
           a == ThisAnswer(Request(id).type, gone)
<1>1. /\ t \in Targets /\ v \in DOMAIN journal[t] /\ id = <<t, v>>
      /\ Request(id) \in EntrySet /\ Request(id) = journal[t][v]
  BY IdsType
<1>2. gone \in Responses /\ Answers(gone, Request(id).type)
  BY DEF Response, Responses, Categories, Texts, Answers
<1>3. Request(id).type \in RequestType /\ Request(id).answers \in Seq(Answer)
  BY <1>1 DEF EntrySet
<1>4. a \in Answer /\ Replies(Request(id).type, gone) = <<a>>
  BY <1>2, <1>3, RepliesType
<1>5. a.status = "DISCONNECTED" /\ a.error = "NETWORK_ERROR"
  BY DEF ThisAnswer, AnswerOf, Status, ErrorOf, Response
<1> HIDE DEF a
<1>6. Request(id).answers \o <<a>> = Append(Request(id).answers, a)
  BY <1>3, <1>4, OneMore
<1>7. Tell(journal, id, gone)[t][v]
        = [Request(id) EXCEPT !.answers = Append(Request(id).answers, a)]
  <2>1. journal \in [Targets -> Seq(EntrySet)]
    BY DEF JournalType
  <2> QED
    BY <1>1, <1>4, <1>6, <2>1 DEF Tell
<1>8. \/ Request(id)' = Tell(journal, id, gone)[t][v]
      \/ Request(id)' = Request(id)
  <2>1. journal' = TellAll(c) /\ Request(id)' = journal'[t][v]
    BY DEF Disconnected, Request
  <2> HIDE DEF gone
  <2>2. TellAll(c)[t][v] = Tell(journal, <<t, v>>, gone)[t][v]
        \/ TellAll(c)[t][v] = journal[t][v]
    BY <1>1 DEF TellAll, gone
  <2> QED
    BY <1>1, <2>1, <2>2
<1> QED
  BY <1>1, <1>4, <1>5, <1>7, <1>8, ZenonT(60) DEF EntrySet

-------------------------------------------------------------------------------
(* Steps.                                                                  *)

(* What is true of every step: a request comes to its fate while somebody  *)
(* awaits its answer, or as an orphan.                                     *)
Settling == \A id \in Ids : \/ Request(id)'.fate = Request(id).fate
                            \/ Waiting(id) \/ id \in orphans

LEMMA ForwardOrphans ==
  ASSUME TurnType, Answering, Orphaned, NEW t, NEW entry, Forward(t, entry)
  PROVE  Orphaned' /\ Settling
<1>1. JournalType /\ WireType /\ orphans' = orphans /\ orphans \subseteq Ids
  BY DEF Answering, WireType, Forward
<1>2. Unchanged(journal')
  BY <1>1, ForwardUnchanged
<1>3. ASSUME NEW id \in Ids, Waiting(id)'
      PROVE  Waiting(id)
  <2>1. CASE NoneReady
    <3>1. calls' = calls
      BY <2>1 DEF Forward
    <3> QED
      BY <1>3, <3>1 DEF Waiting
  <2>2. CASE ~NoneReady
    <3>1. PICK new : new = <<t, Len(journal[t]) + 1>>
      OBVIOUS
    <3>2. PICK call : call = [id |-> new, response |-> NoResponse]
      OBVIOUS
    <3>3. PICK c \in Ring : c = NextReady
      BY <2>2, NextIsReady DEF TurnType
    <3>4. new = <<t, Len(journal[t]) + 1>> /\ call.id = new
          /\ calls' = [calls EXCEPT ![c] = Append(@, call)]
      BY <2>2, <3>1, <3>2, <3>3 DEF Forward
    <3>5. new \notin Ids
      <4>1. ASSUME new \in Ids PROVE FALSE
        <5>1. t \in Targets /\ Len(journal[t]) + 1 \in DOMAIN journal[t]
          <6>1. new[1] = t /\ new[2] = Len(journal[t]) + 1
            BY <3>1
          <6>2. new[1] \in Targets /\ new[2] \in DOMAIN journal[new[1]]
            BY <1>1, <4>1, IdsType
          <6> QED
            BY <6>1, <6>2
        <5>2. journal[t] \in Seq(EntrySet)
          BY <1>1, <5>1 DEF JournalType
        <5> QED
          BY <5>1, <5>2
      <4> QED
        BY <4>1
    <3>6. PICK d \in Ring : \E i \in DOMAIN calls'[d] : calls'[d][i].id = id
      BY <1>3 DEF Waiting
    <3>7. PICK i \in DOMAIN calls'[d] : calls'[d][i].id = id
      BY <3>6
    <3>8. calls[c] \in Seq(CallSet)
      BY <1>1 DEF WireType
    <3>9. \A k \in DOMAIN Append(calls[c], call) :
            \/ Append(calls[c], call)[k] = call
            \/ k \in DOMAIN calls[c] /\ Append(calls[c], call)[k] = calls[c][k]
      BY <3>8
    <3>10. calls'[d] = IF d = c THEN Append(calls[c], call) ELSE calls[d]
      BY <1>1, <3>4 DEF WireType
    <3>11. i \in DOMAIN calls[d] /\ calls'[d][i] = calls[d][i]
      BY <3>4, <3>5, <3>7, <3>9, <3>10
    <3> QED
      BY <3>7, <3>11 DEF Waiting
  <2> QED
    BY <2>1, <2>2
<1>4. \A id \in Ids : /\ Request(id)'.answers = Request(id).answers
                      /\ Request(id)'.fate = Request(id).fate
  BY <1>2 DEF Unchanged, Request
<1>5. Settling
  BY <1>4 DEF Settling
<1>6. \A id \in orphans : /\ Waiting(id)' => Waiting(id)
                          /\ Request(id)'.answers = Request(id).answers
  BY <1>1, <1>3, <1>4
<1>7. Orphaned'
  BY <1>1, <1>6, OrphansKept
<1> QED
  BY <1>5, <1>7

(* A request is served, its connection there or not.                       *)
LEMMA ReactOrphans ==
  ASSUME JournalType, NEW id \in Ids, NEW r, NEW type, Sound(r, type), React(id, r),
         Waiting(id) \/ id \in orphans
  PROVE  Settling /\ \A k \in Ids : Request(k)'.answers = Request(k).answers
<1>1. r.fate \in Fates
  BY DEF Sound
<1>2. journal' = [journal EXCEPT ![id[1]][id[2]].fate = r.fate]
  BY DEF React
<1>3. \A k \in Ids : k # id => Request(k)'.fate = Request(k).fate
  BY <1>1, <1>2, FateUnchanged
<1>4. Given(journal', {})
  BY <1>1, <1>2, FateRewrites
<1>5. \A k \in Ids : Request(k)'.answers = Request(k).answers
  BY <1>4 DEF Given, Request
<1> QED
  BY <1>3, <1>5 DEF Settling

LEMMA ServeOrphans ==
  ASSUME Answering, Orphaned, ServeOrphan \/ \E c \in Ring : Serve(c)
  PROVE  Orphaned' /\ Settling
<1>1. JournalType /\ WireType /\ OrdersType /\ orphans \subseteq Ids
  BY DEF Answering, WireType
<1>2. CASE ServeOrphan
  <2>1. PICK id \in orphans : orphans' = orphans \ {id} /\ \E r \in Fair(id) : React(id, r)
    BY <1>2 DEF ServeOrphan
  <2>2. PICK r \in Fair(id) : React(id, r)
    BY <2>1
  <2>3. id \in Ids
    BY <1>1
  <2>4. Sound(r, Request(id).type)
    BY <1>1, <2>3, FairSound
  <2>5. Settling /\ \A k \in Ids : Request(k)'.answers = Request(k).answers
    BY <1>1, <2>2, <2>3, <2>4, ReactOrphans
  <2>6. calls' = calls
    BY <1>2 DEF ServeOrphan
  <2>7. PICK S : S = orphans \ {id}
    OBVIOUS
  <2>8. \A k \in S : /\ Waiting(k)' => Waiting(k)
                     /\ Request(k)'.answers = Request(k).answers
    BY <1>1, <2>5, <2>6, <2>7 DEF Waiting
  <2>9. orphans' = S /\ S \subseteq orphans
    BY <2>1, <2>7
  <2>10. Orphaned'
    BY <2>8, <2>9, OrphansKept
  <2> QED
    BY <2>5, <2>10
<1>3. ASSUME NEW c \in Ring, Serve(c)
      PROVE  Orphaned' /\ Settling
  <2>1. PICK i \in Sent(c) \cap Unserved(c) :
          \E r \in Reactions(calls[c][i].id) :
            /\ React(calls[c][i].id, r)
            /\ calls' = [calls EXCEPT ![c][i].response = r.response]
    BY <1>3 DEF Serve
  <2>2. PICK id : id = calls[c][i].id
    OBVIOUS
  <2>3. PICK r \in Reactions(id) :
          React(id, r) /\ calls' = [calls EXCEPT ![c][i].response = r.response]
    BY <2>1, <2>2
  <2>4. i \in DOMAIN calls[c] /\ orphans' = orphans
    BY <1>3 DEF Serve, Unserved
  <2>5. id \in Ids /\ Waiting(id) /\ calls[c] \in Seq(CallSet) /\ calls[c][i] \in CallSet
    BY <1>1, <2>2, <2>4, CallType DEF WireType
  <2>6. Sound(r, Request(id).type)
    BY <1>1, <2>5, ReactionSound
  <2>7. Settling /\ \A k \in Ids : Request(k)'.answers = Request(k).answers
    BY <1>1, <2>3, <2>5, <2>6, ReactOrphans
  <2> DEFINE call == [calls[c][i] EXCEPT !.response = r.response]
             s == [calls[c] EXCEPT ![i] = call]
  <2>8. call.id = calls[c][i].id
    BY <2>5 DEF CallSet
  <2>9. calls' = [calls EXCEPT ![c] = s]
    BY <2>3
  <2> HIDE DEF call
  <2>10. \A k \in DOMAIN s : k \in DOMAIN calls[c] /\ s[k].id = calls[c][k].id
    BY <2>4, <2>5, <2>8
  <2> HIDE DEF s
  <2>11. \A d \in Ring : calls'[d] = IF d = c THEN s ELSE calls[d]
    BY <1>1, <2>9 DEF WireType
  <2>12. \A k : Waiting(k)' => Waiting(k)
    BY <2>10, <2>11 DEF Waiting
  <2>13. \A k \in orphans : /\ Waiting(k)' => Waiting(k)
                            /\ Request(k)'.answers = Request(k).answers
    BY <1>1, <2>7, <2>12
  <2>14. Orphaned'
    BY <2>4, <2>13, OrphansKept
  <2> QED
    BY <2>7, <2>14
<1> QED
  BY <1>2, <1>3

(* The client calls back: the request was awaited, and is no orphan.       *)
LEMMA CallbackOrphans ==
  ASSUME RequestTimeout >= ExpiresAfter, Answering, Orphaned,
         NEW c \in Ring, HandleResponse(c) \/ Timeout(c)
  PROVE  Orphaned' /\ Settling
<1>1. WireType /\ WaitsOnce /\ JournalType /\ calls[c] # <<>> /\ orphans \subseteq Ids
  BY DEF Answering, WireType, HandleResponse, Timeout
<1>2. calls' = [calls EXCEPT ![c] = Tail(@)]
  BY DEF HandleResponse, Timeout
<1>3. 1 \in DOMAIN calls[c] /\ Head(calls[c]) = calls[c][1]
  BY <1>1, <1>2, CallTaken
<1>4. \A k : Waiting(k)' <=> Waiting(k) /\ k # calls[c][1].id
  BY <1>1, <1>2, CallTaken
<1>5. PICK id : id = calls[c][1].id
  OBVIOUS
<1>6. /\ id \in Ids /\ Waiting(id) /\ calls[c][1].response \in Responses
      /\ Answers(calls[c][1].response, Request(id).type)
  BY <1>1, <1>3, <1>5, CallType
<1>7. PICK response \in Responses :
        Answers(response, Request(id).type) /\ journal' = Tell(journal, id, response)
  <2>1. CASE HandleResponse(c)
    <3>1. journal' = Tell(journal, id, calls[c][1].response)
      BY <1>3, <1>5, <2>1 DEF HandleResponse
    <3> QED
      BY <1>6, <3>1
  <2>2. CASE Timeout(c)
    <3> DEFINE none == Response("TIMEOUT", {}, <<>>)
    <3>1. none \in Responses /\ \A type : Answers(none, type)
      BY DEF Response, Responses, Categories, Texts, Answers
    <3>2. journal' = Tell(journal, id, none)
      BY <1>3, <1>5, <2>2 DEF Timeout
    <3> HIDE DEF none
    <3> QED
      BY <3>1, <3>2
  <2> QED
    BY <2>1, <2>2
<1>8. Given(journal', {id}) /\ SameFates(journal')
  BY <1>1, <1>6, <1>7, TellGives
<1>9. Settling
  BY <1>8 DEF Settling, SameFates, Request
<1>10. orphans' = orphans
  <2>1. CASE HandleResponse(c)
    BY <2>1 DEF HandleResponse
  <2>2. CASE Timeout(c)
    <3>1. ~(RequestTimeout < ExpiresAfter)
      BY FlagsAssumption DEF ExpiresAfter
    <3> QED
      BY <2>2, <3>1 DEF Timeout
  <2> QED
    BY <2>1, <2>2
<1>11. \A k \in orphans : k \in Ids /\ k # id
  BY <1>1, <1>6 DEF Orphaned
<1>12. \A k \in orphans : /\ Waiting(k)' => Waiting(k)
                          /\ Request(k)'.answers = Request(k).answers
  BY <1>4, <1>8, <1>11, ZenonT(60) DEF Given, Request
<1>13. Orphaned'
  BY <1>10, <1>12, OrphansKept
<1> QED
  BY <1>9, <1>13

(* A connection is lost: its requests are answered, and no timeout says so.*)
LEMMA LostOrphans ==
  ASSUME Answering, Orphaned, NEW c \in Ring, Disconnected(c)
  PROVE  Orphaned' /\ Settling
<1>1. /\ WireType /\ WaitsOnce /\ JournalType /\ AnsweredOnce /\ orphans \subseteq Ids
  BY DEF Answering, WireType
<1>2. \A id \in Ids : Request(id)'.fate = Request(id).fate
  BY <1>1, LostTold
<1>3. Settling
  BY <1>2 DEF Settling
<1>4. calls' = [calls EXCEPT ![c] = <<>>]
  BY DEF Disconnected
<1>5. \A d \in Ring : \A i \in DOMAIN calls'[d] :
        d # c /\ i \in DOMAIN calls[d] /\ calls'[d][i] = calls[d][i]
  <2>1. \A d \in Ring : IF d = c THEN calls'[d] = <<>> ELSE calls'[d] = calls[d]
    BY <1>1, <1>4 DEF WireType
  <2> QED
    BY <2>1
<1>6. \A id : Waiting(id)' => Waiting(id) /\ \A i \in DOMAIN calls[c] : id # calls[c][i].id
  BY <1>1, <1>5 DEF Waiting, WaitsOnce
<1>7. ASSUME NEW id \in orphans'
      PROVE  /\ id \in Ids /\ ~TimedOut(id)
             /\ Waiting(id) => \E i \in DOMAIN calls[c] : id = calls[c][i].id
  <2>1. CASE id \in orphans
    BY <1>1, <2>1 DEF Orphaned
  <2>2. CASE id \notin orphans
    <3>1. PICK i \in Sent(c) \cap Unserved(c) : id = calls[c][i].id
      BY <1>7, <2>2 DEF Disconnected
    <3>2. i \in DOMAIN calls[c]
      BY DEF Unserved
    <3>3. id \in Ids /\ Waiting(id)
      BY <1>1, <3>1, <3>2, CallType
    <3> QED
      BY <1>1, <3>1, <3>2, <3>3, TimedOutWaitsNoMore
  <2> QED
    BY <2>1, <2>2
<1>8. ASSUME NEW id \in orphans'
      PROVE  ~Waiting(id)' /\ ~TimedOut(id)'
  <2>1. ~Waiting(id)'
    BY <1>6, <1>7
  <2>2. Request(id).answers \in Seq(Answer)
    BY <1>1, <1>7, IdsType DEF EntrySet
  <2>3. \A i \in DOMAIN Request(id).answers : Request(id).answers[i].status # "TIMEOUT"
    BY <1>7 DEF TimedOut, Told
  <2>4. \/ Request(id)'.answers = Request(id).answers
        \/ \E a \in Answer : /\ a.status = "DISCONNECTED"
                             /\ Request(id)'.answers = Append(Request(id).answers, a)
    BY <1>1, <1>7, LostTold
  <2>5. \A i \in DOMAIN Request(id)'.answers : Request(id)'.answers[i].status # "TIMEOUT"
    BY <2>2, <2>3, <2>4, SMTT(30)
  <2> QED
    BY <2>1, <2>5 DEF TimedOut, Told
<1>9. Orphaned'
  BY <1>8 DEF Orphaned
<1> QED
  BY <1>3, <1>9

LEMMA ElsewhereOrphans ==
  ASSUME Orphaned, UNCHANGED <<calls, orphans, journal>>
  PROVE  Orphaned' /\ Settling
  BY DEF Orphaned, Settling, Waiting, TimedOut, Told, Request

LEMMA OrphanedKept ==
  ASSUME RequestTimeout >= ExpiresAfter, Turns, Answering, Orphaned, [Next]_vars
  PROVE  Orphaned' /\ Settling
<1>1. TurnType
  BY DEF Turns
<1>2. ASSUME NEW o \in Orders, CreateOrder(o) \/ ModifyOrder(o) \/ CancelOrder(o)
      PROVE  Orphaned' /\ Settling
  <2>1. \E t, entry : Forward(t, entry)
    BY <1>2 DEF CreateOrder, ModifyOrder, CancelOrder
  <2> QED
    BY <1>1, <2>1, ForwardOrphans
<1>3. CASE CancelAllOrders
  BY <1>1, <1>3, ForwardOrphans DEF CancelAllOrders
<1>4. CASE ServeOrphan \/ \E c \in Ring : Serve(c)
  BY <1>4, ServeOrphans
<1>5. CASE \E c \in Ring : HandleResponse(c) \/ Timeout(c)
  BY <1>5, CallbackOrphans
<1>6. CASE \E c \in Ring : Disconnected(c)
  BY <1>6, LostOrphans
<1>7. CASE \/ \E o \in Orders : Fill(o)
           \/ \E c \in Ring : Connected(c)
           \/ ExecutionArrives \/ UNCHANGED vars
  <2>1. UNCHANGED <<calls, orphans, journal>>
    BY <1>7 DEF Fill, Connected, ExecutionArrives, vars, wire, users
  <2> QED
    BY <2>1, ElsewhereOrphans
<1> QED
  BY <1>2, <1>3, <1>4, <1>5, <1>6, <1>7 DEF Next

(* A request that the gateway answered with a timeout, and that was not    *)
(* done by then, is never done, for any number of orders, connections and  *)
(* requests: what rest_expires_timeout is for.  It needs a                 *)
(* rest_request_timeout that is longer (compute_expires rounds up).        *)
THEOREM TimeoutIsFinal ==
  ASSUME RequestTimeout >= ExpiresAfter
  PROVE  Spec => TimeoutSettles
<1> DEFINE Inv == Turns /\ Answering /\ Orphaned
<1>1. Init => Inv
  BY TurnsInitially, AnsweringInitially DEF Orphaned, Init
<1>2. Inv /\ [Next]_vars => Inv'
  BY TurnsKept, AnsweringKept, OrphanedKept
<1>3. Inv /\ [Next]_vars =>
        [\A id \in Ids : Told(id, {"TIMEOUT"}) /\ Request(id).fate = "open"
           => Request(id)'.fate # "done"]_vars
  <2> SUFFICES ASSUME Inv, [Next]_vars, NEW id \in Ids, Told(id, {"TIMEOUT"}),
                      Request(id).fate = "open"
               PROVE  Request(id)'.fate # "done"
    OBVIOUS
  <2>1. TimedOut(id)
    BY DEF TimedOut
  <2>2. ~Waiting(id)
    BY <2>1, TimedOutWaitsNoMore DEF Answering
  <2>3. id \notin orphans
    BY <2>1 DEF Orphaned
  <2>4. Settling
    BY OrphanedKept
  <2>5. Request(id)'.fate = Request(id).fate
    BY <2>2, <2>3, <2>4 DEF Settling
  <2> QED
    BY <2>5
<1> QED
  BY <1>1, <1>2, <1>3, PTL DEF Spec, TimeoutSettles

-------------------------------------------------------------------------------
(* What the exchange does is what may become of an order.                  *)

(* The status an order may have after another.                             *)
After == [status \in Statuses |->
  CASE status = "NONE" -> {"NEW", "REJECTED"}
    [] status = "NEW" -> {"NEW", "FILLED", "CANCELED"}
    [] OTHER -> {}]

Legal(id, r) ==
  /\ r.response # NoResponse /\ r.fate # "open"
  /\ \A o \in Orders :
       \/ r.orders[o] = orders[o]
       \/ /\ r.orders[o].status \in After[orders[o].status]
          /\ orders[o].status = "NONE" => o = id[1] /\ Request(id).type = "CREATE_ORDER"
          /\ r.orders[o].version # orders[o].version => id = <<o, r.orders[o].version>>
  /\ \A row \in r.response.rows :
       row.status # "UNKNOWN" => row.revision = r.orders[row.order].revision

LEMMA AfterIs ==
  /\ "NEW" \in After["NONE"] /\ "REJECTED" \in After["NONE"]
  /\ {"NEW", "FILLED", "CANCELED"} \subseteq After["NEW"]
  BY DEF After, Statuses

LEMMA Answered ==
  ASSUME NEW category \in Categories \ {"NONE"}, NEW rows, NEW text
  PROVE  Response(category, rows, text) # NoResponse
<1>1. /\ Response(category, rows, text).category = category
      /\ NoResponse.category = "NONE"
  BY DEF Response, NoResponse
<1> QED
  BY <1>1

LEMMA TurnLegal ==
  ASSUME OrdersType, NEW o \in Orders, NEW version \in 0..Versions,
         NEW status \in RowStatuses \ {"UNKNOWN"},
         status \in After[orders[o].status],
         NEW id, orders[o].status = "NONE" => o = id[1] /\ Request(id).type = "CREATE_ORDER",
         version # orders[o].version => id = <<o, version>>,
         NEW r, r.orders = Turn(o, status, version), r.fate # "open",
         NEW text,
         r.response = Response("SUCCESS", {Row(o, r.orders[o].status, r.orders)}, text)
  PROVE  Legal(id, r)
<1>1. /\ \A p \in Orders : p # o => r.orders[p] = orders[p]
      /\ r.orders[o].status = status /\ r.orders[o].version = version
  <2>1. \A p \in Orders : p # o => Turn(o, status, version)[p] = orders[p]
    BY DEF Turn, OrdersType
  <2>2. /\ Turn(o, status, version)[o].status = status
        /\ Turn(o, status, version)[o].version = version
    BY DEF Turn, OrdersType
  <2> QED
    BY <2>1, <2>2
<1>2. r.response # NoResponse
  BY Answered DEF Categories
<1>3. r.response.rows = {Row(o, r.orders[o].status, r.orders)}
  BY DEF Response
<1>4. ASSUME NEW row \in r.response.rows
      PROVE  row.revision = r.orders[row.order].revision
  <2>1. row = Row(o, r.orders[o].status, r.orders)
    BY <1>3
  <2>2. row.order = o /\ row.revision = r.orders[o].revision
    BY <2>1 DEF Row
  <2> QED
    BY <2>2
<1>5. \A p \in Orders :
        \/ r.orders[p] = orders[p]
        \/ /\ r.orders[p].status \in After[orders[p].status]
           /\ orders[p].status = "NONE" => p = id[1] /\ Request(id).type = "CREATE_ORDER"
           /\ r.orders[p].version # orders[p].version => id = <<p, r.orders[p].version>>
  BY <1>1
<1> QED
  BY <1>2, <1>4, <1>5 DEF Legal

LEMMA RefuseLegal ==
  ASSUME NEW id, NEW r, r.orders = orders, r.fate # "open", r.response # NoResponse,
         \A row \in r.response.rows : row.status = "UNKNOWN"
  PROVE  Legal(id, r)
  BY DEF Legal

LEMMA SweptLegal ==
  ASSUME OrdersType, NEW id, NEW r, r.orders = Swept, r.fate # "open",
         r.response = Response("SUCCESS", SweptRows, <<>>)
  PROVE  Legal(id, r)
<1>1. ASSUME NEW o \in Orders
      PROVE  /\ o \notin Resting => Swept[o] = orders[o]
             /\ o \in Resting => /\ Swept[o].status = "CANCELED"
                                 /\ Swept[o].version = orders[o].version
  <2>1. orders[o] \in OrderSet
    BY DEF OrdersType
  <2>2. orders[o].version \in 0..Versions
    BY <2>1 DEF OrderSet
  <2>3. /\ Turn(o, "CANCELED", orders[o].version)[o].status = "CANCELED"
        /\ Turn(o, "CANCELED", orders[o].version)[o].version = orders[o].version
    BY DEF Turn, OrdersType
  <2> QED
    BY <2>3 DEF Swept
<1>2. \A o \in Orders : \/ Swept[o] = orders[o]
                        \/ /\ Swept[o].status \in After[orders[o].status]
                           /\ orders[o].status # "NONE"
                           /\ Swept[o].version = orders[o].version
  BY <1>1, AfterIs DEF Resting
<1>3. r.response # NoResponse
  BY Answered DEF Categories
<1>4. r.response.rows = SweptRows
  BY DEF Response
<1>5. \A row \in r.response.rows : row.revision = r.orders[row.order].revision
  BY <1>4 DEF SweptRows, Row
<1> QED
  BY <1>2, <1>3, <1>5 DEF Legal

LEMMA FairLegal ==
  ASSUME OrdersType, JournalType, NEW id \in Ids, NEW r \in Fair(id),
         Request(id).type = "CREATE_ORDER" => orders[id[1]].status = "NONE"
  PROVE  Legal(id, r)
<1> DEFINE o == id[1]
           type == Request(id).type
<1>1. id \in IdSet /\ type \in RequestType /\ (type = "CANCEL_ALL_ORDERS" <=> o = All)
  <2>1. id \in IdSet /\ id[1] \in Targets /\ id[2] \in DOMAIN journal[id[1]]
        /\ Request(id) \in EntrySet /\ Request(id) = journal[id[1]][id[2]]
    BY IdsType
  <2> QED
    BY <2>1 DEF EntrySet, JournalType
<1>2. id[2] \in 0..Versions /\ id = <<o, id[2]>> /\ (o \in Orders \/ o = All)
  BY <1>1 DEF IdSet, Targets
<1>3. ASSUME NEW text, NEW cost
      PROVE  Legal(id, Refuse(text, cost))
  <2>1. /\ Refuse(text, cost).orders = orders /\ Refuse(text, cost).fate # "open"
        /\ Refuse(text, cost).response = Response("CLIENT_ERROR", {}, text)
    BY DEF Refuse
  <2>2. Response("CLIENT_ERROR", {}, text).rows = {}
        /\ Response("CLIENT_ERROR", {}, text) # NoResponse
    BY Answered DEF Response, Categories
  <2> QED
    BY <2>1, <2>2, RefuseLegal
<1>4. Legal(id, BadPrice)
  BY <1>3 DEF BadPrice
<1>5. ASSUME o \in Orders, orders[o].status = "NONE", type = "CREATE_ORDER", NEW text
      PROVE  Legal(id, Rejected(o, id[2], text))
  <2> DEFINE new == Turn(o, "REJECTED", id[2])
             r1 == Rejected(o, id[2], text)
  <2>1. /\ r1.orders = new /\ r1.fate = "refused"
        /\ r1.response = Response("SUCCESS", {Row(o, r1.orders[o].status, r1.orders)}, text)
    <3>1. PICK turned : turned = new
      OBVIOUS
    <3> QED
      BY <3>1 DEF Rejected
  <2>2. "REJECTED" \in RowStatuses \ {"UNKNOWN"} /\ "REJECTED" \in After[orders[o].status]
    BY <1>5, AfterIs DEF RowStatuses
  <2> HIDE DEF r1
  <2> QED
    BY <1>2, <1>5, <2>1, <2>2, TurnLegal DEF r1
<1>6. ASSUME NEW status \in RowStatuses \ {"UNKNOWN"}, NEW version \in 0..Versions,
             o \in Orders, status \in After[orders[o].status],
             orders[o].status = "NONE" => type = "CREATE_ORDER",
             version # orders[o].version => id = <<o, version>>, NEW cost
      PROVE  Legal(id, Done(o, Turn(o, status, version), cost))
  <2> DEFINE new == Turn(o, status, version)
  <2>1. /\ Done(o, new, cost).orders = new /\ Done(o, new, cost).fate = "done"
        /\ Done(o, new, cost).response
             = Response("SUCCESS", {Row(o, new[o].status, new)}, <<>>)
    <3> HIDE DEF new
    <3> QED
      BY DEF Done
  <2> QED
    BY <1>6, <2>1, TurnLegal
<1>7. {"NEW", "REJECTED", "CANCELED"} \subseteq RowStatuses \ {"UNKNOWN"}
  BY DEF RowStatuses
<1>8. CASE type = "CREATE_ORDER"
  <2>1. o \in Orders /\ orders[o].status = "NONE"
    BY <1>1, <1>2, <1>8
  <2>2. \/ r \in {Done(o, Turn(o, "NEW", id[2]), "none"), BadPrice}
        \/ \E text \in {<<>>, <<"invalid", "price">>} : r = Rejected(o, id[2], text)
    BY <1>8 DEF Fair
  <2>3. Legal(id, Done(o, Turn(o, "NEW", id[2]), "none"))
    BY <1>2, <1>6, <1>7, <1>8, <2>1, AfterIs
  <2>4. \A text : Legal(id, Rejected(o, id[2], text))
    BY <1>5, <1>8, <2>1
  <2> QED
    BY <1>4, <2>2, <2>3, <2>4
<1>9. CASE type = "MODIFY_ORDER"
  <2>1. o \in Orders
    BY <1>1, <1>2, <1>9
  <2>2. \/ r \in {Refuse(<<"invalid", "origClOrdID">>, "none"),
                  Refuse(<<"invalid", "ordStatus">>, "none"), BadPrice}
        \/ o \in Resting /\ r = Done(o, Turn(o, "NEW", id[2]), "none")
    BY <1>9 DEF Fair
  <2> QED
    BY <1>2, <1>3, <1>4, <1>6, <1>7, <2>1, <2>2, AfterIs DEF Resting
<1>10. CASE type = "CANCEL_ORDER"
  <2>1. o \in Orders
    BY <1>1, <1>2, <1>10
  <2>2. \/ r = Refuse(<<"invalid", "orderID">>, "none")
        \/ r = NotCanceled(o)
        \/ o \in Resting /\ r = Done(o, Turn(o, "CANCELED", orders[o].version), "none")
    BY <1>10 DEF Fair
  <2>3. orders[o].version \in 0..Versions
    <3>1. orders[o] \in OrderSet
      BY <2>1 DEF OrdersType
    <3> QED
      BY <3>1 DEF OrderSet
  <2>4. Legal(id, NotCanceled(o))
    <3>1. /\ NotCanceled(o).orders = orders /\ NotCanceled(o).fate = "refused"
          /\ NotCanceled(o).response
               = Response("SUCCESS", {Row(o, "UNKNOWN", orders)}, <<>>)
      BY DEF NotCanceled
    <3>2. NotCanceled(o).response # NoResponse
      BY <3>1, Answered DEF Categories
    <3>3. \A row \in NotCanceled(o).response.rows : row.status = "UNKNOWN"
      BY <3>1 DEF Response, Row
    <3> QED
      BY <3>1, <3>2, <3>3, RefuseLegal
  <2> QED
    BY <1>3, <1>6, <1>7, <2>1, <2>2, <2>3, <2>4, AfterIs DEF Resting
<1>11. CASE type = "CANCEL_ALL_ORDERS"
  <2>1. r = [orders |-> Swept, fate |-> "done", cost |-> "none",
             response |-> Response("SUCCESS", SweptRows, <<>>)]
    BY <1>11 DEF Fair
  <2>2. r.orders = Swept /\ r.fate = "done" /\ r.response = Response("SUCCESS", SweptRows, <<>>)
    BY <2>1
  <2> QED
    BY <2>2, SweptLegal
<1> QED
  BY <1>1, <1>8, <1>9, <1>10, <1>11 DEF RequestType

LEMMA ReactionLegal ==
  ASSUME OrdersType, JournalType, NEW id \in Ids, NEW r \in Reactions(id),
         Request(id).type = "CREATE_ORDER" => orders[id[1]].status = "NONE"
  PROVE  Legal(id, r)
<1>1. ASSUME NEW q, Legal(id, q),
             NEW category \in {"SERVER_ERROR", "OTHER"}, NEW x,
             x.orders = q.orders, x.fate = q.fate, x.response = Response(category, {}, <<>>)
      PROVE  Legal(id, x)
  <2>1. x.response # NoResponse /\ x.response.rows = {}
    BY <1>1, Answered DEF Response, Categories
  <2> QED
    BY <1>1, <2>1 DEF Legal
<1>2. ASSUME NEW f, Legal(id, f), Sound(f, Request(id).type)
      PROVE  Legal(id, Garbled(f)) /\ Legal(id, Unreadable(f))
  <2> DEFINE a == f.orders b == f.fate c == f.cost d == f.response
             s == Response("SERVER_ERROR", {}, <<>>)
             u == Response("OTHER", {}, <<>>)
  <2>1. f = [orders |-> a, fate |-> b, cost |-> c, response |-> d]
    BY <1>2 DEF Sound
  <2>2. Garbled(f) = [f EXCEPT !.cost = "fault", !.response = s]
        /\ Unreadable(f) = [f EXCEPT !.cost = "fault", !.response = u]
    BY DEF Garbled, Unreadable
  <2> HIDE DEF a, b, c, d, s, u
  <2>3. /\ Garbled(f).orders = a /\ Garbled(f).fate = b /\ Garbled(f).response = s
        /\ Unreadable(f).orders = a /\ Unreadable(f).fate = b /\ Unreadable(f).response = u
    BY <2>1, <2>2
  <2> QED
    BY <1>1, <1>2, <2>3 DEF a, b, s, u
<1>3. /\ Late.fate = "refused" /\ Overloaded.fate = "limited"
      /\ Late.orders = orders /\ Late.response.rows = {}
      /\ Late.response.category = "CLIENT_ERROR"
      /\ Overloaded.orders = orders /\ Overloaded.response.rows = {}
      /\ Overloaded.response.category = "CLIENT_ERROR"
  <2> DEFINE t == <<"rate", "limit", "exceeded,", "retry", "in", "1", "seconds.">>
             d == Response("CLIENT_ERROR", {}, t)
  <2>1. Overloaded = [[orders |-> orders, fate |-> "refused", cost |-> "limit",
                       response |-> d] EXCEPT !.fate = "limited"]
    BY DEF Overloaded, Refuse
  <2>2. d.rows = {} /\ d.category = "CLIENT_ERROR"
    BY DEF Response
  <2> HIDE DEF d
  <2>3. Overloaded.fate = "limited" /\ Overloaded.orders = orders /\ Overloaded.response = d
    BY <2>1
  <2> QED
    BY <2>2, <2>3 DEF Late, Refuse, Response
<1>4. Legal(id, Late) /\ Legal(id, Overloaded)
  <2>1. NoResponse.category = "NONE"
    BY DEF NoResponse, Response
  <2> QED
    BY <1>3, <2>1, RefuseLegal
<1>5. Sound(Late, Request(id).type)
  BY ReactionSound DEF Reactions
<1>6. \A f \in Fair(id) : Legal(id, f) /\ Sound(f, Request(id).type)
  BY FairLegal, FairSound
<1>7. \/ r \in {Late, Overloaded, Garbled(Late)} \cup Fair(id)
      \/ \E f \in Fair(id) : r \in {Garbled(f), Unreadable(f)}
  BY DEF Reactions
<1> QED
  BY <1>2, <1>4, <1>5, <1>6, <1>7

-------------------------------------------------------------------------------
(* A request comes to its fate once, and an order is created by the first  *)
(* request for it.                                                         *)

Gone == \A id \in orphans : ~Waiting(id)
Unsettled ==
  /\ \A c \in Ring : \A i \in DOMAIN calls[c] :
       calls[c][i].response = NoResponse => Request(calls[c][i].id).fate = "open"
  /\ \A id \in orphans : Request(id).fate = "open"
CreatedFirst == \A id \in Ids : Request(id).type = "CREATE_ORDER" => id[2] = 1
Created ==
  \A o \in Orders : orders[o].status # "NONE" =>
    <<o, 1>> \in Ids /\ Request(<<o, 1>>).fate # "open"

Once == Gone /\ Unsettled /\ CreatedFirst /\ Created

LEMMA OnceInitially ==
  ASSUME Init
  PROVE  Once
<1>1. Ids = {}
  BY DEF Init, Ids
<1> QED
  BY <1>1 DEF Init, Once, Gone, Unsettled, CreatedFirst, Created

LEMMA NotYet ==
  ASSUME JournalType, Once, NEW id \in Ids, Request(id).fate = "open"
  PROVE  Request(id).type = "CREATE_ORDER" => orders[id[1]].status = "NONE"
<1> SUFFICES ASSUME Request(id).type = "CREATE_ORDER"
             PROVE  orders[id[1]].status = "NONE"
  OBVIOUS
<1>1. /\ id[1] \in Targets /\ id[2] \in DOMAIN journal[id[1]]
      /\ id = <<id[1], id[2]>> /\ Request(id) = journal[id[1]][id[2]]
  BY IdsType
<1>2. id[1] \in Orders
  BY <1>1 DEF JournalType, Targets
<1>3. id = <<id[1], 1>>
  BY <1>1 DEF Once, CreatedFirst
<1> QED
  BY <1>2, <1>3 DEF Once, Created

(* No order changes: requests are made, answered and lost.                 *)
LEMMA OnceKept ==
  ASSUME WireType, Once, orders' = orders, Ids \subseteq Ids',
         \A id \in Ids : /\ Request(id)'.fate = Request(id).fate
                         /\ Request(id)'.type = Request(id).type,
         \A id \in Ids' : \/ id \in Ids
                          \/ Request(id)'.type = "CREATE_ORDER" => id[2] = 1,
         \A d \in Ring : \A i \in DOMAIN calls'[d] :
           \/ \E k \in DOMAIN calls[d] : calls'[d][i] = calls[d][k]
           \/ \E id : calls'[d][i].id = id /\ Request(id)'.fate = "open",
         \A id \in orphans' : ~Waiting(id)' /\ Request(id)'.fate = "open"
  PROVE  Once'
<1>1. Gone'
  BY DEF Gone
<1>2. CreatedFirst'
  <2> SUFFICES ASSUME NEW id \in Ids', Request(id)'.type = "CREATE_ORDER"
               PROVE  id[2] = 1
    BY DEF CreatedFirst
  <2> QED
    BY DEF Once, CreatedFirst
<1>3. Created'
  <2> SUFFICES ASSUME NEW o \in Orders, orders[o].status # "NONE"
               PROVE  <<o, 1>> \in Ids' /\ Request(<<o, 1>>)'.fate # "open"
    BY DEF Created
  <2>1. <<o, 1>> \in Ids /\ Request(<<o, 1>>).fate # "open"
    BY DEF Once, Created
  <2> QED
    BY <2>1
<1>4. ASSUME NEW d \in Ring, NEW i \in DOMAIN calls'[d],
             calls'[d][i].response = NoResponse, NEW id, id = calls'[d][i].id
      PROVE  Request(id)'.fate = "open"
  <2>1. ASSUME NEW k \in DOMAIN calls[d], calls'[d][i] = calls[d][k]
        PROVE  Request(id)'.fate = "open"
    <3>1. id \in Ids /\ calls[d][k].id = id /\ calls[d][k].response = NoResponse
      BY <1>4, <2>1 DEF WireType
    <3>2. Request(id).fate = "open"
      BY <3>1 DEF Once, Unsettled
    <3> QED
      BY <3>1, <3>2
  <2> QED
    BY <1>4, <2>1
<1>5. Unsettled'
  <2>1. ASSUME NEW d \in Ring, NEW i \in DOMAIN calls'[d],
               calls'[d][i].response = NoResponse
        PROVE  journal'[calls'[d][i].id[1]][calls'[d][i].id[2]].fate = "open"
    BY <1>4, <2>1 DEF Request
  <2> QED
    BY <2>1 DEF Unsettled, Request
<1> QED
  BY <1>1, <1>2, <1>3, <1>5 DEF Once

(* What a request for a target may look like.                              *)
Fits(t, entry) ==
  /\ entry \in EntrySet /\ entry.orig <= Len(journal[t])
  /\ entry.type = "CANCEL_ALL_ORDERS" <=> t = All
  /\ entry.type = "CREATE_ORDER" => journal[t] = <<>>
  /\ entry.type = "MODIFY_ORDER" => entry.orig >= 1
  /\ entry.fate = "open"

LEMMA RequestsFit ==
  ASSUME JournalType,
         \/ CancelAllOrders
         \/ \E o \in Orders : CreateOrder(o) \/ ModifyOrder(o) \/ CancelOrder(o)
  PROVE  \E t \in Targets, entry \in EntrySet : Fits(t, entry) /\ Forward(t, entry)
<1>1. \A t \in Targets : Len(journal[t]) \in Nat /\ Len(journal[t]) <= Versions
  BY DEF JournalType
<1>2. /\ 0 \in 0..Versions
      /\ \A t \in Targets : /\ 0 <= Len(journal[t])
                           /\ \A v \in 1..Len(journal[t]) : v \in 0..Versions
  BY <1>1, BoundsAssumption
<1>3. All \in Targets /\ \A o \in Orders : o \in Targets /\ o # All
  BY TargetsAssumption DEF Targets
<1>4. \A t : \A entry : Fits(t, entry) => entry \in EntrySet
  BY DEF Fits
<1>5. CASE CancelAllOrders
  <2> DEFINE entry == Entry("CANCEL_ALL_ORDERS", 0, FALSE)
  <2>1. Fits(All, entry)
    BY <1>2, <1>3 DEF Entry, EntrySet, RequestType, Fates, Fits
  <2>2. Forward(All, entry)
    BY <1>5 DEF CancelAllOrders
  <2> HIDE DEF entry
  <2> QED
    BY <1>3, <1>4, <2>1, <2>2
<1>6. ASSUME NEW o \in Orders, CreateOrder(o)
      PROVE  \E entry : Fits(o, entry) /\ Forward(o, entry)
  <2> DEFINE entry == Entry("CREATE_ORDER", 0, FALSE)
  <2>1. Fits(o, entry) /\ Forward(o, entry)
    BY <1>2, <1>3, <1>6 DEF CreateOrder, Entry, EntrySet, RequestType, Fates, Fits
  <2> HIDE DEF entry
  <2> QED
    BY <2>1
<1>7. ASSUME NEW o \in Orders, ModifyOrder(o)
      PROVE  \E entry : Fits(o, entry) /\ Forward(o, entry)
  <2>1. PICK v \in 1..Len(journal[o]) : Forward(o, Entry("MODIFY_ORDER", v, FALSE))
    BY <1>7 DEF ModifyOrder
  <2> DEFINE entry == Entry("MODIFY_ORDER", v, FALSE)
  <2>2. Fits(o, entry)
    BY <1>2, <1>3 DEF Entry, EntrySet, RequestType, Fates, Fits
  <2>3. Forward(o, entry)
    BY <2>1
  <2> HIDE DEF entry
  <2> QED
    BY <2>2, <2>3
<1>8. ASSUME NEW o \in Orders, CancelOrder(o)
      PROVE  \E entry : Fits(o, entry) /\ Forward(o, entry)
  <2> DEFINE entry == Entry("CANCEL_ORDER", 0, shown[o].revision > 0)
  <2>1. Fits(o, entry)
    BY <1>2, <1>3 DEF Entry, EntrySet, RequestType, Fates, Fits
  <2>2. Forward(o, entry)
    BY <1>8 DEF CancelOrder
  <2> HIDE DEF entry
  <2> QED
    BY <2>1, <2>2
<1> QED
  BY <1>3, <1>4, <1>5, <1>6, <1>7, <1>8

(* A new entry and its call: the entry has no final answer from the        *)
(* exchange, and the call no response.                                     *)
LEMMA ForwardAdds ==
  ASSUME TurnType, Answering, NEW t \in Targets, NEW entry, Fits(t, entry),
         Forward(t, entry)
  PROVE  \E id \in IdSet, e \in EntrySet :
           /\ id = <<t, Len(journal[t]) + 1>> /\ id \notin Ids /\ Ids' = Ids \cup {id}
           /\ Request(id)' = e /\ \A k \in Ids : Request(k)' = Request(k)
           /\ e.type = entry.type /\ e.orig = entry.orig /\ e.fate = entry.fate
           /\ \A i \in DOMAIN e.answers :
                /\ e.answers[i].status \in {"FAILED", "FORWARDED"}
                /\ e.answers[i].error \in {"NOT_READY", "UNDEFINED"}
           /\ \A d \in Ring : \A i \in DOMAIN calls'[d] :
                \/ \E k \in DOMAIN calls[d] : calls'[d][i] = calls[d][k]
                \/ calls'[d][i].id = id /\ calls'[d][i].response = NoResponse
           /\ \A k \in Ids : Waiting(k)' => Waiting(k)
<1> DEFINE first == IF NoneReady
                    THEN <<AnswerOf("GATEWAY", "FAILED", "NOT_READY")>>
                    ELSE IF entry.type = "CANCEL_ALL_ORDERS"
                    THEN <<AnswerOf("GATEWAY", "FORWARDED", "UNDEFINED")>>
                    ELSE <<>>
           e == [entry EXCEPT !.answers = first]
<1>1. /\ first \in Seq(Answer)
      /\ \A i \in DOMAIN first : /\ first[i].status \in {"FAILED", "FORWARDED"}
                                 /\ first[i].error \in {"NOT_READY", "UNDEFINED"}
  <2>1. /\ AnswerOf("GATEWAY", "FAILED", "NOT_READY") \in Answer
        /\ AnswerOf("GATEWAY", "FORWARDED", "UNDEFINED") \in Answer
    BY DEF AnswerOf, Answer, RequestStatus, Error
  <2>2. /\ AnswerOf("GATEWAY", "FAILED", "NOT_READY").status = "FAILED"
        /\ AnswerOf("GATEWAY", "FAILED", "NOT_READY").error = "NOT_READY"
        /\ AnswerOf("GATEWAY", "FORWARDED", "UNDEFINED").status = "FORWARDED"
        /\ AnswerOf("GATEWAY", "FORWARDED", "UNDEFINED").error = "UNDEFINED"
    BY DEF AnswerOf
  <2> QED
    BY <2>1, <2>2
<1> HIDE DEF first
<1>2. /\ e \in EntrySet /\ e.type = entry.type /\ e.orig = entry.orig
      /\ e.fate = entry.fate /\ e.answers = first
  BY <1>1 DEF EntrySet, Fits
<1>3. /\ Len(journal[t]) < Versions
      /\ journal' = [journal EXCEPT ![t] = Append(@, e)]
  BY DEF Forward, first
<1> HIDE DEF e
<1>4. PICK id : id = <<t, Len(journal[t]) + 1>>
  OBVIOUS
<1>5. /\ id \in IdSet /\ id \notin Ids /\ Ids' = Ids \cup {id}
      /\ Request(id)' = e
      /\ \A k \in Ids : Request(k)' = Request(k)
  <2>1. e.orig <= Len(journal[t]) /\ (e.type = "CANCEL_ALL_ORDERS" <=> t = All)
    BY <1>2 DEF Fits
  <2> QED
    BY <1>2, <1>3, <1>4, <2>1, EntryAdded, ZenonT(60) DEF Answering
<1>6. /\ \A d \in Ring : \A i \in DOMAIN calls'[d] :
           \/ \E k \in DOMAIN calls[d] : calls'[d][i] = calls[d][k]
           \/ calls'[d][i].id = id /\ calls'[d][i].response = NoResponse
      /\ \A k \in Ids : Waiting(k)' => Waiting(k)
  <2>1. CASE NoneReady
    <3>1. calls' = calls
      BY <2>1 DEF Forward
    <3> QED
      BY <3>1 DEF Waiting
  <2>2. CASE ~NoneReady
    <3>1. PICK c \in Ring : c = NextReady
      BY <2>2, NextIsReady DEF TurnType
    <3>2. PICK call : call = [id |-> id, response |-> NoResponse]
      OBVIOUS
    <3>3. calls' = [calls EXCEPT ![c] = Append(@, call)]
      BY <1>4, <2>2, <3>1, <3>2 DEF Forward
    <3>4. WireType /\ WaitsOnce
      BY DEF Answering
    <3>5. \A k : Waiting(k)' <=> Waiting(k) \/ k = id
      BY <1>5, <3>2, <3>3, <3>4, CallAdded
    <3>6. \A d \in Ring : \A i \in DOMAIN calls'[d] :
            \/ calls'[d][i] = call
            \/ \E k \in DOMAIN calls[d] : calls'[d][i] = calls[d][k]
      BY <1>5, <3>2, <3>3, <3>4, CallAdded
    <3> QED
      BY <1>5, <3>2, <3>5, <3>6
  <2> QED
    BY <2>1, <2>2
<1> QED
  BY <1>1, <1>2, <1>4, <1>5, <1>6

LEMMA ForwardOnce ==
  ASSUME TurnType, Answering, Once, NEW t \in Targets, NEW entry, Fits(t, entry),
         Forward(t, entry)
  PROVE  Once'
<1>1. PICK id \in IdSet, e \in EntrySet :
        /\ id = <<t, Len(journal[t]) + 1>> /\ Ids' = Ids \cup {id}
        /\ Request(id)' = e /\ \A k \in Ids : Request(k)' = Request(k)
        /\ e.type = entry.type /\ e.fate = entry.fate
        /\ \A d \in Ring : \A i \in DOMAIN calls'[d] :
             \/ \E k \in DOMAIN calls[d] : calls'[d][i] = calls[d][k]
             \/ calls'[d][i].id = id
        /\ \A k \in Ids : Waiting(k)' => Waiting(k)
  BY ForwardAdds
<1>2. UNCHANGED <<orphans, orders>>
  BY DEF Forward, exchange
<1>3. (e.type = "CREATE_ORDER" => id[2] = 1) /\ e.fate = "open"
  BY <1>1 DEF Fits
<1>4. \A k \in orphans' : k \in Ids /\ ~Waiting(k)' /\ Request(k)'.fate = "open"
  <2>1. \A k \in orphans : k \in Ids /\ ~Waiting(k) /\ Request(k).fate = "open"
    BY DEF Answering, WireType, Once, Gone, Unsettled
  <2> QED
    BY <1>1, <1>2, <2>1
<1>5. \A d \in Ring : \A i \in DOMAIN calls'[d] :
        \/ \E k \in DOMAIN calls[d] : calls'[d][i] = calls[d][k]
        \/ \E k : calls'[d][i].id = k /\ Request(k)'.fate = "open"
  BY <1>1, <1>3
<1> QED
  BY <1>1, <1>2, <1>3, <1>4, <1>5, OnceKept DEF Answering

LEMMA RequestsOnce ==
  ASSUME TurnType, Answering, Once,
         \/ CancelAllOrders
         \/ \E o \in Orders : CreateOrder(o) \/ ModifyOrder(o) \/ CancelOrder(o)
  PROVE  Once'
<1>1. PICK t \in Targets, entry \in EntrySet : Fits(t, entry) /\ Forward(t, entry)
  BY RequestsFit DEF Answering
<1> QED
  BY <1>1, ForwardOnce

(* A request is served, its connection there or not.                       *)
LEMMA FateGiven ==
  ASSUME JournalType, NEW id \in Ids, NEW fate \in Fates,
         journal' = [journal EXCEPT ![id[1]][id[2]].fate = fate]
  PROVE  Request(id)'.fate = fate
<1> DEFINE t == id[1]
           v == id[2]
           e == [Request(id) EXCEPT !.fate = fate]
           j == [journal EXCEPT ![t] = [@ EXCEPT ![v] = e]]
<1>1. t \in Targets /\ v \in DOMAIN journal[t] /\ Request(id) \in EntrySet
      /\ Request(id) = journal[t][v]
  BY IdsType
<1>2. e \in EntrySet /\ e.type = Request(id).type /\ e.orig = Request(id).orig
      /\ e.named = Request(id).named /\ e.fate = fate
  BY <1>1 DEF EntrySet
<1>3. journal' = j
  BY <1>1
<1> HIDE DEF e
<1>4. \A u \in Targets : \A w \in DOMAIN journal[u] :
        j[u][w] = IF u = t /\ w = v THEN e ELSE journal[u][w]
  <2>1. e.type = journal[t][v].type /\ e.orig = journal[t][v].orig
        /\ e.named = journal[t][v].named
    BY <1>1, <1>2
  <2> HIDE DEF t, v
  <2> QED
    BY <1>1, <1>2, <2>1, EntryReplaced
<1> HIDE DEF j
<1>5. journal'[t][v] = e
  BY <1>1, <1>3, <1>4
<1> QED
  BY <1>2, <1>5 DEF Request

LEMMA ReactOnce ==
  ASSUME JournalType, WireType, Once, NEW id \in Ids, NEW r,
         Sound(r, Request(id).type), Legal(id, r), React(id, r),
         \A d \in Ring : \A i \in DOMAIN calls'[d] : \E k \in DOMAIN calls[d] :
           /\ calls'[d][i].id = calls[d][k].id
           /\ calls'[d][i].response = NoResponse =>
                calls[d][k].response = NoResponse /\ calls[d][k].id # id,
         \A k \in orphans' : k \in orphans /\ k # id /\ ~Waiting(k)'
  PROVE  Once'
<1>1. /\ r.fate \in Fates /\ r.fate # "open" /\ orders' = r.orders
      /\ journal' = [journal EXCEPT ![id[1]][id[2]].fate = r.fate]
  BY DEF Sound, Legal, React
<1>2. Request(id)'.fate = r.fate /\ \A k \in Ids : k # id => Request(k)'.fate = Request(k).fate
  BY <1>1, FateGiven, FateUnchanged
<1>3. Ids' = Ids /\ \A k \in Ids : Request(k)'.type = Request(k).type
  <2>1. Given(journal', {})
    BY <1>1, FateRewrites
  <2> QED
    BY <2>1, RewrittenJournal DEF Given
<1>4. Gone'
  BY DEF Gone
<1>5. CreatedFirst'
  <2> SUFFICES ASSUME NEW k \in Ids', Request(k)'.type = "CREATE_ORDER"
               PROVE  k[2] = 1
    BY DEF CreatedFirst
  <2> QED
    BY <1>3 DEF Once, CreatedFirst
<1>6. Created'
  <2> SUFFICES ASSUME NEW o \in Orders, r.orders[o].status # "NONE"
               PROVE  <<o, 1>> \in Ids' /\ Request(<<o, 1>>)'.fate # "open"
    BY <1>1 DEF Created
  <2>1. CASE orders[o].status # "NONE"
    <3>1. <<o, 1>> \in Ids /\ Request(<<o, 1>>).fate # "open"
      BY <2>1 DEF Once, Created
    <3> QED
      BY <1>1, <1>2, <1>3, <3>1
  <2>2. CASE orders[o].status = "NONE"
    <3>1. o = id[1] /\ Request(id).type = "CREATE_ORDER"
      BY <2>2 DEF Legal
    <3>2. id[2] = 1 /\ id = <<id[1], id[2]>>
      BY <3>1, IdsType DEF Once, CreatedFirst
    <3>3. id = <<o, 1>>
      BY <3>1, <3>2
    <3> QED
      BY <1>1, <1>2, <1>3, <3>3
  <2> QED
    BY <2>1, <2>2
<1>7. ASSUME NEW d \in Ring, NEW i \in DOMAIN calls'[d],
             calls'[d][i].response = NoResponse
      PROVE  journal'[calls'[d][i].id[1]][calls'[d][i].id[2]].fate = "open"
  <2>1. PICK k \in DOMAIN calls[d] :
          /\ calls'[d][i].id = calls[d][k].id
          /\ calls[d][k].response = NoResponse /\ calls[d][k].id # id
    BY <1>7
  <2>2. PICK a : a = calls[d][k].id
    OBVIOUS
  <2>3. a \in Ids /\ Request(a).fate = "open" /\ a # id
    BY <2>1, <2>2 DEF WireType, Once, Unsettled
  <2>4. Request(a)'.fate = "open"
    BY <1>2, <2>3
  <2> QED
    BY <2>1, <2>2, <2>4 DEF Request
<1>8. ASSUME NEW k \in orphans'
      PROVE  Request(k)'.fate = "open"
  BY <1>2, <1>8 DEF WireType, Once, Unsettled
<1>9. Unsettled'
  BY <1>7, <1>8 DEF Unsettled, Request
<1> QED
  BY <1>4, <1>5, <1>6, <1>9 DEF Once

(* The client calls back, or a connection is lost.                         *)
LEMMA AnswersOnce ==
  ASSUME Answering, Once, orders' = orders, Rewritten(journal'), SameFates(journal'),
         \A d \in Ring : \A i \in DOMAIN calls'[d] :
           \E k \in DOMAIN calls[d] : calls'[d][i] = calls[d][k],
         \A id \in orphans' : /\ ~Waiting(id)'
                              /\ \/ id \in orphans
                                 \/ id \in Ids /\ Request(id).fate = "open"
  PROVE  Once'
<1>1. WireType /\ JournalType
  BY DEF Answering
<1>2. Ids' = Ids /\ \A id \in Ids : /\ Request(id)'.fate = Request(id).fate
                                    /\ Request(id)'.type = Request(id).type
  BY <1>1, RewrittenJournal DEF SameFates, Request
<1>3. \A id \in orphans' : id \in Ids /\ Request(id).fate = "open"
  BY <1>1 DEF WireType, Once, Unsettled
<1>4. \A id \in orphans' : ~Waiting(id)' /\ Request(id)'.fate = "open"
  BY <1>2, <1>3
<1> QED
  BY <1>1, <1>2, <1>4, OnceKept

LEMMA CallbackOnce ==
  ASSUME Answering, Once, NEW c \in Ring, HandleResponse(c) \/ Timeout(c)
  PROVE  Once'
<1>1. WireType /\ WaitsOnce /\ JournalType /\ calls[c] # <<>> /\ orphans \subseteq Ids
      /\ orders' = orders
  BY DEF Answering, WireType, HandleResponse, Timeout, exchange
<1>2. calls' = [calls EXCEPT ![c] = Tail(@)]
  BY DEF HandleResponse, Timeout
<1>3. 1 \in DOMAIN calls[c] /\ Head(calls[c]) = calls[c][1]
      /\ \A d \in Ring : \A i \in DOMAIN calls'[d] :
           \E k \in DOMAIN calls[d] : calls'[d][i] = calls[d][k]
  BY <1>1, <1>2, CallTaken
<1>4. \A k : Waiting(k)' <=> Waiting(k) /\ k # calls[c][1].id
  BY <1>1, <1>2, CallTaken
<1>5. PICK id : id = calls[c][1].id
  OBVIOUS
<1>6. /\ id \in Ids /\ Waiting(id) /\ calls[c][1].response \in Responses
      /\ Answers(calls[c][1].response, Request(id).type)
  BY <1>1, <1>3, <1>5, CallType
<1>7. PICK response \in Responses :
        Answers(response, Request(id).type) /\ journal' = Tell(journal, id, response)
  <2>1. CASE HandleResponse(c)
    <3>1. journal' = Tell(journal, id, calls[c][1].response)
      BY <1>3, <1>5, <2>1 DEF HandleResponse
    <3> QED
      BY <1>6, <3>1
  <2>2. CASE Timeout(c)
    <3> DEFINE none == Response("TIMEOUT", {}, <<>>)
    <3>1. none \in Responses /\ \A type : Answers(none, type)
      BY DEF Response, Responses, Categories, Texts, Answers
    <3>2. journal' = Tell(journal, id, none)
      BY <1>3, <1>5, <2>2 DEF Timeout
    <3> HIDE DEF none
    <3> QED
      BY <3>1, <3>2
  <2> QED
    BY <2>1, <2>2
<1>8. Rewritten(journal') /\ SameFates(journal')
  BY <1>1, <1>6, <1>7, TellGives DEF Given
<1>9. ASSUME NEW k \in orphans'
      PROVE  /\ ~Waiting(k)'
             /\ k \in orphans \/ (k \in Ids /\ Request(k).fate = "open")
  <2>1. CASE k \in orphans
    BY <1>4, <2>1 DEF Once, Gone
  <2>2. CASE k \notin orphans
    <3>1. k = id /\ 1 \in Unserved(c)
      BY <1>3, <1>5, <1>9, <2>2 DEF HandleResponse, Timeout, wire
    <3>2. Request(k).fate = "open"
      BY <1>3, <1>5, <3>1 DEF Unserved, Once, Unsettled
    <3> QED
      BY <1>4, <1>5, <1>6, <3>1, <3>2
  <2> QED
    BY <2>1, <2>2
<1> QED
  BY <1>1, <1>3, <1>8, <1>9, AnswersOnce

LEMMA LostOnce ==
  ASSUME Answering, Once, NEW c \in Ring, Disconnected(c)
  PROVE  Once'
<1>1. /\ WireType /\ WaitsOnce /\ JournalType /\ orphans \subseteq Ids /\ orders' = orders
  BY DEF Answering, WireType, Disconnected, exchange
<1>2. Rewritten(journal') /\ SameFates(journal')
  <2>1. Rewritten(journal')
    BY <1>1, TellAllGives DEF Given, Disconnected
  <2>2. SameFates(journal')
    BY <1>1, LostTold DEF SameFates, Request
  <2> QED
    BY <2>1, <2>2
<1>3. \A d \in Ring : \A i \in DOMAIN calls'[d] :
        d # c /\ i \in DOMAIN calls[d] /\ calls'[d][i] = calls[d][i]
  <2>1. calls' = [calls EXCEPT ![c] = <<>>]
    BY DEF Disconnected
  <2>2. \A d \in Ring : IF d = c THEN calls'[d] = <<>> ELSE calls'[d] = calls[d]
    BY <1>1, <2>1 DEF WireType
  <2> QED
    BY <2>2
<1>4. \A id : Waiting(id)' => Waiting(id) /\ \A i \in DOMAIN calls[c] : id # calls[c][i].id
  BY <1>1, <1>3 DEF Waiting, WaitsOnce
<1>5. ASSUME NEW k \in orphans'
      PROVE  /\ ~Waiting(k)'
             /\ k \in orphans \/ (k \in Ids /\ Request(k).fate = "open")
  <2>1. CASE k \in orphans
    BY <1>4, <2>1 DEF Once, Gone
  <2>2. CASE k \notin orphans
    <3>1. PICK i \in Sent(c) \cap Unserved(c) : k = calls[c][i].id
      BY <1>5, <2>2 DEF Disconnected
    <3>2. i \in DOMAIN calls[c] /\ calls[c][i].response = NoResponse
      BY DEF Unserved
    <3>3. k \in Ids /\ Request(k).fate = "open"
      BY <1>1, <3>1, <3>2 DEF WireType, Once, Unsettled
    <3> QED
      BY <1>4, <3>1, <3>2, <3>3
  <2> QED
    BY <2>1, <2>2
<1>6. \A d \in Ring : \A i \in DOMAIN calls'[d] :
        \E k \in DOMAIN calls[d] : calls'[d][i] = calls[d][k]
  BY <1>3
<1> QED
  BY <1>1, <1>2, <1>5, <1>6, AnswersOnce

(* Nothing of it changes but orders that are there already.                *)
LEMMA ElsewhereOnce ==
  ASSUME Once, UNCHANGED <<calls, orphans, journal>>,
         \A o \in Orders : orders'[o].status # "NONE" => orders[o].status # "NONE"
  PROVE  Once'
<1>1. Ids' = Ids /\ \A id : Request(id)' = Request(id) /\ Waiting(id)' = Waiting(id)
  BY DEF Ids, Request, Waiting
<1>2. Gone' /\ CreatedFirst'
  BY <1>1 DEF Once, Gone, CreatedFirst
<1>3. Unsettled'
  BY DEF Once, Unsettled, Request
<1>4. Created'
  BY <1>1 DEF Once, Created
<1> QED
  BY <1>2, <1>3, <1>4 DEF Once

(* A connection serves a request: its response is the exchange's reaction. *)
Reacted(id, r) ==
  /\ id \in Ids /\ Request(id).fate = "open"
  /\ Sound(r, Request(id).type) /\ Legal(id, r) /\ React(id, r)
Responded(id, r) ==
  \A d \in Ring : \A k \in DOMAIN calls'[d] :
    /\ k \in DOMAIN calls[d] /\ calls'[d][k].id = calls[d][k].id
    /\ IF calls[d][k].id = id THEN calls'[d][k].response = r.response
       ELSE calls'[d][k] = calls[d][k]

LEMMA ServeReacts ==
  ASSUME Answering, Once, NEW c \in Ring, Serve(c)
  PROVE  \E id : Waiting(id) /\ \E r \in Reactions(id) : Reacted(id, r) /\ Responded(id, r)
<1>1. JournalType /\ WireType /\ WaitsOnce /\ OrdersType
  BY DEF Answering
<1>2. PICK i \in Sent(c) \cap Unserved(c) :
        \E r \in Reactions(calls[c][i].id) :
          /\ React(calls[c][i].id, r)
          /\ calls' = [calls EXCEPT ![c][i].response = r.response]
  BY DEF Serve
<1>3. PICK id : id = calls[c][i].id
  OBVIOUS
<1>4. PICK r \in Reactions(id) :
        React(id, r) /\ calls' = [calls EXCEPT ![c][i].response = r.response]
  BY <1>2, <1>3
<1>5. i \in DOMAIN calls[c] /\ calls[c][i].response = NoResponse
  BY DEF Unserved
<1>6. id \in Ids /\ Waiting(id) /\ calls[c] \in Seq(CallSet) /\ calls[c][i] \in CallSet
  BY <1>1, <1>3, <1>5, CallType DEF WireType
<1>7. Request(id).fate = "open"
  BY <1>3, <1>5 DEF Once, Unsettled
<1>8. Sound(r, Request(id).type) /\ Legal(id, r)
  <2>1. Request(id).type = "CREATE_ORDER" => orders[id[1]].status = "NONE"
    BY <1>1, <1>6, <1>7, NotYet
  <2> QED
    BY <1>1, <1>6, <2>1, ReactionSound, ReactionLegal
<1> DEFINE call == [calls[c][i] EXCEPT !.response = r.response]
<1>9. call.response = r.response /\ call.id = id
  BY <1>3, <1>6 DEF CallSet
<1>10. calls' = [calls EXCEPT ![c] = [@ EXCEPT ![i] = call]]
  BY <1>4
<1> HIDE DEF call
<1>11. \A d \in Ring : \A k \in DOMAIN calls'[d] :
         /\ k \in DOMAIN calls[d]
         /\ calls'[d][k] = IF d = c /\ k = i THEN call ELSE calls[d][k]
  <2>1. \A d \in Ring : calls'[d] = IF d = c THEN [calls[c] EXCEPT ![i] = call]
                                   ELSE calls[d]
    BY <1>1, <1>10 DEF WireType
  <2>2. \A k \in DOMAIN [calls[c] EXCEPT ![i] = call] :
          /\ k \in DOMAIN calls[c]
          /\ [calls[c] EXCEPT ![i] = call][k] = IF k = i THEN call ELSE calls[c][k]
    BY <1>6
  <2> QED
    BY <2>1, <2>2
<1>12. \A d \in Ring : \A k \in DOMAIN calls[d] : calls[d][k].id = id => d = c /\ k = i
  BY <1>1, <1>3, <1>5 DEF WaitsOnce
<1>13. Responded(id, r)
  BY <1>3, <1>9, <1>11, <1>12 DEF Responded
<1> QED
  BY <1>4, <1>6, <1>7, <1>8, <1>13 DEF Reacted

LEMMA OrphanReacts ==
  ASSUME Answering, Once, ServeOrphan
  PROVE  \E id \in orphans : /\ orphans' = orphans \ {id}
                             /\ \E r \in Fair(id) : Reacted(id, r)
<1>1. JournalType /\ WireType /\ OrdersType
  BY DEF Answering
<1>2. PICK id \in orphans : orphans' = orphans \ {id} /\ \E r \in Fair(id) : React(id, r)
  BY DEF ServeOrphan
<1>3. PICK r \in Fair(id) : React(id, r)
  BY <1>2
<1>4. id \in Ids /\ Request(id).fate = "open"
  BY <1>1 DEF WireType, Once, Unsettled
<1>5. Sound(r, Request(id).type) /\ Legal(id, r)
  <2>1. Request(id).type = "CREATE_ORDER" => orders[id[1]].status = "NONE"
    BY <1>1, <1>4, NotYet
  <2> QED
    BY <1>1, <1>4, <2>1, FairSound, FairLegal
<1> QED
  BY <1>2, <1>3, <1>4, <1>5 DEF Reacted

LEMMA ServedOnce ==
  ASSUME Answering, Once, ServeOrphan \/ \E c \in Ring : Serve(c)
  PROVE  Once'
<1>1. JournalType /\ WireType
  BY DEF Answering
<1>2. ASSUME NEW c \in Ring, Serve(c)
      PROVE  Once'
  <2>1. PICK id : Waiting(id) /\ \E r \in Reactions(id) : Reacted(id, r) /\ Responded(id, r)
    BY <1>2, ServeReacts
  <2> PICK r \in Reactions(id) : Reacted(id, r) /\ Responded(id, r)
    BY <2>1
  <2>2. \A d \in Ring : \A k \in DOMAIN calls'[d] :
          /\ k \in DOMAIN calls[d] /\ calls'[d][k].id = calls[d][k].id
          /\ calls'[d][k].response = NoResponse =>
               calls[d][k].response = NoResponse /\ calls[d][k].id # id
    BY DEF Reacted, Responded, Legal
  <2>3. \A d \in Ring : \A j \in DOMAIN calls'[d] : \E k \in DOMAIN calls[d] :
          /\ calls'[d][j].id = calls[d][k].id
          /\ calls'[d][j].response = NoResponse =>
               calls[d][k].response = NoResponse /\ calls[d][k].id # id
    BY <2>2
  <2>4. orphans' = orphans /\ \A k : Waiting(k)' => Waiting(k)
    BY <1>2, <2>2 DEF Serve, Waiting
  <2>5. \A k \in orphans' : k \in orphans /\ k # id /\ ~Waiting(k)'
    BY <2>1, <2>4 DEF Once, Gone
  <2> QED
    BY <1>1, <2>3, <2>5, ReactOnce DEF Reacted
<1>3. CASE ServeOrphan
  <2>1. PICK id \in orphans : orphans' = orphans \ {id} /\ \E r \in Fair(id) : Reacted(id, r)
    BY <1>3, OrphanReacts
  <2> PICK r \in Fair(id) : Reacted(id, r)
    BY <2>1
  <2>2. calls' = calls
    BY <1>3 DEF ServeOrphan
  <2>3. ~Waiting(id) /\ \A k : Waiting(k)' = Waiting(k)
    BY <2>2 DEF Once, Gone, Waiting
  <2>4. \A k \in orphans' : k \in orphans /\ k # id /\ ~Waiting(k)'
    BY <2>1, <2>3 DEF Once, Gone
  <2>5. \A d \in Ring : \A i \in DOMAIN calls'[d] : \E k \in DOMAIN calls[d] :
          /\ calls'[d][i].id = calls[d][k].id
          /\ calls'[d][i].response = NoResponse =>
               calls[d][k].response = NoResponse /\ calls[d][k].id # id
    BY <2>2, <2>3 DEF Waiting
  <2> QED
    BY <1>1, <2>4, <2>5, ReactOnce DEF Reacted
<1> QED
  BY <1>2, <1>3

LEMMA FillOnce ==
  ASSUME Answering, Once, NEW o \in Orders, Fill(o)
  PROVE  Once'
<1>1. orders' = Turn(o, "FILLED", orders[o].version) /\ orders[o].status = "NEW"
      /\ UNCHANGED <<calls, orphans, journal>>
  BY DEF Fill, wire, users, Resting
<1>2. \A p \in Orders : p # o => orders'[p] = orders[p]
  BY <1>1 DEF Turn, Answering, OrdersType
<1>3. \A p \in Orders : orders'[p].status # "NONE" => orders[p].status # "NONE"
  BY <1>1, <1>2
<1> QED
  BY <1>1, <1>3, ElsewhereOnce

LEMMA OnceAlways ==
  ASSUME Turns, Answering, Once, [Next]_vars
  PROVE  Once'
<1>1. TurnType
  BY DEF Turns
<1>2. CASE \/ CancelAllOrders
           \/ \E o \in Orders : CreateOrder(o) \/ ModifyOrder(o) \/ CancelOrder(o)
  BY <1>1, <1>2, RequestsOnce
<1>3. CASE ServeOrphan \/ \E c \in Ring : Serve(c)
  BY <1>3, ServedOnce
<1>4. CASE \E o \in Orders : Fill(o)
  BY <1>4, FillOnce
<1>5. CASE \E c \in Ring : HandleResponse(c) \/ Timeout(c) \/ Disconnected(c)
  BY <1>5, CallbackOnce, LostOnce
<1>6. CASE (\E c \in Ring : Connected(c)) \/ ExecutionArrives \/ UNCHANGED vars
  <2>1. UNCHANGED <<calls, orphans, journal, orders>>
    BY <1>6 DEF Connected, ExecutionArrives, vars, wire, exchange, users
  <2> QED
    BY <2>1, ElsewhereOnce
<1> QED
  BY <1>2, <1>3, <1>4, <1>5, <1>6 DEF Next

-------------------------------------------------------------------------------
(* guess_error: a text of the list has the error of its first entry, and   *)
(* only such texts have one.                                               *)

Worded(entry) ==
  /\ Len(entry[2]) \in Nat /\ Len(entry[2]) >= 2 /\ entry[2][1] # "request"
  /\ entry[2][1] = "rate" => Len(entry[2]) < 7
  /\ entry[2][1] = "invalid" =>
       /\ entry[2][2] = "price" => entry[1] = "INVALID_PRICE"
       /\ entry[2][2] \in {"origClOrdID", "ordStatus"} =>
            entry[1] = "TOO_LATE_TO_MODIFY_OR_CANCEL"
       /\ entry[2][2] = "orderID" => entry[1] = "INVALID_ORDER_ID"

LEMMA ListedDomain == DOMAIN Listed = 1..44 /\ DOMAIN Listed \subseteq Nat
<1>1. DOMAIN Listed = 1..44
  BY DEF Listed
<1>2. 1..44 \subseteq Nat
  OBVIOUS
<1> QED
  BY <1>1, <1>2

LEMMA ListedWorded == \A n \in DOMAIN Listed : Worded(Listed[n])
<1>1. Worded(Listed[1]) /\ Worded(Listed[2])
      /\ Worded(Listed[3]) /\ Worded(Listed[4])
  BY SMTT(60) DEF Listed, Worded
<1>2. Worded(Listed[5]) /\ Worded(Listed[6])
      /\ Worded(Listed[7]) /\ Worded(Listed[8])
  BY SMTT(60) DEF Listed, Worded
<1>3. Worded(Listed[9]) /\ Worded(Listed[10])
      /\ Worded(Listed[11]) /\ Worded(Listed[12])
  BY SMTT(60) DEF Listed, Worded
<1>4. Worded(Listed[13]) /\ Worded(Listed[14])
      /\ Worded(Listed[15]) /\ Worded(Listed[16])
  BY SMTT(60) DEF Listed, Worded
<1>5. Worded(Listed[17]) /\ Worded(Listed[18])
      /\ Worded(Listed[19]) /\ Worded(Listed[20])
  BY SMTT(60) DEF Listed, Worded
<1>6. Worded(Listed[21]) /\ Worded(Listed[22])
      /\ Worded(Listed[23]) /\ Worded(Listed[24])
  BY SMTT(60) DEF Listed, Worded
<1>7. Worded(Listed[25]) /\ Worded(Listed[26])
      /\ Worded(Listed[27]) /\ Worded(Listed[28])
  BY SMTT(60) DEF Listed, Worded
<1>8. Worded(Listed[29]) /\ Worded(Listed[30])
      /\ Worded(Listed[31]) /\ Worded(Listed[32])
  BY SMTT(60) DEF Listed, Worded
<1>9. Worded(Listed[33]) /\ Worded(Listed[34])
      /\ Worded(Listed[35]) /\ Worded(Listed[36])
  BY SMTT(60) DEF Listed, Worded
<1>10. Worded(Listed[37]) /\ Worded(Listed[38])
      /\ Worded(Listed[39]) /\ Worded(Listed[40])
  BY SMTT(60) DEF Listed, Worded
<1>11. Worded(Listed[41]) /\ Worded(Listed[42])
      /\ Worded(Listed[43]) /\ Worded(Listed[44])
  BY SMTT(60) DEF Listed, Worded
<1>12. ASSUME NEW n \in 1..44
       PROVE  Worded(Listed[n])
  <2>1. CASE n \in 1..4
    BY <1>1, <2>1
  <2>2. CASE n \in 5..8
    BY <1>2, <2>2
  <2>3. CASE n \in 9..12
    BY <1>3, <2>3
  <2>4. CASE n \in 13..16
    BY <1>4, <2>4
  <2>5. CASE n \in 17..20
    BY <1>5, <2>5
  <2>6. CASE n \in 21..24
    BY <1>6, <2>6
  <2>7. CASE n \in 25..28
    BY <1>7, <2>7
  <2>8. CASE n \in 29..32
    BY <1>8, <2>8
  <2>9. CASE n \in 33..36
    BY <1>9, <2>9
  <2>10. CASE n \in 37..40
    BY <1>10, <2>10
  <2>11. CASE n \in 41..44
    BY <1>11, <2>11
  <2> QED
    BY <2>1, <2>2, <2>3, <2>4, <2>5, <2>6, <2>7, <2>8, <2>9, <2>10, <2>11
<1> QED
  BY <1>12, ListedDomain

(* Two words begin a text if they are its first.                           *)
LEMMA TwoBegin ==
  ASSUME NEW a, NEW b, NEW text, Len(text) >= 2
  PROVE  BeginningOf(<<a, b>>, text) <=> text[1] = a /\ text[2] = b
<1> DEFINE S == {a, b, text[1], text[2]}
           two == <<a, b>>
           start == SubSeq(text, 1, 2)
<1>1. two \in Seq(S) /\ Len(two) = 2 /\ two[1] = a /\ two[2] = b
  OBVIOUS
<1>2. /\ start \in Seq(S) /\ Len(start) = 2
      /\ start[1] = text[1] /\ start[2] = text[2]
  <2>1. \A i \in 1..2 : text[i] \in S
    OBVIOUS
  <2> HIDE DEF S
  <2>2. /\ start \in Seq(S) /\ Len(start) = IF 1 <= 2 THEN 2 - 1 + 1 ELSE 0
        /\ \A i \in 1..(2 - 1 + 1) : start[i] = text[1 + i - 1]
    BY <2>1, SubSeqProperties
  <2> QED
    BY <2>2
<1>3. BeginningOf(two, text) <=> two = start
  BY <1>1 DEF BeginningOf
<1> HIDE DEF S, two, start
<1>4. two = start <=> text[1] = a /\ text[2] = b
  <2>1. ASSUME text[1] = a, text[2] = b PROVE two = start
    <3>1. \A i \in 1..2 : two[i] = start[i]
      <4>1. \A i \in 1..2 : i = 1 \/ i = 2
        OBVIOUS
      <4> QED
        BY <1>1, <1>2, <2>1, <4>1
    <3> QED
      BY <1>1, <1>2, <3>1, SeqEqual
  <2> QED
    BY <1>1, <1>2, <2>1
<1> QED
  BY <1>3, <1>4 DEF two

LEMMA FirstHit ==
  ASSUME NEW message, message # <<>>, NEW k \in Hits(message), NEW error,
         \A n \in Hits(message) : Listed[n][1] = error
  PROVE  GuessError(message) = error
<1>1. Hits(message) \subseteq Nat
  BY ListedDomain DEF Hits
<1> HIDE DEF Hits
<1>2. \E n \in Hits(message) : \A m \in Hits(message) : n <= m
  BY <1>1, LeastNatural
<1>3. PICK n \in Hits(message) : GuessError(message) = Listed[n][1]
  BY <1>2 DEF GuessError
<1> QED
  BY <1>3

(* Two words that begin only texts listed under one error.                 *)
LEMMA GuessTwo ==
  ASSUME NEW a, NEW b, NEW k \in DOMAIN Listed, Listed[k][2][1] = a, Listed[k][2][2] = b,
         NEW error,
         \A n \in DOMAIN Listed :
           Listed[n][2][1] = a /\ Listed[n][2][2] = b => Listed[n][1] = error
  PROVE  GuessError(<<a, b>>) = error
<1>1. \A n \in DOMAIN Listed : Len(Listed[n][2]) >= 2
  BY ListedWorded DEF Worded
<1>2. \A n : n \in Hits(<<a, b>>) <=>
        n \in DOMAIN Listed /\ Listed[n][2][1] = a /\ Listed[n][2][2] = b
  BY <1>1, TwoBegin DEF Hits, Matches
<1>3. <<a, b>> # <<>>
  OBVIOUS
<1>4. k \in Hits(<<a, b>>) /\ \A n \in Hits(<<a, b>>) : Listed[n][1] = error
  BY <1>2
<1> QED
  BY <1>3, <1>4, FirstHit

LEMMA Guesses ==
  /\ GuessError(<<"invalid", "price">>) = "INVALID_PRICE"
  /\ GuessError(<<"invalid", "origClOrdID">>) = "TOO_LATE_TO_MODIFY_OR_CANCEL"
  /\ GuessError(<<"invalid", "ordStatus">>) = "TOO_LATE_TO_MODIFY_OR_CANCEL"
  /\ GuessError(<<"invalid", "orderID">>) = "INVALID_ORDER_ID"
<1>1. /\ {15, 18, 21, 23} \subseteq DOMAIN Listed
      /\ Listed[23][2][1] = "invalid" /\ Listed[23][2][2] = "price"
      /\ Listed[21][2][1] = "invalid" /\ Listed[21][2][2] = "origClOrdID"
      /\ Listed[15][2][1] = "invalid" /\ Listed[15][2][2] = "ordStatus"
      /\ Listed[18][2][1] = "invalid" /\ Listed[18][2][2] = "orderID"
  BY DEF Listed
<1>2. ASSUME NEW b, NEW k \in DOMAIN Listed, Listed[k][2][1] = "invalid",
             Listed[k][2][2] = b, NEW error,
             \A n \in DOMAIN Listed :
               Listed[n][2][1] = "invalid" /\ Listed[n][2][2] = b => Listed[n][1] = error
      PROVE  GuessError(<<"invalid", b>>) = error
  BY <1>2, GuessTwo
<1>3. \A n \in DOMAIN Listed : Listed[n][2][1] = "invalid" =>
        /\ Listed[n][2][2] = "price" => Listed[n][1] = "INVALID_PRICE"
        /\ Listed[n][2][2] = "origClOrdID" => Listed[n][1] = "TOO_LATE_TO_MODIFY_OR_CANCEL"
        /\ Listed[n][2][2] = "ordStatus" => Listed[n][1] = "TOO_LATE_TO_MODIFY_OR_CANCEL"
        /\ Listed[n][2][2] = "orderID" => Listed[n][1] = "INVALID_ORDER_ID"
  BY ListedWorded DEF Worded
<1>4. GuessError(<<"invalid", "price">>) = "INVALID_PRICE"
  <2>1. PICK k \in DOMAIN Listed : Listed[k][2][1] = "invalid" /\ Listed[k][2][2] = "price"
    BY <1>1
  <2> QED
    BY <1>2, <1>3, <2>1
<1>5. GuessError(<<"invalid", "origClOrdID">>) = "TOO_LATE_TO_MODIFY_OR_CANCEL"
  <2>1. PICK k \in DOMAIN Listed :
          Listed[k][2][1] = "invalid" /\ Listed[k][2][2] = "origClOrdID"
    BY <1>1
  <2> QED
    BY <1>2, <1>3, <2>1
<1>6. GuessError(<<"invalid", "ordStatus">>) = "TOO_LATE_TO_MODIFY_OR_CANCEL"
  <2>1. PICK k \in DOMAIN Listed :
          Listed[k][2][1] = "invalid" /\ Listed[k][2][2] = "ordStatus"
    BY <1>1
  <2> QED
    BY <1>2, <1>3, <2>1
<1>7. GuessError(<<"invalid", "orderID">>) = "INVALID_ORDER_ID"
  <2>1. PICK k \in DOMAIN Listed :
          Listed[k][2][1] = "invalid" /\ Listed[k][2][2] = "orderID"
    BY <1>1
  <2> QED
    BY <1>2, <1>3, <2>1
<1> QED
  BY <1>4, <1>5, <1>6, <1>7

LEMMA Unlisted ==
  /\ GuessError(<<"request", "has", "expired">>) = "UNKNOWN"
  /\ GuessError(<<"rate", "limit", "exceeded,", "retry", "in", "1", "seconds.">>) = "UNKNOWN"
<1>1. ASSUME NEW message, message # <<>>, Len(message) \in Nat, Len(message) >= 1,
             \/ message[1] = "request"
             \/ message[1] = "rate" /\ Len(message) = 7
      PROVE  GuessError(message) = "UNKNOWN"
  <2>1. ASSUME NEW n \in DOMAIN Listed, BeginningOf(message, Listed[n][2])
        PROVE  FALSE
    <3>1. PICK text, l : text = Listed[n][2] /\ l = Len(message)
      OBVIOUS
    <3>2. /\ Len(text) \in Nat /\ text[1] # "request"
          /\ text[1] = "rate" => Len(text) < 7
      BY <3>1, ListedWorded DEF Worded
    <3>3. l <= Len(text) /\ message = SubSeq(text, 1, l)
      BY <2>1, <3>1 DEF BeginningOf
    <3>4. message[1] = text[1]
      <4> DEFINE S == {text[i] : i \in 1..l}
      <4>1. l \in Nat /\ l >= 1 /\ \A i \in 1..l : text[i] \in S
        BY <1>1, <3>1
      <4> HIDE DEF S
      <4>2. \A i \in 1..(l - 1 + 1) : SubSeq(text, 1, l)[i] = text[1 + i - 1]
        BY <4>1, SubSeqProperties
      <4> QED
        BY <3>3, <4>1, <4>2
    <3>5. message[1] # "request"
      BY <3>2, <3>4
    <3>6. message[1] = "rate" /\ Len(message) = 7
      BY <1>1, <3>5
    <3>7. Len(text) < 7 /\ l = 7
      BY <3>1, <3>2, <3>4, <3>6
    <3> QED
      BY <3>2, <3>3, <3>7
  <2>2. Hits(message) = {}
    BY <2>1 DEF Hits, Matches
  <2> QED
    BY <1>1, <2>2 DEF GuessError
<1> DEFINE late == <<"request", "has", "expired">>
           many == <<"rate", "limit", "exceeded,", "retry", "in", "1", "seconds.">>
<1>2. late # <<>> /\ late[1] = "request" /\ Len(late) = 3
  OBVIOUS
<1>3. many # <<>> /\ many[1] = "rate" /\ Len(many) = 7
  OBVIOUS
<1> HIDE DEF late, many
<1>4. GuessError(late) = "UNKNOWN"
  BY <1>1, <1>2
<1>5. GuessError(many) = "UNKNOWN"
  BY <1>1, <1>3
<1> QED
  BY <1>4, <1>5 DEF late, many

-------------------------------------------------------------------------------
(* What an answer says is true when it is given, and stays true.           *)

(* What was asked for was done, and has the revision n, or an older one.   *)
Accepted(id, n) ==
  /\ Request(id).fate = "done" /\ n > 0
  /\ Request(id).type = "CANCEL_ORDER" =>
       orders[id[1]].status = "CANCELED" /\ n >= orders[id[1]].revision

(* A modification came too late: the order has ended, the request it       *)
(* builds on was overtaken, or is not what the order is now.               *)
TooLate(id) ==
  \/ orders[id[1]].status \in {"FILLED", "CANCELED", "REJECTED"}
  \/ id \in overtook
  \/ /\ orders[id[1]].version # Request(id).orig
     /\ Request(<<id[1], Request(id).orig>>).fate # "open"

Reason(id, error) ==
  /\ Request(id).fate = "refused"
  /\ \/ /\ error = "TOO_LATE_TO_MODIFY_OR_CANCEL"
        /\ Request(id).type = "MODIFY_ORDER" /\ TooLate(id)
     \/ /\ error = "INVALID_ORDER_ID"
        /\ Request(id).type = "CANCEL_ORDER" /\ ~Request(id).named
     \/ /\ error = "INVALID_PRICE"
        /\ Request(id).type \in {"CREATE_ORDER", "MODIFY_ORDER"}

RowTrue(id, row) ==
  row.order = id[1] /\ (ComputeRowStatus(row.status) = "ACCEPTED" => Accepted(id, row.revision))

TextTrue(id, text) ==
  GuessError(text) \in {"UNDEFINED", "UNKNOWN"} \/ Reason(id, GuessError(text))

ResponseTrue(id, response) ==
  /\ response.category = "SUCCESS" =>
       IF Request(id).type = "CANCEL_ALL_ORDERS" THEN Request(id).fate = "done"
       ELSE \E row : response.rows = {row} /\ RowTrue(id, row)
  /\ response.category \in {"SUCCESS", "CLIENT_ERROR"} => TextTrue(id, response.text)

Unreasoned(answer) ==
  \/ answer.error \in {"UNDEFINED", "UNKNOWN"}
  \/ answer.error \in {"TIMEOUT", "NETWORK_ERROR", "NOT_READY"} /\ answer.status # "REJECTED"

AnswerTrue(id, answer) ==
  /\ answer.status = "ACCEPTED" =>
       IF id[1] = All THEN Request(id).fate = "done"
       ELSE Accepted(id, shown[id[1]].revision)
  /\ Unreasoned(answer) \/ Reason(id, answer.error)

Builds == \A id \in Ids : Request(id).type = "MODIFY_ORDER" => Request(id).orig >= 1
Unborn == \A o \in Orders : orders[o].status = "NONE" => orders[o].version = 0

Truth ==
  /\ \A c \in Ring : \A i \in DOMAIN calls[c] :
       ResponseTrue(calls[c][i].id, calls[c][i].response)
  /\ \A id \in Ids : \A i \in DOMAIN Request(id).answers :
       AnswerTrue(id, Request(id).answers[i])
  /\ Builds /\ Unborn

(* What is true of every step: what was settled is settled, an order that  *)
(* has ended is as it was, and one that changes its version takes it from  *)
(* a request that was open.                                                *)
Same(id) == /\ Request(id)'.type = Request(id).type
            /\ Request(id)'.orig = Request(id).orig
            /\ Request(id)'.named = Request(id).named
            /\ Request(id).fate # "open" => Request(id)'.fate = Request(id).fate
Moved(o) == \/ orders'[o] = orders[o]
            \/ /\ orders[o].status \in {"NONE", "NEW"} /\ orders'[o].status # "NONE"
               /\ \/ orders'[o].version = orders[o].version
                  \/ Request(<<o, orders'[o].version>>).fate = "open"
Steady == /\ Ids \subseteq Ids' /\ overtook \subseteq overtook'
          /\ \A id \in Ids : Same(id)
          /\ NoneOlder /\ \A o \in Orders : Moved(o)

LEMMA AcceptedStays ==
  ASSUME JournalType, Steady, NEW id \in Ids, NEW n \in Nat, NEW m \in Nat, m >= n,
         OrdersType, Accepted(id, n)
  PROVE  Accepted(id, m)'
<1>1. Same(id) /\ Request(id)'.fate = "done" /\ m > 0
  BY DEF Steady, Same, Accepted
<1>2. ASSUME Request(id)'.type = "CANCEL_ORDER"
      PROVE  orders'[id[1]].status = "CANCELED" /\ m >= orders'[id[1]].revision
  <2>1. id[1] \in Orders
    <3>1. id[1] \in Targets /\ id[2] \in DOMAIN journal[id[1]]
          /\ journal[id[1]][id[2]].type = "CANCEL_ORDER"
      BY <1>1, <1>2, IdsType DEF Same
    <3> QED
      BY <3>1 DEF JournalType, Targets
  <2>2. orders[id[1]].status = "CANCELED" /\ n >= orders[id[1]].revision
    BY <1>1, <1>2 DEF Accepted, Same
  <2>3. orders'[id[1]] = orders[id[1]]
    BY <2>1, <2>2 DEF Steady, Moved
  <2>4. orders[id[1]].revision \in Nat
    <3>1. orders[id[1]] \in OrderSet
      BY <2>1 DEF OrdersType
    <3> QED
      BY <3>1 DEF OrderSet
  <2> QED
    BY <2>2, <2>3, <2>4
<1> QED
  BY <1>1, <1>2 DEF Accepted

LEMMA ReasonStays ==
  ASSUME JournalType, Steady, Builds, NEW id \in Ids, NEW error, Reason(id, error)
  PROVE  Reason(id, error)'
<1>1. Same(id) /\ Request(id)'.fate = "refused"
  BY DEF Steady, Same, Reason
<1>2. ASSUME Request(id).type = "MODIFY_ORDER", TooLate(id)
      PROVE  TooLate(id)'
  <2>1. /\ id[1] \in Targets /\ id[2] \in DOMAIN journal[id[1]]
        /\ Request(id) = journal[id[1]][id[2]]
        /\ Request(id) \in EntrySet
    BY IdsType
  <2>2. id[1] \in Orders /\ Request(id).orig < id[2]
    BY <1>2, <2>1 DEF JournalType, Targets
  <2>3. PICK o, v : o = id[1] /\ v = Request(id).orig /\ o \in Orders
    BY <2>2
  <2>4. <<o, v>> \in Ids
    <3>1. journal[o] \in Seq(EntrySet) /\ id[2] \in DOMAIN journal[o] /\ o \in Targets
      BY <2>1, <2>3 DEF JournalType
    <3>2. v \in Nat /\ v >= 1 /\ v < id[2]
      BY <1>2, <2>1, <2>2, <2>3, BoundsAssumption DEF Builds, EntrySet
    <3>3. v \in DOMAIN journal[o]
      BY <3>1, <3>2
    <3> QED
      BY <3>1, <3>3, IdsType
  <2>5. Request(id)'.orig = v
    BY <1>1, <2>3 DEF Same
  <2>6. CASE orders[o].status \in {"FILLED", "CANCELED", "REJECTED"}
    <3>1. orders'[o] = orders[o]
      BY <2>3, <2>6 DEF Steady, Moved
    <3> QED
      BY <2>3, <2>6, <3>1 DEF TooLate
  <2>7. CASE id \in overtook
    BY <2>7 DEF Steady, TooLate
  <2>8. CASE orders[o].version # v /\ Request(<<o, v>>).fate # "open"
    <3>1. Request(<<o, v>>)'.fate # "open"
      BY <2>4, <2>8 DEF Steady, Same
    <3>2. orders'[o].version # v
      <4>1. Moved(o)
        BY <2>3 DEF Steady
      <4> QED
        BY <2>8, <4>1 DEF Moved
    <3> QED
      BY <2>3, <2>5, <3>1, <3>2 DEF TooLate
  <2> QED
    BY <1>2, <2>3, <2>6, <2>7, <2>8 DEF TooLate
<1> QED
  BY <1>1, <1>2 DEF Reason, Same

LEMMA ResponseStays ==
  ASSUME JournalType, OrdersType, Steady, Builds, NEW id \in Ids,
         NEW response \in Responses, ResponseTrue(id, response)
  PROVE  ResponseTrue(id, response)'
<1>1. Same(id)
  BY DEF Steady
<1>2. ASSUME NEW row \in RowSet, RowTrue(id, row)
      PROVE  RowTrue(id, row)'
  <2>1. row.revision \in Nat
    BY DEF RowSet
  <2>2. ASSUME Accepted(id, row.revision)
        PROVE  Accepted(id, row.revision)'
    <3>1. PICK n \in Nat : n = row.revision
      BY <2>1
    <3>2. Accepted(id, n)'
      BY <2>2, <3>1, AcceptedStays
    <3> QED
      BY <3>1, <3>2
  <2> QED
    BY <1>2, <2>2 DEF RowTrue
<1>3. ASSUME response.category = "SUCCESS"
      PROVE  IF Request(id)'.type = "CANCEL_ALL_ORDERS" THEN Request(id)'.fate = "done"
             ELSE \E row : response.rows = {row} /\ RowTrue(id, row)'
  <2>1. CASE Request(id).type = "CANCEL_ALL_ORDERS"
    BY <1>1, <1>3, <2>1 DEF ResponseTrue, Same
  <2>2. CASE Request(id).type # "CANCEL_ALL_ORDERS"
    <3>1. PICK row : response.rows = {row} /\ RowTrue(id, row)
      BY <1>3, <2>2 DEF ResponseTrue
    <3>2. row \in RowSet
      BY <3>1 DEF Responses
    <3> QED
      BY <1>1, <1>2, <2>2, <3>1, <3>2 DEF Same
  <2> QED
    BY <2>1, <2>2
<1>4. ASSUME response.category \in {"SUCCESS", "CLIENT_ERROR"}
      PROVE  TextTrue(id, response.text)'
  BY <1>4, ReasonStays DEF ResponseTrue, TextTrue
<1> QED
  BY <1>3, <1>4 DEF ResponseTrue

LEMMA AnswerStays ==
  ASSUME JournalType, OrdersType, ShownTrue, ShownTrue', Steady, Builds, NEW id \in Ids,
         NEW answer, AnswerTrue(id, answer)
  PROVE  AnswerTrue(id, answer)'
<1>1. Same(id)
  BY DEF Steady
<1>2. ASSUME answer.status = "ACCEPTED"
      PROVE  IF id[1] = All THEN Request(id)'.fate = "done"
             ELSE Accepted(id, shown[id[1]].revision)'
  <2>1. CASE id[1] = All
    BY <1>1, <1>2, <2>1 DEF AnswerTrue, Same
  <2>2. CASE id[1] # All
    <3>1. id[1] \in Orders
      BY <2>2, IdsType DEF Targets
    <3>2. shown[id[1]] \in ShownSet /\ shown'[id[1]] \in ShownSet
      BY <3>1 DEF ShownTrue
    <3>3. PICK n \in Nat, m \in Nat : n = shown[id[1]].revision /\ m = shown'[id[1]].revision
      BY <3>2 DEF ShownSet
    <3>4. m >= n
      BY <3>1, <3>3 DEF Steady, NoneOlder
    <3>5. Accepted(id, n)
      BY <1>2, <2>2, <3>3 DEF AnswerTrue
    <3>6. Accepted(id, m)'
      BY <3>4, <3>5, AcceptedStays
    <3> QED
      BY <2>2, <3>3, <3>6
  <2> QED
    BY <2>1, <2>2
<1>3. Unreasoned(answer) \/ Reason(id, answer.error)'
  BY ReasonStays DEF AnswerTrue
<1> QED
  BY <1>2, <1>3 DEF AnswerTrue, Unreasoned

(* A step is true if what is new in it is.                                 *)
LEMMA TruthKept ==
  ASSUME Answering, ShownTrue, ShownTrue', Truth, Steady,
         \A d \in Ring : \A i \in DOMAIN calls'[d] :
           \/ \E k \in DOMAIN calls[d] : calls'[d][i] = calls[d][k]
           \/ \E id, response : /\ calls'[d][i].id = id /\ calls'[d][i].response = response
                                /\ ResponseTrue(id, response)',
         \A id \in Ids' : \A i \in DOMAIN Request(id)'.answers :
           \/ /\ id \in Ids /\ i \in DOMAIN Request(id).answers
              /\ Request(id)'.answers[i] = Request(id).answers[i]
           \/ \E a : Request(id)'.answers[i] = a /\ AnswerTrue(id, a)',
         \A id \in Ids' : \/ id \in Ids
                          \/ Request(id)'.type = "MODIFY_ORDER" => Request(id)'.orig >= 1
  PROVE  Truth'
<1>1. JournalType /\ WireType /\ OrdersType /\ Builds /\ Unborn
  BY DEF Answering, Truth
<1>2. Builds'
  <2>1. ASSUME NEW id \in Ids PROVE Request(id)'.type = "MODIFY_ORDER" => Request(id)'.orig >= 1
    BY <1>1 DEF Builds, Steady, Same
  <2> QED
    BY <2>1 DEF Builds
<1>3. Unborn'
  BY <1>1 DEF Unborn, Steady, Moved
<1>4. ASSUME NEW d \in Ring, NEW i \in DOMAIN calls'[d]
      PROVE  \E id, response : /\ calls'[d][i].id = id /\ calls'[d][i].response = response
                               /\ ResponseTrue(id, response)'
  <2>1. ASSUME NEW k \in DOMAIN calls[d], calls'[d][i] = calls[d][k]
        PROVE  \E id, response : /\ calls'[d][i].id = id /\ calls'[d][i].response = response
                                 /\ ResponseTrue(id, response)'
    <3>1. PICK id, response : id = calls[d][k].id /\ response = calls[d][k].response
      OBVIOUS
    <3>2. id \in Ids /\ response \in Responses
      BY <1>1, <3>1, CallType
    <3>3. ResponseTrue(id, response)
      BY <3>1 DEF Truth
    <3>4. ResponseTrue(id, response)'
      BY <1>1, <3>2, <3>3, ResponseStays
    <3> QED
      BY <2>1, <3>1, <3>4
  <2> QED
    BY <2>1
<1>5. ASSUME NEW id \in Ids', NEW i \in DOMAIN Request(id)'.answers
      PROVE  \E a : Request(id)'.answers[i] = a /\ AnswerTrue(id, a)'
  <2>1. ASSUME id \in Ids, i \in DOMAIN Request(id).answers,
               Request(id)'.answers[i] = Request(id).answers[i]
        PROVE  \E a : Request(id)'.answers[i] = a /\ AnswerTrue(id, a)'
    <3>1. PICK a : a = Request(id).answers[i]
      OBVIOUS
    <3>2. AnswerTrue(id, a)
      BY <2>1, <3>1 DEF Truth
    <3>3. AnswerTrue(id, a)'
      BY <1>1, <2>1, <3>2, AnswerStays
    <3> QED
      BY <2>1, <3>1, <3>3
  <2> QED
    BY <2>1
<1>6. \A d \in Ring : \A i \in DOMAIN calls'[d] :
        ResponseTrue(calls[d][i].id, calls[d][i].response)'
  BY <1>4
<1>7. \A id \in Ids' : \A i \in DOMAIN Request(id)'.answers :
        AnswerTrue(id, Request(id).answers[i])'
  BY <1>5
<1> QED
  BY <1>2, <1>3, <1>6, <1>7 DEF Truth

LEMMA TruthInitially ==
  ASSUME Init
  PROVE  Truth
<1>1. Ids = {}
  BY DEF Init, Ids
<1> QED
  BY <1>1 DEF Init, Truth, Builds, Unborn

(* Answers are given, or nothing happens to a request.                     *)
LEMMA SteadyAnswers ==
  ASSUME JournalType, Rewritten(journal'), SameFates(journal'), NoneOlder,
         orders' = orders, overtook' = overtook
  PROVE  Steady
<1>1. Ids' = Ids
  BY RewrittenJournal
<1>2. ASSUME NEW id \in Ids
      PROVE  Same(id)
  <2>1. id[1] \in Targets /\ id[2] \in DOMAIN journal[id[1]]
        /\ Request(id) = journal[id[1]][id[2]] /\ Request(id)' = journal'[id[1]][id[2]]
    BY IdsType DEF Request
  <2> QED
    BY <2>1 DEF Same, Rewritten, SameFates
<1> QED
  BY <1>1, <1>2 DEF Steady, Moved

LEMMA SteadyElsewhere ==
  ASSUME journal' = journal, overtook' = overtook, NoneOlder,
         \A o \in Orders :
           \/ orders'[o] = orders[o]
           \/ /\ orders[o].status = "NEW" /\ orders'[o].status # "NONE"
              /\ orders'[o].version = orders[o].version
  PROVE  Steady
<1>1. Ids' = Ids /\ \A id : Request(id)' = Request(id)
  BY DEF Ids, Request
<1> QED
  BY <1>1 DEF Steady, Same, Moved

LEMMA SteadyReaction ==
  ASSUME Answering, NEW id, NEW r, Reacted(id, r), NoneOlder
  PROVE  Steady
<1>1. /\ JournalType /\ id \in Ids /\ Request(id).fate = "open" /\ r.fate \in Fates
      /\ orders' = r.orders /\ overtook \subseteq overtook'
      /\ journal' = [journal EXCEPT ![id[1]][id[2]].fate = r.fate]
  BY DEF Answering, Reacted, Sound, React
<1>2. Rewritten(journal') /\ Ids' = Ids
  <2>1. Given(journal', {})
    BY <1>1, FateRewrites
  <2> QED
    BY <1>1, <2>1, RewrittenJournal DEF Given
<1>3. \A k \in Ids : k # id => Request(k)'.fate = Request(k).fate
  BY <1>1, FateUnchanged
<1>4. ASSUME NEW k \in Ids
      PROVE  Same(k)
  <2>1. k[1] \in Targets /\ k[2] \in DOMAIN journal[k[1]]
        /\ Request(k) = journal[k[1]][k[2]] /\ Request(k)' = journal'[k[1]][k[2]]
    BY <1>1, IdsType DEF Request
  <2>2. /\ Request(k)'.type = Request(k).type /\ Request(k)'.orig = Request(k).orig
        /\ Request(k)'.named = Request(k).named
    BY <1>2, <2>1 DEF Rewritten
  <2>3. Request(k).fate # "open" => Request(k)'.fate = Request(k).fate
    BY <1>1, <1>3
  <2> QED
    BY <2>2, <2>3 DEF Same
<1>5. ASSUME NEW o \in Orders
      PROVE  Moved(o)
  <2>1. CASE r.orders[o] = orders[o]
    BY <1>1, <2>1 DEF Moved
  <2>2. CASE r.orders[o] # orders[o]
    <3>1. /\ r.orders[o].status \in After[orders[o].status]
          /\ r.orders[o].version # orders[o].version => id = <<o, r.orders[o].version>>
      BY <2>2 DEF Reacted, Legal
    <3>2. orders[o].status \in Statuses
      <4>1. orders[o] \in OrderSet
        BY DEF Answering, OrdersType
      <4> QED
        BY <4>1 DEF OrderSet
    <3>3. orders[o].status \in {"NONE", "NEW"} /\ r.orders[o].status # "NONE"
      BY <3>1, <3>2 DEF After, Statuses
    <3> QED
      BY <1>1, <3>1, <3>3 DEF Moved
  <2> QED
    BY <2>1, <2>2
<1> QED
  BY <1>1, <1>2, <1>4, <1>5 DEF Steady

(* The answer that a true response makes is true.                          *)
LEMMA ReplyTrue ==
  ASSUME NEW id, NEW response, NEW type, Request(id)'.type = type,
         NEW a, a = ThisAnswer(type, response),
         type = "CANCEL_ALL_ORDERS" <=> id[1] = All,
         ResponseTrue(id, response)',
         \A row : /\ response.category = "SUCCESS" /\ type # "CANCEL_ALL_ORDERS"
                  /\ response.rows = {row} /\ row.order = id[1] /\ row.status # "UNKNOWN"
           => /\ row.revision \in Nat /\ shown'[id[1]].revision \in Nat
              /\ orders'[id[1]].revision \in Nat
              /\ shown'[id[1]].revision >= row.revision
  PROVE  AnswerTrue(id, a)'
<1>1. a.status = Status(type, response) /\ a.error = ErrorOf(response)
  BY DEF ThisAnswer, AnswerOf
<1>2. ASSUME a.status = "ACCEPTED"
      PROVE  IF id[1] = All THEN Request(id)'.fate = "done"
             ELSE Accepted(id, shown[id[1]].revision)'
  <2>1. response.category = "SUCCESS"
    BY <1>1, <1>2 DEF Status
  <2>2. CASE type = "CANCEL_ALL_ORDERS"
    BY <2>1, <2>2 DEF ResponseTrue
  <2>3. CASE type # "CANCEL_ALL_ORDERS"
    <3>1. PICK row : response.rows = {row} /\ RowTrue(id, row)'
      BY <2>1, <2>3 DEF ResponseTrue
    <3>2. RowAnswers(type, response) = {ComputeRowStatus(row.status)}
      BY <2>3, <3>1 DEF RowAnswers
    <3>3. ComputeRowStatus(row.status) = "ACCEPTED"
      BY <1>1, <1>2, <2>1, <3>2 DEF Status
    <3>4. row.order = id[1] /\ row.status # "UNKNOWN" /\ Accepted(id, row.revision)'
      BY <3>1, <3>3 DEF RowTrue, ComputeRowStatus
    <3>5. /\ row.revision \in Nat /\ shown'[id[1]].revision \in Nat
          /\ orders'[id[1]].revision \in Nat
          /\ shown'[id[1]].revision >= row.revision
      BY <2>1, <2>3, <3>1, <3>4
    <3> QED
      BY <2>3, <3>4, <3>5 DEF Accepted
  <2> QED
    BY <2>2, <2>3
<1>3. Unreasoned(a) \/ Reason(id, a.error)'
  <2>1. CASE response.category \in {"SUCCESS", "CLIENT_ERROR"}
    BY <1>1, <2>1 DEF ErrorOf, Unreasoned, ResponseTrue, TextTrue
  <2>3. CASE response.category \in {"TIMEOUT", "DISCONNECTED"}
    BY <1>1, <2>3 DEF ErrorOf, Status, Unreasoned
  <2>4. CASE response.category \notin {"SUCCESS", "CLIENT_ERROR", "TIMEOUT", "DISCONNECTED"}
    BY <1>1, <2>4 DEF ErrorOf, Unreasoned
  <2> QED
    BY <2>1, <2>3, <2>4
<1> QED
  BY <1>2, <1>3 DEF AnswerTrue, Unreasoned

LEMMA RefuseIs ==
  ASSUME NEW text, NEW cost
  PROVE  /\ Refuse(text, cost).orders = orders /\ Refuse(text, cost).fate = "refused"
         /\ Refuse(text, cost).response = Response("CLIENT_ERROR", {}, text)
  BY DEF Refuse

(* A refusal is true if the reason it gives is.                            *)
LEMMA RefusalTrue ==
  ASSUME NEW id, NEW text, TextTrue(id, text)'
  PROVE  ResponseTrue(id, Response("CLIENT_ERROR", {}, text))'
<1>1. /\ Response("CLIENT_ERROR", {}, text).category = "CLIENT_ERROR"
      /\ Response("CLIENT_ERROR", {}, text).text = text
  BY DEF Response
<1> DEFINE response == Response("CLIENT_ERROR", {}, text)
<1> HIDE DEF response
<1> QED
  BY <1>1 DEF ResponseTrue, response

(* No text, no reason.                                                     *)
LEMMA NoText ==
  ASSUME NEW id
  PROVE  TextTrue(id, <<>>) /\ TextTrue(id, <<>>)'
  BY DEF TextTrue, GuessError

(* A row is true if what it says was done was done.                        *)
LEMMA RowMakesTrue ==
  ASSUME NEW id, NEW row, row.order = id[1], Request(id)'.type # "CANCEL_ALL_ORDERS",
         ComputeRowStatus(row.status) = "ACCEPTED" => Accepted(id, row.revision)',
         NEW text, TextTrue(id, text)'
  PROVE  ResponseTrue(id, Response("SUCCESS", {row}, text))'
<1>1. /\ Response("SUCCESS", {row}, text).category = "SUCCESS"
      /\ Response("SUCCESS", {row}, text).rows = {row}
      /\ Response("SUCCESS", {row}, text).text = text
  BY DEF Response
<1> DEFINE response == Response("SUCCESS", {row}, text)
<1> HIDE DEF response
<1>2. RowTrue(id, row)'
  BY DEF RowTrue
<1> QED
  BY <1>1, <1>2 DEF ResponseTrue, response

LEMMA DoneTrue ==
  ASSUME OrdersType, NEW id, NEW o \in Orders, o = id[1],
         NEW status \in RowStatuses \ {"UNKNOWN"}, NEW version \in 0..Versions,
         NEW r, r.orders = Turn(o, status, version), orders' = r.orders,
         NEW text, TextTrue(id, text)',
         r.response = Response("SUCCESS", {Row(o, r.orders[o].status, r.orders)}, text),
         Request(id)'.type # "CANCEL_ALL_ORDERS",
         Request(id)'.type = "CANCEL_ORDER" => status = "CANCELED",
         status # "REJECTED" => Request(id)'.fate = "done"
  PROVE  ResponseTrue(id, r.response)'
<1>1. PICK row : row = Row(o, r.orders[o].status, r.orders)
  OBVIOUS
<1>2. /\ r.orders[o].status = status /\ r.orders[o].revision = orders[o].revision + 1
      /\ orders[o].revision \in Nat
  <2>1. orders[o] \in OrderSet
    BY DEF OrdersType
  <2>2. orders[o].revision \in Nat
    BY <2>1 DEF OrderSet
  <2>3. /\ Turn(o, status, version)[o].status = status
        /\ Turn(o, status, version)[o].revision = orders[o].revision + 1
    BY DEF Turn, OrdersType
  <2> QED
    BY <2>2, <2>3
<1>3. row.order = o /\ row.status = status /\ row.revision = r.orders[o].revision
  BY <1>1, <1>2 DEF Row
<1>4. ASSUME ComputeRowStatus(status) = "ACCEPTED"
      PROVE  Accepted(id, row.revision)'
  <2>1. status # "REJECTED"
    BY <1>4 DEF ComputeRowStatus
  <2>2. row.revision > 0 /\ row.revision >= orders'[o].revision
    BY <1>2, <1>3
  <2> QED
    BY <1>2, <2>1, <2>2 DEF Accepted
<1> QED
  BY <1>1, <1>3, <1>4, RowMakesTrue

LEMMA FairTrue ==
  ASSUME Answering, Truth, NoneOlder, NEW id, NEW r \in Fair(id), NEW q,
         Reacted(id, q), q.orders = r.orders, q.fate = r.fate
  PROVE  ResponseTrue(id, r.response)'
<1> DEFINE o == id[1]
           type == Request(id).type
<1>1. /\ JournalType /\ OrdersType /\ id \in Ids /\ orders' = r.orders /\ Builds /\ Unborn
  BY DEF Answering, Reacted, React, Truth
<1>2. Steady /\ Same(id)
  BY <1>1, SteadyReaction DEF Steady
<1>3. Request(id)'.fate = r.fate /\ Request(id)'.type = type
  <2>1. q.fate \in Fates /\ journal' = [journal EXCEPT ![id[1]][id[2]].fate = q.fate]
    BY DEF Reacted, Sound, React
  <2> QED
    BY <1>1, <1>2, <2>1, FateGiven DEF Same
<1>4. /\ type \in RequestType /\ (type # "CANCEL_ALL_ORDERS" => o \in Orders)
      /\ id[2] \in 0..Versions
  <2>1. id \in IdSet /\ id[1] \in Targets /\ id[2] \in DOMAIN journal[id[1]]
        /\ Request(id) \in EntrySet /\ Request(id) = journal[id[1]][id[2]]
    BY <1>1, IdsType
  <2> QED
    BY <1>1, <2>1 DEF EntrySet, JournalType, Targets, IdSet
<1>5. ASSUME NEW text, NEW cost, r = Refuse(text, cost),
             r.fate = "refused" => Reason(id, GuessError(text))'
      PROVE  ResponseTrue(id, r.response)'
  BY <1>5, RefuseIs, RefusalTrue DEF TextTrue
<1>6. ASSUME r = BadPrice, type \in {"CREATE_ORDER", "MODIFY_ORDER"}
      PROVE  ResponseTrue(id, r.response)'
  <2>1. r.fate = "refused" => Reason(id, "INVALID_PRICE")'
    BY <1>3, <1>6 DEF Reason
  <2> QED
    BY <1>3, <1>5, <1>6, <2>1, Guesses DEF BadPrice
<1>7. ASSUME NEW status \in RowStatuses \ {"UNKNOWN"}, NEW version \in 0..Versions,
             type # "CANCEL_ALL_ORDERS", type = "CANCEL_ORDER" => status = "CANCELED",
             r = Done(o, Turn(o, status, version), "none")
      PROVE  ResponseTrue(id, r.response)'
  <2> DEFINE new == Turn(o, status, version)
  <2>1. /\ r.orders = new /\ r.fate = "done"
        /\ r.response = Response("SUCCESS", {Row(o, r.orders[o].status, r.orders)}, <<>>)
    <3> HIDE DEF new
    <3> QED
      BY <1>7 DEF Done, new
  <2> QED
    BY <1>1, <1>3, <1>4, <1>7, <2>1, DoneTrue, NoText
<1>8. {"NEW", "REJECTED", "CANCELED"} \subseteq RowStatuses \ {"UNKNOWN"}
  BY DEF RowStatuses
<1>9. CASE type = "CREATE_ORDER"
  <2>1. \/ r \in {Done(o, Turn(o, "NEW", id[2]), "none"), BadPrice}
        \/ \E text \in {<<>>, <<"invalid", "price">>} : r = Rejected(o, id[2], text)
    BY <1>9 DEF Fair
  <2>2. ASSUME NEW text \in {<<>>, <<"invalid", "price">>}, r = Rejected(o, id[2], text)
        PROVE  ResponseTrue(id, r.response)'
    <3>1. /\ r.orders = Turn(o, "REJECTED", id[2]) /\ r.fate = "refused"
          /\ r.response = Response("SUCCESS", {Row(o, r.orders[o].status, r.orders)}, text)
      <4>1. PICK new : new = Turn(o, "REJECTED", id[2])
        OBVIOUS
      <4> QED
        BY <2>2, <4>1 DEF Rejected
    <3>2. Reason(id, "INVALID_PRICE")'
      BY <1>3, <1>9, <3>1 DEF Reason
    <3>3. TextTrue(id, text)'
      BY <3>2, NoText, Guesses DEF TextTrue
    <3> QED
      BY <1>1, <1>3, <1>4, <1>8, <1>9, <3>1, <3>3, DoneTrue
  <2> QED
    BY <1>4, <1>6, <1>7, <1>8, <1>9, <2>1, <2>2
<1>10. CASE type = "MODIFY_ORDER"
  <2>1. \/ orders[o].version # Request(id).orig /\ r = Refuse(<<"invalid", "origClOrdID">>, "none")
        \/ /\ orders[o].version = Request(id).orig /\ o \notin Resting
           /\ r = Refuse(<<"invalid", "ordStatus">>, "none")
        \/ r \in {Done(o, Turn(o, "NEW", id[2]), "none"), BadPrice}
    BY <1>10 DEF Fair
  <2>2. ASSUME r.fate = "refused", TooLate(id)'
        PROVE  Reason(id, "TOO_LATE_TO_MODIFY_OR_CANCEL")'
    BY <1>3, <1>10, <2>2 DEF Reason
  <2>3. ASSUME orders[o].version # Request(id).orig,
               r = Refuse(<<"invalid", "origClOrdID">>, "none")
        PROVE  ResponseTrue(id, r.response)'
    <3>1. PICK v : v = Request(id).orig
      OBVIOUS
    <3>2. orders' = orders /\ Request(id)'.orig = v
      BY <1>1, <1>2, <2>3, <3>1, RefuseIs DEF Same
    <3>3. CASE Request(<<o, v>>).fate = "open"
      <4>1. id \in overtook'
        BY <1>10, <3>1, <3>3 DEF Reacted, React
      <4> QED
        BY <1>5, <2>2, <2>3, <4>1, Guesses DEF TooLate
    <3>4. CASE Request(<<o, v>>).fate # "open"
      <4>1. o \in Targets /\ v \in DOMAIN journal[o]
        <5>1. /\ o \in Targets /\ id[2] \in DOMAIN journal[o] /\ Request(id) \in EntrySet
              /\ Request(id) = journal[o][id[2]]
          BY <1>1, IdsType
        <5>2. journal[o] \in Seq(EntrySet) /\ v < id[2]
          BY <1>1, <3>1, <5>1 DEF JournalType
        <5>3. v \in Nat /\ v >= 1
          BY <1>1, <1>10, <3>1, <5>1, BoundsAssumption DEF Builds, EntrySet
        <5> QED
          BY <5>1, <5>2, <5>3
      <4>2. <<o, v>> \in Ids
        BY <1>1, <4>1, IdsType
      <4>3. Request(<<o, v>>)'.fate # "open"
        BY <1>2, <3>4, <4>2 DEF Steady, Same
      <4>4. TooLate(id)'
        BY <2>3, <3>1, <3>2, <4>3 DEF TooLate
      <4> QED
        BY <1>5, <2>2, <2>3, <4>4, Guesses
    <3> QED
      BY <3>3, <3>4
  <2>4. ASSUME orders[o].version = Request(id).orig, o \notin Resting,
               r = Refuse(<<"invalid", "ordStatus">>, "none")
        PROVE  ResponseTrue(id, r.response)'
    <3>1. orders' = orders
      BY <1>1, <2>4, RefuseIs
    <3>2. o \in Orders /\ orders[o].status # "NEW"
      BY <1>4, <1>10, <2>4 DEF Resting
    <3>3. orders[o].status # "NONE"
      <4>1. Request(id).orig >= 1
        BY <1>1, <1>10 DEF Builds
      <4> QED
        BY <1>1, <2>4, <3>2, <4>1 DEF Unborn
    <3>4. orders[o].status \in Statuses
      <4>1. orders[o] \in OrderSet
        BY <1>1, <3>2 DEF OrdersType
      <4> QED
        BY <4>1 DEF OrderSet
    <3>5. orders'[id[1]].status \in {"FILLED", "CANCELED", "REJECTED"}
      BY <3>1, <3>2, <3>3, <3>4 DEF Statuses
    <3>6. TooLate(id)'
      BY <3>5 DEF TooLate
    <3> QED
      BY <1>5, <2>2, <2>4, <3>6, Guesses
  <2> QED
    BY <1>4, <1>6, <1>7, <1>8, <1>10, <2>1, <2>3, <2>4
<1>11. CASE type = "CANCEL_ORDER"
  <2>1. \/ ~Request(id).named /\ r = Refuse(<<"invalid", "orderID">>, "none")
        \/ r = NotCanceled(o)
        \/ r = Done(o, Turn(o, "CANCELED", orders[o].version), "none")
    BY <1>11 DEF Fair
  <2>2. orders[o].version \in 0..Versions
    <3>1. orders[o] \in OrderSet
      BY <1>1, <1>4, <1>11 DEF OrdersType
    <3> QED
      BY <3>1 DEF OrderSet
  <2>3. ASSUME ~Request(id).named, r = Refuse(<<"invalid", "orderID">>, "none")
        PROVE  ResponseTrue(id, r.response)'
    <3>1. r.fate = "refused" => Reason(id, "INVALID_ORDER_ID")'
      BY <1>2, <1>3, <1>11, <2>3 DEF Reason, Same
    <3> QED
      BY <1>5, <2>3, <3>1, Guesses
  <2>4. ASSUME r = NotCanceled(o)
        PROVE  ResponseTrue(id, r.response)'
    <3>1. PICK row : row = Row(o, "UNKNOWN", orders)
      OBVIOUS
    <3>2. r.response = Response("SUCCESS", {row}, <<>>)
      BY <2>4, <3>1 DEF NotCanceled
    <3>3. row.order = o /\ ComputeRowStatus(row.status) # "ACCEPTED"
      BY <3>1 DEF Row, ComputeRowStatus
    <3> QED
      BY <1>3, <1>11, <3>2, <3>3, RowMakesTrue, NoText
  <2> QED
    BY <1>7, <1>8, <1>11, <2>1, <2>2, <2>3, <2>4
<1>12. CASE type = "CANCEL_ALL_ORDERS"
  <2>1. r = [orders |-> Swept, fate |-> "done", cost |-> "none",
             response |-> Response("SUCCESS", SweptRows, <<>>)]
    BY <1>12 DEF Fair
  <2>2. r.fate = "done" /\ r.response.category = "SUCCESS" /\ r.response.text = <<>>
    BY <2>1 DEF Response
  <2> QED
    BY <1>3, <1>12, <2>2, NoText DEF ResponseTrue
<1> QED
  BY <1>4, <1>9, <1>10, <1>11, <1>12 DEF RequestType

LEMMA ReactionTrue ==
  ASSUME Answering, Truth, NoneOlder, NEW id, NEW r \in Reactions(id), Reacted(id, r)
  PROVE  ResponseTrue(id, r.response)'
<1>1. JournalType /\ OrdersType /\ id \in Ids
  BY DEF Answering, Reacted
<1>2. ASSUME NEW f, Sound(f, Request(id).type), r \in {Garbled(f), Unreadable(f)}
      PROVE  ResponseTrue(id, r.response)'
  <2> DEFINE a == f.orders b == f.fate c == f.cost d == f.response
             s == Response("SERVER_ERROR", {}, <<>>)
             u == Response("OTHER", {}, <<>>)
  <2>1. f = [orders |-> a, fate |-> b, cost |-> c, response |-> d]
    BY <1>2 DEF Sound
  <2>2. Garbled(f) = [f EXCEPT !.cost = "fault", !.response = s]
        /\ Unreadable(f) = [f EXCEPT !.cost = "fault", !.response = u]
    BY DEF Garbled, Unreadable
  <2>3. s.category = "SERVER_ERROR" /\ u.category = "OTHER"
    BY DEF Response
  <2> HIDE DEF a, b, c, d, s, u
  <2>4. Garbled(f).response = s /\ Unreadable(f).response = u
    BY <2>1, <2>2
  <2> QED
    BY <1>2, <2>3, <2>4 DEF ResponseTrue
<1>3. ASSUME r \in {Late, Overloaded}
      PROVE  ResponseTrue(id, r.response)'
  <2>1. PICK late, many :
          /\ late = <<"request", "has", "expired">>
          /\ many = <<"rate", "limit", "exceeded,", "retry", "in", "1", "seconds.">>
    OBVIOUS
  <2>2. GuessError(late) = "UNKNOWN" /\ GuessError(many) = "UNKNOWN"
    BY <2>1, Unlisted
  <2>3. Late = Refuse(late, "fault")
        /\ Overloaded = [Refuse(many, "limit") EXCEPT !.fate = "limited"]
    BY <2>1 DEF Late, Overloaded
  <2>4. PICK d, x : /\ d = Response("CLIENT_ERROR", {}, late)
                    /\ x = Response("CLIENT_ERROR", {}, many)
    OBVIOUS
  <2>5. Late.response = d /\ Overloaded.response = x
    BY <2>3, <2>4 DEF Refuse
  <2> QED
    BY <1>3, <2>2, <2>4, <2>5, RefusalTrue DEF TextTrue
<1>4. Sound(Late, Request(id).type)
  BY <1>1, ReactionSound DEF Reactions
<1>5. \A f \in Fair(id) : Sound(f, Request(id).type)
  BY <1>1, FairSound
<1>6. CASE r \in Fair(id)
  BY <1>6, FairTrue
<1>7. \/ r \in {Late, Overloaded, Garbled(Late)} \cup Fair(id)
      \/ \E f \in Fair(id) : r \in {Garbled(f), Unreadable(f)}
  BY DEF Reactions
<1> QED
  BY <1>2, <1>3, <1>4, <1>5, <1>6, <1>7

(* Steps of the exchange.                                                  *)
LEMMA ServedTrue ==
  ASSUME Answering, ShownTrue, ShownTrue', Once, Truth, NoneOlder,
         ServeOrphan \/ \E c \in Ring : Serve(c)
  PROVE  Truth'
<1>1. JournalType
  BY DEF Answering
<1>2. ASSUME NEW id, NEW r, Reacted(id, r)
      PROVE  /\ Steady /\ Ids' = Ids
             /\ \A k \in Ids : Request(k)'.answers = Request(k).answers
  <2>1. r.fate \in Fates /\ journal' = [journal EXCEPT ![id[1]][id[2]].fate = r.fate]
        /\ id \in Ids
    BY <1>2 DEF Reacted, Sound, React
  <2>2. Given(journal', {})
    BY <1>1, <2>1, FateRewrites
  <2>3. Ids' = Ids /\ \A k \in Ids : Request(k)'.answers = Request(k).answers
    BY <1>1, <2>2, RewrittenJournal DEF Given, Request
  <2> QED
    BY <1>2, <2>3, SteadyReaction
<1>3. ASSUME NEW c \in Ring, Serve(c)
      PROVE  Truth'
  <2>1. PICK id : Waiting(id) /\ \E r \in Reactions(id) : Reacted(id, r) /\ Responded(id, r)
    BY <1>3, ServeReacts
  <2> PICK r \in Reactions(id) : Reacted(id, r) /\ Responded(id, r)
    BY <2>1
  <2>2. /\ Steady /\ Ids' = Ids
        /\ \A k \in Ids : Request(k)'.answers = Request(k).answers
    BY <1>2
  <2>3. ResponseTrue(id, r.response)'
    BY ReactionTrue
  <2>4. \A d \in Ring : \A i \in DOMAIN calls'[d] :
          \/ \E k \in DOMAIN calls[d] : calls'[d][i] = calls[d][k]
          \/ calls'[d][i].id = id /\ calls'[d][i].response = r.response
    BY DEF Responded
  <2>5. \A d \in Ring : \A i \in DOMAIN calls'[d] :
          \/ \E k \in DOMAIN calls[d] : calls'[d][i] = calls[d][k]
          \/ \E k, response : /\ calls'[d][i].id = k /\ calls'[d][i].response = response
                              /\ ResponseTrue(k, response)'
    <3>1. PICK response : response = r.response
      OBVIOUS
    <3>2. ResponseTrue(id, response)'
      BY <2>3, <3>1
    <3> QED
      BY <2>4, <3>1, <3>2
  <2> QED
    BY <2>2, <2>5, TruthKept
<1>4. CASE ServeOrphan
  <2>1. PICK id \in orphans : \E r \in Fair(id) : Reacted(id, r)
    BY <1>4, OrphanReacts
  <2> PICK r \in Fair(id) : Reacted(id, r)
    BY <2>1
  <2>2. /\ Steady /\ Ids' = Ids
        /\ \A k \in Ids : Request(k)'.answers = Request(k).answers
    BY <1>2
  <2>3. calls' = calls
    BY <1>4 DEF ServeOrphan
  <2> QED
    BY <2>2, <2>3, TruthKept
<1> QED
  BY <1>3, <1>4

(* The client calls back.                                                  *)
LEMMA CallbackTrue ==
  ASSUME Answering, Showing, ShownTrue', Truth, NoneOlder,
         NEW c \in Ring, HandleResponse(c) \/ Timeout(c)
  PROVE  Truth'
<1>1. WireType /\ WaitsOnce /\ JournalType /\ ShownTrue /\ calls[c] # <<>>
      /\ orders' = orders /\ overtook' = overtook
  BY DEF Answering, Showing, HandleResponse, Timeout, exchange, history
<1>2. calls' = [calls EXCEPT ![c] = Tail(@)]
  BY DEF HandleResponse, Timeout
<1>3. /\ 1 \in DOMAIN calls[c] /\ Head(calls[c]) = calls[c][1]
      /\ \A d \in Ring : \A i \in DOMAIN calls'[d] :
           \E k \in DOMAIN calls[d] : calls'[d][i] = calls[d][k]
  BY <1>1, <1>2, CallTaken
<1>4. PICK id, type : id = calls[c][1].id /\ type = Request(id).type
  OBVIOUS
<1>5. /\ id \in Ids /\ calls[c][1].response \in Responses
      /\ Answers(calls[c][1].response, type)
      /\ ResponseTrue(id, calls[c][1].response)
  BY <1>1, <1>3, <1>4, CallType DEF Truth
<1>6. type = "CANCEL_ALL_ORDERS" <=> id[1] = All
  BY <1>1, <1>4, <1>5, IdsType DEF JournalType
<1>7. PICK response \in Responses :
        /\ Answers(response, type) /\ journal' = Tell(journal, id, response)
        /\ ResponseTrue(id, response)
        /\ \/ response.category = "TIMEOUT"
           \/ HandleResponse(c) /\ response = calls[c][1].response
  <2>1. CASE HandleResponse(c)
    <3>1. journal' = Tell(journal, id, calls[c][1].response)
      BY <1>3, <1>4, <2>1 DEF HandleResponse
    <3> QED
      BY <1>5, <2>1, <3>1
  <2>2. CASE Timeout(c)
    <3> DEFINE none == Response("TIMEOUT", {}, <<>>)
    <3>1. none \in Responses /\ Answers(none, type) /\ none.category = "TIMEOUT"
      BY DEF Response, Responses, Categories, Texts, Answers
    <3>2. journal' = Tell(journal, id, none)
      BY <1>3, <1>4, <2>2 DEF Timeout
    <3> HIDE DEF none
    <3>3. ResponseTrue(id, none)
      BY <3>1 DEF ResponseTrue
    <3> QED
      BY <3>1, <3>2, <3>3
  <2> QED
    BY <2>1, <2>2
<1> PICK a : a = ThisAnswer(type, response)
  OBVIOUS
<1>8. /\ Given(journal', {id}) /\ SameFates(journal')
      /\ journal'[id[1]][id[2]].answers = Append(Request(id).answers, a)
  BY <1>1, <1>4, <1>5, <1>7, TellGives
<1>9. Steady
  BY <1>1, <1>8, SteadyAnswers DEF Given
<1>10. Ids' = Ids /\ Same(id) /\ Request(id)'.type = type
  BY <1>1, <1>4, <1>5, <1>8, <1>9, RewrittenJournal DEF Given, Steady
<1>11. ResponseTrue(id, response)'
  BY <1>1, <1>5, <1>7, <1>9, ResponseStays DEF Answering, Truth
<1>12. \A row : /\ response.category = "SUCCESS" /\ type # "CANCEL_ALL_ORDERS"
                /\ response.rows = {row} /\ row.order = id[1] /\ row.status # "UNKNOWN"
        => /\ row.revision \in Nat /\ shown'[id[1]].revision \in Nat
           /\ orders'[id[1]].revision \in Nat
           /\ shown'[id[1]].revision >= row.revision
  <2> SUFFICES ASSUME NEW row, response.category = "SUCCESS", type # "CANCEL_ALL_ORDERS",
                      response.rows = {row}, row.order = id[1], row.status # "UNKNOWN"
               PROVE  /\ row.revision \in Nat /\ shown'[id[1]].revision \in Nat
                      /\ orders'[id[1]].revision \in Nat
                      /\ shown'[id[1]].revision >= row.revision
    OBVIOUS
  <2>1. HandleResponse(c) /\ calls[c][1].response.rows = {row}
    BY <1>7
  <2>2. shown'[id[1]].revision >= row.revision
    BY <1>4, <2>1, HandleShows
  <2>3. row \in RowSet
    BY DEF Responses
  <2>4. id[1] \in Orders /\ row.revision \in Nat
    BY <2>3 DEF RowSet
  <2>5. shown'[id[1]] \in ShownSet /\ orders'[id[1]] \in OrderSet
    BY <1>1, <2>4 DEF ShownTrue, Answering, OrdersType
  <2>6. shown'[id[1]].revision \in Nat /\ orders'[id[1]].revision \in Nat
    BY <2>5 DEF ShownSet, OrderSet
  <2> QED
    BY <2>2, <2>4, <2>6
<1>13. AnswerTrue(id, a)'
  <2>1. Request(id)'.type = type
    BY <1>10
  <2> QED
    BY <1>6, <1>11, <1>12, <2>1, ReplyTrue
<1>14. Request(id).answers \in Seq(Answer) /\ a \in Answer
  <2>1. Request(id) \in EntrySet /\ Request(id).type \in RequestType
    BY <1>1, <1>5, IdsType DEF EntrySet
  <2> QED
    BY <1>4, <1>7, <2>1, RepliesType DEF EntrySet
<1>15. ASSUME NEW k \in Ids, NEW i \in DOMAIN Request(k)'.answers
       PROVE  \/ /\ k \in Ids /\ i \in DOMAIN Request(k).answers
                 /\ Request(k)'.answers[i] = Request(k).answers[i]
              \/ \E x : Request(k)'.answers[i] = x /\ AnswerTrue(k, x)'
  <2>1. Request(k)' = journal'[k[1]][k[2]]
    BY DEF Request
  <2>2. CASE k # id
    BY <1>8, <1>15, <2>1, <2>2 DEF Given
  <2>3. CASE k = id
    <3>1. Request(k)'.answers = Append(Request(k).answers, a)
      BY <1>8, <2>1, <2>3
    <3>2. \/ i \in DOMAIN Request(k).answers /\ Request(k)'.answers[i] = Request(k).answers[i]
          \/ Request(k)'.answers[i] = a
      BY <1>14, <1>15, <2>3, <3>1
    <3>3. PICK x : x = a
      OBVIOUS
    <3>4. AnswerTrue(k, x)'
      BY <1>13, <2>3, <3>3
    <3> QED
      BY <3>2, <3>3, <3>4
  <2> QED
    BY <2>2, <2>3
<1> QED
  BY <1>1, <1>3, <1>9, <1>10, <1>15, TruthKept

(* A connection is lost.                                                   *)
LEMMA LostTrue ==
  ASSUME Answering, ShownTrue, ShownTrue', Truth, NoneOlder, NEW c \in Ring, Disconnected(c)
  PROVE  Truth'
<1>1. /\ WireType /\ JournalType /\ orders' = orders /\ overtook' = overtook
      /\ calls' = [calls EXCEPT ![c] = <<>>]
  BY DEF Answering, Disconnected, exchange
<1>2. Rewritten(journal') /\ SameFates(journal')
  <2>1. Rewritten(journal')
    BY <1>1, TellAllGives DEF Given, Disconnected, Answering
  <2>2. SameFates(journal')
    BY <1>1, LostTold DEF SameFates, Request
  <2> QED
    BY <2>1, <2>2
<1>3. Steady /\ Ids' = Ids
  BY <1>1, <1>2, SteadyAnswers, RewrittenJournal
<1>4. \A d \in Ring : \A i \in DOMAIN calls'[d] :
        \E k \in DOMAIN calls[d] : calls'[d][i] = calls[d][k]
  <2>1. \A d \in Ring : IF d = c THEN calls'[d] = <<>> ELSE calls'[d] = calls[d]
    BY <1>1 DEF WireType
  <2> QED
    BY <2>1
<1>5. ASSUME NEW id \in Ids, NEW i \in DOMAIN Request(id)'.answers
      PROVE  \/ /\ id \in Ids /\ i \in DOMAIN Request(id).answers
                /\ Request(id)'.answers[i] = Request(id).answers[i]
             \/ \E x : Request(id)'.answers[i] = x /\ AnswerTrue(id, x)'
  <2>1. CASE Request(id)'.answers = Request(id).answers
    BY <1>5, <2>1
  <2>2. ASSUME NEW x \in Answer, x.status = "DISCONNECTED", x.error = "NETWORK_ERROR",
               Request(id)'.answers = Append(Request(id).answers, x)
        PROVE  \/ /\ id \in Ids /\ i \in DOMAIN Request(id).answers
                  /\ Request(id)'.answers[i] = Request(id).answers[i]
               \/ \E y : Request(id)'.answers[i] = y /\ AnswerTrue(id, y)'
    <3>1. AnswerTrue(id, x)'
      BY <2>2 DEF AnswerTrue, Unreasoned
    <3>2. Request(id).answers \in Seq(Answer)
      BY <1>1, IdsType DEF EntrySet
    <3>3. \/ i \in DOMAIN Request(id).answers /\ Request(id)'.answers[i] = Request(id).answers[i]
          \/ Request(id)'.answers[i] = x
      BY <1>5, <2>2, <3>2
    <3> QED
      BY <3>1, <3>3
  <2> QED
    BY <1>1, <2>1, <2>2, LostTold
<1> QED
  BY <1>3, <1>4, <1>5, TruthKept

LEMMA ForwardTrue ==
  ASSUME TurnType, Answering, ShownTrue, ShownTrue', Truth, NoneOlder,
         NEW t \in Targets, NEW entry, Fits(t, entry), Forward(t, entry)
  PROVE  Truth'
<1>1. PICK id \in IdSet, e \in EntrySet :
        /\ Ids' = Ids \cup {id}
        /\ Request(id)' = e /\ \A k \in Ids : Request(k)' = Request(k)
        /\ e.type = entry.type /\ e.orig = entry.orig
        /\ \A i \in DOMAIN e.answers :
             /\ e.answers[i].status \in {"FAILED", "FORWARDED"}
             /\ e.answers[i].error \in {"NOT_READY", "UNDEFINED"}
        /\ \A d \in Ring : \A i \in DOMAIN calls'[d] :
             \/ \E k \in DOMAIN calls[d] : calls'[d][i] = calls[d][k]
             \/ calls'[d][i].id = id /\ calls'[d][i].response = NoResponse
  BY ForwardAdds
<1>2. orders' = orders /\ overtook' = overtook
  BY DEF Forward, exchange
<1>3. Steady
  BY <1>1, <1>2 DEF Steady, Same, Moved
<1>4. ResponseTrue(id, NoResponse)'
  BY DEF ResponseTrue, NoResponse, Response
<1>5. \A d \in Ring : \A i \in DOMAIN calls'[d] :
        \/ \E k \in DOMAIN calls[d] : calls'[d][i] = calls[d][k]
        \/ \E k, response : /\ calls'[d][i].id = k /\ calls'[d][i].response = response
                            /\ ResponseTrue(k, response)'
  <2>1. PICK none : none = NoResponse
    OBVIOUS
  <2>2. ResponseTrue(id, none)'
    BY <1>4, <2>1
  <2> QED
    BY <1>1, <2>1, <2>2
<1>6. ASSUME NEW k \in Ids', NEW i \in DOMAIN Request(k)'.answers
      PROVE  \/ /\ k \in Ids /\ i \in DOMAIN Request(k).answers
                /\ Request(k)'.answers[i] = Request(k).answers[i]
             \/ \E a : Request(k)'.answers[i] = a /\ AnswerTrue(k, a)'
  <2>1. CASE k \in Ids
    BY <1>1, <1>6, <2>1
  <2>2. CASE k = id
    <3>1. PICK a : a = e.answers[i]
      OBVIOUS
    <3>2. AnswerTrue(k, a)'
      BY <1>1, <1>6, <2>2, <3>1 DEF AnswerTrue, Unreasoned
    <3> QED
      BY <1>1, <2>2, <3>1, <3>2
  <2> QED
    BY <1>1, <2>1, <2>2
<1>7. \A k \in Ids' : \/ k \in Ids
                      \/ Request(k)'.type = "MODIFY_ORDER" => Request(k)'.orig >= 1
  BY <1>1 DEF Fits
<1> QED
  BY <1>3, <1>5, <1>6, <1>7, TruthKept

LEMMA ElsewhereTrue ==
  ASSUME Answering, ShownTrue, ShownTrue', Truth, NoneOlder,
         \/ \E o \in Orders : Fill(o)
         \/ \E c \in Ring : Connected(c)
         \/ ExecutionArrives \/ UNCHANGED vars
  PROVE  Truth'
<1>1. UNCHANGED <<calls, journal, overtook>>
  BY DEF Fill, Connected, ExecutionArrives, vars, wire, users, history
<1>2. ASSUME NEW o \in Orders
      PROVE  \/ orders'[o] = orders[o]
             \/ /\ orders[o].status = "NEW" /\ orders'[o].status # "NONE"
                /\ orders'[o].version = orders[o].version
  <2>1. ASSUME NEW p \in Orders, Fill(p)
        PROVE  \/ orders'[o] = orders[o]
               \/ /\ orders[o].status = "NEW" /\ orders'[o].status # "NONE"
                  /\ orders'[o].version = orders[o].version
    BY <2>1 DEF Fill, Turn, Resting, Answering, OrdersType
  <2>2. CASE \/ \E c \in Ring : Connected(c)
             \/ ExecutionArrives \/ UNCHANGED vars
    BY <2>2 DEF Connected, ExecutionArrives, vars, exchange
  <2> QED
    BY <2>1, <2>2
<1>3. Steady
  BY <1>1, <1>2, SteadyElsewhere
<1>4. Ids' = Ids /\ \A id : Request(id)' = Request(id)
  BY <1>1 DEF Ids, Request
<1> QED
  BY <1>1, <1>3, <1>4, TruthKept

LEMMA TruthAlways ==
  ASSUME Turns, Answering, Showing, Once, Truth, [Next]_vars
  PROVE  Truth'
<1>1. TurnType /\ ShownTrue /\ ShownTrue' /\ NoneOlder
  BY ShowingKept DEF Turns, Showing
<1>2. CASE \/ CancelAllOrders
           \/ \E o \in Orders : CreateOrder(o) \/ ModifyOrder(o) \/ CancelOrder(o)
  <2>1. PICK t \in Targets, entry \in EntrySet : Fits(t, entry) /\ Forward(t, entry)
    BY <1>2, RequestsFit DEF Answering
  <2> QED
    BY <1>1, <2>1, ForwardTrue
<1>3. CASE ServeOrphan \/ \E c \in Ring : Serve(c)
  BY <1>1, <1>3, ServedTrue
<1>4. CASE \E c \in Ring : HandleResponse(c) \/ Timeout(c)
  BY <1>1, <1>4, CallbackTrue
<1>5. CASE \E c \in Ring : Disconnected(c)
  BY <1>1, <1>5, LostTrue
<1>6. CASE \/ \E o \in Orders : Fill(o)
           \/ \E c \in Ring : Connected(c)
           \/ ExecutionArrives \/ UNCHANGED vars
  BY <1>1, <1>6, ElsewhereTrue
<1> QED
  BY <1>2, <1>3, <1>4, <1>5, <1>6 DEF Next

LEMMA TruthMatches ==
  ASSUME Answering, ShownTrue, Truth
  PROVE  AnswersMatch
<1> SUFFICES ASSUME NEW id \in Ids, NEW i \in DOMAIN Request(id).answers,
                    NEW answer, answer = Request(id).answers[i]
             PROVE  /\ answer.status = "ACCEPTED" =>
                         /\ Request(id).fate = "done"
                         /\ id[1] # All => shown[id[1]].revision > 0
                         /\ Request(id).type = "CANCEL_ORDER" =>
                              /\ orders[id[1]].status = "CANCELED"
                              /\ shown[id[1]].status = "CANCELED"
                    /\ answer.status = "REJECTED" /\ answer.error \notin {"UNDEFINED", "UNKNOWN"}
                         => Request(id).fate = "refused"
  BY DEF AnswersMatch, Told
<1>1. AnswerTrue(id, answer)
  BY DEF Truth
<1>2. /\ id[1] \in Targets
      /\ Request(id).type = "CANCEL_ALL_ORDERS" <=> id[1] = All
  BY IdsType DEF Answering, JournalType
<1>3. ASSUME answer.status = "ACCEPTED", id[1] # All
      PROVE  /\ Request(id).fate = "done" /\ shown[id[1]].revision > 0
             /\ Request(id).type = "CANCEL_ORDER" =>
                  /\ orders[id[1]].status = "CANCELED"
                  /\ shown[id[1]].status = "CANCELED"
  <2>1. Accepted(id, shown[id[1]].revision) /\ id[1] \in Orders
    BY <1>1, <1>2, <1>3 DEF AnswerTrue, Targets
  <2>2. /\ Fresh(shown[id[1]], orders[id[1]])
        /\ shown[id[1]] \in ShownSet /\ orders[id[1]] \in OrderSet
    BY <2>1 DEF ShownTrue, Answering, OrdersType
  <2>3. shown[id[1]].revision \in Nat /\ orders[id[1]].revision \in Nat
    BY <2>2 DEF ShownSet, OrderSet
  <2>4. Expected("CANCELED") = "CANCELED"
    BY DEF Expected, MapOrdStatus, OrdStatus
  <2> QED
    BY <2>1, <2>2, <2>3, <2>4 DEF Accepted, Fresh
<1> QED
  BY <1>1, <1>2, <1>3 DEF AnswerTrue, Unreasoned, Reason

LEMMA TruthReasons ==
  ASSUME Truth
  PROVE  ReasonTrue
<1> SUFFICES ASSUME NEW id \in Ids, NEW i \in DOMAIN Request(id).answers,
                    NEW error, error = Request(id).answers[i].error
             PROVE  CASE error = "TOO_LATE_TO_MODIFY_OR_CANCEL" ->
                           \/ orders[id[1]].status # "NEW"
                           \/ orders[id[1]].version # Request(id).orig
                           \/ id \in overtook
                      [] error = "INVALID_ORDER_ID" ->
                           Request(id).type = "CANCEL_ORDER" /\ ~Request(id).named
                      [] error = "INVALID_PRICE" ->
                           Request(id).type \in {"CREATE_ORDER", "MODIFY_ORDER"}
                      [] OTHER -> error \in {"UNDEFINED", "UNKNOWN", "TIMEOUT",
                                             "NETWORK_ERROR", "NOT_READY"}
  BY DEF ReasonTrue
<1>1. \/ error \in {"UNDEFINED", "UNKNOWN", "TIMEOUT", "NETWORK_ERROR", "NOT_READY"}
      \/ Reason(id, error)
  BY DEF Truth, AnswerTrue, Unreasoned
<1>2. CASE error \in {"UNDEFINED", "UNKNOWN", "TIMEOUT", "NETWORK_ERROR", "NOT_READY"}
  BY <1>2
<1>3. CASE Reason(id, error)
  BY <1>3 DEF Reason, TooLate
<1> QED
  BY <1>1, <1>2, <1>3

(* For any number of orders, connections and requests: an answer that says *)
(* ACCEPTED is given to a request that was done, whose order the users are *)
(* shown, and shown cancelled if that was asked for; one that says         *)
(* REJECTED and why is given to a request that was refused                 *)
(* (order_entry.cpp, process_response and the acks).                       *)
THEOREM AnswersAreTrue == Spec => []AnswersMatch
<1> DEFINE Inv == Turns /\ Answering /\ Showing /\ Once /\ Truth
<1>1. Init => Inv
  BY TurnsInitially, AnsweringInitially, ShowingInitially, OnceInitially, TruthInitially
<1>2. Inv /\ [Next]_vars => Inv'
  BY TurnsKept, AnsweringKept, ShowingKept, OnceAlways, TruthAlways
<1>3. Inv => AnswersMatch
  BY TruthMatches DEF Showing
<1> QED
  BY <1>1, <1>2, <1>3, PTL DEF Spec

(* For any number of orders, connections and requests: the error that      *)
(* guess_error of utils.cpp finds in the exchange's text is the reason why *)
(* the request was refused.                                                *)
THEOREM ReasonsAreTrue == Spec => []ReasonTrue
<1> DEFINE Inv == Turns /\ Answering /\ Showing /\ Once /\ Truth
<1>1. Init => Inv
  BY TurnsInitially, AnsweringInitially, ShowingInitially, OnceInitially, TruthInitially
<1>2. Inv /\ [Next]_vars => Inv'
  BY TurnsKept, AnsweringKept, ShowingKept, OnceAlways, TruthAlways
<1>3. Inv => ReasonTrue
  BY TruthReasons
<1> QED
  BY <1>1, <1>2, <1>3, PTL DEF Spec

===============================================================================
