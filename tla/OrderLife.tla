------------------------------- MODULE OrderLife -------------------------------
(***************************************************************************)
(* What the users of an account are promised about an order, however many  *)
(* channels tell of it and whatever is lost on them: they see statuses     *)
(* that it has had, each under the name the gateway gives it, in the order *)
(* it had them, with gaps but never twice and never back.                  *)
(***************************************************************************)
EXTENDS OrderStatus, Integers, Sequences

CONSTANT Orders

VARIABLES
  past,   \* the statuses an order has had, oldest first
  view    \* how many of them the users know of, and the status they see

life == <<past, view>>

(* The status an order may have after another: once it has ended it stays  *)
(* as it is.                                                               *)
After == [status \in {"NONE", "NEW", "FILLED", "CANCELED", "REJECTED"} |->
  CASE status = "NONE" -> {"NEW", "REJECTED"}
    [] status = "NEW" -> {"NEW", "FILLED", "CANCELED"}
    [] OTHER -> {}]

Latest(changes) == IF changes = <<>> THEN "NONE" ELSE changes[Len(changes)]

Init ==
  /\ past = [o \in Orders |-> <<>>]
  /\ view = [o \in Orders |-> [known |-> 0, status |-> "UNDEFINED"]]

Change ==
  /\ \E changed \in SUBSET Orders, new \in [Orders -> DOMAIN After] :
       /\ \A o \in changed : new[o] \in After[Latest(past[o])]
       /\ past' = [o \in Orders |-> IF o \in changed THEN Append(past[o], new[o])
                                                     ELSE past[o]]
  /\ UNCHANGED view

(* The users learn of changes, of each order the next one or a later.      *)
Later(o) == {[known |-> n, status |-> MapOrdStatus[past[o][n]]] :
               n \in view[o].known + 1 .. Len(past[o])}
Learn ==
  /\ view' \in [Orders -> UNION {{view[o]} \cup Later(o) : o \in Orders}]
  /\ \A o \in Orders : view'[o] \in {view[o]} \cup Later(o)
  /\ UNCHANGED past

Next == Change \/ Learn

Spec == Init /\ [][Next]_life

===============================================================================
