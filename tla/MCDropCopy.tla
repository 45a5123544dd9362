------------------------------ MODULE MCDropCopy ------------------------------
(***************************************************************************)
(* Small instances of DropCopy: order "b" is a buy, "s" a sell.  With a    *)
(* Period of 0 time stands still, for the run about statuses.              *)
(***************************************************************************)
EXTENDS DropCopy

MCSideOf == [o \in Orders |-> IF o = "b" THEN "BUY" ELSE "SELL"]

NoEvents == [e \in Events |-> 0]
StatusEvents == [NoEvents EXCEPT !["change"] = 3, !["disconnect"] = 1]
OrderEvents == [NoEvents EXCEPT !["change"] = 2, !["disconnect"] = 1,
                                !["refuse"] = 1]
SwitchEvents == [NoEvents EXCEPT !["change"] = 1, !["disconnect"] = 2]

===============================================================================
