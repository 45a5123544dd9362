------------------------------ MODULE MCProducts ------------------------------
(* A small instance of Products for TLC.                                    *)
EXTENDS Products

SmallBudget == [disconnect |-> 2, change |-> 2, list |-> 1, trade |-> 1]

===============================================================================
