--------------------------- MODULE MCOrderManagement ---------------------------
(* Small instances of OrderManagement for TLC.                              *)
EXTENDS OrderManagement

Troubled == {"fault", "disconnect"}

===============================================================================
