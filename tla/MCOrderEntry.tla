----------------------------- MODULE MCOrderEntry -----------------------------
(* Small instances of OrderEntry for TLC.                                   *)
EXTENDS OrderEntry

Troubled == {"disconnect", "fault", "refuse"}
Limited == {"limit"}

===============================================================================
