------------------------ MODULE MCEventSalesHistory ------------------------
(***************************************************************************)
(* Instances of EventSalesHistory for TLC, with the values of MCEventSales.*)
(***************************************************************************)
EXTENDS EventSalesHistory, MCEventSales
=============================================================================
