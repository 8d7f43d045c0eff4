------------------------------- MODULE MCCentral -------------------------------
(***************************************************************************)
(* Constants for model checking Central.  Of the thresholds users ask for, *)
(* 50.5 is cut to 50 by the sensor, 100 is in range for central and        *)
(* refused by the sensor, 100.1 is refused by central.  Where values do    *)
(* not matter there is one, whether a sensor measured it or not.           *)
(***************************************************************************)
EXTENDS Central

MCInput == {505, 1000, 1001}
OneInput == {505}
MCThreshold == {500, 1000}
MCPeer == Addr \X Port
MCQuestion == Input \cup {GetValue}
MCAnswer == Threshold \cup Reading
MCReadingOf == [a \in Addr |-> Reading \ {Unmeasured}]
AnyReadingOf == [a \in Addr |-> Reading]
=============================================================================
