---------------------------- MODULE MCOrderEvents ----------------------------
(***************************************************************************)
(* Screens for TLC: Floor takes every event and is left without its poll,  *)
(* to see what the stream does by itself; Kitchen takes the events of the  *)
(* kitchen board; Bill skips greetings within its window; WebFloor is the  *)
(* POS floor of the web app.  "sent" stands for the kitchen's kinds of     *)
(* change, "added" for the others.                                         *)
(***************************************************************************)
EXTENDS OrderEvents

CONSTANTS phone, sent, added, none

Floor == [filters |-> FALSE, skips |-> FALSE, polls |-> FALSE, web |-> FALSE]
Kitchen == [filters |-> TRUE, skips |-> FALSE, polls |-> TRUE, web |-> FALSE]
Bill == [filters |-> FALSE, skips |-> TRUE, polls |-> TRUE, web |-> FALSE]
WebFloor == [filters |-> FALSE, skips |-> FALSE, polls |-> TRUE, web |-> TRUE]

EveryScreen == {Floor, Kitchen, Bill, WebFloor}
KitchenScreen == {Kitchen}
=============================================================================
