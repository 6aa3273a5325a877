--------------------------- MODULE Advertisement ---------------------------
(***************************************************************************)
(* The advertiser of src/Advertisement.c: one extended advertising set,    *)
(* on the 1M PHY or on the coded PHY, that every caller starts, stops and  *)
(* moves between PHYs through the functions modelled here.  The functions  *)
(* run in the BLE task, in the system work queue and in the Bluetooth      *)
(* receive thread; BleTask.tla says how those interleave.                  *)
(*                                                                         *)
(* An advertiser is a record:                                              *)
(*   phy          the PHY of the set that exists (codedPhyEnabled)         *)
(*   fast         bt_param1M holds the default interval used to let a      *)
(*                central connect, not the configured one                  *)
(*   advertising  the flag of that name; here also whether the set is      *)
(*                enabled in the controller: a start, a stop and the flag  *)
(*                they write are one step                                  *)
(*   connected    the flag of that name, written by the callbacks          *)
(*   links        the connections the controller holds (external)          *)
(***************************************************************************)
EXTENDS Integers

CONSTANT MaxLinks      \* CONFIG_BT_MAX_CONN: connection slots of the controller

ASSUME MaxLinksAssumption == MaxLinks \in Nat \ {0}

Phy == {"1M", "Coded"}

Advertiser ==
  [phy : Phy, fast : BOOLEAN, advertising : BOOLEAN, connected : BOOLEAN, links : 0 .. MaxLinks]

\* The set goes off the air whatever the flag says.
Advertisement_End(a) == [a EXCEPT !.advertising = FALSE]

\* A connectable set can be enabled only while a connection slot is left for the central
\* it waits for; nothing here looks at `connected`.
Advertisement_Start(a) == [a EXCEPT !.advertising = a.advertising \/ a.links < MaxLinks]

\* Replace the set by one on the other PHY and start it.
Advertisement_ExtendedSet(a, phy) ==
  IF a.phy = phy THEN a ELSE Advertisement_Start([Advertisement_End(a) EXCEPT !.phy = phy])

\* Both parameter blocks take the configured interval; a set on the air is stopped and
\* restarted for it.
Advertisement_IntervalUpdate(a) ==
  LET b == [a EXCEPT !.fast = FALSE]
  IN  IF a.advertising THEN Advertisement_Start(Advertisement_End(b)) ELSE b

\* The 1M parameters take the default interval; a set on the air is stopped, not restarted.
Advertisement_IntervalDefault(a) == Advertisement_End([a EXCEPT !.fast = TRUE])

\* Advertisement_Init creates the set of the configured PHY; nothing is on the air.
Advertisement_Init(phy) ==
  [phy |-> phy, fast |-> FALSE, advertising |-> FALSE, connected |-> FALSE, links |-> 0]

\* The controller ends the set when a central connects and the stack calls back.
AdvConnected(a) ==
  [a EXCEPT !.advertising = FALSE, !.connected = TRUE, !.links = a.links + 1]

\* One central is gone; the flag does not count how many are left.
AdvDisconnected(a) == [a EXCEPT !.connected = FALSE, !.links = a.links - 1]

\* The two halves of QueuedUpdateAdvertisement around the data it installs. Each asks
\* `connected` again.
UpdateBefore(a) == IF a.connected THEN a ELSE Advertisement_End(a)
UpdateAfter(a)  == IF a.connected THEN a ELSE Advertisement_Start(a)
=============================================================================
