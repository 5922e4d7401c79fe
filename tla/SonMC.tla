------------------------------- MODULE SonMC -------------------------------
(***************************************************************************)
(* Node 1 with two larger neighbours, which connect to it and are started  *)
(* anew; a SIP process at node 1.                                          *)
(***************************************************************************)
EXTENDS Son

Three == {1, 2, 3}
Star == [n \in Three |-> IF n = 1 THEN {2, 3} ELSE {1}]

\* Node 1 has to stay: once it is started anew it waits for its larger neighbours, which
\* do not connect again.
TwoRuns == [n \in Three |-> IF n = 1 THEN 1 ELSE 2]
SipAtOne == [n \in Three |-> IF n = 1 THEN 1 ELSE 0]

\* A bound: two neighbours stop, or one of them, and the SIP process comes and goes.
TwoFailures == stops' + sips'[1] <= 2
=============================================================================
