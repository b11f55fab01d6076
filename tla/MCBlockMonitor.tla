--------------------------- MODULE MCBlockMonitor ---------------------------
(* Instances of BlockMonitor for TLC.                                      *)
EXTENDS BlockMonitor, TLC

Setting(c, l, f) == [confirmations |-> c, limit |-> l, fresh |-> f]

\* The user changes everything, also to values that are no numbers.
AnySettings    == {Setting(0, 2, 3), Setting(1, 4, 3), Setting(2, 0, 0), Setting(1, Unset, 3)}
\* Page sizes a search can work with.
PageSettings   == {Setting(1, 2, 4), Setting(1, 3, 4)}
\* An agent may choose anything; a client that reads its settings pages.
RoleSettings   == [agent |-> AnySettings, client |-> PageSettings]
RoleSwallowed  == [agent |-> 1, client |-> 0]

\* "null or zero": no pagination.
NoPagination   == [agent |-> {Setting(1, 0, 4)}]
NoSwallowed    == [agent |-> 0]
=============================================================================
