-------------------------- MODULE MCSyslogReceiver --------------------------
(* Instances of SyslogReceiver for TLC.                                    *)
EXTENDS SyslogReceiver, TLC

CONSTANTS m1, login, search

MCMatches == [m \in Messages |-> IF m = m1 THEN {login, search} ELSE {}]

MCOffered == { [proto |-> "both", keywords |-> {login, search}],
               [proto |-> "udp", keywords |-> {login}] }

MCDatagrams == { [proto |-> "udp", keywords |-> {login}] }
=============================================================================
