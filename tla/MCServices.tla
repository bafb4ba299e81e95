----------------------------- MODULE MCServices -----------------------------
(***************************************************************************)
(* Five components that do not share state, each a behaviour of its own:   *)
(* the run explores the sum of their state spaces.                         *)
(***************************************************************************)
EXTENDS DhtNode, Finder, Timeouts, Logging, Parsers

VARIABLE part

\* Three peers share a bucket that holds two, one has a bucket of its own.
FourPeers  == {{0}, {0, 1}, {0, 1, 2}, {1}}
TwoTargets == {{0, 1}, {2}}
OneAddress == [i \in Others |-> "x"]
Me         == {}

\* Bodies that look like first lines, headers, lengths and ends of lines, and a
\* header without value
SomePackets ==
  [headers : {<<>>, <<"h">>}, body : {<<>>, <<"F">>, <<"lf", "F">>, <<"cr", "lf">>, <<"1", "cr">>}]
    \cup [headers : {<<"h", "e">>}, body : {<<"lf", "F">>}]
OneOrTwo   == [c \in {"1", "2"} |-> IF c = "1" THEN 1 ELSE 2]
TwoPackets == {<<p, q>> : p, q \in SomePackets}

AllInit ==
  /\ part \in {"search", "dht", "timeouts", "log", "parser"}
  /\ Init /\ DhtInit /\ TimeoutsInit /\ LogInit
  /\ ParsersInit /\ (part = "parser" \/ sent = CHOOSE s \in Streams : TRUE)

AllNext ==
  /\ UNCHANGED part
  /\ \/ part = "search" /\ Next /\ UNCHANGED <<nodeVars, timeVars, logVars, parseVars>>
     \/ part = "dht" /\ DhtNext /\ UNCHANGED <<vars, timeVars, logVars, parseVars>>
     \/ part = "timeouts" /\ TimeoutsNext /\ UNCHANGED <<vars, nodeVars, logVars, parseVars>>
     \/ part = "log" /\ LogNext /\ UNCHANGED <<vars, nodeVars, timeVars, parseVars>>
     \/ part = "parser" /\ ParsersNext /\ UNCHANGED <<vars, nodeVars, timeVars, logVars>>

\* Finder's fairness, which holds by itself where no search runs
AllSpec ==
  /\ AllInit /\ [][AllNext]_<<part, vars, nodeVars, timeVars, logVars, parseVars>>
  /\ WF_vars(Handle) /\ \A p \in Peers : WF_vars(FireTimer(p))
=============================================================================
