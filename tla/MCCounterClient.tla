--------------------------- MODULE MCCounterClient --------------------------
(***************************************************************************)
(* One variable that stands one below the maximum, so that the second      *)
(* increment wraps. Either two clients race on it over calls that fail or  *)
(* are late, or one of them runs alone: killed and restarted, with calls   *)
(* that succeed, on a server that lets it add nodes.                       *)
(***************************************************************************)
EXTENDS CounterClient

CONSTANTS v1, c1, c2

MCClients == {c1, c2}
MCMinInt == -3
MCVars == {v1}
MCStart == [v \in MCVars |-> MaxInt - 1]

VARIABLE alone   \* does c1 run alone

R == INSTANCE CounterClient
       WITH Unreliable <- FALSE, AddAllowed <- TRUE, MaxRounds <- 3, MaxRestarts <- 2

MCInit == Init /\ alone \in BOOLEAN

MCStep(c) == IF alone THEN c = c1 /\ R!Step(c) ELSE Step(c)

MCNext == /\ \/ \E c \in Clients : MCStep(c)
             \/ ~alone /\ \E c \in Clients : Sigint(c) \/ Restart(c)
             \/ alone /\ (R!Sigint(c1) \/ R!Restart(c1))
             \/ \E w \in inflight : Deliver(w)
          /\ UNCHANGED alone

MCFairSpec == /\ MCInit /\ [][MCNext]_<<vars, alone>>
              /\ \A c \in Clients : WF_<<vars, alone>>(MCStep(c) /\ UNCHANGED alone)
=============================================================================
