----------------------------- MODULE Registers -----------------------------
(***************************************************************************)
(* What the server promises its clients: typed registers that start anew   *)
(* with the server and are written only while a known user is logged in.   *)
(***************************************************************************)
CONSTANTS Names,       \* the registers
          Initial,     \* register |-> its first value, a record with a type
          KnownUsers,
          Absent,      \* the value of a register that is not there
          Down         \* no server

VARIABLES reg,         \* register |-> value, or Down
          loggedIn     \* the users who have a session

Up == reg # Down

Init == reg = Down /\ loggedIn = {}

\* A register may be missing, never have another first value.
Open == /\ ~Up /\ UNCHANGED loggedIn
        /\ \E present \in SUBSET Names :
             reg' = [n \in Names |-> IF n \in present THEN Initial[n] ELSE Absent]

\* All that was written is lost with the server.
Close == Up /\ reg' = Down /\ loggedIn' = {}

Login == /\ Up /\ UNCHANGED reg
         /\ \E u \in KnownUsers : loggedIn' = loggedIn \cup {u}

Logout == Up /\ UNCHANGED reg /\ loggedIn' \in SUBSET loggedIn

Put == /\ Up /\ loggedIn # {} /\ UNCHANGED loggedIn
       /\ \E n \in Names :
            /\ reg[n] # Absent
            /\ reg' = [reg EXCEPT ![n] = reg'[n]]
            /\ reg'[n].type = Initial[n].type

Next == Open \/ Close \/ Login \/ Logout \/ Put

Spec == Init /\ [][Next]_<<reg, loggedIn>>
=============================================================================
