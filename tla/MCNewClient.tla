----------------------------- MODULE MCNewClient -----------------------------
(***************************************************************************)
(* A client against a server that offers every security mode, over a small *)
(* address space: one expanded device with a variable, an object and a     *)
(* node of namespace 0 below it.                                           *)
(***************************************************************************)
EXTENDS NewClient

CONSTANTS objects, server, device, temp, motor, P1, P2, None

MCNodes == {objects, server, device, temp, motor}

MCRefs == [n \in MCNodes |->
    CASE n = objects -> <<server, device>>
      [] n = device  -> <<temp, server, motor>>
      [] OTHER       -> <<>>]

MCNs == [n \in MCNodes |-> IF n \in {objects, server} THEN 0 ELSE 2]
MCIdType == [n \in MCNodes |-> IF n = temp THEN "string" ELSE "numeric"]
MCVariables == {temp}

MCSecurePolicies == {P1, P2}
MCEndpoints == {[mode |-> "None", policy |-> None]}
               \cup [mode : {"Sign", "SignAndEncrypt"}, policy : {P1, P2}]
=============================================================================
