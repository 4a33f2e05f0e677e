--------------------------- MODULE MCBrowsingVars ---------------------------
(***************************************************************************)
(* A small address space with every case the traversal tells apart: nodes  *)
(* of namespaces 0 to 3, ids of the three kinds, objects between variables,*)
(* a variable of a type that is not printed, one node referenced from two  *)
(* parents, and two cycles (device -> line -> device, device -> device).   *)
(***************************************************************************)
EXTENDS BrowsingVars

CONSTANTS objects, server, device, line, temp, motor, blob, guid

MCNodes == {objects, server, device, line, temp, motor, blob, guid}

MCRefs == [n \in MCNodes |->
    CASE n = objects -> <<server, guid, device, temp, line>>
      [] n = device  -> <<motor, temp, line, guid, blob, device, server>>
      [] n = line    -> <<device, temp, motor>>
      [] OTHER       -> <<>>]

MCNs == [n \in MCNodes |-> CASE n \in {objects, server} -> 0
                             [] n = temp                -> 1
                             [] n = device              -> 2
                             [] OTHER                   -> 3]

MCIdType == [n \in MCNodes |-> CASE n = guid             -> "other"
                                 [] n \in {temp, device} -> "string"
                                 [] OTHER                -> "numeric"]

MCVariables == {temp, blob, guid}
MCPrintable == {temp, guid}
=============================================================================
