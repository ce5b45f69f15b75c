--------------------------- MODULE MCEdgeTransfers ---------------------------
(* All edges with up to four parameters.                                   *)
EXTENDS EdgeTransfers

Locals == {"a", "b", "c", "d"}
Fixed  == {"binding", "inline"}

Parameters == {<<>>, <<"a">>, <<"a", "b">>, <<"a", "b", "c">>, <<"a", "b", "c", "d">>,
               <<"none", "a">>}

AllEdges ==
  UNION {{[parameters |-> p, arguments |-> a] :
            a \in [DOMAIN p -> Locals \cup Fixed \cup {"none"}]} : p \in Parameters}
=============================================================================
