------------------------------- MODULE MCTypes -------------------------------
(***************************************************************************)
(* Three descriptors, their handles interchangeable, or two.               *)
(***************************************************************************)
EXTENDS Types, TLC

CONSTANTS a, b, c

MCHandles == {a, b, c}
MCFieldLists == {<<"byte", "long">>}
                  \cup UNION {{<<h>>, <<"byte", h>>, <<h, h>>} : h \in MCHandles}
MCParamLists == {<<>>} \cup {<<h>> : h \in MCHandles}
MCOffsets == {4}
MCSizes   == {Internal, 12}
MCAligns  == {Internal, 2}

\* Two descriptors, for longer runs.
MCPair       == {a, b}
MCPairLists  == {<<"byte", "long">>, <<a>>, <<b>>}
MCPairParams == {<<>>}

Interchangeable == Permutations(MCHandles)
=============================================================================
