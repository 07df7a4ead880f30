---------------------------- MODULE MCMonitoring ----------------------------
(* Instances of Monitoring for TLC.                                        *)
EXTENDS Monitoring, TLC

CONSTANTS core, edge, host,     \* devices
          c1, c2                \* checks

\* core - edge - host, one check on each end; edge has none.
MCEnds == (c1 :> core) @@ (c2 :> host)
\* One check, on the root of the tree.
MCOnCore == c1 :> core

MCStem == {<<core, NoDevice>>, <<edge, core>>}
MCChain == MCStem \cup {<<host, edge>>}
\* Roots, two levels, three levels, and what would close a cycle.
MCMoves == MCChain \cup {<<core, host>>, <<host, core>>}
MCRoots == Device \X {NoDevice}
=============================================================================
