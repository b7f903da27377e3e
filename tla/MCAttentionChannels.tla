------------------------ MODULE MCAttentionChannels ------------------------
(* AttentionChannels on small sets for TLC. *)
EXTENDS AttentionChannels, TLC

CONSTANTS x, y, z

\* A host that serves two channels; takeovers move one of them alone.
MCSessions == {{x, y}}

\* One deletion, and not the last takeovers of both channels of the host.
DeletionsAndTakeovers ==
    /\ Cardinality({c \in Channels : status[c] = "deleted"}) <= 1
    /\ bindings[x].gen + bindings[y].gen <= 3

Symmetry == Permutations(Procs) \cup Permutations(Endpoints)
=============================================================================
