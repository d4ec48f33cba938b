---------------------------- MODULE MCDeepLoop ----------------------------
\* A proposal the gate passes, another, and one of a size it does not.
EXTENDS DeepLoop

MCProposals == {[dir |-> "long", fits |-> TRUE], [dir |-> "short", fits |-> TRUE],
                [dir |-> "long", fits |-> FALSE]}
MCNoProposal == [dir |-> "none", fits |-> FALSE]
=============================================================================
