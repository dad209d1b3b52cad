--------------------------- MODULE MCRoundLedger ---------------------------
(***************************************************************************)
(* RoundLedger for TLC, with two nodes.  The first role assignment decides *)
(* what is explored: with one of the wide ones, a single round in which    *)
(* different candidates and aggregates compete and close() may come at any *)
(* point; with Split, two rounds of an open ledger with one value of each  *)
(* hash and a registered first.  Both are BOUNDS on what TLC explores, not *)
(* on the ledger.                                                          *)
(***************************************************************************)
EXTENDS RoundLedger

CONSTANTS a, b, h1, h2, g1, g2

MCNode == {a, b}
MCInstallers == {{a, b}}

FullCapability == {"contributor", "validator", "aggregator"}
MCCapability == {FullCapability}

\* Both nodes contribute and one validates, or one contributes and both validate.
TwoContributors ==
    [network |-> {a, b}, contributors |-> {a, b}, validators |-> {b}, aggregators |-> {a}]
TwoValidators ==
    [network |-> {a, b}, contributors |-> {a}, validators |-> {a, b}, aggregators |-> {a}]

\* One node contributes and the other one validates.
Split == [TwoContributors EXCEPT !.contributors = {a}]

MCAssignments == {TwoContributors, TwoValidators, Split}

\* What a ledger that goes on to a second round looks like.
Plain(r) ==
    /\ roles[r] \in {None, Split}
    /\ \A n \in Committed(r) : candidates[r][n] = h1
    /\ aggregate[r] # None => aggregate[r].hash = g1

Explored ==
    roles[0] = Split => /\ ~closed
                        /\ events[2].participant = a
                        /\ \A r \in Round : Plain(r)
OneRound == roles[0] # Split => roles[1] = None

RunSpec == Init /\ [][Next /\ (Explored /\ OneRound)']_vars

=============================================================================
