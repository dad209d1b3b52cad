-------------------------- MODULE TrainSetElection --------------------------
(***************************************************************************)
(* The election of the train set at the start of every round:              *)
(* p2pfl/stages/base_node/vote_train_set_stage.py and the handler of the   *)
(* votes, vote_train_set_command.py.  A node votes, waits for the votes of *)
(* the neighbours it has at that moment, and tallies what it holds; votes  *)
(* are kept by their source only.  Between two elections the nodes meet at *)
(* the round barrier.  Nodes are numbers, so that their order breaks ties. *)
(***************************************************************************)
EXTENDS Naturals, FiniteSets, FiniteSetsExt

CONSTANTS
    Node,
    Eligible,    \* eligible_trainers; all nodes when there is no policy
    TrainSetSize,\* trainset_size
    Weight,      \* weights a vote may give
    MaxRound,    \* BOUND: rounds 0..MaxRound
    Timeouts,    \* BOUND: whether VOTE_TIMEOUT may pass
    Crashing,    \* BOUND: the nodes that may crash
    None

Round == 0..MaxRound

\* A ballot gives a weight to as many candidates as there are places.
BallotOn(candidates) ==
    UNION {[S -> Weight] : S \in kSubset(Min({TrainSetSize, Cardinality(candidates)}), candidates)}
Vote == [cast : Round, ballot : UNION {BallotOn(S) : S \in SUBSET Eligible}]

\* None is neither a vote nor a set of nodes.
ASSUME ElectionAssumption ==
    /\ Node \subseteq Nat /\ IsFiniteSet(Node)
    /\ Eligible \subseteq Node /\ Eligible # {}
    /\ Crashing \subseteq Node
    /\ Weight \subseteq Nat
    /\ TrainSetSize \in Nat \ {0}
    /\ MaxRound \in Nat /\ Timeouts \in BOOLEAN
    /\ None \notin Vote /\ \A S \in SUBSET Node : S # None

VARIABLES
    phase,     \* "vote", "wait", "elected" or "down"
    round,     \* state.round
    view,      \* get_neighbors(only_direct=False)
    votes,     \* state.train_set_votes by source, with the round each was cast in
    network,   \* votes sent and not yet received
    trainSet,  \* state.train_set, by round
    counted,   \* the votes a node has tallied, by round
    tallied    \* the nodes a node expected votes of when it tallied, by round

vars == <<phase, round, view, votes, network, trainSet, counted, tallied>>

NoVotes == [m \in Node |-> None]

Init ==
    /\ phase = [n \in Node |-> "vote"]
    /\ round = [n \in Node |-> 0]
    /\ view = [n \in Node |-> Node \ {n}]
    /\ votes = [n \in Node |-> NoVotes]
    /\ network = {}
    /\ trainSet = [r \in Round |-> [n \in Node |-> None]]
    /\ counted = [r \in Round |-> [n \in Node |-> NoVotes]]
    /\ tallied = [r \in Round |-> [n \in Node |-> {}]]

\* __vote: the own vote is stored and broadcast.
CastVote(n) ==
    /\ phase[n] = "vote"
    /\ \E ballot \in BallotOn((view[n] \cup {n}) \cap Eligible) :
         LET vote == [cast |-> round[n], ballot |-> ballot] IN
         /\ votes' = [votes EXCEPT ![n][n] = vote]
         /\ network' = network \cup {[from |-> n, to |-> m, vote |-> vote] : m \in view[n]}
    /\ phase' = [phase EXCEPT ![n] = "wait"]
    /\ UNCHANGED <<round, view, trainSet, counted, tallied>>

\* VoteTrainSetCommand: a vote for this round or the next replaces what the
\* source voted before.  (Mutated form: only votes of the round are taken.)
AcceptedNow(n, vote) == vote.cast = round[n]
Accepted(n, vote) == vote.cast \in {round[n], round[n] + 1}

ReceiveVote(message) ==
    LET n == message.to IN
    /\ message \in network
    /\ phase[n] # "down"
    /\ network' = network \ {message}
    /\ votes' = IF Accepted(n, message.vote)
                THEN [votes EXCEPT ![n][message.from] = message.vote] ELSE votes
    /\ UNCHANGED <<phase, round, view, trainSet, counted, tallied>>

\* __aggregate_votes: the votes of nodes that are neighbours no more are not
\* counted, and those of the present neighbours are waited for.  (Mutated
\* form: the own vote suffices.)
Counted(n) == {m \in view[n] \cup {n} : votes[n][m] # None}
NeededOwn(n) == {n}
Needed(n) == view[n] \cup {n}

\* nc_votes: the votes n counts, by their source.
Poll(n) == [m \in Node |-> IF m \in Counted(n) THEN votes[n][m] ELSE None]

Voters(poll) == {m \in Node : poll[m] # None}
Nominated(poll) == UNION {DOMAIN poll[m].ballot : m \in Voters(poll)}
Total(poll, k) ==
    MapThenSumSet(LAMBDA m : IF k \in DOMAIN poll[m].ballot THEN poll[m].ballot[k] ELSE 0,
                  Voters(poll))

\* Order of the tally: most votes first, then the greater name.  (Mutated form:
\* a draw leaves both in.)
BeatsStrictly(poll, j, k) == Total(poll, j) > Total(poll, k)
Beats(poll, j, k) ==
    Total(poll, j) > Total(poll, k) \/ (Total(poll, j) = Total(poll, k) /\ j > k)

\* The TrainSetSize first of a poll; validate_train_set removes who left meanwhile
\* or is not eligible.
Elected(poll, reachable) ==
    {k \in Nominated(poll) :
        Cardinality({j \in Nominated(poll) : Beats(poll, j, k)}) < TrainSetSize}
        \cap reachable \cap Eligible

\* What the tally leaves of the votes.  (Mutated form: they are all kept.)
VotesKept(n) == votes[n]
VotesAfter(n) == NoVotes

Tally(n) ==
    /\ phase[n] = "wait"
    /\ Timeouts \/ Needed(n) \subseteq Counted(n)
    /\ trainSet' = [trainSet EXCEPT ![round[n]][n] = Elected(Poll(n), view[n] \cup {n})]
    /\ counted' = [counted EXCEPT ![round[n]][n] = Poll(n)]
    /\ tallied' = [tallied EXCEPT ![round[n]][n] = view[n] \cup {n}]
    /\ votes' = [votes EXCEPT ![n] = VotesAfter(n)]
    /\ phase' = [phase EXCEPT ![n] = "elected"]
    /\ UNCHANGED <<round, view, network>>

\* n is past the barrier: every node has ended the election and arrived there.
\* (That a node goes down between the two only keeps the others there.)
NextRound(n) ==
    /\ phase[n] = "elected" /\ round[n] < MaxRound
    /\ \A m \in Node : trainSet[round[n]][m] # None
    /\ round' = [round EXCEPT ![n] = @ + 1]
    /\ phase' = [phase EXCEPT ![n] = "vote"]
    /\ UNCHANGED <<view, votes, network, trainSet, counted, tallied>>

\* A node goes down, perhaps while it still sends its vote; the heartbeat of each
\* other node removes it some time later.
Crash(n) ==
    /\ n \in Crashing /\ phase[n] # "down"
    /\ phase' = [phase EXCEPT ![n] = "down"]
    /\ \E unsent \in SUBSET {message \in network : message.from = n} :
          network' = network \ unsent
    /\ UNCHANGED <<round, view, votes, trainSet, counted, tallied>>

LoseNeighbor(n, m) ==
    /\ phase[n] # "down" /\ phase[m] = "down" /\ m \in view[n]
    /\ view' = [view EXCEPT ![n] = @ \ {m}]
    /\ UNCHANGED <<phase, round, votes, network, trainSet, counted, tallied>>

NodeStep(n) ==
    \/ CastVote(n) \/ Tally(n) \/ NextRound(n)
    \/ \E message \in network : message.to = n /\ ReceiveVote(message)
    \/ \E m \in Node : LoseNeighbor(n, m)

Next == \E n \in Node : NodeStep(n) \/ Crash(n)

Spec == Init /\ [][Next]_vars

\* A live node goes on: its threads run, messages to it arrive, and its
\* heartbeats notice who is down.  It need not do each of these for ever.
FairSpec == Spec /\ \A n \in Node : WF_vars(NodeStep(n))

-----------------------------------------------------------------------------
\* Type invariant of the votes and their tallies.
TypeOK ==
    /\ phase \in [Node -> {"vote", "wait", "elected", "down"}]
    /\ round \in [Node -> Round]
    /\ view \in [Node -> SUBSET Node]
    /\ votes \in [Node -> [Node -> Vote \cup {None}]]
    /\ network \subseteq [from : Node, to : Node, vote : Vote]
    /\ trainSet \in [Round -> [Node -> (SUBSET Eligible) \cup {None}]]
    /\ counted \in [Round -> [Node -> [Node -> Vote \cup {None}]]]
    /\ tallied \in [Round -> [Node -> SUBSET Node]]

\* Nodes that tally a round in the same view of the network elect the same
\* trainers, whoever has gone down meanwhile: without it a trainer waits for the
\* models of nodes that do not train (train_stage.py:195), and nobody compares
\* the elections.
SameTrainSet ==
    \A r \in Round, n, m \in Node :
        trainSet[r][n] # None /\ trainSet[r][m] # None /\ tallied[r][n] = tallied[r][m]
            => trainSet[r][n] = trainSet[r][m]

\* Every vote counts in the election it was cast in: of a late vote the handler
\* says "Vote received in a late round. Ignored." (vote_train_set_command.py:71).
\* With timeouts it does not hold (README, section 4).
VotesOfTheRound ==
    \A r \in Round, n, m \in Node : counted[r][n][m] # None => counted[r][n][m].cast = r

\* No live node is left waiting for votes, without the vote timeout: no vote it
\* waits for was lost, cleared early or belongs to a node that will never vote.
ElectionsEnd == <>[](\A n \in Node : phase[n] # "wait")
=============================================================================
