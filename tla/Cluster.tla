------------------------------ MODULE Cluster ------------------------------
(***************************************************************************)
(* The world the reconciler acts on: the live Raft configuration and      *)
(* leader, and the State snapshot autopilot publishes (types.go State and *)
(* ServerState), with the changes the rest of the cluster makes to Raft.  *)
(* Shared by the reconciler model and its abstract specification.         *)
(***************************************************************************)
EXTENDS AutopilotTypes

CONSTANT Server

\* The empty raft.ServerID: no leader, or no leadership transfer wanted.
NoID == ""

\* raft.ServerSuffrage of a server, or Absent when it is not configured.
Suffrage == {"Voter", "Nonvoter", "Absent"}

\* The parts of a State snapshot the reconciler reads: the tracked servers
\* (Servers), the role (ServerState.State) and Health.Healthy of each, and
\* the Leader.
StateRecords ==
    [servers : SUBSET Server,
     role    : [Server -> RaftState],
     healthy : [Server -> BOOLEAN],
     leader  : Server \cup {NoID}]

\* GetState() before the first snapshot: nil, which reconcile treats like
\* a snapshot without a leader.
NoState ==
    [servers |-> {},
     role    |-> [s \in Server |-> "none"],
     healthy |-> [s \in Server |-> FALSE],
     leader  |-> NoID]

VARIABLES
    suffrage, \* Raft configuration: server -> Suffrage
    leader    \* the Raft leader, or NoID during an election

\* The servers with a vote in the Raft configuration.
Voters == {s \in Server : suffrage[s] = "Voter"}

(***************************************************************************)
(* What the rest of the cluster does to Raft while autopilot runs.        *)
(***************************************************************************)

\* The application adds a new server to Raft as a non-voter.
Join(s) ==
    /\ suffrage[s] = "Absent"
    /\ suffrage' = [suffrage EXCEPT ![s] = "Nonvoter"]
    /\ UNCHANGED leader

\* A follower leaves the configuration (removed by an operator or pruned).
Leave(s) ==
    /\ suffrage[s] # "Absent"
    /\ s # leader
    /\ suffrage' = [suffrage EXCEPT ![s] = "Absent"]
    /\ UNCHANGED leader

\* A voter wins an election.
Elect(s) ==
    /\ s \in Voters
    /\ s # leader
    /\ leader' = s
    /\ UNCHANGED suffrage

ClusterChange == \E s \in Server : Join(s) \/ Leave(s) \/ Elect(s)

=============================================================================
