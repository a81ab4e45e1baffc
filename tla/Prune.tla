------------------------------- MODULE Prune -------------------------------
(***************************************************************************)
(* pruneDeadServers (reconcile.go) with the categorizer, the promoter's    *)
(* removal filter and the quorum adjudicator, run against a changing       *)
(* cluster: the Raft configuration (suffrage) and the application's view   *)
(* of the servers (nodeStatus) change between and during passes.          *)
(*                                                                         *)
(* One pass is a sequence of steps, one per blocking call of the code:     *)
(* categorize and filter, then one step per removeServer, per adjudicated *)
(* entry and per RemoveFailedServer.  adjudicateRemoval does no I/O, so   *)
(* the environment is not interleaved with its steps (an environment step *)
(* there commutes with them: the adjudicator reads only pass-local state). *)
(***************************************************************************)
EXTENDS Integers, Sequences, FiniteSets, Functions, AutopilotTypes

CONSTANTS
    Server,            \* the server IDs
    PotentialVoterIds, \* servers whose NodeType is NodeVoter
    MinQuorum,         \* Config.MinQuorum (a uint)
    MaxEnvSteps        \* bound on the changes the environment makes

ASSUME ServerAssumption == IsFiniteSet(Server)
ASSUME PotentialAssumption == PotentialVoterIds \subseteq Server
ASSUME MinQuorumAssumption == MinQuorum \in Nat
ASSUME MaxEnvStepsAssumption == MaxEnvSteps \in Nat

\* raft.ServerSuffrage of a server, or Absent when it is not in the Raft
\* configuration.  (raft.Staging is never produced by the Raft library.)
Suffrage == {"Voter", "Nonvoter", "Absent"}

\* The application's KnownServers() view: alive, not alive (failed, left or
\* unknown, which the code never tells apart), or not known at all.
Status == {"alive", "failed", "absent"}

\* The six maps of CategorizedServers.
Buckets == {"StaleNonVoters", "StaleVoters", "FailedNonVoters",
            "FailedVoters", "HealthyNonVoters", "HealthyVoters"}

\* The four buckets that FailedServers carries to the promoter.
FailedBuckets == {"StaleNonVoters", "StaleVoters", "FailedNonVoters",
                  "FailedVoters"}

\* Where the pass is: Idle between passes; otherwise the loop it is in.
Phases == {"Idle", "StaleNonVoters", "StaleVoters", "RemoveStaleVoters",
           "FailedNonVoters", "ForceFailedNonVoters",
           "FailedVoters", "ForceFailedVoters"}

\* The phases that run adjudicateRemoval on the bucket of the same name.
AdjudicationPhases == {"StaleVoters", "FailedNonVoters", "FailedVoters"}

Eligibility == [cur : BOOLEAN, pot : BOOLEAN]

VARIABLES
    suffrage,   \* Raft configuration: server -> Suffrage
    nodeStatus, \* application view: server -> Status
    forced,     \* servers handed to RemoveFailedServer, not yet reaped
    envSteps,   \* environment changes so far (bounded by MaxEnvSteps)
    pc,         \* the loop the pass is in
    elig,       \* VoterEligibility of each categorized server
    buckets,    \* CategorizedServers after filtering and deletions
    pending,    \* entries of the map being ranged over not yet visited
    tol,        \* adjudicateRemoval's failureTolerance
    toRemove,   \* adjudicateRemoval's ids, then the slice being ranged over
    cursor,     \* index of the next element of toRemove to process
    tolStart    \* history: failureTolerance when the adjudication started

clusterVars == <<suffrage, nodeStatus, forced, envSteps>>
passVars == <<pc, elig, buckets, pending, tol, toRemove, cursor, tolStart>>
vars == <<clusterVars, passVars>>

(***************************************************************************)
(* Helpers                                                                 *)
(***************************************************************************)

\* CategorizedServers.PotentialVoters: the potential voters of the four
\* non-stale buckets, summed bucket by bucket.
PotentialVoters(b) ==
      Cardinality({s \in b["FailedNonVoters"] : elig[s].pot})
    + Cardinality({s \in b["FailedVoters"] : elig[s].pot})
    + Cardinality({s \in b["HealthyNonVoters"] : elig[s].pot})
    + Cardinality({s \in b["HealthyVoters"] : elig[s].pot})

\* The pass-local state between passes: pruneDeadServers keeps nothing
\* from one pass to the next.
NoEligibility == [s \in Server |-> [cur |-> FALSE, pot |-> FALSE]]
NoBuckets == [b \in Buckets |-> {}]

\* pruneDeadServers returns: the pass-local state is discarded.
EndPass ==
    /\ pc' = "Idle"
    /\ elig' = NoEligibility
    /\ buckets' = NoBuckets
    /\ pending' = {}
    /\ tol' = 0
    /\ toRemove' = <<>>
    /\ cursor' = 1
    /\ tolStart' = 0

\* removeServer: the Raft RemoveServer call.  It either succeeds and the
\* loop goes on (advance), or fails and the pass returns the error; a
\* failed call may still have been applied (a timeout racing the commit).
removeServer(id, advance) ==
    \/ /\ suffrage' = [suffrage EXCEPT ![id] = "Absent"]
       /\ advance
    \/ /\ \E applied \in BOOLEAN :
            suffrage' = IF applied THEN [suffrage EXCEPT ![id] = "Absent"]
                                   ELSE suffrage
       /\ EndPass

\* Mutant of BeginAdjudication: the slice index starts at 0.
BeginAdjudicationZeroCursor(b) ==
    /\ pc' = b
    /\ pending' = buckets[b]
    /\ tol' = getFailureTolerance(PotentialVoters(buckets))
    /\ tolStart' = tol'
    /\ toRemove' = <<>>
    /\ cursor' = 0

\* The start of adjudicateRemoval on bucket b: failureTolerance is taken
\* from the potential-voter count once.
BeginAdjudication(b) ==
    /\ pc' = b
    /\ pending' = buckets[b]
    /\ tol' = getFailureTolerance(PotentialVoters(buckets))
    /\ tolStart' = tol'
    /\ toRemove' = <<>>
    /\ cursor' = 1

(***************************************************************************)
(* Categorization: getRaftServerIds and categorizeServers.                 *)
(***************************************************************************)

\* getRaftServerIds: a fresh eligibility per configured server, with
\* currentVoter from its suffrage and potentialVoter unset (false);
\* categorizeServers then sets potentialVoter from NodeType for the
\* servers the application knows.
Eligibilities ==
    [s \in Server |->
        [cur |-> suffrage[s] = "Voter",
         pot |-> nodeStatus[s] # "absent" /\ s \in PotentialVoterIds]]

\* Mutant of categorizeServers: the failed non-voters are all failed
\* servers, the voters among them included.
categorizeServersVotersAsNonVoters ==
    LET raft  == {s \in Server : suffrage[s] # "Absent"}
        known == {s \in raft : nodeStatus[s] # "absent"}
        stale == raft \ known
        alive == {s \in known : nodeStatus[s] = "alive"}
        voter == {s \in raft : suffrage[s] = "Voter"}
    IN [StaleNonVoters   |-> stale \ voter,
        StaleVoters      |-> stale \cap voter,
        FailedNonVoters  |-> known \ alive,
        FailedVoters     |-> (known \ alive) \cap voter,
        HealthyNonVoters |-> alive \ voter,
        HealthyVoters    |-> alive \cap voter]

\* categorizeServers: configured servers known to the application go to
\* one of four buckets by (alive, currentVoter); the rest are stale and
\* split by FilterVoters.
categorizeServers ==
    LET raft  == {s \in Server : suffrage[s] # "Absent"}
        known == {s \in raft : nodeStatus[s] # "absent"}
        stale == raft \ known
        alive == {s \in known : nodeStatus[s] = "alive"}
        voter == {s \in raft : suffrage[s] = "Voter"}
    IN [StaleNonVoters   |-> stale \ voter,
        StaleVoters      |-> stale \cap voter,
        FailedNonVoters  |-> (known \ alive) \ voter,
        FailedVoters     |-> (known \ alive) \cap voter,
        HealthyNonVoters |-> alive \ voter,
        HealthyVoters    |-> alive \cap voter]

\* convertToFailedServers, FilterFailedServerRemovals, convertFromFailedServers:
\* each stale or failed bucket keeps the entries the promoter lets through
\* (any subset: the promoter is pluggable, and convertToFailedServers also
\* drops failed servers missing from the state snapshot); healthy buckets
\* are untouched.
FilterFailedServerRemovals(cat, keep) ==
    [b \in Buckets |-> IF b \in FailedBuckets THEN cat[b] \cap keep ELSE cat[b]]

(***************************************************************************)
(* The pass                                                                *)
(***************************************************************************)

\* pruneDeadServers up to its first removal: categorize, filter, and start
\* ranging over the stale non-voters.
PruneStart ==
    /\ pc = "Idle"
    /\ LET cat == categorizeServers IN
       \E keep \in SUBSET UNION {cat[b] : b \in FailedBuckets} :
          /\ buckets' = FilterFailedServerRemovals(cat, keep)
          /\ pending' = buckets'["StaleNonVoters"]
    /\ elig' = Eligibilities
    /\ pc' = "StaleNonVoters"
    /\ toRemove' = <<>>
    /\ cursor' = 1
    /\ UNCHANGED <<clusterVars, tol, tolStart>>

\* One iteration of the loop over the stale non-voters: removeServer(id).
RemoveStaleNonVoter ==
    /\ pc = "StaleNonVoters"
    /\ \E id \in pending :
          removeServer(id, /\ pending' = pending \ {id}
                              /\ UNCHANGED <<pc, elig, buckets, tol, toRemove,
                                             cursor, tolStart>>)
    /\ UNCHANGED <<nodeStatus, forced, envSteps>>

\* Mutant of AdjudicateOne: accepting a current voter does not spend
\* tolerance (the failureTolerance-- dropped).
AdjudicateOneNoDecrement ==
    /\ pc \in AdjudicationPhases
    /\ \E id \in pending :
          /\ pending' = pending \ {id}
          /\ IF \/ tol < 1
                \/ elig[id].pot /\ ~isRemovalQuorate(PotentialVoters(buckets), MinQuorum)
             THEN UNCHANGED <<buckets, toRemove, tol>>
             ELSE /\ tol' = tol
                  /\ buckets' = [buckets EXCEPT ![pc] = @ \ {id}]
                  /\ toRemove' = Append(toRemove, id)
    /\ UNCHANGED <<clusterVars, pc, elig, cursor, tolStart>>

\* One iteration of adjudicateRemoval's range over the bucket, in the
\* map's arbitrary order.  A refused entry stays in the bucket; an accepted
\* one is deleted from it, which lowers PotentialVoters for the counted
\* buckets; only accepting a current voter spends tolerance.
AdjudicateOne ==
    /\ pc \in AdjudicationPhases
    /\ \E id \in pending :
          /\ pending' = pending \ {id}
          /\ IF \/ tol < 1
                \/ elig[id].pot /\ ~isRemovalQuorate(PotentialVoters(buckets), MinQuorum)
             THEN UNCHANGED <<buckets, toRemove, tol>>
             ELSE /\ tol' = IF elig[id].cur THEN tol - 1 ELSE tol
                  /\ buckets' = [buckets EXCEPT ![pc] = @ \ {id}]
                  /\ toRemove' = Append(toRemove, id)
    /\ UNCHANGED <<clusterVars, pc, elig, cursor, tolStart>>

\* One iteration of the loop removing the adjudicated stale voters.
RemoveStaleVoter ==
    /\ pc = "RemoveStaleVoters"
    /\ cursor <= Len(toRemove)
    /\ removeServer(toRemove[cursor], /\ cursor' = cursor + 1
                                      /\ UNCHANGED <<pc, elig, buckets, pending,
                                                     tol, toRemove, tolStart>>)
    /\ UNCHANGED <<nodeStatus, forced, envSteps>>

\* One iteration of a loop over adjudicated failed servers: KnownServers()
\* is read again, and a server still known is handed to RemoveFailedServer,
\* which does not fail.
ForceRemove ==
    /\ pc \in {"ForceFailedNonVoters", "ForceFailedVoters"}
    /\ cursor <= Len(toRemove)
    /\ LET id == toRemove[cursor] IN
       forced' = IF nodeStatus[id] # "absent" THEN forced \cup {id} ELSE forced
    /\ cursor' = cursor + 1
    /\ UNCHANGED <<suffrage, nodeStatus, envSteps, pc, elig, buckets, pending, tol, toRemove, tolStart>>

\* The statement of pruneDeadServers that follows each loop.
Successor ==
    [StaleNonVoters       |-> "StaleVoters",
     StaleVoters          |-> "RemoveStaleVoters",
     RemoveStaleVoters    |-> "FailedNonVoters",
     FailedNonVoters      |-> "ForceFailedNonVoters",
     ForceFailedNonVoters |-> "FailedVoters",
     FailedVoters         |-> "ForceFailedVoters",
     ForceFailedVoters    |-> "Idle"]

\* The loop of the current phase has run out.
LoopDone ==
    IF pc \in {"StaleNonVoters"} \cup AdjudicationPhases
    THEN pending = {}
    ELSE cursor > Len(toRemove)

\* A loop has run out: pruneDeadServers goes on to its next statement, an
\* adjudication, a loop over the ids just adjudicated, or the return.
NextPhase ==
    /\ pc # "Idle"
    /\ LoopDone
    /\ \/ /\ Successor[pc] \in AdjudicationPhases
          /\ BeginAdjudication(Successor[pc])
          /\ UNCHANGED <<elig, buckets>>
       \/ /\ Successor[pc] \in {"RemoveStaleVoters", "ForceFailedNonVoters",
                                "ForceFailedVoters"}
          /\ pc' = Successor[pc]
          /\ UNCHANGED <<elig, buckets, pending, tol, toRemove, cursor, tolStart>>
       \/ /\ Successor[pc] = "Idle"
          /\ EndPass
    /\ UNCHANGED clusterVars

(***************************************************************************)
(* The environment: the application and the rest of the cluster.  It acts *)
(* whenever the pass is not inside adjudicateRemoval.                      *)
(***************************************************************************)

\* A known server stops being alive (failed or left).
NodeFails(s) ==
    /\ nodeStatus[s] = "alive"
    /\ nodeStatus' = [nodeStatus EXCEPT ![s] = "failed"]
    /\ UNCHANGED <<suffrage, forced>>

\* A failed server comes back.
NodeRecovers(s) ==
    /\ nodeStatus[s] = "failed"
    /\ nodeStatus' = [nodeStatus EXCEPT ![s] = "alive"]
    /\ UNCHANGED <<suffrage, forced>>

\* The application forgets a server it knew (reaped from its membership).
NodeForgotten(s) ==
    /\ nodeStatus[s] # "absent"
    /\ nodeStatus' = [nodeStatus EXCEPT ![s] = "absent"]
    /\ UNCHANGED <<suffrage, forced>>

\* A new server joins: the application learns of it and adds it to Raft
\* as a non-voter.
NodeJoins(s) ==
    /\ nodeStatus[s] = "absent" /\ suffrage[s] = "Absent"
    /\ nodeStatus' = [nodeStatus EXCEPT ![s] = "alive"]
    /\ suffrage' = [suffrage EXCEPT ![s] = "Nonvoter"]
    /\ UNCHANGED forced

\* The application learns again of a server that is still in the Raft
\* configuration (it rejoins the membership after it was forgotten).
NodeRejoins(s) ==
    /\ nodeStatus[s] = "absent" /\ suffrage[s] # "Absent"
    /\ nodeStatus' = [nodeStatus EXCEPT ![s] = "alive"]
    /\ UNCHANGED <<suffrage, forced>>

\* The application completes a RemoveFailedServer in the background: the
\* server leaves the Raft configuration and the application's view.
Reap(s) ==
    /\ s \in forced
    /\ suffrage' = [suffrage EXCEPT ![s] = "Absent"]
    /\ nodeStatus' = [nodeStatus EXCEPT ![s] = "absent"]
    /\ forced' = forced \ {s}

Environment ==
    /\ pc \notin AdjudicationPhases
    /\ envSteps < MaxEnvSteps
    /\ envSteps' = envSteps + 1
    /\ \E s \in Server :
          NodeFails(s) \/ NodeRecovers(s) \/ NodeForgotten(s)
          \/ NodeJoins(s) \/ NodeRejoins(s) \/ Reap(s)
    /\ UNCHANGED passVars

(***************************************************************************)
(* The specification                                                       *)
(***************************************************************************)

\* The Raft configuration has a voter (the leader autopilot runs on).
Init ==
    /\ suffrage \in [Server -> Suffrage]
    /\ \E s \in Server : suffrage[s] = "Voter"
    /\ nodeStatus \in [Server -> Status]
    /\ forced = {}
    /\ envSteps = 0
    /\ pc = "Idle"
    /\ elig = NoEligibility
    /\ buckets = NoBuckets
    /\ pending = {}
    /\ tol = 0
    /\ toRemove = <<>>
    /\ cursor = 1
    /\ tolStart = 0

Next ==
    \/ PruneStart
    \/ RemoveStaleNonVoter
    \/ AdjudicateOne
    \/ RemoveStaleVoter
    \/ ForceRemove
    \/ NextPhase
    \/ Environment

Spec == Init /\ [][Next]_vars

(***************************************************************************)
(* Properties                                                              *)
(***************************************************************************)

TypeOK ==
    /\ suffrage \in [Server -> Suffrage]
    /\ nodeStatus \in [Server -> Status]
    /\ forced \subseteq Server
    /\ envSteps \in 0..MaxEnvSteps
    /\ pc \in Phases
    /\ elig \in [Server -> Eligibility]
    /\ buckets \in [Buckets -> SUBSET Server]
    /\ pending \subseteq Server
    /\ tol \in Int
    /\ toRemove \in Seq(Server)
    /\ cursor \in Nat \ {0}
    /\ tolStart \in Int

\* The current voters adjudicateRemoval has accepted so far in this call.
AcceptedVoters == {i \in DOMAIN toRemove : elig[toRemove[i]].cur}

\* Failure tolerance: one call of adjudicateRemoval never hands out more
\* current voters for removal than the failure tolerance it computed from
\* the potential-voter count when it started, and none at all when that
\* tolerance is zero.
RemovalWithinTolerance ==
    Cardinality(AcceptedVoters) <= IF tolStart < 0 THEN 0 ELSE tolStart

\* Minimum quorum: once adjudicateRemoval has accepted a potential voter,
\* the potential voters left in the categorized buckets are at least
\* MinQuorum.  The code re-reads PotentialVoters for every entry, so this
\* holds however many potential voters one call accepts.
RemovalKeepsMinQuorum ==
    (\E i \in DOMAIN toRemove : elig[toRemove[i]].pot)
        => PotentialVoters(buckets) >= MinQuorum

\* The number of voters in the Raft configuration.
VoterCount == Cardinality({s \in Server : suffrage[s] = "Voter"})

\* Spec section 8, quorum safety, and scenario 5: removing a stale voter
\* never leaves fewer than MinQuorum voters in the Raft configuration
\* (the removal must be quorate: voters - 1 >= MinQuorum).
StaleVoterRemovalKeepsMinQuorum ==
    [][RemoveStaleVoter /\ VoterCount' < VoterCount => VoterCount' >= MinQuorum]_vars

\* Spec section 8, categorization: no server is in two buckets, a server
\* is in a voter bucket exactly when its eligibility says current voter,
\* and a stale server is never a potential voter; this holds from
\* categorizeServers through the filter and every deletion of
\* adjudicateRemoval, which spends tolerance and applies the MinQuorum gate
\* by these flags.
CategorizationSound ==
    /\ \A x, y \in Buckets : x # y => buckets[x] \cap buckets[y] = {}
    /\ \A x \in Buckets : \A s \in buckets[x] :
          elig[s].cur <=> x \in {"StaleVoters", "FailedVoters", "HealthyVoters"}
    /\ \A s \in buckets["StaleNonVoters"] \cup buckets["StaleVoters"] : ~elig[s].pot

=============================================================================
