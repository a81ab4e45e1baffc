--------------------------- MODULE AutopilotTypes ---------------------------
(***************************************************************************)
(* The value-level helpers of the autopilot (types.go and the two small    *)
(* arithmetic helpers of reconcile.go), as pure operators.  No variables.  *)
(* Integers keep Go's semantics: int division truncates toward zero and    *)
(* uint64 addition wraps modulo 2^Width.                                   *)
(***************************************************************************)
EXTENDS Integers

\* RaftState: the role of a server in the Raft configuration.
RaftState == {"none", "leader", "voter", "non-voter", "staging"}

\* NodeStatus as reported by the application.
NodeStatus == {"unknown", "alive", "failed", "left"}

\* RaftState.IsPotentialVoter: voter, staging and leader may vote.
IsPotentialVoterState(s) == s \in {"voter", "staging", "leader"}

\* ServerState.HasVotingRights.
HasVotingRights(s) == s \in {"voter", "leader"}

\* Go's integer quotient of a by a positive b: truncation toward zero,
\* where TLA+'s \div rounds toward minus infinity.
GoQuo(a, b) == IF a >= 0 THEN a \div b ELSE -((-a) \div b)

\* getFailureTolerance: (nodes - 1) / 2 in Go int arithmetic.
getFailureTolerance(nodes) == GoQuo(nodes - 1, 2)

\* Mutant of isRemovalQuorate: the "- 1" dropped.
isRemovalQuorateNoDecrement(voters, minQuorum) == voters >= minQuorum

\* isRemovalQuorate: voters-1 >= int(minQuorum), for a minQuorum that int
\* represents (below 2^63), where the conversion keeps the value.
isRemovalQuorate(voters, minQuorum) == voters - 1 >= minQuorum

\* Go's int(u) of a uint at width w: the bits reread in two's complement.
GoIntOfUint(u, w) == IF u >= 2 ^ (w - 1) THEN u - 2 ^ w ELSE u

\* isRemovalQuorate for every uint minQuorum, with int and uint w bits wide.
isRemovalQuorateAt(voters, minQuorum, w) == voters - 1 >= GoIntOfUint(minQuorum, w)

\* uint64 addition, at width w.
UAdd(a, b, w) == (a + b) % (2 ^ w)

(***************************************************************************)
(* ServerState.isHealthy.  srv is a record with the fields the code reads: *)
(* status (Server.NodeStatus), lastContact, lastTerm, lastIndex (Stats);   *)
(* conf has lastContactThreshold and maxTrailingLogs.  Each early return   *)
(* of the code is one conjunct, in the code's order.  The trailing-logs    *)
(* sum is a uint64 addition and wraps at width w.                          *)
(***************************************************************************)
isHealthy(srv, lastTerm, leaderLastIndex, conf, w) ==
    /\ leaderLastIndex # 0 /\ lastTerm # 0
    /\ srv.status = "alive"
    /\ ~(srv.lastContact > conf.lastContactThreshold \/ srv.lastContact < 0)
    /\ srv.lastTerm = lastTerm
    /\ ~(UAdd(srv.lastIndex, conf.maxTrailingLogs, w) < leaderLastIndex)

\* ServerHealth.IsStable for a non-nil health record; now - stableSince is
\* time.Time.Sub.
IsStable(health, now, minStableDuration) ==
    /\ health.healthy
    /\ ~(now - health.stableSince < minStableDuration)

\* State.ServerStabilizationTime: the configured time once autopilot has
\* run longer than it (since = time.Since(firstStateTime)), else 0.
ServerStabilizationTime(since, stabilizationTime) ==
    IF since > stabilizationTime THEN stabilizationTime ELSE 0

=============================================================================
