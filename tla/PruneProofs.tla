---------------------------- MODULE PruneProofs ----------------------------
(***************************************************************************)
(* Proofs about the pruning pass of module Prune, for every set of        *)
(* servers, every set of potential voters and every MinQuorum.            *)
(***************************************************************************)
EXTENDS Prune, FiniteSetTheorems, TLAPS

(***************************************************************************)
(* Lemmas about the operators of the model.                                *)
(***************************************************************************)

\* Every set of servers is finite and has a natural cardinality.
LEMMA ServerSubsetCardinality ==
    ASSUME NEW S \in SUBSET Server
    PROVE  /\ IsFiniteSet(S)
           /\ Cardinality(S) \in Nat
<1>1. IsFiniteSet(S)
    BY ServerAssumption, FS_Subset
<1>2. QED
    BY <1>1, FS_CardinalityType

\* PotentialVoters of well-typed buckets is a natural number.
LEMMA PotentialVotersType ==
    ASSUME NEW b \in [Buckets -> SUBSET Server]
    PROVE  PotentialVoters(b) \in Nat
<1>1. \A x \in Buckets : {s \in b[x] : elig[s].pot} \in SUBSET Server
    OBVIOUS
<1>2. \A x \in Buckets : Cardinality({s \in b[x] : elig[s].pot}) \in Nat
    BY <1>1, ServerSubsetCardinality
<1>3. QED
    BY <1>2 DEF PotentialVoters, Buckets

\* The failure tolerance of an integer count is an integer.
LEMMA FailureToleranceType ==
    ASSUME NEW n \in Int
    PROVE  getFailureTolerance(n) \in Int
BY DEF getFailureTolerance, GoQuo

(***************************************************************************)
(* Type correctness.                                                       *)
(***************************************************************************)

LEMMA NoEligibilityType == NoEligibility \in [Server -> Eligibility]
BY DEF NoEligibility, Eligibility

LEMMA InitTypeOK == Init => TypeOK
BY MaxEnvStepsAssumption, NoEligibilityType DEF Init, TypeOK, NoBuckets, Phases

LEMMA PruneStartTypeOK == TypeOK /\ PruneStart => TypeOK'
<1> SUFFICES ASSUME TypeOK, PruneStart PROVE TypeOK'
    OBVIOUS
<1>1. categorizeServers \in [Buckets -> SUBSET Server]
    BY DEF TypeOK, categorizeServers, Buckets
<1>2. buckets' \in [Buckets -> SUBSET Server]
    BY <1>1 DEF PruneStart, FilterFailedServerRemovals
<1>3. pending' \subseteq Server
    BY <1>2 DEF PruneStart, Buckets
<1>4. elig' \in [Server -> Eligibility]
    <2>1. \A s \in Server : Eligibilities[s] \in Eligibility
        BY DEF Eligibilities, Eligibility
    <2>2. QED
        BY <2>1 DEF PruneStart, Eligibilities
<1>5. QED
    BY <1>2, <1>3, <1>4 DEF PruneStart, TypeOK, clusterVars, Phases

LEMMA EndPassTypeOK == EndPass => (/\ pc' \in Phases
                                   /\ elig' \in [Server -> Eligibility]
                                   /\ buckets' \in [Buckets -> SUBSET Server]
                                   /\ pending' \subseteq Server
                                   /\ tol' \in Int
                                   /\ toRemove' \in Seq(Server)
                                   /\ cursor' \in Nat \ {0}
                                   /\ tolStart' \in Int)
BY DEF EndPass, Phases, NoEligibility, NoBuckets, Eligibility

LEMMA RemoveStaleNonVoterTypeOK == TypeOK /\ RemoveStaleNonVoter => TypeOK'
BY EndPassTypeOK DEF TypeOK, RemoveStaleNonVoter, removeServer, Suffrage

LEMMA RemoveStaleVoterTypeOK == TypeOK /\ RemoveStaleVoter => TypeOK'
<1> SUFFICES ASSUME TypeOK, RemoveStaleVoter PROVE TypeOK'
    OBVIOUS
<1>1. toRemove[cursor] \in Server
    BY DEF TypeOK, RemoveStaleVoter
<1>2. QED
    BY <1>1, EndPassTypeOK DEF TypeOK, RemoveStaleVoter, removeServer, Suffrage

LEMMA AdjudicateOneTypeOK == TypeOK /\ AdjudicateOne => TypeOK'
<1> SUFFICES ASSUME TypeOK, AdjudicateOne PROVE TypeOK'
    OBVIOUS
<1>1. PICK id \in pending :
          /\ pending' = pending \ {id}
          /\ IF \/ tol < 1
                \/ elig[id].pot /\ ~isRemovalQuorate(PotentialVoters(buckets), MinQuorum)
             THEN UNCHANGED <<buckets, toRemove, tol>>
             ELSE /\ tol' = IF elig[id].cur THEN tol - 1 ELSE tol
                  /\ buckets' = [buckets EXCEPT ![pc] = @ \ {id}]
                  /\ toRemove' = Append(toRemove, id)
    BY DEF AdjudicateOne
<1>2. id \in Server /\ pc \in Buckets
    BY DEF TypeOK, AdjudicateOne, AdjudicationPhases, Buckets
<1>3. /\ buckets' \in [Buckets -> SUBSET Server]
      /\ toRemove' \in Seq(Server)
      /\ tol' \in Int
    <2>1. CASE \/ tol < 1
               \/ elig[id].pot /\ ~isRemovalQuorate(PotentialVoters(buckets), MinQuorum)
        BY <1>1, <2>1 DEF TypeOK
    <2>2. CASE ~(\/ tol < 1
                 \/ elig[id].pot /\ ~isRemovalQuorate(PotentialVoters(buckets), MinQuorum))
        <3>1. /\ tol' = IF elig[id].cur THEN tol - 1 ELSE tol
              /\ buckets' = [buckets EXCEPT ![pc] = @ \ {id}]
              /\ toRemove' = Append(toRemove, id)
            BY <1>1, <2>2
        <3>2. buckets' \in [Buckets -> SUBSET Server]
            BY <3>1, <1>2 DEF TypeOK
        <3>3. toRemove' \in Seq(Server)
            BY <3>1, <1>2 DEF TypeOK
        <3>4. tol' \in Int
            BY <3>1 DEF TypeOK
        <3>5. QED
            BY <3>2, <3>3, <3>4
    <2>3. QED
        BY <2>1, <2>2
<1>4. QED
    BY <1>1, <1>3 DEF TypeOK, AdjudicateOne, clusterVars

LEMMA ForceRemoveTypeOK == TypeOK /\ ForceRemove => TypeOK'
BY DEF TypeOK, ForceRemove

LEMMA NextPhaseTypeOK == TypeOK /\ NextPhase => TypeOK'
<1> SUFFICES ASSUME TypeOK, NextPhase PROVE TypeOK'
    OBVIOUS
<1>1. CASE Successor[pc] \in AdjudicationPhases /\ BeginAdjudication(Successor[pc])
    <2>1. PotentialVoters(buckets) \in Nat
        BY PotentialVotersType DEF TypeOK
    <2>2. tol' \in Int
        BY <1>1, <2>1, FailureToleranceType DEF BeginAdjudication
    <2>3. pending' \subseteq Server
        BY <1>1 DEF BeginAdjudication, TypeOK, AdjudicationPhases, Buckets
    <2>4. QED
        BY <1>1, <2>2, <2>3 DEF NextPhase, BeginAdjudication, TypeOK, clusterVars,
           AdjudicationPhases, Phases
<1>2. CASE Successor[pc] \in {"RemoveStaleVoters", "ForceFailedNonVoters", "ForceFailedVoters"}
           /\ pc' = Successor[pc]
           /\ UNCHANGED <<elig, buckets, pending, tol, toRemove, cursor, tolStart>>
    BY <1>2 DEF NextPhase, TypeOK, clusterVars, Phases
<1>3. CASE Successor[pc] = "Idle" /\ EndPass
    BY <1>3, EndPassTypeOK DEF NextPhase, TypeOK, clusterVars
<1>4. QED
    BY <1>1, <1>2, <1>3 DEF NextPhase

LEMMA EnvironmentTypeOK == TypeOK /\ Environment => TypeOK'
<1> SUFFICES ASSUME TypeOK, Environment PROVE TypeOK'
    OBVIOUS
<1>1. envSteps' \in 0..MaxEnvSteps /\ UNCHANGED passVars
    BY MaxEnvStepsAssumption DEF TypeOK, Environment
<1>2. PICK s \in Server : NodeFails(s) \/ NodeRecovers(s) \/ NodeForgotten(s)
                          \/ NodeJoins(s) \/ NodeRejoins(s) \/ Reap(s)
    BY DEF Environment
<1>3. /\ suffrage' \in [Server -> Suffrage]
      /\ nodeStatus' \in [Server -> Status]
      /\ forced' \subseteq Server
    BY <1>2 DEF TypeOK, NodeFails, NodeRecovers, NodeForgotten, NodeJoins, NodeRejoins,
                Reap, Status, Suffrage
<1>4. QED
    BY <1>1, <1>3 DEF TypeOK, passVars

\* Type correctness: every reachable state is well typed.
THEOREM TypeCorrect == Spec => []TypeOK
<1>1. TypeOK /\ [Next]_vars => TypeOK'
    BY PruneStartTypeOK, RemoveStaleNonVoterTypeOK, AdjudicateOneTypeOK,
       RemoveStaleVoterTypeOK, ForceRemoveTypeOK, NextPhaseTypeOK,
       EnvironmentTypeOK
    DEF Next, vars, TypeOK, clusterVars, passVars
<1>2. QED
    BY InitTypeOK, <1>1, PTL DEF Spec

(***************************************************************************)
(* Failure tolerance.  RemovalWithinTolerance is not inductive: it says    *)
(* nothing of tol.  The strengthening ties the tolerance left to what has  *)
(* been spent: every current voter accepted so far cost one unit of tol,   *)
(* and tol never went below zero once a voter was accepted.  Between       *)
(* passes the adjudication output is empty.                                *)
(***************************************************************************)
ToleranceInv ==
    /\ TypeOK
    /\ Cardinality(AcceptedVoters) = tolStart - tol
    /\ AcceptedVoters # {} => tol >= 0
    /\ pc = "Idle" => toRemove = <<>>

\* The accepted current voters are a finite set of indices of toRemove.
LEMMA AcceptedVotersFinite ==
    ASSUME TypeOK
    PROVE  /\ AcceptedVoters \subseteq 1..Len(toRemove)
           /\ IsFiniteSet(AcceptedVoters)
<1>1. AcceptedVoters \subseteq 1..Len(toRemove)
    BY DEF TypeOK, AcceptedVoters
<1>2. IsFiniteSet(1..Len(toRemove))
    BY FS_Interval DEF TypeOK
<1>3. QED
    BY <1>1, <1>2, FS_Subset

\* Appending id to toRemove adds one accepted voter exactly when id is a
\* current voter.
LEMMA AcceptedVotersAppend ==
    ASSUME TypeOK, NEW id \in Server,
           toRemove' = Append(toRemove, id), elig' = elig
    PROVE  Cardinality(AcceptedVoters') =
               IF elig[id].cur THEN Cardinality(AcceptedVoters) + 1
                               ELSE Cardinality(AcceptedVoters)
<1> DEFINE n == Len(toRemove)
<1>1. DOMAIN toRemove' = 1..n+1 /\ toRemove'[n+1] = id
      /\ \A i \in 1..n : toRemove'[i] = toRemove[i]
    BY DEF TypeOK
<1>2. AcceptedVoters' = IF elig[id].cur THEN AcceptedVoters \cup {n+1}
                                        ELSE AcceptedVoters
    BY <1>1 DEF AcceptedVoters, TypeOK
<1>3. n+1 \notin AcceptedVoters
    BY AcceptedVotersFinite
<1>4. QED
    BY <1>2, <1>3, AcceptedVotersFinite, FS_AddElement

\* With toRemove empty there is no accepted voter.
LEMMA AcceptedVotersEmpty ==
    toRemove = <<>> => Cardinality(AcceptedVoters) = 0
<1>1. toRemove = <<>> => AcceptedVoters = {}
    BY DEF AcceptedVoters
<1>2. QED
    BY <1>1, FS_EmptySet

\* The same for the next state.
LEMMA AcceptedVotersEmptyPrime ==
    toRemove' = <<>> => Cardinality(AcceptedVoters') = 0
<1>1. toRemove' = <<>> => AcceptedVoters' = {}
    BY DEF AcceptedVoters
<1>2. QED
    BY <1>1, FS_EmptySet

\* A step that resets the pass-local state establishes the invariant's
\* last three conjuncts.
LEMMA EndPassToleranceInv ==
    EndPass => /\ Cardinality(AcceptedVoters') = tolStart' - tol'
               /\ AcceptedVoters' # {} => tol' >= 0
               /\ pc' = "Idle" => toRemove' = <<>>
<1>1. EndPass => AcceptedVoters' = {}
    BY DEF EndPass, AcceptedVoters
<1>2. QED
    BY <1>1, AcceptedVotersEmptyPrime DEF EndPass

\* A step that leaves the adjudication state alone and does not make the
\* pass Idle preserves the invariant's last three conjuncts.
LEMMA QuietStepToleranceInv ==
    ASSUME ToleranceInv,
           UNCHANGED <<elig, tol, toRemove, tolStart>>,
           pc' # "Idle" \/ UNCHANGED pc
    PROVE  /\ Cardinality(AcceptedVoters') = tolStart' - tol'
           /\ AcceptedVoters' # {} => tol' >= 0
           /\ pc' = "Idle" => toRemove' = <<>>
<1>1. AcceptedVoters' = AcceptedVoters
    BY DEF AcceptedVoters
<1>2. QED
    BY <1>1 DEF ToleranceInv

LEMMA InitToleranceInv == Init => ToleranceInv
BY InitTypeOK, AcceptedVotersEmpty DEF Init, ToleranceInv, AcceptedVoters

LEMMA NextToleranceInv == ToleranceInv /\ [Next]_vars => ToleranceInv'
<1> SUFFICES ASSUME ToleranceInv, [Next]_vars PROVE ToleranceInv'
    OBVIOUS
<1>0. TypeOK'
    BY TypeCorrect, PruneStartTypeOK, RemoveStaleNonVoterTypeOK,
       AdjudicateOneTypeOK, RemoveStaleVoterTypeOK, ForceRemoveTypeOK,
       NextPhaseTypeOK, EnvironmentTypeOK
    DEF Next, vars, TypeOK, clusterVars, passVars, ToleranceInv
<1> USE <1>0 DEF ToleranceInv
<1>1. CASE PruneStart
    <2>1. Cardinality(AcceptedVoters) = 0
        BY <1>1, AcceptedVotersEmpty DEF PruneStart
    <2>2. Cardinality(AcceptedVoters') = 0 /\ AcceptedVoters' = {}
        BY <1>1, AcceptedVotersEmptyPrime DEF PruneStart, AcceptedVoters
    <2>3. QED
        BY <1>1, <2>1, <2>2 DEF PruneStart
<1>2. CASE RemoveStaleNonVoter
    <2>1. CASE EndPass
        BY <2>1, EndPassToleranceInv
    <2>2. CASE ~EndPass
        <3>1. UNCHANGED <<elig, tol, toRemove, tolStart, pc>>
            BY <1>2, <2>2 DEF RemoveStaleNonVoter, removeServer
        <3>2. QED
            BY <3>1, QuietStepToleranceInv
    <2>3. QED
        BY <2>1, <2>2
<1>3. CASE RemoveStaleVoter
    <2>1. CASE EndPass
        BY <2>1, EndPassToleranceInv
    <2>2. CASE ~EndPass
        <3>1. UNCHANGED <<elig, tol, toRemove, tolStart, pc>>
            BY <1>3, <2>2 DEF RemoveStaleVoter, removeServer
        <3>2. QED
            BY <3>1, QuietStepToleranceInv
    <2>3. QED
        BY <2>1, <2>2
<1>4. CASE AdjudicateOne
    <2>1. PICK id \in pending :
              /\ pending' = pending \ {id}
              /\ IF \/ tol < 1
                    \/ elig[id].pot /\ ~isRemovalQuorate(PotentialVoters(buckets), MinQuorum)
                 THEN UNCHANGED <<buckets, toRemove, tol>>
                 ELSE /\ tol' = IF elig[id].cur THEN tol - 1 ELSE tol
                      /\ buckets' = [buckets EXCEPT ![pc] = @ \ {id}]
                      /\ toRemove' = Append(toRemove, id)
        BY <1>4 DEF AdjudicateOne
    <2>2. UNCHANGED <<elig, tolStart, pc>> /\ pc \in AdjudicationPhases
        BY <1>4 DEF AdjudicateOne
    <2>3. CASE \/ tol < 1
               \/ elig[id].pot /\ ~isRemovalQuorate(PotentialVoters(buckets), MinQuorum)
        BY <2>1, <2>2, <2>3, QuietStepToleranceInv
    <2>4. CASE ~(\/ tol < 1
                 \/ elig[id].pot /\ ~isRemovalQuorate(PotentialVoters(buckets), MinQuorum))
        <3>1. /\ tol >= 1
              /\ tol' = IF elig[id].cur THEN tol - 1 ELSE tol
              /\ toRemove' = Append(toRemove, id)
            BY <2>1, <2>4 DEF TypeOK
        <3>2. id \in Server
            BY DEF TypeOK
        <3>3. Cardinality(AcceptedVoters') =
                  IF elig[id].cur THEN Cardinality(AcceptedVoters) + 1
                                  ELSE Cardinality(AcceptedVoters)
            BY <3>1, <3>2, <2>2, AcceptedVotersAppend
        <3>4. Cardinality(AcceptedVoters') = tolStart' - tol'
            <4>1. Cardinality(AcceptedVoters) \in Nat
                BY AcceptedVotersFinite, FS_CardinalityType
            <4>2. Cardinality(AcceptedVoters) = tolStart - tol
                OBVIOUS
            <4>3. CASE elig[id].cur
                BY <3>1, <3>3, <2>2, <4>1, <4>2, <4>3 DEF TypeOK
            <4>4. CASE ~elig[id].cur
                BY <3>1, <3>3, <2>2, <4>1, <4>2, <4>4 DEF TypeOK
            <4>5. QED
                BY <4>3, <4>4
        <3>5. tol' >= 0
            BY <3>1 DEF TypeOK
        <3>6. QED
            BY <3>4, <3>5, <2>2 DEF AdjudicationPhases
    <2>5. QED
        BY <2>3, <2>4
<1>5. CASE ForceRemove
    <2>1. UNCHANGED <<elig, tol, toRemove, tolStart, pc>>
        BY <1>5 DEF ForceRemove
    <2>2. QED
        BY <2>1, QuietStepToleranceInv
<1>6. CASE NextPhase
    <2>1. CASE Successor[pc] \in AdjudicationPhases /\ BeginAdjudication(Successor[pc])
                /\ UNCHANGED <<elig, buckets>>
        <3>1. toRemove' = <<>> /\ tolStart' = tol' /\ pc' # "Idle"
            BY <2>1 DEF BeginAdjudication, AdjudicationPhases
        <3>2. Cardinality(AcceptedVoters') = 0 /\ AcceptedVoters' = {}
            BY <3>1, AcceptedVotersEmptyPrime DEF AcceptedVoters
        <3>3. tol' \in Int
            BY <1>0 DEF TypeOK
        <3>4. Cardinality(AcceptedVoters') = tolStart' - tol'
            BY <3>1, <3>2, <3>3 DEF AcceptedVoters
        <3>5. QED
            BY <1>0, <3>1, <3>2, <3>4
    <2>2. CASE Successor[pc] \in {"RemoveStaleVoters", "ForceFailedNonVoters",
                                   "ForceFailedVoters"}
                /\ pc' = Successor[pc]
                /\ UNCHANGED <<elig, buckets, pending, tol, toRemove, cursor, tolStart>>
        BY <2>2, QuietStepToleranceInv
    <2>3. CASE Successor[pc] = "Idle" /\ EndPass
        BY <2>3, EndPassToleranceInv
    <2>4. QED
        BY <1>6, <2>1, <2>2, <2>3 DEF NextPhase
<1>7. CASE Environment
    <2>1. UNCHANGED <<elig, tol, toRemove, tolStart, pc>>
        BY <1>7 DEF Environment, passVars
    <2>2. QED
        BY <2>1, QuietStepToleranceInv
<1>8. CASE UNCHANGED vars
    <2>1. UNCHANGED <<elig, tol, toRemove, tolStart, pc>>
        BY <1>8 DEF vars, passVars
    <2>2. QED
        BY <2>1, QuietStepToleranceInv
<1>9. QED
    BY <1>1, <1>2, <1>3, <1>4, <1>5, <1>6, <1>7, <1>8 DEF Next

\* Failure tolerance (RemovalWithinTolerance, checked by run prune_safety):
\* for every cluster size and every MinQuorum, one call of
\* adjudicateRemoval hands out at most as many current voters as the
\* failure tolerance it computed at its start, and none when that is 0.
THEOREM RemovalToleranceSafe == Spec => []RemovalWithinTolerance
<1>1. ToleranceInv => RemovalWithinTolerance
    <2> SUFFICES ASSUME ToleranceInv PROVE RemovalWithinTolerance
        OBVIOUS
    <2>1. Cardinality(AcceptedVoters) \in Nat
        BY AcceptedVotersFinite, FS_CardinalityType DEF ToleranceInv
    <2>2. CASE AcceptedVoters = {}
        BY <2>2, FS_EmptySet DEF ToleranceInv, TypeOK, RemovalWithinTolerance
    <2>3. CASE AcceptedVoters # {}
        BY <2>1, <2>3 DEF ToleranceInv, TypeOK, RemovalWithinTolerance
    <2>4. QED
        BY <2>2, <2>3
<1>2. QED
    BY <1>1, InitToleranceInv, NextToleranceInv, PTL DEF Spec


(***************************************************************************)
(* Minimum quorum.  adjudicateRemoval re-reads PotentialVoters for every   *)
(* entry, and deleting one entry from a bucket lowers that count by at     *)
(* most one, and not at all for an entry that is not a potential voter.    *)
(* So the quorum test before accepting a potential voter (count - 1 >=     *)
(* MinQuorum) leaves at least MinQuorum counted, and later steps of the    *)
(* same call never lower the count below that without passing the test    *)
(* again.  The invariant is inductive with the type invariant alone.       *)
(***************************************************************************)

\* Deleting id from bucket x lowers PotentialVoters by at most one, and
\* leaves it alone when id is not a potential voter.
LEMMA PotentialVotersRemove ==
    ASSUME NEW b \in [Buckets -> SUBSET Server], NEW x \in Buckets,
           NEW id \in Server
    PROVE  LET b2 == [b EXCEPT ![x] = @ \ {id}]
           IN  /\ PotentialVoters(b2) \in {PotentialVoters(b), PotentialVoters(b) - 1}
               /\ ~elig[id].pot => PotentialVoters(b2) = PotentialVoters(b)
<1> DEFINE b2 == [b EXCEPT ![x] = @ \ {id}]
           P(y)  == {s \in b[y] : elig[s].pot}
           P2(y) == {s \in b2[y] : elig[s].pot}
<1>1. \A y \in Buckets : P2(y) = IF y = x THEN P(y) \ {id} ELSE P(y)
    OBVIOUS
<1>2. \A y \in Buckets : IsFiniteSet(P(y)) /\ Cardinality(P(y)) \in Nat
    BY ServerSubsetCardinality
<1>3. \A y \in Buckets :
          Cardinality(P2(y)) = IF y = x /\ id \in P(y) THEN Cardinality(P(y)) - 1
                                                      ELSE Cardinality(P(y))
    <2> SUFFICES ASSUME NEW y \in Buckets
                 PROVE  Cardinality(P2(y)) =
                            IF y = x /\ id \in P(y) THEN Cardinality(P(y)) - 1
                                                    ELSE Cardinality(P(y))
        OBVIOUS
    <2>1. CASE y = x
        <3>1. P2(y) = P(y) \ {id}
            BY <1>1, <2>1
        <3>2. Cardinality(P(y) \ {id}) =
                  IF id \in P(y) THEN Cardinality(P(y)) - 1 ELSE Cardinality(P(y))
            BY <1>2, FS_RemoveElement
        <3>3. QED
            BY <2>1, <3>1, <3>2
    <2>2. CASE y # x
        BY <1>1, <2>2
    <2>3. QED
        BY <2>1, <2>2
<1>4. ~elig[id].pot => \A y \in Buckets : id \notin P(y)
    OBVIOUS
<1>5. PotentialVoters(b2) =
          Cardinality(P2("FailedNonVoters")) + Cardinality(P2("FailedVoters"))
        + Cardinality(P2("HealthyNonVoters")) + Cardinality(P2("HealthyVoters"))
    BY DEF PotentialVoters
<1>6. PotentialVoters(b) =
          Cardinality(P("FailedNonVoters")) + Cardinality(P("FailedVoters"))
        + Cardinality(P("HealthyNonVoters")) + Cardinality(P("HealthyVoters"))
    BY DEF PotentialVoters
<1>7. QED
    BY <1>2, <1>3, <1>4, <1>5, <1>6 DEF Buckets

QuorumInv ==
    /\ TypeOK
    /\ RemovalKeepsMinQuorum

\* A step that leaves elig, buckets and toRemove alone keeps the property.
LEMMA QuietStepQuorumInv ==
    ASSUME RemovalKeepsMinQuorum, UNCHANGED <<elig, buckets, toRemove>>
    PROVE  RemovalKeepsMinQuorum'
BY DEF RemovalKeepsMinQuorum, PotentialVoters

\* A step that empties toRemove establishes the property.
LEMMA EmptyResultQuorumInv ==
    ASSUME toRemove' = <<>>
    PROVE  RemovalKeepsMinQuorum'
BY DEF RemovalKeepsMinQuorum

LEMMA InitQuorumInv == Init => QuorumInv
BY InitTypeOK, EmptyResultQuorumInv DEF Init, QuorumInv, RemovalKeepsMinQuorum

\* One adjudicated entry keeps the property.
LEMMA AdjudicateOneQuorumInv ==
    ASSUME TypeOK, RemovalKeepsMinQuorum, AdjudicateOne
    PROVE  RemovalKeepsMinQuorum'
<1>1. PICK id \in pending :
          /\ IF \/ tol < 1
                \/ elig[id].pot /\ ~isRemovalQuorate(PotentialVoters(buckets), MinQuorum)
             THEN UNCHANGED <<buckets, toRemove, tol>>
             ELSE /\ tol' = IF elig[id].cur THEN tol - 1 ELSE tol
                  /\ buckets' = [buckets EXCEPT ![pc] = @ \ {id}]
                  /\ toRemove' = Append(toRemove, id)
    BY DEF AdjudicateOne
<1>2. elig' = elig /\ pc \in Buckets /\ id \in Server
    BY DEF AdjudicateOne, AdjudicationPhases, Buckets, TypeOK
<1>3. CASE \/ tol < 1
           \/ elig[id].pot /\ ~isRemovalQuorate(PotentialVoters(buckets), MinQuorum)
    BY <1>1, <1>2, <1>3, QuietStepQuorumInv
<1>4. CASE ~(\/ tol < 1
             \/ elig[id].pot /\ ~isRemovalQuorate(PotentialVoters(buckets), MinQuorum))
    <2> DEFINE pv == PotentialVoters(buckets)
               pv2 == PotentialVoters([buckets EXCEPT ![pc] = @ \ {id}])
               n == Len(toRemove)
    <2>1. buckets' = [buckets EXCEPT ![pc] = @ \ {id}]
          /\ toRemove' = Append(toRemove, id)
        BY <1>1, <1>4
    <2>2. PotentialVoters(buckets)' = pv2
        BY <1>2, <2>1 DEF PotentialVoters
    <2>3. pv \in Nat /\ pv2 \in {pv, pv - 1} /\ (~elig[id].pot => pv2 = pv)
        BY <1>2, PotentialVotersRemove, PotentialVotersType DEF TypeOK
    <2>4. DOMAIN toRemove' = 1..n+1 /\ toRemove'[n+1] = id
          /\ \A i \in 1..n : toRemove'[i] = toRemove[i]
        BY <2>1 DEF TypeOK
    <2>5. CASE elig[id].pot
        <3>1. pv - 1 >= MinQuorum
            BY <1>4, <2>5 DEF isRemovalQuorate
        <3>2. QED
            BY <2>2, <2>3, <3>1, MinQuorumAssumption DEF RemovalKeepsMinQuorum
    <2>6. CASE ~elig[id].pot
        <3>1. (\E i \in DOMAIN toRemove' : elig'[toRemove'[i]].pot)
                  => \E i \in DOMAIN toRemove : elig[toRemove[i]].pot
            BY <1>2, <2>4, <2>6 DEF TypeOK
        <3>2. QED
            BY <2>2, <2>3, <2>6, <3>1 DEF RemovalKeepsMinQuorum
    <2>7. QED
        BY <2>5, <2>6
<1>5. QED
    BY <1>3, <1>4

LEMMA NextQuorumInv == QuorumInv /\ [Next]_vars => QuorumInv'
<1> SUFFICES ASSUME QuorumInv, [Next]_vars PROVE QuorumInv'
    OBVIOUS
<1>0. TypeOK'
    BY PruneStartTypeOK, RemoveStaleNonVoterTypeOK,
       AdjudicateOneTypeOK, RemoveStaleVoterTypeOK, ForceRemoveTypeOK,
       NextPhaseTypeOK, EnvironmentTypeOK
    DEF Next, vars, TypeOK, clusterVars, passVars, QuorumInv
<1> USE <1>0 DEF QuorumInv
<1>1. CASE PruneStart
    BY <1>1, EmptyResultQuorumInv DEF PruneStart
<1>2. CASE RemoveStaleNonVoter
    <2>1. CASE EndPass
        BY <2>1, EmptyResultQuorumInv DEF EndPass
    <2>2. CASE ~EndPass
        BY <1>2, <2>2, QuietStepQuorumInv DEF RemoveStaleNonVoter, removeServer
    <2>3. QED
        BY <2>1, <2>2
<1>3. CASE RemoveStaleVoter
    <2>1. CASE EndPass
        BY <2>1, EmptyResultQuorumInv DEF EndPass
    <2>2. CASE ~EndPass
        BY <1>3, <2>2, QuietStepQuorumInv DEF RemoveStaleVoter, removeServer
    <2>3. QED
        BY <2>1, <2>2
<1>4. CASE AdjudicateOne
    BY <1>4, AdjudicateOneQuorumInv
<1>5. CASE ForceRemove
    BY <1>5, QuietStepQuorumInv DEF ForceRemove
<1>6. CASE NextPhase
    <2>1. CASE Successor[pc] \in AdjudicationPhases /\ BeginAdjudication(Successor[pc])
        BY <2>1, EmptyResultQuorumInv DEF BeginAdjudication
    <2>2. CASE Successor[pc] \in {"RemoveStaleVoters", "ForceFailedNonVoters",
                                   "ForceFailedVoters"}
                /\ pc' = Successor[pc]
                /\ UNCHANGED <<elig, buckets, pending, tol, toRemove, cursor, tolStart>>
        BY <2>2, QuietStepQuorumInv
    <2>3. CASE Successor[pc] = "Idle" /\ EndPass
        BY <2>3, EmptyResultQuorumInv DEF EndPass
    <2>4. QED
        BY <1>6, <2>1, <2>2, <2>3 DEF NextPhase
<1>7. CASE Environment
    BY <1>7, QuietStepQuorumInv DEF Environment, passVars
<1>8. CASE UNCHANGED vars
    BY <1>8, QuietStepQuorumInv DEF vars, passVars
<1>9. QED
    BY <1>1, <1>2, <1>3, <1>4, <1>5, <1>6, <1>7, <1>8 DEF Next

\* Minimum quorum (RemovalKeepsMinQuorum, checked by run prune_safety):
\* for every cluster and every MinQuorum, once adjudicateRemoval has
\* accepted a potential voter, the potential voters still counted in the
\* categorized buckets are at least MinQuorum.
THEOREM RemovalQuorumSafe == Spec => []RemovalKeepsMinQuorum
<1>1. QuorumInv => RemovalKeepsMinQuorum
    BY DEF QuorumInv
<1>2. QED
    BY <1>1, InitQuorumInv, NextQuorumInv, PTL DEF Spec


(***************************************************************************)
(* Categorization.  categorizeServers puts each configured server in one   *)
(* bucket chosen by the same suffrage that getRaftServerIds turns into     *)
(* currentVoter, and sets potentialVoter only for servers the application  *)
(* knows, which are never stale.  The filter and adjudicateRemoval only    *)
(* delete entries, and nothing else writes elig during a pass.             *)
(***************************************************************************)

\* CategorizationSound for any buckets b and eligibilities e.
SoundFor(b, e) ==
    /\ \A x, y \in Buckets : x # y => b[x] \cap b[y] = {}
    /\ \A x \in Buckets : \A s \in b[x] :
          e[s].cur <=> x \in {"StaleVoters", "FailedVoters", "HealthyVoters"}
    /\ \A s \in b["StaleNonVoters"] \cup b["StaleVoters"] : ~e[s].pot

\* Deleting entries from buckets keeps them sound.
LEMMA SoundForSubset ==
    ASSUME NEW b, NEW b2, NEW e, SoundFor(b, e),
           \A x \in Buckets : b2[x] \subseteq b[x]
    PROVE  SoundFor(b2, e)
<1>1. "StaleNonVoters" \in Buckets /\ "StaleVoters" \in Buckets
    BY DEF Buckets
<1>2. QED
    BY <1>1 DEF SoundFor

\* categorizeServers with the eligibilities of getRaftServerIds and
\* SetPotentialVoter is sound.
LEMMA CategorizeSound ==
    SoundFor(categorizeServers, Eligibilities)
<1> DEFINE raft  == {s \in Server : suffrage[s] # "Absent"}
           known == {s \in raft : nodeStatus[s] # "absent"}
           stale == raft \ known
           alive == {s \in known : nodeStatus[s] = "alive"}
           voter == {s \in raft : suffrage[s] = "Voter"}
           cat   == categorizeServers
<1>1. cat = [StaleNonVoters   |-> stale \ voter,
             StaleVoters      |-> stale \cap voter,
             FailedNonVoters  |-> (known \ alive) \ voter,
             FailedVoters     |-> (known \ alive) \cap voter,
             HealthyNonVoters |-> alive \ voter,
             HealthyVoters    |-> alive \cap voter]
    BY DEF categorizeServers
<1>2. \A x, y \in Buckets : x # y => cat[x] \cap cat[y] = {}
    BY <1>1 DEF Buckets
<1>3. \A x \in Buckets : \A s \in cat[x] :
          Eligibilities[s].cur <=> x \in {"StaleVoters", "FailedVoters", "HealthyVoters"}
    <2> SUFFICES ASSUME NEW x \in Buckets, NEW s \in cat[x]
                 PROVE  Eligibilities[s].cur <=>
                            x \in {"StaleVoters", "FailedVoters", "HealthyVoters"}
        OBVIOUS
    <2>1. s \in raft
        BY <1>1 DEF Buckets
    <2>2. Eligibilities[s].cur <=> s \in voter
        BY <2>1 DEF Eligibilities
    <2>3. s \in voter <=> x \in {"StaleVoters", "FailedVoters", "HealthyVoters"}
        BY <1>1 DEF Buckets
    <2>4. QED
        BY <2>2, <2>3
<1>4. \A s \in cat["StaleNonVoters"] \cup cat["StaleVoters"] : ~Eligibilities[s].pot
    BY <1>1 DEF Eligibilities
<1>5. QED
    BY <1>2, <1>3, <1>4 DEF SoundFor

CategorizationInv ==
    /\ TypeOK
    /\ CategorizationSound

LEMMA InitCategorizationInv == Init => CategorizationInv
BY InitTypeOK DEF Init, CategorizationInv, CategorizationSound, NoBuckets, Buckets

LEMMA NextCategorizationInv ==
    CategorizationInv /\ [Next]_vars => CategorizationInv'
<1> SUFFICES ASSUME CategorizationInv, [Next]_vars PROVE CategorizationInv'
    OBVIOUS
<1>0. TypeOK'
    BY PruneStartTypeOK, RemoveStaleNonVoterTypeOK,
       AdjudicateOneTypeOK, RemoveStaleVoterTypeOK, ForceRemoveTypeOK,
       NextPhaseTypeOK, EnvironmentTypeOK
    DEF Next, vars, TypeOK, clusterVars, passVars, CategorizationInv
<1>1. SoundFor(buckets, elig)
    BY DEF CategorizationInv, CategorizationSound, SoundFor
<1>2. SoundFor(buckets', elig') => CategorizationSound'
    BY DEF CategorizationSound, SoundFor
<1>3. SoundFor(NoBuckets, NoEligibility)
    BY DEF SoundFor, NoBuckets, Buckets
<1>4. CASE PruneStart
    <2>1. PICK keep \in SUBSET UNION {categorizeServers[b] : b \in FailedBuckets} :
              buckets' = FilterFailedServerRemovals(categorizeServers, keep)
        BY <1>4 DEF PruneStart
    <2>2. \A x \in Buckets : buckets'[x] \subseteq categorizeServers[x]
        BY <2>1 DEF FilterFailedServerRemovals
    <2>3. elig' = Eligibilities
        BY <1>4 DEF PruneStart
    <2>4. QED
        BY <1>0, <1>2, <2>2, <2>3, CategorizeSound, SoundForSubset
        DEF CategorizationInv
<1>5. CASE AdjudicateOne
    <2>1. PICK id \in pending :
              \/ UNCHANGED buckets
              \/ buckets' = [buckets EXCEPT ![pc] = @ \ {id}]
        BY <1>5 DEF AdjudicateOne
    <2>2. elig' = elig /\ pc \in Buckets /\ buckets \in [Buckets -> SUBSET Server]
        BY <1>5 DEF AdjudicateOne, AdjudicationPhases, Buckets, CategorizationInv, TypeOK
    <2>3. \A x \in Buckets : buckets'[x] \subseteq buckets[x]
        BY <2>1, <2>2
    <2>4. QED
        BY <1>0, <1>1, <1>2, <2>2, <2>3, SoundForSubset DEF CategorizationInv
\* The steps that either leave buckets and elig alone or end the pass.
<1>6. CASE RemoveStaleNonVoter \/ RemoveStaleVoter \/ NextPhase
    <2>1. UNCHANGED <<buckets, elig>> \/ EndPass
        BY <1>6 DEF RemoveStaleNonVoter, RemoveStaleVoter, removeServer,
                    NextPhase, BeginAdjudication
    <2>2. QED
        BY <1>0, <1>1, <1>2, <1>3, <2>1 DEF EndPass, CategorizationInv
<1>7. CASE ForceRemove \/ Environment \/ UNCHANGED vars
    <2>1. UNCHANGED <<buckets, elig>>
        BY <1>7 DEF ForceRemove, Environment, vars, passVars
    <2>2. QED
        BY <1>0, <1>1, <1>2, <2>1 DEF CategorizationInv
<1>8. QED
    BY <1>4, <1>5, <1>6, <1>7 DEF Next

\* Categorization (CategorizationSound, checked by run prune_safety): in
\* every reachable state no server is in two buckets, the voter buckets
\* hold exactly the current voters, and stale servers are not potential
\* voters.
THEOREM CategorizationCorrect == Spec => []CategorizationSound
<1>1. CategorizationInv => CategorizationSound
    BY DEF CategorizationInv
<1>2. QED
    BY <1>1, InitCategorizationInv, NextCategorizationInv, PTL DEF Spec

=============================================================================
