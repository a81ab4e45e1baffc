-------------------------- MODULE ReconcileProofs --------------------------
(***************************************************************************)
(* Proofs about the reconcile pass of module Reconcile, for every set of  *)
(* servers and every bound: type correctness, and that reconcile          *)
(* implements the abstract specification ReconcileAbstract.               *)
(***************************************************************************)
EXTENDS Reconcile, TLAPS

(***************************************************************************)
(* Type correctness                                                        *)
(***************************************************************************)

\* The snapshot the builder publishes is a State record.
LEMMA PublishedStateType ==
    ASSUME TypeOK,
           NEW known \in SUBSET Server, NEW healthy \in [Server -> BOOLEAN]
    PROVE  [servers |-> known,
            role    |-> [s \in Server |-> RoleOf(s)],
            healthy |-> [s \in Server |-> s \in known /\ healthy[s]],
            leader  |-> leader] \in StateRecords
<1>1. \A s \in Server : RoleOf(s) \in RaftState
    BY DEF TypeOK, RoleOf, RoleName, Suffrage, RaftState
<1>2. QED
    BY <1>1 DEF TypeOK, StateRecords

LEMMA InitTypeOK == Init => TypeOK
<1> SUFFICES ASSUME Init PROVE TypeOK
    OBVIOUS
<1>1. promoted \in BOOLEAN /\ demoted \in BOOLEAN
    BY Zenon DEF Init
<1>2. state \in StateRecords
    BY DEF Init, NoState, StateRecords, RaftState
<1>3. QED
    BY <1>1, <1>2, MaxChangesAssumption, MaxEnvStepsAssumption
    DEF Init, TypeOK, Voters, Phases

LEMMA PublishStateTypeOK == TypeOK /\ PublishState => TypeOK'
<1> SUFFICES ASSUME TypeOK, PublishState PROVE TypeOK'
    OBVIOUS
<1>1. state' \in StateRecords
    BY PublishedStateType DEF PublishState
<1>2. QED
    BY <1>1 DEF PublishState, TypeOK, passVars

LEMMA ReconcileStartTypeOK == TypeOK /\ ReconcileStart => TypeOK'
<1> SUFFICES ASSUME TypeOK, ReconcileStart PROVE TypeOK'
    OBVIOUS
<1>1. promoted' \in BOOLEAN /\ demoted' \in BOOLEAN
    BY Zenon DEF ReconcileStart
<1>2. QED
    BY <1>1, MaxChangesAssumption DEF ReconcileStart, TypeOK, Phases

\* An adapter call keeps the Raft state well typed and either advances the
\* loop or ends the pass.
LEMMA RaftCallTypeOK ==
    ASSUME TypeOK,
           NEW ns \in [Server -> Suffrage], NEW nl \in Server \cup {NoID},
           NEW advance,
           RaftCall(ns, nl, advance)
    PROVE  /\ suffrage' \in [Server -> Suffrage]
           /\ leader' \in Server \cup {NoID}
           /\ advance \/ EndPass
BY DEF RaftCall, TypeOK

LEMMA EndPassTypeOK ==
    ASSUME EndPass
    PROVE  /\ pc' \in Phases
           /\ idx' \in 0..MaxChanges
           /\ promoted' \in BOOLEAN
           /\ demoted' \in BOOLEAN
<1>1. promoted' \in BOOLEAN /\ demoted' \in BOOLEAN
    BY Zenon DEF EndPass
<1>2. QED
    BY <1>1, MaxChangesAssumption DEF EndPass, Phases

LEMMA ApplyPromotionTypeOK == TypeOK /\ ApplyPromotion => TypeOK'
<1> SUFFICES ASSUME TypeOK, ApplyPromotion PROVE TypeOK'
    OBVIOUS
<1>1. PICK id \in Server : PromoteEntry(id)
    BY DEF ApplyPromotion
<1>2. idx + 1 \in 0..MaxChanges
    BY <1>1, MaxChangesAssumption DEF PromoteEntry, TypeOK
<1>3. CASE PromotionSkipped(id)
    BY <1>1, <1>2, <1>3 DEF PromoteEntry, TypeOK
<1>4. CASE ~PromotionSkipped(id)
    <2>1. addVoter(id, /\ promoted' = TRUE
                       /\ idx' = idx + 1
                       /\ UNCHANGED <<pc, demoted>>)
        BY <1>1, <1>4 DEF PromoteEntry
    <2>2. [suffrage EXCEPT ![id] = "Voter"] \in [Server -> Suffrage]
        BY DEF TypeOK, Suffrage
    <2>3. /\ suffrage' \in [Server -> Suffrage]
          /\ leader' \in Server \cup {NoID}
          /\ \/ /\ promoted' = TRUE
                /\ idx' = idx + 1
                /\ UNCHANGED <<pc, demoted>>
             \/ EndPass
        BY <2>1, <2>2, RaftCallTypeOK DEF addVoter, TypeOK
    <2>4. QED
        BY <1>1, <1>2, <2>3, EndPassTypeOK DEF PromoteEntry, TypeOK
<1>5. QED
    BY <1>3, <1>4

LEMMA PromotionsDoneTypeOK == TypeOK /\ PromotionsDone => TypeOK'
<1> SUFFICES ASSUME TypeOK, PromotionsDone PROVE TypeOK'
    OBVIOUS
<1>1. CASE promoted
    BY <1>1, EndPassTypeOK DEF PromotionsDone, TypeOK
<1>2. CASE ~promoted
    BY <1>2, MaxChangesAssumption DEF PromotionsDone, TypeOK, Phases
<1>3. QED
    BY <1>1, <1>2

LEMMA ApplyDemotionTypeOK == TypeOK /\ ApplyDemotion => TypeOK'
<1> SUFFICES ASSUME TypeOK, ApplyDemotion PROVE TypeOK'
    OBVIOUS
<1>1. PICK id \in Server : DemoteEntry(id)
    BY DEF ApplyDemotion
<1>2. idx + 1 \in 0..MaxChanges
    BY <1>1, MaxChangesAssumption DEF DemoteEntry, TypeOK
<1>3. CASE DemotionSkipped(id)
    BY <1>1, <1>2, <1>3 DEF DemoteEntry, TypeOK
<1>4. CASE ~DemotionSkipped(id)
    <2>1. demoteVoter(id, /\ demoted' = TRUE
                          /\ idx' = idx + 1
                          /\ UNCHANGED <<pc, promoted>>)
        BY <1>1, <1>4 DEF DemoteEntry
    <2>2. /\ (IF suffrage[id] = "Absent" THEN suffrage
              ELSE [suffrage EXCEPT ![id] = "Nonvoter"]) \in [Server -> Suffrage]
          /\ (IF id = leader THEN NoID ELSE leader) \in Server \cup {NoID}
        BY DEF TypeOK, Suffrage
    <2>3. /\ suffrage' \in [Server -> Suffrage]
          /\ leader' \in Server \cup {NoID}
          /\ \/ /\ demoted' = TRUE
                /\ idx' = idx + 1
                /\ UNCHANGED <<pc, promoted>>
             \/ EndPass
        BY <2>1, <2>2, RaftCallTypeOK DEF demoteVoter
    <2>4. QED
        BY <1>1, <1>2, <2>3, EndPassTypeOK DEF DemoteEntry, TypeOK
<1>5. QED
    BY <1>3, <1>4

LEMMA DemotionsDoneTypeOK == TypeOK /\ DemotionsDone => TypeOK'
<1> SUFFICES ASSUME TypeOK, DemotionsDone PROVE TypeOK'
    OBVIOUS
<1>1. PICK target \in Server \cup {NoID} :
          IF TransferWanted(target) THEN leadershipTransfer(target)
                                    ELSE UNCHANGED leader
    BY DEF DemotionsDone
<1>2. leader' \in Server \cup {NoID}
    BY <1>1 DEF leadershipTransfer, TypeOK
<1>3. QED
    BY <1>2, EndPassTypeOK DEF DemotionsDone, TypeOK

LEMMA EnvironmentTypeOK == TypeOK /\ Environment => TypeOK'
<1> SUFFICES ASSUME TypeOK, Environment PROVE TypeOK'
    OBVIOUS
<1>1. PICK s \in Server : Join(s) \/ Leave(s) \/ Elect(s)
    BY DEF Environment, ClusterChange
<1>2. suffrage' \in [Server -> Suffrage] /\ leader' \in Server \cup {NoID}
    BY <1>1 DEF Join, Leave, Elect, Voters, TypeOK, Suffrage
<1>3. promoted' \in BOOLEAN /\ demoted' \in BOOLEAN
    BY Zenon DEF Environment, TypeOK, passVars
<1>4. envSteps' \in 0..MaxEnvSteps
    BY MaxEnvStepsAssumption DEF Environment, TypeOK
<1>5. QED
    BY <1>2, <1>3, <1>4 DEF Environment, TypeOK, passVars

\* Type correctness of Reconcile.
THEOREM TypeCorrect == Spec => []TypeOK
<1>1. TypeOK /\ [Next]_vars => TypeOK'
    BY PublishStateTypeOK, ReconcileStartTypeOK, ApplyPromotionTypeOK,
       PromotionsDoneTypeOK, ApplyDemotionTypeOK, DemotionsDoneTypeOK,
       EnvironmentTypeOK
    DEF Next, PassStep, vars, passVars, TypeOK
<1>2. QED
    BY InitTypeOK, <1>1, PTL DEF Spec

(***************************************************************************)
(* Refinement.  The class of a running pass is read off the flags          *)
(* promoted and demoted; the mapping needs to know that a pass in          *)
(* applyDemotions has promoted nothing, one in applyPromotions has         *)
(* demoted nothing, and that the flags are clear between passes.           *)
(***************************************************************************)
PassInv ==
    /\ TypeOK
    /\ pc = "Idle" => ~promoted /\ ~demoted
    /\ pc = "Promotions" => ~demoted
    /\ pc = "Demotions" => ~promoted

\* The instance's copies of the constant operators of Cluster are the
\* operators themselves.
LEMMA AbsConstants ==
    /\ Abs!NoID = NoID
    /\ Abs!Suffrage = Suffrage
    /\ Abs!NoState = NoState
    /\ Abs!StateRecords = StateRecords
    /\ \A r : Abs!HasVotingRights(r) = HasVotingRights(r)
BY DEF Abs!NoID, NoID, Abs!Suffrage, Suffrage, Abs!NoState, NoState,
       Abs!StateRecords, StateRecords, Abs!RaftState, RaftState,
       Abs!HasVotingRights, HasVotingRights

LEMMA FlagsBoolean ==
    ASSUME PassInv PROVE promoted \in BOOLEAN /\ demoted \in BOOLEAN
BY DEF PassInv, TypeOK

LEMMA InitPassInv == Init => PassInv
<1> SUFFICES ASSUME Init PROVE PassInv
    OBVIOUS
<1>1. TypeOK
    BY InitTypeOK
<1>2. QED
    BY <1>1, Zenon DEF Init, PassInv

\* After EndPass the flags are clear and the pass is idle.
LEMMA EndPassInv ==
    ASSUME EndPass PROVE (pc = "Idle" => ~promoted /\ ~demoted)'
                          /\ pc' # "Promotions" /\ pc' # "Demotions"
BY Zenon DEF EndPass

LEMMA NextPassInv == PassInv /\ [Next]_vars => PassInv'
<1> SUFFICES ASSUME PassInv, [Next]_vars PROVE PassInv'
    OBVIOUS
<1>1. TypeOK'
    BY PublishStateTypeOK, ReconcileStartTypeOK, ApplyPromotionTypeOK,
       PromotionsDoneTypeOK, ApplyDemotionTypeOK, DemotionsDoneTypeOK,
       EnvironmentTypeOK
    DEF Next, PassStep, vars, passVars, TypeOK, PassInv
<1>2. CASE PublishState \/ Environment \/ UNCHANGED vars
    <2>1. UNCHANGED <<pc, promoted, demoted>>
        BY <1>2 DEF PublishState, Environment, vars, passVars
    <2>2. QED
        BY <1>1, <2>1, Zenon DEF PassInv
<1>3. CASE ReconcileStart
    BY <1>1, <1>3, Zenon DEF PassInv, ReconcileStart
<1>4. CASE DemotionsDone
    BY <1>1, <1>4, EndPassInv, Zenon DEF PassInv, DemotionsDone
<1>5. CASE PromotionsDone
    <2>1. CASE promoted
        BY <1>1, <1>5, <2>1, EndPassInv, Zenon DEF PassInv, PromotionsDone
    <2>2. CASE ~promoted
        BY <1>1, <1>5, <2>2, Zenon DEF PassInv, PromotionsDone
    <2>3. QED
        BY <2>1, <2>2
<1>6. CASE ApplyPromotion
    <2>1. PICK id \in Server : PromoteEntry(id)
        BY <1>6 DEF ApplyPromotion
    <2>2. (pc' = "Promotions" /\ ~demoted') \/ EndPass
        BY <2>1, Zenon DEF PromoteEntry, addVoter, RaftCall, PassInv
    <2>3. QED
        BY <1>1, <2>2, EndPassInv, Zenon DEF PassInv
<1>7. CASE ApplyDemotion
    <2>1. PICK id \in Server : DemoteEntry(id)
        BY <1>7 DEF ApplyDemotion
    <2>2. (pc' = "Demotions" /\ ~promoted') \/ EndPass
        BY <2>1, Zenon DEF DemoteEntry, demoteVoter, RaftCall, PassInv
    <2>3. QED
        BY <1>1, <2>2, EndPassInv, Zenon DEF PassInv
<1>8. QED
    BY <1>2, <1>3, <1>4, <1>5, <1>6, <1>7 DEF Next, PassStep

\* A step that changes nothing the abstract specification sees.
LEMMA StutterRefines ==
    ASSUME UNCHANGED <<suffrage, leader, state, pc, promoted, demoted>>
    PROVE  UNCHANGED Abs!avars
BY Zenon DEF Abs!avars, PassClass

\* The end of a pass with the Raft state untouched is the abstract End.
LEMMA EndRefines ==
    ASSUME pc # "Idle", EndPass, UNCHANGED <<suffrage, leader, state>>
    PROVE  Abs!End
BY Zenon DEF Abs!End, EndPass, PassClass

LEMMA PublishStateRefines ==
    ASSUME PassInv, PublishState
    PROVE  Abs!Publish
<1>1. state' \in Abs!StateRecords
    BY PublishStateTypeOK, AbsConstants DEF PassInv, TypeOK
<1>2. UNCHANGED <<suffrage, leader, pc, promoted, demoted>>
    BY DEF PublishState, passVars
<1>3. QED
    BY <1>1, <1>2, Zenon DEF Abs!Publish, PublishState, PassClass

LEMMA ReconcileStartRefines ==
    ASSUME PassInv, ReconcileStart
    PROVE  Abs!Begin
<1>1. state.leader # Abs!NoID
    BY AbsConstants DEF ReconcileStart
<1>2. QED
    BY <1>1, Zenon DEF Abs!Begin, ReconcileStart, PassClass

LEMMA PromoteEntryRefines ==
    ASSUME PassInv, NEW id \in Server, PromoteEntry(id)
    PROVE  Abs!Promote(id) \/ Abs!End \/ UNCHANGED Abs!avars
<1>0. promoted \in BOOLEAN /\ demoted \in BOOLEAN
    BY FlagsBoolean
<1>1. CASE PromotionSkipped(id)
    BY <1>1, StutterRefines DEF PromoteEntry
<1>2. CASE ~PromotionSkipped(id)
    <2>1. Abs!MayPromote(id)
        BY <1>2, AbsConstants DEF PromotionSkipped, Abs!MayPromote
    <2>2. PassClass \in {"none", "promote"} /\ pc # "Idle" /\ ~demoted
        BY <1>0, Zenon DEF PromoteEntry, PassInv, PassClass
    <2>3. \/ /\ suffrage' = [suffrage EXCEPT ![id] = "Voter"]
             /\ leader' = leader
             /\ \/ promoted' = TRUE /\ pc' = pc /\ demoted' = demoted
                \/ EndPass
          \/ UNCHANGED <<suffrage, leader>> /\ EndPass
        BY <1>2, Zenon DEF PromoteEntry, addVoter, RaftCall
    <2>4. UNCHANGED state
        BY DEF PromoteEntry
    <2>5. CASE /\ suffrage' = [suffrage EXCEPT ![id] = "Voter"]
               /\ leader' = leader
               /\ \/ promoted' = TRUE /\ pc' = pc /\ demoted' = demoted
                  \/ EndPass
        <3>1. Abs!ContinueOrEnd("promote")
            BY <2>2, <2>5, Zenon DEF Abs!ContinueOrEnd, PassClass, EndPass
        <3>2. QED
            BY <2>1, <2>2, <2>4, <2>5, <3>1, Zenon DEF Abs!Promote
    <2>6. CASE UNCHANGED <<suffrage, leader>> /\ EndPass
        BY <2>2, <2>4, <2>6, EndRefines
    <2>7. QED
        BY <2>3, <2>5, <2>6
<1>3. QED
    BY <1>1, <1>2

LEMMA PromotionsDoneRefines ==
    ASSUME PassInv, PromotionsDone
    PROVE  Abs!End \/ UNCHANGED Abs!avars
<1>0. promoted \in BOOLEAN /\ demoted \in BOOLEAN
    BY FlagsBoolean
<1>1. CASE promoted
    BY <1>1, EndRefines DEF PromotionsDone
<1>2. CASE ~promoted
    <2>1. UNCHANGED <<suffrage, leader, state, promoted, demoted>>
        BY <1>0, <1>2, Zenon DEF PromotionsDone
    <2>2. pc' # "Idle" /\ pc # "Idle"
        BY <1>2 DEF PromotionsDone
    <2>3. QED
        BY <2>1, <2>2, Zenon DEF Abs!avars, PassClass
<1>3. QED
    BY <1>1, <1>2

LEMMA DemoteEntryRefines ==
    ASSUME PassInv, NEW id \in Server, DemoteEntry(id)
    PROVE  Abs!Demote(id) \/ Abs!End \/ UNCHANGED Abs!avars
<1>0. promoted \in BOOLEAN /\ demoted \in BOOLEAN
    BY FlagsBoolean
<1>1. CASE DemotionSkipped(id)
    BY <1>1, StutterRefines DEF DemoteEntry
<1>2. CASE ~DemotionSkipped(id)
    <2> DEFINE newSuffrage == IF suffrage[id] = "Absent" THEN suffrage
                              ELSE [suffrage EXCEPT ![id] = "Nonvoter"]
               newLeader == IF id = leader THEN NoID ELSE leader
    <2>1. Abs!MayDemote(id)
        BY <1>2 DEF DemotionSkipped, Abs!MayDemote
    <2>2. PassClass \in {"none", "demote"} /\ pc # "Idle" /\ ~promoted
        BY <1>0, Zenon DEF DemoteEntry, PassInv, PassClass
    <2>3. \/ /\ suffrage' = newSuffrage
             /\ leader' = newLeader
             /\ \/ demoted' = TRUE /\ pc' = pc /\ promoted' = promoted
                \/ EndPass
          \/ UNCHANGED <<suffrage, leader>> /\ EndPass
        BY <1>2, Zenon DEF DemoteEntry, demoteVoter, RaftCall
    <2>4. UNCHANGED state
        BY DEF DemoteEntry
    <2>5. newLeader \in {leader, Abs!NoID}
        BY AbsConstants
    <2>6. CASE /\ suffrage' = newSuffrage
               /\ leader' = newLeader
               /\ \/ demoted' = TRUE /\ pc' = pc /\ promoted' = promoted
                  \/ EndPass
        <3>1. ASSUME demoted' = TRUE /\ pc' = pc /\ promoted' = promoted
              PROVE  Abs!ContinueOrEnd("demote")
            <4>1. (pc # "Idle")' = TRUE /\ PassClass' = "demote"
                BY <2>2, <3>1, Zenon DEF PassClass
            <4>2. QED
                BY <4>1 DEF Abs!ContinueOrEnd
        <3>2. ASSUME EndPass PROVE Abs!ContinueOrEnd("demote")
            <4>1. (pc # "Idle")' = FALSE /\ PassClass' = "none"
                BY <3>2, Zenon DEF PassClass, EndPass
            <4>2. QED
                BY <4>1 DEF Abs!ContinueOrEnd
        <3>3. Abs!ContinueOrEnd("demote")
            BY <2>6, <3>1, <3>2
        <3>4. QED
            BY <2>1, <2>2, <2>4, <2>5, <2>6, <3>3, Zenon DEF Abs!Demote
    <2>7. CASE UNCHANGED <<suffrage, leader>> /\ EndPass
        BY <2>2, <2>4, <2>7, EndRefines
    <2>8. QED
        BY <2>3, <2>6, <2>7
<1>3. QED
    BY <1>1, <1>2

LEMMA DemotionsDoneRefines ==
    ASSUME PassInv, DemotionsDone
    PROVE  (\E t \in Server : Abs!Transfer(t)) \/ Abs!End
<1>0. promoted \in BOOLEAN /\ demoted \in BOOLEAN
    BY FlagsBoolean
<1>1. PICK target \in Server \cup {NoID} :
          IF TransferWanted(target) THEN leadershipTransfer(target)
                                    ELSE UNCHANGED leader
    BY DEF DemotionsDone
<1>2. pc # "Idle" /\ EndPass /\ UNCHANGED <<suffrage, state>>
    BY DEF DemotionsDone
<1>3. CASE TransferWanted(target) /\ leader' # leader
    <2>1. target \in Server /\ leader' = target
        BY <1>1, <1>3 DEF TransferWanted, leadershipTransfer
    <2>2. PassClass = "none"
        BY <1>0, <1>3, Zenon DEF TransferWanted, DemotionsDone, PassInv, PassClass
    <2>3. target \in state.servers \ {state.leader}
        BY <1>3 DEF TransferWanted
    <2>4. Abs!Transfer(target)
        BY <1>2, <2>1, <2>2, <2>3, Zenon DEF Abs!Transfer, EndPass, PassClass
    <2>5. QED
        BY <2>1, <2>4
<1>4. CASE ~(TransferWanted(target) /\ leader' # leader)
    <2>1. leader' = leader
        BY <1>1, <1>4 DEF leadershipTransfer
    <2>2. QED
        BY <1>2, <2>1, EndRefines
<1>5. QED
    BY <1>3, <1>4

LEMMA EnvironmentRefines ==
    ASSUME PassInv, Environment
    PROVE  Abs!ClusterChange /\ UNCHANGED <<state, pc # "Idle", PassClass>>
<1>1. ClusterChange
    BY DEF Environment
<1>2. UNCHANGED <<state, pc # "Idle", PassClass>>
    BY Zenon DEF Environment, passVars, PassClass
<1>3. QED
    BY <1>1, <1>2 DEF Abs!ClusterChange, ClusterChange, Abs!Join, Join,
                      Abs!Leave, Leave, Abs!Elect, Elect, Abs!Voters, Voters

\* Reconcile implements the abstract pass of ReconcileAbstract: one class
\* of membership change per pass, each allowed by the pass's snapshot, or
\* else one leadership transfer.
THEOREM Refines == Spec => Refinement
<1>1. Init => Abs!AInit
    <2> SUFFICES ASSUME Init PROVE Abs!AInit
        OBVIOUS
    <2>1. suffrage \in [Server -> Abs!Suffrage] /\ state = Abs!NoState
        BY AbsConstants DEF Init
    <2>2. leader \in Abs!Voters
        BY DEF Init, Abs!Voters, Voters
    <2>3. (pc # "Idle") = FALSE /\ PassClass = "none"
        BY Zenon DEF Init, PassClass
    <2>4. QED
        BY <2>1, <2>2, <2>3 DEF Abs!AInit
<1>2. PassInv /\ [Next]_vars => [Abs!ANext]_Abs!avars
    <2> SUFFICES ASSUME PassInv, [Next]_vars PROVE [Abs!ANext]_Abs!avars
        OBVIOUS
    <2>1. CASE PublishState
        BY <2>1, PublishStateRefines DEF Abs!ANext
    <2>2. CASE ReconcileStart
        BY <2>2, ReconcileStartRefines DEF Abs!ANext
    <2>3. CASE ApplyPromotion
        BY <2>3, PromoteEntryRefines DEF ApplyPromotion, Abs!ANext
    <2>4. CASE PromotionsDone
        BY <2>4, PromotionsDoneRefines DEF Abs!ANext
    <2>5. CASE ApplyDemotion
        BY <2>5, DemoteEntryRefines DEF ApplyDemotion, Abs!ANext
    <2>6. CASE DemotionsDone
        BY <2>6, DemotionsDoneRefines DEF Abs!ANext
    <2>7. CASE Environment
        BY <2>7, EnvironmentRefines DEF Abs!ANext
    <2>8. CASE UNCHANGED vars
        BY <2>8, StutterRefines DEF vars, passVars
    <2>9. QED
        BY <2>1, <2>2, <2>3, <2>4, <2>5, <2>6, <2>7, <2>8 DEF Next, PassStep
<1>3. QED
    BY <1>1, <1>2, InitPassInv, NextPassInv, PTL DEF Spec, Refinement, Abs!ASpec


(***************************************************************************)
(* One class per pass.  The law needs no invariant beyond PassInv: a       *)
(* demote call is made in applyDemotions, where nothing was promoted, and  *)
(* the leader moves only through a transfer that TransferWanted allowed,   *)
(* which needs demoted clear.                                              *)
(***************************************************************************)

\* A step that leaves the leader unchanged unless the transfer was wanted.
LEMMA DemotionsDoneLeader ==
    ASSUME DemotionsDone, leader' # leader
    PROVE  \E target \in Server \cup {NoID} : TransferWanted(target)
<1>1. PICK target \in Server \cup {NoID} :
          IF TransferWanted(target) THEN leadershipTransfer(target)
                                    ELSE UNCHANGED leader
    BY DEF DemotionsDone
<1>2. ~TransferWanted(target) => leader' = leader
    BY <1>1
<1>3. QED
    BY <1>2

LEMMA PassInvOneClass == PassInv => OneClassStep
<1> SUFFICES ASSUME PassInv PROVE OneClassStep
    OBVIOUS
<1>1. ASSUME NEW s \in Server, DemoteEntry(s) PROVE ~promoted
    BY <1>1 DEF DemoteEntry, PassInv
<1>2. ASSUME DemotionsDone, leader' # leader PROVE ~promoted /\ ~demoted
    <2>1. PICK target \in Server \cup {NoID} : TransferWanted(target)
        BY <1>2, DemotionsDoneLeader
    <2>2. ~demoted
        BY <2>1 DEF TransferWanted
    <2>3. ~promoted
        BY <1>2 DEF DemotionsDone, PassInv
    <2>4. QED
        BY <2>2, <2>3
<1>3. QED
    BY <1>1, <1>2 DEF OneClassStep

\* Spec section 8, one class per pass, holds in every behaviour: no
\* demotion or leadership transfer follows a promotion in the same pass,
\* and no transfer follows a demotion.
THEOREM OneClassPerPassSafe == Spec => OneClassPerPass
<1>1. Spec => []PassInv
    BY InitPassInv, NextPassInv, PTL DEF Spec
<1>2. QED
    BY <1>1, PassInvOneClass, PTL DEF OneClassPerPass

=============================================================================
