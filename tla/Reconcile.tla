----------------------------- MODULE Reconcile -----------------------------
(***************************************************************************)
(* reconcile, applyPromotions and applyDemotions (reconcile.go) against   *)
(* the live Raft configuration.  A pass reads the published State once    *)
(* (GetState) and asks the promoter for a RaftChanges; every check of the *)
(* two loops reads that snapshot, while every adapter call changes Raft.  *)
(* One step per loop iteration, one per blocking adapter call; the rest   *)
(* of the cluster (Cluster.tla) changes Raft between any two steps.       *)
(* The promoter is pluggable and its change set arbitrary, so the model   *)
(* reveals it as the loops read it: each iteration reads an arbitrary ID, *)
(* each list ends after at most MaxChanges entries, and the transfer      *)
(* target is read when reconcile reaches it.                              *)
(***************************************************************************)
EXTENDS Integers, Cluster

CONSTANTS
    MaxChanges, \* bound on the length of the promotions and demotions lists
    MaxEnvSteps \* bound on the changes the rest of the cluster makes

ASSUME MaxChangesAssumption == MaxChanges \in Nat
ASSUME MaxEnvStepsAssumption == MaxEnvSteps \in Nat

\* Where the pass is: between passes, in applyPromotions, in applyDemotions.
Phases == {"Idle", "Promotions", "Demotions"}

VARIABLES
    state,    \* the State snapshot published by the state builder
    envSteps, \* cluster changes so far (bounded by MaxEnvSteps)
    pc,       \* where the pass is
    idx,      \* entries of the list being ranged over read so far
    promoted, \* applyPromotions' promoted
    demoted   \* applyDemotions' demoted

passVars == <<pc, idx, promoted, demoted>>
vars == <<suffrage, leader, state, envSteps, passVars>>

(***************************************************************************)
(* The state builder (not part of this repository): it publishes, between *)
(* passes, a snapshot of the servers the application knows with their     *)
(* Raft role as of now and a health verdict.  The snapshot then ages: the *)
(* cluster and the passes change Raft before the next one is published.   *)
(***************************************************************************)

\* Mutant of RoleName: the raft.ServerSuffrage names passed through
\* instead of converted to RaftState.
RoleNameUnconverted == [Voter |-> "Voter", Nonvoter |-> "Nonvoter", Absent |-> "none"]

\* The RaftState the builder reports for a server.
RoleName == [Voter |-> "voter", Nonvoter |-> "non-voter", Absent |-> "none"]
RoleOf(s) == IF s = leader THEN "leader" ELSE RoleName[suffrage[s]]

PublishState ==
    /\ pc = "Idle"
    /\ \E known \in SUBSET Server, healthy \in [Server -> BOOLEAN] :
          state' = [servers |-> known,
                    role    |-> [s \in Server |-> RoleOf(s)],
                    healthy |-> [s \in Server |-> s \in known /\ healthy[s]],
                    leader  |-> leader]
    /\ UNCHANGED <<suffrage, leader, envSteps, passVars>>

(***************************************************************************)
(* The Raft adapter calls.  Autopilot runs on the leader of its snapshot; *)
(* once that server is no longer the leader every call fails unapplied    *)
(* (ErrNotLeader).  Otherwise a call is applied and acknowledged, or it   *)
(* reports an error, applied or not (a timeout racing the commit).  An    *)
(* error makes the pass return.                                           *)
(***************************************************************************)

\* reconcile returns: the pass-local state is discarded.
EndPass ==
    /\ pc' = "Idle"
    /\ idx' = 0
    /\ promoted' = FALSE
    /\ demoted' = FALSE

RaftCall(newSuffrage, newLeader, advance) ==
    \/ /\ leader = state.leader
       /\ suffrage' = newSuffrage
       /\ leader' = newLeader
       /\ advance
    \/ /\ \E applied \in BOOLEAN :
            IF applied /\ leader = state.leader
            THEN suffrage' = newSuffrage /\ leader' = newLeader
            ELSE UNCHANGED <<suffrage, leader>>
       /\ EndPass

\* Autopilot.addVoter: Raft AddVoter makes id a voter.
addVoter(id, advance) ==
    RaftCall([suffrage EXCEPT ![id] = "Voter"], leader, advance)

\* Autopilot.demoteVoter: Raft DemoteVoter makes a configured id a
\* non-voter; a leader that demotes itself steps down.
demoteVoter(id, advance) ==
    RaftCall(IF suffrage[id] = "Absent" THEN suffrage
             ELSE [suffrage EXCEPT ![id] = "Nonvoter"],
             IF id = leader THEN NoID ELSE leader,
             advance)

\* Autopilot.leadershipTransfer: succeeds only from the leader and to a
\* voter; either way reconcile returns.
leadershipTransfer(id) ==
    IF leader = state.leader /\ suffrage[id] = "Voter"
    THEN leader' \in {leader, id}
    ELSE UNCHANGED leader

(***************************************************************************)
(* The pass                                                                *)
(***************************************************************************)

\* The skips of applyPromotions: not in the state, already has voting
\* rights, not healthy.
PromotionSkipped(id) ==
    \/ id \notin state.servers
    \/ HasVotingRights(state.role[id])
    \/ ~state.healthy[id]

\* The skips of applyDemotions: not in the state, already a non-voter.
DemotionSkipped(id) ==
    \/ id \notin state.servers
    \/ state.role[id] = "non-voter"

\* reconcile up to applyPromotions: enabled, a config, a state with a
\* leader (otherwise it returns without a change), and the promoter's
\* change set.
ReconcileStart ==
    /\ pc = "Idle"
    /\ state.leader # NoID
    /\ pc' = "Promotions"
    /\ idx' = 0
    /\ promoted' = FALSE
    /\ demoted' = FALSE
    /\ UNCHANGED <<suffrage, leader, state, envSteps>>

\* One iteration of applyPromotions' range over changes.Promotions, for
\* the entry id.
PromoteEntry(id) ==
    /\ pc = "Promotions"
    /\ idx < MaxChanges
    /\ IF PromotionSkipped(id)
       THEN /\ idx' = idx + 1
            /\ UNCHANGED <<suffrage, leader, pc, promoted, demoted>>
       ELSE addVoter(id, /\ promoted' = TRUE
                         /\ idx' = idx + 1
                         /\ UNCHANGED <<pc, demoted>>)
    /\ UNCHANGED <<state, envSteps>>

ApplyPromotion == \E id \in Server : PromoteEntry(id)

\* Mutant of PromotionsDone: promoted is not looked at.
PromotionsDoneIgnorePromoted ==
    /\ pc = "Promotions"
    /\ pc' = "Demotions"
    /\ idx' = 0
    /\ UNCHANGED <<promoted, demoted>>
    /\ UNCHANGED <<suffrage, leader, state, envSteps>>

\* Mutant of PromotionsDone: the pass goes back to the promotions instead
\* of on to the demotions.
PromotionsDoneRestart ==
    /\ pc = "Promotions"
    /\ IF promoted
       THEN EndPass
       ELSE /\ pc' = "Promotions"
            /\ idx' = 0
            /\ UNCHANGED <<promoted, demoted>>
    /\ UNCHANGED <<suffrage, leader, state, envSteps>>

\* The promotions list has ended and applyPromotions returns: reconcile
\* stops if it promoted anything.
PromotionsDone ==
    /\ pc = "Promotions"
    /\ IF promoted
       THEN EndPass
       ELSE /\ pc' = "Demotions"
            /\ idx' = 0
            /\ UNCHANGED <<promoted, demoted>>
    /\ UNCHANGED <<suffrage, leader, state, envSteps>>

\* One iteration of applyDemotions' range over changes.Demotions, for the
\* entry id.
DemoteEntry(id) ==
    /\ pc = "Demotions"
    /\ idx < MaxChanges
    /\ IF DemotionSkipped(id)
       THEN /\ idx' = idx + 1
            /\ UNCHANGED <<suffrage, leader, pc, promoted, demoted>>
       ELSE demoteVoter(id, /\ demoted' = TRUE
                            /\ idx' = idx + 1
                            /\ UNCHANGED <<pc, promoted>>)
    /\ UNCHANGED <<state, envSteps>>

ApplyDemotion == \E id \in Server : DemoteEntry(id)

\* Mutant of TransferWanted: the transfer also follows a demotion.
TransferWantedIgnoreDemoted(target) ==
    /\ target \notin {NoID, state.leader}
    /\ target \in state.servers

\* The leadership transfer reconcile asks for once nothing was demoted:
\* a target that is set, not the snapshot's leader, and in the snapshot.
TransferWanted(target) ==
    /\ ~demoted
    /\ target \notin {NoID, state.leader}
    /\ target \in state.servers

\* applyDemotions returns, and the rest of reconcile: stop if anything was
\* demoted, else transfer leadership if wanted; the pass ends either way.
DemotionsDone ==
    /\ pc = "Demotions"
    /\ \E target \in Server \cup {NoID} :
          IF TransferWanted(target) THEN leadershipTransfer(target)
                                    ELSE UNCHANGED leader
    /\ EndPass
    /\ UNCHANGED <<suffrage, state, envSteps>>

\* The rest of the cluster changes Raft, also while a pass waits on a call.
Environment ==
    /\ envSteps < MaxEnvSteps
    /\ envSteps' = envSteps + 1
    /\ ClusterChange
    /\ UNCHANGED <<state, passVars>>

(***************************************************************************)
(* The specification                                                       *)
(***************************************************************************)

Init ==
    /\ suffrage \in [Server -> Suffrage]
    /\ leader \in Voters
    /\ state = NoState
    /\ envSteps = 0
    /\ pc = "Idle"
    /\ idx = 0
    /\ promoted = FALSE
    /\ demoted = FALSE

\* The steps of a running pass.
PassStep == ApplyPromotion \/ PromotionsDone \/ ApplyDemotion \/ DemotionsDone

Next ==
    \/ PublishState
    \/ ReconcileStart
    \/ PassStep
    \/ Environment

Spec == Init /\ [][Next]_vars

\* A pass that has started keeps running: its loops range over finite
\* lists and every adapter call returns (with an error on timeout).  No
\* fairness for the builder, the driver starting a pass, or the cluster.
FairSpec == Spec /\ WF_vars(PassStep)

(***************************************************************************)
(* Properties                                                              *)
(***************************************************************************)

TypeOK ==
    /\ suffrage \in [Server -> Suffrage]
    /\ leader \in Server \cup {NoID}
    /\ state \in StateRecords
    /\ envSteps \in 0..MaxEnvSteps
    /\ pc \in Phases
    /\ idx \in 0..MaxChanges
    /\ promoted \in BOOLEAN
    /\ demoted \in BOOLEAN

\* The class of change the running pass has applied.
PassClass ==
    IF promoted THEN "promote" ELSE IF demoted THEN "demote" ELSE "none"

Abs == INSTANCE ReconcileAbstract WITH inPass <- pc # "Idle", class <- PassClass

\* Spec 4.4, one class per pass, and the promotion and demotion gates:
\* every behaviour of reconcile is one of the abstract specification, in
\* which a pass applies promotions only, or demotions only, each allowed by
\* its snapshot, or else one leadership transfer to a tracked server.
Refinement == Abs!ASpec

\* A started reconcile pass always returns.
PassCompletes == pc # "Idle" ~> pc = "Idle"

\* Spec section 8, one class per pass: once a pass has promoted a server
\* it makes no DemoteVoter call, and a leadership transfer happens only in
\* a pass that has neither promoted nor demoted.
OneClassStep ==
    /\ (\E s \in Server : DemoteEntry(s) /\ ~DemotionSkipped(s)) => ~promoted
    /\ DemotionsDone /\ leader' # leader => ~promoted /\ ~demoted

OneClassPerPass == [][OneClassStep]_vars

\* Spec section 8, promotion and demotion gates, read against Raft: add-voter
\* is never called for a server that already is a voter, and demote never
\* for a server that already is a non-voter.
LiveGates ==
    [][\A s \in Server :
         /\ PromoteEntry(s) /\ ~PromotionSkipped(s) => suffrage[s] # "Voter"
         /\ DemoteEntry(s) /\ ~DemotionSkipped(s) => suffrage[s] # "Nonvoter"]_vars

=============================================================================
