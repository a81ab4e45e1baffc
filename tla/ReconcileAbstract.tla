-------------------------- MODULE ReconcileAbstract --------------------------
(***************************************************************************)
(* What a reconcile pass promises (spec section 4.4), without its loops:  *)
(* a pass makes membership changes of one class only, promotions or       *)
(* demotions, each allowed by the snapshot the pass started from, or else *)
(* at most one leadership transfer, to a server the snapshot tracks that  *)
(* is not its leader.  A change may end the pass (an adapter error that   *)
(* was nevertheless applied).  Snapshots are published between passes.   *)
(***************************************************************************)
EXTENDS Cluster

VARIABLES
    state,  \* the snapshot the current (or next) pass reads
    inPass, \* a pass is running
    class   \* the class of change the running pass has applied

avars == <<suffrage, leader, state, inPass, class>>

\* The snapshot allows promoting s: tracked, without voting rights, healthy.
MayPromote(s) ==
    /\ s \in state.servers
    /\ ~HasVotingRights(state.role[s])
    /\ state.healthy[s]

\* The snapshot allows demoting s: tracked and not a non-voter.
MayDemote(s) ==
    /\ s \in state.servers
    /\ state.role[s] # "non-voter"

\* After a change the pass goes on in that class, or ends.
ContinueOrEnd(c) ==
    \/ inPass' = TRUE /\ class' = c
    \/ inPass' = FALSE /\ class' = "none"

Publish ==
    /\ ~inPass
    /\ state' \in StateRecords
    /\ UNCHANGED <<suffrage, leader, inPass, class>>

Begin ==
    /\ ~inPass
    /\ state.leader # NoID
    /\ inPass' = TRUE
    /\ class' = "none"
    /\ UNCHANGED <<suffrage, leader, state>>

Promote(s) ==
    /\ inPass
    /\ class \in {"none", "promote"}
    /\ MayPromote(s)
    /\ suffrage' = [suffrage EXCEPT ![s] = "Voter"]
    /\ ContinueOrEnd("promote")
    /\ UNCHANGED <<leader, state>>

\* Demoting the leader makes it step down.
Demote(s) ==
    /\ inPass
    /\ class \in {"none", "demote"}
    /\ MayDemote(s)
    /\ suffrage' = IF suffrage[s] = "Absent" THEN suffrage
                   ELSE [suffrage EXCEPT ![s] = "Nonvoter"]
    /\ leader' \in {leader, NoID}
    /\ ContinueOrEnd("demote")
    /\ UNCHANGED state

\* A transfer happens only in a pass that changed no membership, and ends it.
Transfer(t) ==
    /\ inPass
    /\ class = "none"
    /\ t \in state.servers \ {state.leader}
    /\ leader' \in {leader, t}
    /\ inPass' = FALSE
    /\ class' = "none"
    /\ UNCHANGED <<suffrage, state>>

End ==
    /\ inPass
    /\ inPass' = FALSE
    /\ class' = "none"
    /\ UNCHANGED <<suffrage, leader, state>>

AInit ==
    /\ suffrage \in [Server -> Suffrage]
    /\ leader \in Voters
    /\ state = NoState
    /\ inPass = FALSE
    /\ class = "none"

ANext ==
    \/ Publish
    \/ Begin
    \/ \E s \in Server : Promote(s) \/ Demote(s) \/ Transfer(s)
    \/ End
    \/ ClusterChange /\ UNCHANGED <<state, inPass, class>>

ASpec == AInit /\ [][ANext]_avars

=============================================================================
