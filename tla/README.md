# Formal models of raft-autopilot

TLA+ models, TLC runs and TLAPS proofs for the autopilot core in `src/`:
`src/types.go` (value types, health predicate, the Raft, application and
promoter interfaces) and `src/unnamed/part_000` (`reconcile.go`: reconcile,
the categorizer, the pruner and the quorum adjudicator).

## 1. Inventory

### Components, their state and operations

| Component | Source | State it keeps | Operations |
|---|---|---|---|
| Value types and helpers | types.go 12-201 | none (pure) | `IsPotentialVoter`, `HasVotingRights`, `isHealthy`, `IsStable`, `ServerStabilizationTime` |
| Categorizer | part_000 154-211, types.go 245-328 | a pass-local `CategorizedServers`: six maps ID -> `*VoterEligibility` | `getRaftServerIds`, `categorizeServers`, `FilterVoters`, `PotentialVoters` |
| Promoter filter bridge | types.go 330-415 | none | `convertToFailedServers`, `convertFromFailedServers` |
| Pruner | part_000 221-280 | none across passes | `pruneDeadServers` |
| Quorum adjudicator | part_000 213-219, 282-302 | the bucket it mutates, a tolerance counter | `getFailureTolerance`, `isRemovalQuorate`, `adjudicateRemoval` |
| Reconciler | part_000 10-152 | none across passes | `reconcile`, `applyPromotions`, `applyDemotions` |
| Raft adapter | types.go 203-216 | the Raft configuration (external) | `AddVoter`, `DemoteVoter`, `RemoveServer`, `LeadershipTransferToServer`, ... |
| Application adapter | types.go 218-237 | the known servers and their status (external) | `AutopilotConfig`, `KnownServers`, `RemoveFailedServer`, ... |
| Promoter | types.go 417-453 | none (pure by contract) | `CalculatePromotionsAndDemotions`, `FilterFailedServerRemovals`, `GetNodeTypes`, ... |
| TimeProvider | types.go 455-465 | none | `Now` |

The periodic driver, `GetState` and the state builder are not in this
repository; the spec treats them as external collaborators.

### How they interact

A driver (external) calls `reconcile` and `pruneDeadServers` one at a time.
`pruneDeadServers` reads the Raft configuration (`GetConfiguration`) and the
application's `KnownServers()`, categorizes every configured server into one
of six buckets, lets the promoter veto removals, then removes stale
non-voters (Raft `RemoveServer`), adjudicates and removes stale voters (Raft),
and adjudicates failed non-voters and failed voters and hands them to the
application (`RemoveFailedServer`, which re-reads `KnownServers()`).
`reconcile` reads the state snapshot, asks the promoter for a change set and
applies promotions, else demotions, else a leadership transfer through the
Raft adapter. Neither keeps state from one pass to the next; everything they
change lives in Raft or the application, and every adapter call may block,
so the cluster can change between any two calls of one pass.

### What is hard

* Go map iteration order is random: which server `adjudicateRemoval` removes
  when the tolerance runs out depends on it.
* The adjudicator deletes from the bucket that `PotentialVoters` counts, and
  re-reads the count for every entry; the tolerance is read once.
* Stale voters carry no potential-voter flag and are not counted.
* A `RemoveServer` error aborts the pass half-way; a timed-out call may still
  be applied.
* `KnownServers()` is read again between categorization and force removal;
  the spec (section 9) accepts a categorization taken once per pass, so a
  server that recovers meanwhile may still be removed, by design.
* uint64 arithmetic in `isHealthy` wraps; `(n-1)/2` truncates toward zero.

### What makes each component correct

* Categorizer: the six buckets partition the configured servers; a server is
  a potential voter only if known and of NodeType voter.
* Adjudicator (spec section 8, quorum safety): at most `failureTolerance`
  current voters accepted per call, none when it is 0; removing potential
  voters never leaves fewer than MinQuorum; stale voters likewise.
* Pruner: removals happen in the order stale non-voters, stale voters,
  failed non-voters, failed voters; an error aborts the pass.
* Reconciler: one class of change per pass (promotions, else demotions, else
  a transfer); never add a voter that has voting rights or is unhealthy;
  never demote a non-voter; transfer only to a known server.
* Health: `isHealthy` is false before bootstrap and saturates the
  trailing-logs sum.

## 2. Modules

| Module | Models | Status |
|---|---|---|
| `AutopilotTypes` | types.go helpers and the two arithmetic helpers of reconcile.go, as pure operators with Go int/uint64 semantics | done |
| `Prune` | `pruneDeadServers`, `categorizeServers`, the promoter filter, `adjudicateRemoval`, with the Raft configuration and the application's view as changing state | done |
| `MC_Prune` | four servers (s1..s4 model values), s1..s3 potential voters; the ServerID order `IdRank` | done |
| `PruneProofs` | TLAPS proofs about `Prune` | done: type correctness, tolerance |
| `MC_Health` | `isHealthy` over all small inputs at 3-bit width against the spec's saturating predicate | done |
| `MC_Quorate` | `isRemovalQuorate` with `int(minQuorum)` over all small inputs at 3-bit width | done |
| `Cluster` | the Raft configuration and leader, the State snapshot's shape, and the joins, leaves and elections of the rest of the cluster | done |
| `ReconcileAbstract` | what a reconcile pass promises (spec 4.4): one class of change per pass, gated by the snapshot, or one transfer | done |
| `Reconcile` | `reconcile`, `applyPromotions`, `applyDemotions` against the live Raft configuration and a State snapshot; refines `ReconcileAbstract` | done |
| `MC_Reconcile` | three servers (s1..s3 model values) | done |
| `ReconcileProofs` | TLAPS proofs about `Reconcile`: type correctness and the refinement | done |

### Prune: state and actions

Variables: `suffrage` (Raft configuration, server -> Voter/Nonvoter/Absent),
`nodeStatus` (KnownServers: alive/failed/absent), `forced` (servers handed to
`RemoveFailedServer` and not yet reaped), `envSteps` (bound counter), and the
pass-local `pc` (which loop of `pruneDeadServers` the pass is in), `elig`
(VoterEligibility), `buckets` (CategorizedServers), `pending` (map entries not
yet visited by the current `range`), `tol` (the adjudicator's
`failureTolerance`), `toRemove` (its result slice), `cursor` (index into it)
and the history variable `tolStart`.

Actions: `PruneStart` (categorize and filter, lines 221-241), one
`RemoveStaleNonVoter` per loop iteration (245-251), `AdjudicateOne` per map
entry (286-301), `RemoveStaleVoter` (253-259), `ForceRemove` (261-277),
`NextPhase` when a loop runs out (the next statement, or the return), and
`Environment`: a node fails, recovers, is forgotten by the application,
joins as a non-voter, is learned of again while still in Raft
(`NodeRejoins`), or a forced removal completes (`Reap`). `removeServer`
succeeds, or fails (pass returns) with the change applied or not. A map is
ranged over by picking any entry still pending, which is Go's random order.

Abstractions: NodeStatus unknown/failed/left become "failed" (the code only
tests `== NodeAlive`); raft.Staging is not generated; NodeType is the
constant `PotentialVoterIds`; the config is fixed with `CleanupDeadServers`
on (the disabled, nil-config and `GetConfiguration`-error paths return
without changing anything, i.e. stutter); the promoter filter is any subset
of the stale and failed servers, which also covers `convertToFailedServers`
dropping failed servers absent from the state snapshot. The environment does
not act inside `adjudicateRemoval`: that function makes no call and reads
only pass-local state, so environment steps there commute with its steps.
`isRemovalQuorate` in `Prune` is the code's test for a MinQuorum below 2^63,
where `int(minQuorum)` keeps the value; `isRemovalQuorateAt` keeps the
conversion and is checked on its own in `MC_Quorate`.

### Reconcile: state and actions

`Cluster` holds what the rest of the cluster shares with autopilot:
`suffrage` (Raft configuration) and `leader` (the Raft leader, or none during
an election), with `Join`, `Leave` and `Elect` as the changes others make.
`Reconcile` adds `state` (the published `State` snapshot: tracked servers,
their `RaftState`, health, leader), `envSteps`, and the pass-local `pc`
(Idle, in `applyPromotions`, in `applyDemotions`), `idx` (entries of the list
read so far), `promoted`, `demoted`.

Actions: `PublishState` (the external builder publishes a snapshot between
passes; the role of each server is converted from its suffrage,
`RoleName`), `ReconcileStart` (part_000 10-29: a snapshot with a leader
starts a pass), `PromoteEntry(id)` (one iteration of 71-103: the three skips,
else `AddVoter`), `PromotionsDone` (105-108 and 34-36: stop if anything was
promoted), `DemoteEntry(id)` (120-146), `DemotionsDone` (38-58: the
leadership transfer when nothing was demoted and the target is set, not the
leader and tracked; the pass ends either way), `Environment` (a cluster change
at any time, also while a call blocks). Each adapter call (`RaftCall`)
succeeds only while the snapshot's leader still leads (else `ErrNotLeader`),
and may fail with the change applied or not; an error ends the pass.

Abstractions: the promoter's `RaftChanges` is arbitrary, so it is not chosen
up front: each loop iteration reads any server ID (duplicates included), a
list ends after at most `MaxChanges` entries, and the transfer target is any
ID or none, read when reconcile reaches it. Addresses, names and logging are
dropped. Staging servers are not generated.

### Refinement

`ReconcileAbstract` has `state`, `inPass` and `class` (the kind of change the
running pass made: none, promote, demote). Its steps: `Publish`, `Begin`,
`Promote(s)` and `Demote(s)` (allowed by the snapshot, only while the pass
made no change of the other class, after which the pass goes on or ends),
`Transfer(t)` (only in a pass that made no change, to a tracked server that is
not the snapshot's leader; it ends the pass), `End`, and the cluster's
changes. The mapping is `inPass <- pc # "Idle"` and `class <- PassClass`
(promote if `promoted`, else demote if `demoted`, else none). Skipped
entries, and `PromotionsDone` when nothing was promoted, are stutters.

## 3. Runs

| Run | Config | Expect | Checks |
|---|---|---|---|
| `prune_safety` | `MC_Prune.cfg`: 4 servers, 3 potential voters, MinQuorum 2, MaxEnvSteps 2 | pass (about 2.1M distinct states under symmetry, about 1 minute) | `TypeOK`, `RemovalWithinTolerance`, `RemovalKeepsMinQuorum`, `CategorizationSound` |
| `prune_stale_voter_quorum` | `MC_Prune_stale.cfg`: MinQuorum 3, no environment steps | violation | `StaleVoterRemovalKeepsMinQuorum` |
| `prune_enumeration_order` | `MC_Prune_order.cfg`: no environment steps | violation | `EnumeratedInIdOrder` |
| `health_trailing_logs_wrap` | `MC_Health.cfg`: width 3 | violation | `HealthMatchesSpec` |
| `quorate_int_conversion` | `MC_Quorate.cfg`: width 3 | violation | `QuorateMatchesSpec` |
| `reconcile_safety` | `MC_Reconcile.cfg`: 3 servers, MaxChanges 2, MaxEnvSteps 2, `FairSpec` | pass (about 264k distinct states, about a minute) | `TypeOK`, `OneClassPerPass`, `Refinement`, `PassCompletes` |
| `reconcile_live_gates` | `MC_Reconcile_gates.cfg`: MaxEnvSteps 1, `Spec` | violation | `LiveGates` |

Bounds. Four servers are the least that give a failure tolerance of 1 (three
potential voters) next to a stale or failed server, which is what the spec's
scenarios 4-6 need; with MinQuorum 2 both gates of the adjudicator fire.
MaxEnvSteps 2 lets the cluster change twice anywhere in a behaviour, enough
for a failure or recovery between categorization and a removal; the initial
states already cover every configuration and every application view. For
reconcile, three servers give a leader, a voter to demote or transfer to and
a non-voter to promote; lists of two entries let a pass make two changes of
one class, or repeat an ID; two cluster steps let the leader change or a
server leave while a pass blocks.

Symmetry. `MC_Prune` declares the permutations of the three potential
voters s1..s3 a symmetry. That is sound: the constants treat them alike,
and no property names a server. `IdRank`, which orders them, is used only
by `EnumeratedInIdOrder`, and the `prune_enumeration_order` run leaves
symmetry off. `CategorizationSound` says the buckets are pairwise disjoint,
a server sits in a voter bucket exactly when it is a current voter, and no
stale server is a potential voter. `OneClassPerPass` is the spec's law as an
action property: no `DemoteVoter` call after a promotion in the same pass,
and the leader moves only in a pass with no change.

Fairness. `FairSpec` assumes weak fairness of `PassStep` only, the steps of a
pass that has started: its loops range over finite slices and every adapter
call returns, with an error on timeout. Nothing is assumed of the builder,
the driver starting a pass, or the rest of the cluster. `PassCompletes`
(a started pass returns) is checked under it.

Findings.
* `prune_stale_voter_quorum`: the code removes a stale voter without the
  MinQuorum check that the spec's quorum-safety law and scenario 5 require
  (stale voters never get `potentialVoter` set, part_000:289).
* `prune_enumeration_order`: the stale non-voter loop (part_000:247) and
  `adjudicateRemoval` (part_000:286) range over Go maps in random order; the
  spec (sections 5 and 9) says they MUST go in ServerID order.
* `health_trailing_logs_wrap`: `LastIndex+MaxTrailingLogs` wraps in uint64
  (types.go:132); the spec says it saturates.
* `quorate_int_conversion`: `int(minQuorum)` (part_000:218) is negative for a
  MinQuorum of 2^63 or more, and every removal is then quorate; the spec's
  `voters - 1 >= minQuorum` would refuse.
* `reconcile_live_gates`: the promotion and demotion gates read the snapshot,
  which the pass's own calls outdate: a promotion list naming a server twice
  calls `AddVoter` for a server that is already a voter (part_000:80, 129).
  The spec's laws do not say which view the gates read.

Every property of a passing run has a mutant in PROJECT.json that TLC catches:
`AdjudicateOneNoDecrement` (tolerance not spent), `isRemovalQuorateNoDecrement`
(off by one in the quorum test), `BeginAdjudicationZeroCursor` (0-based
index), `RoleNameUnconverted` (Raft suffrage names not converted to
RaftState), `PromotionsDoneIgnorePromoted` (demotions after a promotion),
`PromotionsDoneRestart` (the pass loops on its promotions),
`categorizeServersVotersAsNonVoters` (failed voters filed as non-voters),
`TransferWantedIgnoreDemoted` (a transfer after a demotion).

## 4. Proofs

`PruneProofs` (TLAPS), for every finite `Server`, every `PotentialVoterIds`
and every `MinQuorum`, `MaxEnvSteps` in Nat:

* `TypeCorrect`: `Spec => []TypeOK`, one lemma per action.
* `RemovalToleranceSafe`: `Spec => []RemovalWithinTolerance`.
  `RemovalWithinTolerance` alone is not inductive, because it does not
  mention `tol`. The inductive invariant `ToleranceInv` adds:
  `Cardinality(AcceptedVoters) = tolStart - tol` (each accepted current
  voter spent one unit), `AcceptedVoters # {} => tol >= 0` (a voter is only
  accepted when `tol >= 1`), and `pc = "Idle" => toRemove = <<>>` (a new
  pass starts from an empty result). TLC checked it as an invariant of the
  `MC_Prune` instance before the proof. The proof splits on the actions of
  `Next`; cardinality facts come from `FiniteSetTheorems`.
* `RemovalQuorumSafe`: `Spec => []RemovalKeepsMinQuorum`. This one is
  inductive together with `TypeOK` (`QuorumInv`). Deleting one entry from a
  bucket lowers `PotentialVoters` by at most one, and by nothing for a
  server that is not a potential voter (lemma `PotentialVotersRemove`, by
  `FS_RemoveElement` on each bucket). A potential voter is accepted only
  when `isRemovalQuorate` holds, that is when the count minus one is at
  least MinQuorum.
* `CategorizationCorrect`: `Spec => []CategorizationSound`, inductive with
  `TypeOK`. The lemma `CategorizeSound` shows that `categorizeServers`
  builds sound buckets from the eligibilities of the same step
  (`SoundFor`). `SoundForSubset` shows that deleting entries keeps them
  sound: the promoter's filter, the adjudication and the removal loops only
  delete. `elig` is written only at the start of a pass, and the empty
  buckets between passes are sound trivially.

`ReconcileProofs` (TLAPS), for every `Server` and every `MaxChanges`,
`MaxEnvSteps` in Nat:

* `TypeCorrect`: `Spec => []TypeOK`, one lemma per action, `RaftCallTypeOK`
  and `EndPassTypeOK` for the shared parts.
* `Refines`: `Spec => Refinement`, that is `Reconcile` implements
  `ReconcileAbstract` under the mapping above. The mapping needs `PassInv`:
  `TypeOK`, no flag set between passes, `demoted` false in
  `applyPromotions` and `promoted` false in `applyDemotions`; without it a
  promotion could map to a step from class "demote". `PassInv` is inductive
  (`InitPassInv`, `NextPassInv`); the step proof has one lemma per action
  (`PromoteEntryRefines`, `DemotionsDoneRefines`, ...), each splitting the
  skip, the acknowledged call and the failed call.
* `OneClassPerPassSafe`: `Spec => OneClassPerPass`. Every step satisfies
  `OneClassStep` in a state where `PassInv` holds (`PassInvOneClass`).
  A demote call happens in applyDemotions, where `promoted` is false. The
  leader moves only through a transfer that `TransferWanted` allowed
  (`DemotionsDoneLeader`), and that needs `demoted` false.

Only model-checked: `PassCompletes`, because liveness under fairness is
beyond TLAPS here. The properties of the violation runs are also only
model-checked, since they fail. Out of TLAPS's reach in general:
liveness and ENABLED, induction over data, and RECURSIVE operators, so the
modules meant for proofs avoid RECURSIVE.

## 5. Not modelled

* TimeProvider: wall-clock only; time reaches the core through `IsStable`
  and `ServerStabilizationTime`, modelled as operators of their arguments.
* The state builder's stats polling and health computation, the driver's
  timing, `NotifyState`, `FetchServerStats`: outside this repository.
* The interleaving at part_000:236 (`GetState()` read after
  `categorizeServers`, dropping failed servers the snapshot lacks) is folded
  into the promoter filter's free choice; `Prune` has no snapshot.

## 6. Plan for the next sittings

1. `Autopilot`: compose Reconcile and Prune under a serializing driver over
   one cluster, with the snapshot shared.
2. A pass-level check: stale and failed voters are adjudicated with separate
   tolerances, so one pass can remove more voters than one tolerance allows.
3. Proofs: an abstract adjudication that `Prune` refines; the order of the
   removal phases as an action property of `Prune`.
