----------------------------- MODULE MC_Health -----------------------------
(***************************************************************************)
(* ServerState.isHealthy over every input drawn from small ranges, with   *)
(* uint64 shrunk to Width bits so that the trailing-logs sum can reach the *)
(* wrap.  The inputs are fixed in the initial state; Next stutters.        *)
(***************************************************************************)
EXTENDS Integers, AutopilotTypes

\* Bits of the model's uint64.
Width == 3
UMax == 2 ^ Width - 1
UInt == 0..UMax

\* Durations: negative is "never contacted".
Duration == -1..2

VARIABLES srv, lastTerm, leaderLastIndex, conf

vars == <<srv, lastTerm, leaderLastIndex, conf>>

Init ==
    /\ srv \in [status : {"alive", "failed"}, lastContact : Duration,
                lastTerm : 0..1, lastIndex : UInt]
    /\ lastTerm \in 0..1
    /\ leaderLastIndex \in UInt
    /\ conf \in [lastContactThreshold : 0..1, maxTrailingLogs : UInt]

Next == UNCHANGED vars

Spec == Init /\ [][Next]_vars

\* The health predicate of spec section 4.1, whose trailing-logs test
\* saturates at the largest unsigned value instead of wrapping.
SpecHealthy ==
    /\ leaderLastIndex # 0 /\ lastTerm # 0
    /\ srv.status = "alive"
    /\ 0 <= srv.lastContact /\ srv.lastContact <= conf.lastContactThreshold
    /\ srv.lastTerm = lastTerm
    /\ LET sum == srv.lastIndex + conf.maxTrailingLogs
       IN (IF sum > UMax THEN UMax ELSE sum) >= leaderLastIndex

\* isHealthy agrees with the spec's health predicate: in particular a
\* large MaxTrailingLogs (meant as "no limit") never makes a caught-up
\* server unhealthy through wraparound of LastIndex + MaxTrailingLogs.
HealthMatchesSpec ==
    isHealthy(srv, lastTerm, leaderLastIndex, conf, Width) = SpecHealthy

=============================================================================
