-------------------------- MODULE MCCentralMonitor --------------------------
(***************************************************************************)
(* CentralMonitor for TLC, and for the proofs about Auto Komen, where it   *)
(* stands beside AutoComment, which has a cand and a pc of its own.        *)
(***************************************************************************)
EXTENDS Naturals, TLC

CONSTANTS Session, NoSession, Division, MaxPost, MaxUpsets, Budget, s1, s2, d1, d2

ASSUME MonitorAssumption == NoSession \notin Session /\ MaxPost \in Nat /\ MaxUpsets \in Nat /\ Budget \in Nat

VARIABLES top, hits, conf, since, start, lastPost, ev, candidates, owner, place, found, plan,
          watched, rules, dirty, queue, heard, job, upsets, bound

Monitor == INSTANCE CentralMonitor WITH cand <- candidates, pc <- place

MonitorSpec == Monitor!Spec
FairMonitorSpec == Monitor!FairSpec

MonitorSymmetry == Permutations({s1, s2}) \cup Permutations({d1, d2})

\* Whatever path a post takes, a session makes an event or a candidate of it only if it is
\* newer than the activation its division had when the session began
\* (central-monitor/service.ts).
OnlyWanted == Monitor!OnlyWanted

\* An event somebody is to look at is processed, whatever fails or dies on the way.
PendingIsProcessed == Monitor!PendingIsProcessed
=============================================================================
