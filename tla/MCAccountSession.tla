--------------------------- MODULE MCAccountSession ---------------------------
(***************************************************************************)
(* AccountSession for TLC, and for the proofs about accounts, where it     *)
(* stands beside AccountLease.                                             *)
(***************************************************************************)
EXTENDS Naturals

CONSTANTS Api, EngineRun, Key, FirstKey, None, Type, Careful, MaxLogins, MaxUpsets,
          p1, p2, r1, r2, k1, k2

ASSUME KeyAssumption ==
    FirstKey \in Key /\ None \notin Api \cup EngineRun \cup Key /\ Api \cap EngineRun = {}
ASSUME TypeAssumption == Type \subseteq {"USERBOT", "JASEB_WORKER", "MONITOR"}
ASSUME SessionAssumption == MaxLogins \in Nat /\ MaxUpsets \in Nat /\ Careful \in BOOLEAN

VARIABLES env, ring, type, row, granted, flow, logins, holder, run, upsets

Sessions == INSTANCE AccountSession

SessionSpec == Sessions!Spec
FairSessionSpec == Sessions!FairSpec

\* A rotation only delays an account: whatever order keys come and processes are
\* deployed in, no account is given up before Telegram was asked about its session.
KeysOnlyDelay == Sessions!KeysOnlyDelay

\* An account with a session Telegram accepts gets to work with it.
StoredIsUsed == Sessions!StoredIsUsed

\* A session ended from another device does not stay READY for ever.
EndIsNoticed == Sessions!EndIsNoticed
===============================================================================
