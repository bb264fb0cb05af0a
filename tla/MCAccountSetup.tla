---------------------------- MODULE MCAccountSetup ----------------------------
(***************************************************************************)
(* Instances for TLC of the two protocols a user sets automation up with:  *)
(* the login to a Telegram account (AuthFlow, and LoginDialog with its     *)
(* client) and the channels it comments (ChannelTargets).  A behaviour is  *)
(* one of requests of any kind, one of a single dialog, one of the runs    *)
(* that prepare a channel while it is changed or one of overlapping        *)
(* requests for the last place; what ChannelTargets needs of a login is    *)
(* only that an account is there.                                          *)
(***************************************************************************)
EXTENDS LoginDialog, FiniteSets, TLC

CONSTANTS Userbot, Channel, Target, Asking, Run, MaxLimit, MaxChanges, MaxUpsets,
          Prepared, Editing, MaxEdits,  \* bounds of a behaviour with runs: its targets, requests and changes
          r1, r2, u1, u2, a1, a2, b1, b2, c1, c2, t1, t2, q1, q2, n1, n2

\* Nobody and a run that is gone are no account, channel or run.
ASSUME ChannelAssumption ==
    /\ Nobody \notin Userbot \cup Channel \cup Run /\ "LOST" \notin Run
    /\ Channel # {} /\ IsFiniteSet(Target)
    /\ MaxLimit \in Nat /\ MaxChanges \in Nat /\ MaxUpsets \in Nat

VARIABLES focus, \* the one of this behaviour
          attached, enabled, limit, target, holder, member, request, run, changes, upsets

channelVars == <<attached, enabled, limit, target, holder, member, request, run, changes, upsets>>

Channels == INSTANCE ChannelTargets
              WITH Account <- Userbot, Request <- Asking, None <- Nobody, profile <- attached

\* The runs of an account against the changes of a few channels.
PrepareNext ==
    /\ Channels!Next
    /\ changes' <= MaxEdits
    /\ \A t \in Target \ Prepared : target'[t] = target[t]
    /\ \A q \in Asking \ Editing : request'[q] = request[q]

\* Requests that overlap, no run at work.
QuotaNext == UNCHANGED <<holder, member, run, upsets>> /\ Channels!Next

SetupInit == focus \in {"login", "dialog", "channels", "quota"} /\ Init /\ DialogInit /\ Channels!Init

SetupNext ==
    /\ UNCHANGED focus
    /\ \/ focus = "login" /\ Next /\ UNCHANGED <<dialogVars, channelVars>>
       \/ focus = "dialog" /\ DialogNext /\ UNCHANGED channelVars
       \/ focus = "channels" /\ PrepareNext /\ UNCHANGED <<vars, dialogVars>>
       \/ focus = "quota" /\ QuotaNext /\ UNCHANGED <<vars, dialogVars>>

SetupSpec == SetupInit /\ [][SetupNext]_<<focus, vars, dialogVars, channelVars>>

SetupSymmetry ==
    UNION {Permutations({r1, r2}), Permutations({u1, u2}), Permutations({b1, b2}), Permutations({n1, n2})}

\* A channel said to be ready is so for the account and the channel it now has:
\* this account was let into this channel's discussion, whatever was edited,
\* switched or taken over while it was prepared (auto-comment preparation).
ReadyIsCurrent == Channels!ReadyIsCurrent

\* However requests of the user and the administrator overlap, the channel that
\* becomes active is within the limit there is then ("Database-level admission
\* control closes concurrent target-creation races", 20260828100000:1).
QuotaHolds == [][Channels!WithinLimit]_channelVars
===============================================================================
