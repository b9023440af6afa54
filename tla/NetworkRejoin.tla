---------------------------- MODULE NetworkRejoin ----------------------------
(***************************************************************************)
(* Rejoining a lost network (tr_network_rejoin.c): six kinds of rejoin are *)
(* tried one after the other, then comes a delay that grows from round to  *)
(* round.  The button of the application (on_off_bulb_app.c) restarts the  *)
(* delay; its handler is an interrupt and may come between any two steps   *)
(* of the stack's main loop.                                               *)
(*                                                                         *)
(* The ZBOSS stack is a library: an asked-for rejoin waits for a buffer    *)
(* before it is active (tr_initiate_secure_nwk_rejoin), and how it ended   *)
(* is signalled by a callback of its own.  Alarms fire at any time: only   *)
(* their number is kept.  The device may leave its network and join        *)
(* another; the rejoin command of the command line is not modelled.        *)
(***************************************************************************)
EXTENDS Integers, Sequences

CONSTANTS
    InitialDelay, Multiplier, MaxDelay,   \* TR_NWK_REJOIN_...
    MaxQueued,   \* bound: rejoins waiting to be started
    MaxAlarms,   \* bound: pending alarms
    MaxSignals,  \* bound: signals waiting to be handled
    Users        \* what users may do: nothing, press the button, leave the network

ASSUME RejoinAssumption ==
    /\ {InitialDelay, Multiplier, MaxDelay, MaxQueued, MaxAlarms, MaxSignals} \subseteq Nat \ {0}
    /\ InitialDelay <= MaxDelay /\ Multiplier > 1
    /\ Users \subseteq {"nobody", "button", "leaver"}

(* tr_network_rejoin_types_t                                                *)
Kinds == 1..6
DONE == 7

VARIABLES
    active, delay, type,   \* g_nwk_rejoin_params
    alarms,      \* pending alarms that will call tr_initiate_rejoin
    pc,          \* where the main loop is
    trying,      \* the case of the switch it is in, 0 outside
    queued,      \* rejoins asked for
    rejoining,   \* the one that is active, 0 if none: zb_zdo_is_rejoin_active
    linked,      \* the device has a parent
    signals,     \* signals on their way to zboss_signal_handler
    member,      \* the device belongs to a network
    user         \* chosen once: what the user does

params == <<active, delay, type>>
stack == <<queued, rejoining, linked, signals, member, user>>
vars == <<params, alarms, pc, trying, stack>>

TypeOK ==
    /\ active \in BOOLEAN
    /\ delay \in {0} \cup (InitialDelay..MaxDelay)
    /\ type \in Kinds \cup {DONE}
    /\ alarms \in 0..MaxAlarms
    /\ pc \in {"idle", "initiate", "advance", "check", "backoff", "stop"}
    /\ trying \in {0} \cup Kinds /\ (trying # 0 <=> pc = "advance")
    /\ queued \in Seq(Kinds) /\ Len(queued) <= MaxQueued
    /\ rejoining \in {0} \cup Kinds /\ linked \in BOOLEAN
    /\ signals \in Seq({"joined", "no_parent"}) /\ Len(signals) <= MaxSignals
    /\ member \in BOOLEAN /\ (linked => member) /\ user \in Users

(* A device that knows its network starts without a parent.                 *)
Init ==
    /\ active = FALSE /\ delay = 0 /\ type = 1
    /\ alarms = 0 /\ pc = "idle" /\ trying = 0
    /\ queued = <<>> /\ rejoining = 0 /\ linked = FALSE /\ signals = <<"no_parent">>
    /\ member = TRUE /\ user \in Users

-----------------------------------------------------------------------------
(* tr_network_rejoin: the stack is asked; it forgets what it has no room for.*)
Ask(kind) == queued' = IF Len(queued) < MaxQueued THEN Append(queued, kind) ELSE queued

(* The stack's table of alarms, too, is finite.                             *)
SetAlarm(pending) == alarms' = IF pending < MaxAlarms THEN pending + 1 ELSE pending

(* tr_initiate_rejoin while a rejoin is active: come back later.            *)
Later(pending) ==
    /\ rejoining # 0
    /\ SetAlarm(pending) /\ UNCHANGED <<type, queued>>

(* ... and when all kinds were tried.                                       *)
Stop(pending) ==
    /\ rejoining = 0 /\ type = DONE
    /\ alarms' = pending /\ UNCHANGED <<type, queued>>

Try(pending) ==
    /\ rejoining = 0 /\ type \in Kinds
    /\ alarms' = pending /\ Ask(type)

(* tr_initiate_rejoin in the main loop, the next kind being set a little    *)
(* later.                                                                   *)
Initiate(pending) ==
    /\ \/ (Later(pending) \/ Stop(pending)) /\ pc' = "idle" /\ trying' = 0
       \/ Try(pending) /\ pc' = "advance" /\ trying' = type /\ UNCHANGED type
    /\ UNCHANGED <<active, delay, rejoining, linked, signals, member, user>>

\* Plausible bug: the last kinds are left out.
NextKindSkipping(kind) == IF kind = 4 THEN DONE ELSE kind + 1

NextKind(kind) == kind + 1

Advance ==
    /\ pc = "advance" /\ pc' = "idle"
    /\ type' = NextKind(trying) /\ trying' = 0
    /\ UNCHANGED <<active, delay, alarms, stack>>

BackoffStarted == pc = "initiate" /\ Initiate(alarms)

AlarmFires == pc = "idle" /\ alarms > 0 /\ Initiate(alarms - 1)

(* tr_network_rejoin_reset_backoff_delay while active: one alarm cancelled, *)
(* a rejoin initiated at once.                                              *)
ButtonPressed ==
    /\ user = "button" /\ active
    /\ delay' = InitialDelay
    /\ LET left == IF alarms > 0 THEN alarms - 1 ELSE 0
       IN  Later(left) \/ Stop(left) \/ (Try(left) /\ type' = NextKind(type))
    /\ UNCHANGED <<active, pc, trying, rejoining, linked, signals, member, user>>

-----------------------------------------------------------------------------
(* tr_network_rejoin_connection_state_cb                                    *)
Signal(s) == pc = "idle" /\ signals # <<>> /\ Head(signals) = s /\ signals' = Tail(signals)

Joined ==
    /\ Signal("joined")
    /\ type' = 1 /\ pc' = IF active THEN "stop" ELSE "idle"
    /\ UNCHANGED <<active, delay, alarms, trying, queued, rejoining, linked, member, user>>

\* Plausible bug: the delay not reset once the backoff is over.
BackoffStopKeepsDelay ==
    /\ pc = "stop" /\ pc' = "idle"
    /\ active' = FALSE /\ delay' = delay
    /\ UNCHANGED <<type, alarms, trying, stack>>

BackoffStop ==
    /\ pc = "stop" /\ pc' = "idle"
    /\ active' = FALSE /\ delay' = InitialDelay
    /\ UNCHANGED <<type, alarms, trying, stack>>

NoAlarm == alarms = 0

NoParent ==
    /\ Signal("no_parent")
    /\ active' = TRUE
    /\ pc' = IF ~active THEN "initiate" ELSE IF NoAlarm THEN "check" ELSE "idle"
    /\ UNCHANGED <<delay, type, alarms, trying, queued, rejoining, linked, member, user>>

\* Plausible bug: an alarm set besides.
NextRejoinAndAlarm == pc = "check" /\ type # DONE /\ Initiate(alarms + 1)

(* There was no alarm: the next kind now, or all of them after a delay.     *)
NextRejoin == pc = "check" /\ type # DONE /\ Initiate(alarms)

NextRound ==
    /\ pc = "check" /\ type = DONE
    /\ pc' = "backoff" /\ type' = 1
    /\ UNCHANGED <<active, delay, alarms, trying, stack>>

\* Plausible bug: multiplied whatever comes out.
NextDelayUncapped(d) == IF d < InitialDelay THEN InitialDelay ELSE d * Multiplier

(* tr_network_rejoin_get_backoff_delay_ms                                   *)
NextDelay(d) ==
    IF d < InitialDelay THEN InitialDelay
    ELSE IF d < MaxDelay /\ MaxDelay > d * Multiplier THEN d * Multiplier
    ELSE MaxDelay

\* Plausible bug: the alarm of the next round not set.
BackoffNoAlarm ==
    /\ pc = "backoff" /\ pc' = "idle"
    /\ delay' = NextDelay(delay) /\ alarms' = alarms
    /\ UNCHANGED <<active, type, trying, stack>>

Backoff ==
    /\ pc = "backoff" /\ pc' = "idle"
    /\ delay' = NextDelay(delay) /\ SetAlarm(alarms)
    /\ UNCHANGED <<active, type, trying, stack>>

-----------------------------------------------------------------------------
(* The stack and its network.                                               *)
Raise(s) == Len(signals) < MaxSignals /\ signals' = Append(signals, s)

RejoinStarts ==
    /\ pc = "idle" /\ queued # <<>> /\ rejoining = 0
    /\ rejoining' = Head(queued) /\ queued' = Tail(queued) /\ linked' = FALSE
    /\ UNCHANGED <<params, alarms, pc, trying, signals, member, user>>

(* A rejoin asked for while another is active may be forgotten.             *)
RejoinForgotten ==
    /\ pc = "idle" /\ queued # <<>> /\ rejoining # 0
    /\ queued' = Tail(queued)
    /\ UNCHANGED <<params, alarms, pc, trying, rejoining, linked, signals, member, user>>

RejoinEnds ==
    /\ pc = "idle" /\ rejoining # 0 /\ rejoining' = 0
    /\ \/ member /\ linked' = TRUE /\ Raise("joined")
       \/ Raise("no_parent") /\ UNCHANGED linked
    /\ UNCHANGED <<params, alarms, pc, trying, queued, member, user>>

(* The stack signals a parent lost only if it had one (an assumption: the   *)
(* framework hands the signal on without looking).                          *)
ParentLost ==
    /\ pc = "idle" /\ linked /\ linked' = FALSE /\ Raise("no_parent")
    /\ UNCHANGED <<params, alarms, pc, trying, queued, rejoining, member, user>>

(* A leave makes the stack forget network and rejoins; of the signal the    *)
(* plugin takes no notice.  Steering then finds a network, perhaps.         *)
Leave ==
    /\ pc = "idle" /\ user = "leaver" /\ member
    /\ member' = FALSE /\ linked' = FALSE
    /\ queued' = <<>> /\ rejoining' = 0 /\ signals' = <<>>
    /\ UNCHANGED <<params, alarms, pc, trying, user>>

Steered ==
    /\ pc = "idle" /\ ~member /\ rejoining = 0
    /\ member' = TRUE /\ linked' = TRUE /\ Raise("joined")
    /\ UNCHANGED <<params, alarms, pc, trying, queued, rejoining, user>>

Main ==
    \/ Advance \/ BackoffStarted \/ Joined \/ BackoffStop
    \/ NoParent \/ NextRejoin \/ NextRound \/ Backoff

Next ==
    \/ Main \/ AlarmFires \/ ButtonPressed
    \/ RejoinStarts \/ RejoinForgotten \/ RejoinEnds \/ ParentLost
    \/ Leave \/ Steered

Spec == Init /\ [][Next]_vars

(* The main loop runs, alarms fire, and the stack ends what it started.     *)
Fairness ==
    /\ WF_vars(Main) /\ SF_vars(AlarmFires)
    /\ SF_vars(RejoinStarts) /\ SF_vars(RejoinEnds)

-----------------------------------------------------------------------------
(* The handler never returns from a lost parent with nothing under way that *)
(* would try again.                                                         *)
NeverForgotten ==
    active /\ ~linked /\ member =>
        pc # "idle" \/ alarms > 0 \/ queued # <<>> \/ rejoining # 0 \/ signals # <<>>

(* ... as long as nobody presses the button, which breaks it.               *)
NeverForgottenAlone == user # "button" => NeverForgotten

(* One rejoin at a time: the next is asked for when the last has ended      *)
(* (unless a user interferes).                                              *)
OneAtATime == user = "nobody" => rejoining = 0 \/ queued = <<>>

(* Once a join has stopped the backoff, the plugin asks for no rejoin: it   *)
(* would take the device off the network it is on.  (The alarm is not       *)
(* cancelled: a button or a leave during the delay breaks this.)            *)
StopMeansStop == [][user = "nobody" /\ Len(queued') > Len(queued) => active]_vars

(* As long as there is no parent every kind of rejoin is tried, over and    *)
(* over, whatever was left behind by a network the device was in before.    *)
EveryKindTried ==
    user # "button" /\ (<>[](~linked /\ member)) => \A kind \in Kinds : []<>(rejoining = kind)

=============================================================================
