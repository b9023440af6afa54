------------------------ MODULE NetworkRejoinProofs ------------------------
(***************************************************************************)
(* Proofs about NetworkRejoin: for every delay and multiplier and every    *)
(* size of the stack's tables, the waits of an outage are those of the     *)
(* first, or one step of the backoff ahead of them; without the button,    *)
(* something is always under way that will look for a parent; and left     *)
(* alone the plugin tries one rejoin at a time and stops when it is told.  *)
(***************************************************************************)
EXTENDS RejoinOutages, SequenceTheorems, FiniteSetTheorems, TLAPS

(* Only an active backoff is asked to go on: the delay grows in "backoff",  *)
(* to which no other way leads.                                             *)
OnlyActiveGoesOn == pc \in {"initiate", "check", "backoff"} => active

(* The delay is 0 until the first round, then between its bounds.           *)
DelayInBounds == delay \in {0} \cup (InitialDelay..MaxDelay)

BackoffInv == OnlyActiveGoesOn /\ DelayInBounds

-----------------------------------------------------------------------------
(* tr_network_rejoin_get_backoff_delay_ms stays within the bounds.          *)
LEMMA NextDelayInBounds ==
    ASSUME NEW d \in {0} \cup (InitialDelay..MaxDelay)
    PROVE  NextDelay(d) \in InitialDelay..MaxDelay
<1>1. /\ InitialDelay \in Nat \ {0} /\ MaxDelay \in Nat /\ Multiplier \in Nat \ {0, 1}
      /\ InitialDelay <= MaxDelay
  BY RejoinAssumption
<1>2. CASE d < InitialDelay
  BY <1>1, <1>2 DEF NextDelay
<1>3. CASE d \in InitialDelay..MaxDelay
  <2>1. d * Multiplier \in Nat /\ d * Multiplier >= d
    BY <1>1, <1>3, SMTT(20)
  <2> DEFINE longer == d * Multiplier
  <2>2. NextDelay(d) \in {InitialDelay, longer, MaxDelay} /\
        (NextDelay(d) = longer => longer < MaxDelay \/ longer = MaxDelay \/ longer = InitialDelay)
    BY <1>1, <1>3, <2>1 DEF NextDelay
  <2>3. longer \in Nat /\ longer >= InitialDelay
    BY <1>1, <1>3, <2>1
  <2> HIDE DEF longer
  <2> QED
    BY <1>1, <2>2, <2>3
<1> QED
  BY <1>1, <1>2, <1>3

LEMMA BackoffStarts == Init => BackoffInv
<1> SUFFICES ASSUME Init PROVE BackoffInv
  OBVIOUS
<1>1. pc = "idle" /\ delay = 0
  BY DEF Init
<1>2. 0 <= InitialDelay
  BY RejoinAssumption
<1> QED
  BY <1>1, <1>2 DEF BackoffInv, OnlyActiveGoesOn, DelayInBounds

LEMMA BackoffSteps == BackoffInv /\ [Next]_vars => BackoffInv'
<1> SUFFICES ASSUME BackoffInv, [Next]_vars PROVE BackoffInv'
  OBVIOUS
<1>0. /\ {InitialDelay, MaxDelay} \subseteq Nat /\ InitialDelay <= MaxDelay
  BY RejoinAssumption
<1> USE DEF BackoffInv, OnlyActiveGoesOn, DelayInBounds
<1>1. CASE Advance
  BY <1>1 DEF Advance
<1>2. CASE BackoffStarted \/ AlarmFires \/ NextRejoin
  BY <1>2 DEF BackoffStarted, AlarmFires, NextRejoin, Initiate
<1>3. CASE ButtonPressed
  BY <1>0, <1>3 DEF ButtonPressed
<1>4. CASE Joined \/ NoParent
  BY <1>4 DEF Joined, NoParent, Signal
<1>5. CASE BackoffStop
  BY <1>0, <1>5 DEF BackoffStop
<1>6. CASE NextRound
  BY <1>6 DEF NextRound
<1>7. CASE Backoff
  BY <1>7, NextDelayInBounds DEF Backoff
<1>8. CASE RejoinStarts \/ RejoinForgotten \/ RejoinEnds \/ ParentLost
             \/ Leave \/ Steered \/ UNCHANGED vars
  BY <1>8 DEF RejoinStarts, RejoinForgotten, RejoinEnds, ParentLost, Leave, Steered,
              vars, params
<1> QED
  BY <1>1, <1>2, <1>3, <1>4, <1>5, <1>6, <1>7, <1>8 DEF Next, Main

-----------------------------------------------------------------------------
(* The longer the last delay, the longer the next.                          *)
LEMMA NextDelayMonotone ==
    ASSUME NEW d \in {0} \cup (InitialDelay..MaxDelay),
           NEW e \in {0} \cup (InitialDelay..MaxDelay), d <= e
    PROVE  NextDelay(d) <= NextDelay(e)
<1>1. /\ InitialDelay \in Nat \ {0} /\ MaxDelay \in Nat /\ Multiplier \in Nat \ {0, 1}
  BY RejoinAssumption
<1>2. NextDelay(d) \in InitialDelay..MaxDelay /\ NextDelay(e) \in InitialDelay..MaxDelay
  BY NextDelayInBounds
<1>3. CASE d < InitialDelay
  <2>1. NextDelay(d) = InitialDelay
    BY <1>3 DEF NextDelay
  <2> QED
    BY <1>1, <1>2, <2>1
<1>4. CASE ~(d < InitialDelay)
  <2>1. d \in InitialDelay..MaxDelay /\ e \in InitialDelay..MaxDelay
    BY <1>1, <1>4
  <2>2. e < MaxDelay /\ MaxDelay > e * Multiplier => NextDelay(d) <= NextDelay(e)
    <3> SUFFICES ASSUME e < MaxDelay, MaxDelay > e * Multiplier
                 PROVE  NextDelay(d) <= NextDelay(e)
      OBVIOUS
    <3> DEFINE next(x) == x * Multiplier
    <3>1. next(d) \in Nat /\ next(e) \in Nat /\ next(d) <= next(e) /\ MaxDelay > next(e)
      <4>1. d \in Nat /\ e \in Nat /\ Multiplier \in Nat
        BY <1>1, <2>1
      <4> QED
        BY <4>1, SMTT(30)
    <3>2. NextDelay(e) = next(e)
      BY <1>1, <2>1 DEF NextDelay
    <3>3. d < MaxDelay /\ MaxDelay > next(d) => NextDelay(d) = next(d)
      BY <1>1, <1>4 DEF NextDelay
    <3> HIDE DEF next
    <3> QED
      BY <1>1, <2>1, <3>1, <3>2, <3>3
  <2>3. ~(e < MaxDelay /\ MaxDelay > e * Multiplier) => NextDelay(e) = MaxDelay
    BY <1>1, <2>1 DEF NextDelay
  <2> QED
    BY <1>1, <1>2, <2>2, <2>3
<1> QED
  BY <1>3, <1>4

(* What the memory of an outage can be.                                     *)
FreshInBounds == fresh \in {0} \cup (InitialDelay..MaxDelay)

OutagesInv == BackoffInv /\ FreshInBounds /\ OutagesAlike

LEMMA OutagesStart == OutagesInit => OutagesInv
<1> SUFFICES ASSUME OutagesInit PROVE OutagesInv
  OBVIOUS
<1>1. delay = 0 /\ fresh = 0
  BY DEF OutagesInit, Init
<1>2. NextDelay(0) \in InitialDelay..MaxDelay /\ InitialDelay \in Nat /\ MaxDelay \in Nat
  BY NextDelayInBounds, RejoinAssumption
<1>3. OutagesAlike /\ FreshInBounds
  BY <1>1, <1>2 DEF OutagesAlike, FreshInBounds
<1> QED
  BY <1>3, BackoffStarts DEF OutagesInv, OutagesInit

(* Of the steps only three touch the delay: the end of a round, the join    *)
(* that ends the outage, and the button.                                    *)
LEMMA DelaySteps ==
    ASSUME Next
    PROVE  /\ user' = user
           /\ \/ Backoff
              \/ BackoffStop
              \/ /\ ~(pc \in {"stop", "backoff"} /\ pc' = "idle")
                 /\ delay' = delay
              \/ ButtonPressed
<1>1. CASE Advance
  BY <1>1 DEF Advance, stack
<1>2. CASE BackoffStarted \/ AlarmFires \/ NextRejoin
  BY <1>2 DEF BackoffStarted, AlarmFires, NextRejoin, Initiate
<1>3. CASE ButtonPressed
  BY <1>3 DEF ButtonPressed
<1>4. CASE Joined \/ NoParent
  BY <1>4 DEF Joined, NoParent, Signal
<1>5. CASE BackoffStop \/ Backoff
  BY <1>5 DEF BackoffStop, Backoff, stack
<1>6. CASE NextRound
  BY <1>6 DEF NextRound, stack
<1>7. CASE RejoinStarts \/ RejoinForgotten \/ RejoinEnds \/ ParentLost \/ Leave \/ Steered
  BY <1>7 DEF RejoinStarts, RejoinForgotten, RejoinEnds, ParentLost, Leave, Steered, params
<1> QED
  BY <1>1, <1>2, <1>3, <1>4, <1>5, <1>6, <1>7 DEF Next, Main

LEMMA OutagesSteps == OutagesInv /\ [OutagesNext]_<<vars, fresh>> => OutagesInv'
<1> SUFFICES ASSUME OutagesInv, [OutagesNext]_<<vars, fresh>> PROVE OutagesInv'
  OBVIOUS
<1>1. BackoffInv'
  BY BackoffSteps DEF OutagesInv, OutagesNext, vars
<1>2. /\ InitialDelay \in Nat \ {0} /\ MaxDelay \in Nat /\ InitialDelay <= MaxDelay
      /\ delay \in {0} \cup (InitialDelay..MaxDelay)
      /\ fresh \in {0} \cup (InitialDelay..MaxDelay)
      /\ delay <= NextDelay(fresh) /\ (user # "button" => fresh <= delay)
      /\ NextDelay(fresh) \in InitialDelay..MaxDelay
  BY RejoinAssumption, NextDelayInBounds
     DEF OutagesInv, BackoffInv, DelayInBounds, FreshInBounds, OutagesAlike
<1>3. FreshInBounds' /\ OutagesAlike'
  <2>1. CASE UNCHANGED <<vars, fresh>>
    BY <1>2, <2>1 DEF vars, params, stack, FreshInBounds, OutagesAlike, NextDelay
  <2>2. CASE OutagesNext /\ Backoff
    <3> DEFINE d == NextDelay(delay)
               f == NextDelay(fresh)
    <3>1. delay' = d /\ fresh' = f /\ user' = user
      BY <2>2, DelaySteps DEF OutagesNext, Backoff
    <3>2. d \in InitialDelay..MaxDelay /\ f \in InitialDelay..MaxDelay
      BY <1>2, NextDelayInBounds
    <3>3. d <= NextDelay(f)
      <4> HIDE DEF f
      <4> QED
        BY <1>2, <3>2, NextDelayMonotone DEF f
    <3>4. user # "button" => f <= d
      BY <1>2, NextDelayMonotone
    <3> HIDE DEF d, f
    <3> QED
      BY <3>1, <3>2, <3>3, <3>4 DEF FreshInBounds, OutagesAlike, NextDelay
  <2>3. CASE OutagesNext /\ BackoffStop
    <3>1. delay' = InitialDelay /\ fresh' = 0
      BY <2>3 DEF OutagesNext, BackoffStop
    <3>2. NextDelay(0) = InitialDelay
      BY <1>2 DEF NextDelay
    <3> QED
      BY <1>2, <3>1, <3>2 DEF FreshInBounds, OutagesAlike, NextDelay
  <2>4. CASE OutagesNext /\ ~(pc \in {"stop", "backoff"} /\ pc' = "idle") /\ delay' = delay
    <3>1. fresh' = fresh /\ user' = user
      BY <2>4, DelaySteps DEF OutagesNext
    <3> QED
      BY <1>2, <2>4, <3>1 DEF FreshInBounds, OutagesAlike, NextDelay
  <2>5. CASE OutagesNext /\ ButtonPressed
    <3>1. delay' = InitialDelay /\ user' = "button" /\ fresh' \in {0, fresh, NextDelay(fresh)}
      BY <2>5 DEF OutagesNext, ButtonPressed
    <3>2. fresh' \in {0} \cup (InitialDelay..MaxDelay)
      BY <1>2, <3>1
    <3> DEFINE f == fresh'
    <3>3. InitialDelay <= NextDelay(f)
      <4> HIDE DEF f
      <4> QED
        BY <1>2, <3>2, NextDelayInBounds DEF f
    <3> QED
      BY <1>2, <3>1, <3>2, <3>3 DEF FreshInBounds, OutagesAlike, NextDelay
  <2> QED
    BY <2>1, <2>2, <2>3, <2>4, <2>5, DelaySteps DEF OutagesNext
<1> QED
  BY <1>1, <1>3 DEF OutagesInv

-----------------------------------------------------------------------------
(* An outage's waits are those of the first, or one step of the backoff     *)
(* ahead, whatever the last outages, the button and a leave did; only the   *)
(* button makes them shorter.                                               *)
THEOREM OutagesAreAlike == OutagesSpec => []OutagesAlike
<1>1. OutagesInv => OutagesAlike
  BY DEF OutagesInv
<1> QED
  BY <1>1, OutagesStart, OutagesSteps, PTL DEF OutagesSpec

(* The delay is never beyond TR_NWK_REJOIN_MAX_DELAY_SEC, nor, once there  *)
(* is one, short of TR_NWK_REJOIN_INITIAL_DELAY_SEC.                        *)
THEOREM DelayBounded == Spec => []DelayInBounds
<1>1. BackoffInv => DelayInBounds
  BY DEF BackoffInv
<1> QED
  BY <1>1, BackoffStarts, BackoffSteps, PTL DEF Spec

-----------------------------------------------------------------------------
(* Type correctness, for every user.                                        *)
Signals == {"joined", "no_parent"}

FlagsOK ==
    active \in BOOLEAN /\ linked \in BOOLEAN /\ member \in BOOLEAN /\ (linked => member)

PlanOK ==
    /\ DelayInBounds /\ type \in 1..7 /\ alarms \in 0..MaxAlarms
    /\ pc \in {"idle", "initiate", "advance", "check", "backoff", "stop"}
    /\ trying \in 0..6 /\ (trying # 0 <=> pc = "advance")

CallsOK ==
    /\ queued \in Seq(1..6) /\ Len(queued) <= MaxQueued /\ rejoining \in 0..6
    /\ signals \in Seq(Signals) /\ Len(signals) <= MaxSignals
    /\ user \in Users

LEMMA TypeParts == TypeOK <=> FlagsOK /\ PlanOK /\ CallsOK
<1>1. {0} \cup Kinds = 0..6 /\ Kinds \cup {DONE} = 1..7 /\ Kinds = 1..6
  BY DEF Kinds, DONE
<1> QED
  BY <1>1, Zenon DEF TypeOK, FlagsOK, PlanOK, CallsOK, Signals, DelayInBounds

LEMMA BoundsFacts ==
    /\ InitialDelay \in Nat \ {0} /\ MaxDelay \in Nat \ {0} /\ InitialDelay <= MaxDelay
    /\ MaxQueued \in Nat \ {0} /\ MaxAlarms \in Nat \ {0} /\ MaxSignals \in Nat \ {0}
    /\ Kinds = 1..6 /\ DONE = 7
  BY RejoinAssumption DEF Kinds, DONE

LEMMA SequenceFacts ==
    ASSUME NEW S, NEW s \in Seq(S)
    PROVE  /\ Len(s) \in Nat
           /\ s # <<>> => /\ Head(s) \in S /\ Tail(s) \in Seq(S)
                          /\ Len(Tail(s)) = Len(s) - 1 /\ Len(s) >= 1
           /\ s = <<>> => Len(s) = 0
           /\ \A x \in S : Append(s, x) \in Seq(S) /\ Len(Append(s, x)) = Len(s) + 1
                            /\ Append(s, x) # <<>>
<1>1. s # <<>> => Head(s) \in S /\ Tail(s) \in Seq(S) /\ Len(Tail(s)) = Len(s) - 1
  BY HeadTailProperties
<1>2. s # <<>> => Len(s) >= 1
  BY EmptySeq, LenProperties
<1> QED
  BY <1>1, <1>2, AppendProperties

(* tr_initiate_rejoin, from the main loop or from an alarm, and what it     *)
(* comes to.                                                                *)
LEMMA InitiateFacts ==
    ASSUME PlanOK, CallsOK, NEW pending \in 0..MaxAlarms, Initiate(pending)
    PROVE  /\ UNCHANGED <<active, delay, type, rejoining, linked, signals, member, user>>
           /\ \/ /\ rejoining # 0 /\ pc' = "idle" /\ trying' = 0 /\ queued' = queued
                 /\ alarms' \in 1..MaxAlarms /\ alarms' <= pending + 1
              \/ /\ rejoining = 0 /\ pc' = "idle" /\ trying' = 0 /\ queued' = queued
                 /\ alarms' = pending /\ type = 7
              \/ /\ rejoining = 0 /\ pc' = "advance" /\ trying' = type /\ type \in 1..6
                 /\ alarms' = pending
                 /\ queued' \in Seq(1..6) /\ Len(queued') <= MaxQueued
                 /\ Len(queued') >= 1 /\ Len(queued') <= Len(queued) + 1
<1>1. UNCHANGED <<active, delay, type, rejoining, linked, signals, member, user>>
  BY DEF Initiate, Later, Stop
<1>2. CASE Later(pending) /\ pc' = "idle" /\ trying' = 0
  BY <1>1, <1>2, BoundsFacts DEF Later, SetAlarm
<1>3. CASE Stop(pending) /\ pc' = "idle" /\ trying' = 0
  BY <1>1, <1>3, BoundsFacts DEF Stop
<1>4. CASE Try(pending) /\ pc' = "advance" /\ trying' = type /\ UNCHANGED type
  <2>1. rejoining = 0 /\ type \in 1..6 /\ alarms' = pending /\ Ask(type)
    BY <1>4, BoundsFacts DEF Try
  <2>2. queued \in Seq(1..6) /\ Len(queued) <= MaxQueued /\ Len(queued) \in Nat
    BY SequenceFacts DEF CallsOK
  <2>3. /\ queued' \in Seq(1..6) /\ Len(queued') <= MaxQueued
        /\ Len(queued') >= 1 /\ Len(queued') <= Len(queued) + 1
    BY <2>1, <2>2, BoundsFacts, SequenceFacts DEF Ask
  <2> QED
    BY <1>1, <1>4, <2>1, <2>3
<1> QED
  BY <1>1, <1>2, <1>3, <1>4 DEF Initiate

LEMMA InitiateType ==
    ASSUME TypeOK, NEW pending \in 0..MaxAlarms, Initiate(pending)
    PROVE  TypeOK'
<1>1. FlagsOK /\ PlanOK /\ CallsOK
  BY TypeParts
<1>2. /\ UNCHANGED <<active, delay, type, rejoining, linked, signals, member, user>>
      /\ \/ /\ rejoining # 0 /\ pc' = "idle" /\ trying' = 0 /\ queued' = queued
            /\ alarms' \in 1..MaxAlarms
         \/ /\ pc' = "idle" /\ trying' = 0 /\ queued' = queued /\ alarms' = pending
         \/ /\ pc' = "advance" /\ trying' = type /\ type \in 1..6 /\ alarms' = pending
            /\ queued' \in Seq(1..6) /\ Len(queued') <= MaxQueued
  BY <1>1, InitiateFacts
<1>3. FlagsOK'
  BY <1>1, <1>2 DEF FlagsOK
<1>4. PlanOK'
  <2>1. alarms' \in 0..MaxAlarms /\ trying' \in 0..6 /\ (trying' # 0 <=> pc' = "advance")
    BY <1>2, BoundsFacts
  <2> QED
    BY <1>1, <1>2, <2>1 DEF PlanOK, DelayInBounds
<1>5. CallsOK'
  BY <1>1, <1>2 DEF CallsOK
<1> QED
  BY <1>3, <1>4, <1>5, TypeParts, PTL

LEMMA ButtonType ==
    ASSUME TypeOK, ButtonPressed
    PROVE  TypeOK'
<1> DEFINE left == IF alarms > 0 THEN alarms - 1 ELSE 0
<1>1. /\ UNCHANGED <<active, pc, trying, rejoining, linked, signals, member, user>>
      /\ delay' = InitialDelay
      /\ Later(left) \/ Stop(left) \/ (Try(left) /\ type' = NextKind(type))
  BY DEF ButtonPressed
<1>2. FlagsOK /\ PlanOK /\ CallsOK
  BY TypeParts
<1>3. left \in 0..MaxAlarms
  BY <1>2, BoundsFacts DEF PlanOK
<1> HIDE DEF left
<1>4. /\ alarms' \in 0..MaxAlarms /\ type' \in 1..7
      /\ queued' \in Seq(1..6) /\ Len(queued') <= MaxQueued
  <2>1. type \in 1..7 /\ queued \in Seq(1..6) /\ Len(queued) <= MaxQueued
    BY <1>2 DEF PlanOK, CallsOK
  <2>2. CASE Later(left)
    BY <1>3, <2>1, <2>2, BoundsFacts DEF Later, SetAlarm
  <2>3. CASE Stop(left)
    BY <1>3, <2>1, <2>3 DEF Stop
  <2>4. CASE Try(left) /\ type' = NextKind(type)
    <3>1. type \in 1..6 /\ alarms' = left /\ Ask(type) /\ type' = type + 1
      BY <2>4, BoundsFacts DEF Try, NextKind
    <3>2. queued' \in Seq(1..6) /\ Len(queued') <= MaxQueued
      BY <2>1, <3>1, BoundsFacts, SequenceFacts DEF Ask
    <3> QED
      BY <1>3, <3>1, <3>2
  <2> QED
    BY <1>1, <2>2, <2>3, <2>4
<1>5. FlagsOK'
  BY <1>1, <1>2 DEF FlagsOK
<1>6. PlanOK'
  BY <1>1, <1>2, <1>4, BoundsFacts DEF PlanOK, DelayInBounds
<1>7. CallsOK'
  BY <1>1, <1>2, <1>4 DEF CallsOK
<1> QED
  BY <1>5, <1>6, <1>7, TypeParts, PTL

(* What happens to the signals on their way.                                *)
LEMMA SignalFacts ==
    ASSUME CallsOK, NEW s \in Signals
    PROVE  /\ Raise(s) => /\ signals' \in Seq(Signals) /\ Len(signals') <= MaxSignals
                          /\ signals' = Append(signals, s)
           /\ Signal(s) => /\ signals' \in Seq(Signals) /\ Len(signals') <= MaxSignals
                           /\ signals # <<>> /\ signals' = Tail(signals) /\ Head(signals) = s
<1>1. /\ signals \in Seq(Signals) /\ Len(signals) <= MaxSignals /\ Len(signals) \in Nat
      /\ MaxSignals \in Nat
  BY BoundsFacts, SequenceFacts DEF CallsOK
<1> QED
  BY <1>1, SequenceFacts DEF Raise, Signal

LEMMA StackType ==
    ASSUME TypeOK, RejoinStarts \/ RejoinForgotten \/ RejoinEnds \/ ParentLost \/ Leave \/ Steered
    PROVE  TypeOK'
<1>1. UNCHANGED <<active, delay, type, alarms, pc, trying, user>>
  BY DEF RejoinStarts, RejoinForgotten, RejoinEnds, ParentLost, Leave, Steered, params
<1>2. FlagsOK /\ PlanOK /\ CallsOK
  BY TypeParts
<1>3. /\ queued \in Seq(1..6) /\ Len(queued) \in Nat /\ Len(queued) <= MaxQueued
      /\ rejoining \in 0..6 /\ signals \in Seq(Signals) /\ Len(signals) <= MaxSignals
  BY <1>2, SequenceFacts DEF CallsOK
<1>4. FlagsOK'
  <2>1. CASE RejoinStarts \/ ParentLost \/ Leave
    BY <1>1, <1>2, <2>1 DEF FlagsOK, RejoinStarts, ParentLost, Leave
  <2>2. CASE RejoinForgotten
    BY <1>1, <1>2, <2>2 DEF FlagsOK, RejoinForgotten
  <2>3. CASE RejoinEnds
    <3>1. (member /\ linked' = TRUE) \/ linked' = linked
      BY <2>3, Zenon DEF RejoinEnds
    <3>2. member' = member
      BY <2>3, Zenon DEF RejoinEnds
    <3>3. active' = active
      BY <1>1
    <3>4. CASE member /\ linked' = TRUE
      BY <1>2, <3>2, <3>3, <3>4 DEF FlagsOK
    <3>5. CASE linked' = linked
      BY <1>2, <3>2, <3>3, <3>5 DEF FlagsOK
    <3> QED
      BY <3>1, <3>4, <3>5
  <2>4. CASE Steered
    BY <1>1, <1>2, <2>4 DEF FlagsOK, Steered
  <2> QED
    BY <2>1, <2>2, <2>3, <2>4
<1>5. PlanOK'
  BY <1>1, <1>2 DEF PlanOK, DelayInBounds
<1>6. queued' \in Seq(1..6) /\ Len(queued') <= MaxQueued /\ rejoining' \in 0..6
  <2>1. CASE RejoinStarts \/ RejoinForgotten
    <3>1. queued # <<>> /\ queued' = Tail(queued) /\ rejoining' \in {rejoining, Head(queued)}
      BY <2>1 DEF RejoinStarts, RejoinForgotten
    <3> QED
      BY <1>3, <3>1, BoundsFacts, SequenceFacts
  <2>2. CASE RejoinEnds \/ ParentLost \/ Steered
    <3>1. queued' = queued /\ rejoining' \in {0, rejoining}
      BY <2>2, Zenon DEF RejoinEnds, ParentLost, Steered
    <3> QED
      BY <1>3, <3>1
  <2>3. CASE Leave
    BY <2>3, BoundsFacts DEF Leave
  <2> QED
    BY <2>1, <2>2, <2>3
<1>7. signals' \in Seq(Signals) /\ Len(signals') <= MaxSignals
  <2>1. "joined" \in Signals /\ "no_parent" \in Signals
    BY DEF Signals
  <2>2. CASE RejoinEnds \/ ParentLost \/ Steered
    BY <1>2, <2>1, <2>2, SignalFacts DEF RejoinEnds, ParentLost, Steered
  <2>3. CASE RejoinStarts \/ RejoinForgotten
    BY <1>3, <2>3 DEF RejoinStarts, RejoinForgotten
  <2>4. CASE Leave
    BY <2>4, BoundsFacts DEF Leave
  <2> QED
    BY <2>2, <2>3, <2>4
<1>8. CallsOK'
  BY <1>1, <1>2, <1>6, <1>7 DEF CallsOK
<1> QED
  BY <1>4, <1>5, <1>8, TypeParts, PTL

LEMMA MainType ==
    ASSUME TypeOK, Advance \/ Joined \/ BackoffStop \/ NoParent \/ NextRound \/ Backoff
    PROVE  TypeOK'
<1>1. UNCHANGED <<queued, rejoining, linked, member, user>>
  BY DEF Advance, Joined, BackoffStop, NoParent, NextRound, Backoff, stack
<1>2. FlagsOK /\ PlanOK /\ CallsOK
  BY TypeParts
<1>3. FlagsOK'
  BY <1>1, <1>2
     DEF FlagsOK, Advance, Joined, BackoffStop, NoParent, NextRound, Backoff, stack
<1>4. signals' \in Seq(Signals) /\ Len(signals') <= MaxSignals
  <2>1. "joined" \in Signals /\ "no_parent" \in Signals
    BY DEF Signals
  <2>2. CASE Joined \/ NoParent
    BY <1>2, <2>1, <2>2, SignalFacts DEF Joined, NoParent
  <2>3. CASE Advance \/ BackoffStop \/ NextRound \/ Backoff
    BY <1>2, <2>3 DEF Advance, BackoffStop, NextRound, Backoff, stack, CallsOK
  <2> QED
    BY <2>2, <2>3
<1>5. CallsOK'
  BY <1>1, <1>2, <1>4 DEF CallsOK
<1>6. delay' \in {0} \cup (InitialDelay..MaxDelay)
  <2>1. delay \in {0} \cup (InitialDelay..MaxDelay)
    BY <1>2 DEF PlanOK, DelayInBounds
  <2>2. CASE BackoffStop
    BY <2>2, BoundsFacts DEF BackoffStop
  <2>3. CASE Backoff
    BY <2>1, <2>3, NextDelayInBounds DEF Backoff
  <2> QED
    BY <2>1, <2>2, <2>3 DEF Advance, Joined, NoParent, NextRound
<1>7. /\ alarms' \in 0..MaxAlarms /\ type' \in 1..7
      /\ pc' \in {"idle", "initiate", "advance", "check", "backoff", "stop"}
      /\ trying' \in 0..6 /\ (trying' # 0 <=> pc' = "advance")
  <2>1. type \in 1..7 /\ alarms \in 0..MaxAlarms /\ trying \in 0..6 /\ (trying # 0 <=> pc = "advance")
    BY <1>2 DEF PlanOK
  <2>2. CASE Advance
    BY <2>1, <2>2 DEF Advance, NextKind
  <2>3. CASE Joined \/ NoParent
    <3>1. pc = "idle" /\ trying' = trying /\ alarms' = alarms /\ type' \in {1, type}
          /\ pc' \in {"idle", "initiate", "check", "stop"}
      BY <2>3 DEF Joined, NoParent, Signal
    <3> QED
      BY <2>1, <3>1
  <2>4. CASE BackoffStop \/ NextRound
    BY <2>1, <2>4 DEF BackoffStop, NextRound
  <2>5. CASE Backoff
    BY <2>1, <2>5, BoundsFacts DEF Backoff, SetAlarm
  <2> QED
    BY <2>2, <2>3, <2>4, <2>5
<1>8. PlanOK'
  BY <1>6, <1>7 DEF PlanOK, DelayInBounds
<1> QED
  BY <1>3, <1>5, <1>8, TypeParts, PTL

LEMMA InitType == Init => TypeOK
<1> SUFFICES ASSUME Init PROVE TypeOK
  OBVIOUS
<1>1. FlagsOK
  BY DEF Init, FlagsOK
<1>2. alarms = 0 /\ type = 1 /\ delay = 0 /\ pc = "idle" /\ trying = 0
  BY DEF Init
<1>3. PlanOK
  BY <1>2, BoundsFacts DEF PlanOK, DelayInBounds
<1>4. queued = <<>> /\ signals = <<"no_parent">>
  BY DEF Init
<1>5. rejoining = 0 /\ user \in Users
  BY DEF Init
<1>6. CallsOK
  <2>1. <<>> \in Seq(1..6) /\ Len(<<>>) = 0 /\ 0 <= MaxQueued /\ 0 \in 0..6
    BY BoundsFacts
  <2>2. <<"no_parent">> \in Seq(Signals) /\ Len(<<"no_parent">>) = 1 /\ 1 <= MaxSignals
    BY BoundsFacts DEF Signals
  <2> QED
    BY <1>4, <1>5, <2>1, <2>2, Zenon DEF CallsOK
<1> QED
  BY <1>1, <1>3, <1>6, TypeParts

LEMMA NextType == TypeOK /\ [Next]_vars => TypeOK'
<1> SUFFICES ASSUME TypeOK, [Next]_vars PROVE TypeOK'
  OBVIOUS
<1>0. alarms \in 0..MaxAlarms
  BY TypeParts DEF PlanOK
<1>1. CASE BackoffStarted \/ NextRejoin
  BY <1>0, <1>1, InitiateType DEF BackoffStarted, NextRejoin
<1>2. CASE AlarmFires
  <2>1. alarms - 1 \in 0..MaxAlarms /\ Initiate(alarms - 1)
    BY <1>0, <1>2, BoundsFacts DEF AlarmFires
  <2> QED
    BY <2>1, InitiateType
<1>3. CASE Advance \/ Joined \/ BackoffStop \/ NoParent \/ NextRound \/ Backoff
  BY <1>3, MainType
<1>4. CASE RejoinStarts \/ RejoinForgotten \/ RejoinEnds \/ ParentLost \/ Leave \/ Steered
  BY <1>4, StackType
<1>5. CASE UNCHANGED vars
  BY <1>5, Zenon DEF vars, params, stack, TypeOK
<1> QED
  BY <1>1, <1>2, <1>3, <1>4, <1>5, ButtonType DEF Next, Main

-----------------------------------------------------------------------------
(* Counting what is under way: each of these will sooner or later lead to a *)
(* rejoin, or is what a rejoin has led to.                                  *)
One(b) == IF b THEN 1 ELSE 0

LostIn(s) == Cardinality({i \in 1..Len(s) : s[i] = "no_parent"})

Attempting == pc \in {"initiate", "check", "backoff"}

Asked == Len(queued)
Rejoins == One(rejoining # 0)
Links == One(linked)
Lost == LostIn(signals)
Attempts == One(Attempting)

UnderWay == alarms + Asked + Rejoins + Links + Lost + Attempts

(* There is never more than one, two if the user leaves the network while   *)
(* an alarm is pending; and there is one as long as there is no parent.     *)
FewUnderWay ==
    /\ alarms <= 1
    /\ UnderWay <= 2 /\ (~member \/ user = "nobody" => UnderWay <= 1)
    /\ member /\ ~linked => UnderWay >= 1

(* Which kinds of rejoin may be next, so that no alarm finds none left.     *)
KindsAhead ==
    /\ pc = "advance" => trying = type
    /\ pc \in {"stop", "backoff"} => type = 1
    /\ pc \in {"check", "backoff"} => alarms = 0
    /\ pc = "initiate" \/ ~active => type + alarms + One(pc = "advance") <= 2
    /\ alarms > 0 => type # DONE /\ trying # 6

(* Left to itself the plugin has nothing under way unless it is active, and *)
(* a lost parent is the last thing it heard of.                             *)
Busy == alarms > 0 \/ queued # <<>> \/ rejoining # 0 \/ Attempting

Undisturbed ==
    /\ member
    /\ Busy => active /\ signals = <<>> /\ pc # "stop"
    /\ \A i \in 1..Len(signals) : signals[i] = "no_parent" => i = Len(signals)

RejoinInv ==
    /\ TypeOK /\ OnlyActiveGoesOn
    /\ user # "button" => FewUnderWay /\ KindsAhead
    /\ user = "nobody" => Undisturbed

-----------------------------------------------------------------------------
LEMMA LostFinite ==
    ASSUME NEW s \in Seq(Signals)
    PROVE  /\ IsFiniteSet({i \in 1..Len(s) : s[i] = "no_parent"})
           /\ LostIn(s) \in Nat
           /\ LostIn(s) = 0 <=> \A i \in 1..Len(s) : s[i] # "no_parent"
<1> DEFINE L == {i \in 1..Len(s) : s[i] = "no_parent"}
<1>0. 1 \in Int /\ Len(s) \in Int
  BY SequenceFacts
<1>1. IsFiniteSet(1..Len(s)) /\ L \in SUBSET (1..Len(s))
  BY <1>0, FS_Interval
<1>2. IsFiniteSet(L)
  BY <1>1, FS_Subset
<1>3. Cardinality(L) \in Nat
  BY <1>2, FS_CardinalityType
<1>4. Cardinality(L) = 0 <=> L = {}
  BY <1>2, FS_EmptySet
<1> QED
  BY <1>2, <1>3, <1>4 DEF LostIn

LEMMA LostAppend ==
    ASSUME NEW s \in Seq(Signals), NEW x \in Signals
    PROVE  LostIn(Append(s, x)) = LostIn(s) + One(x = "no_parent")
<1> DEFINE t == Append(s, x)
           n == Len(s)
           L == {i \in 1..n : s[i] = "no_parent"}
           M == {i \in 1..(n + 1) : t[i] = "no_parent"}
<1>1. /\ n \in Nat /\ Len(t) = n + 1
      /\ \A i \in 1..n : t[i] = s[i]
      /\ t[n + 1] = x
  BY SequenceFacts, AppendProperties
<1>2. IsFiniteSet(L) /\ LostIn(s) = Cardinality(L) /\ LostIn(t) = Cardinality(M)
      /\ Cardinality(L) \in Nat
  BY <1>1, LostFinite DEF LostIn
<1> HIDE DEF t, n
<1>3. CASE x = "no_parent"
  <2>1. M = L \cup {n + 1} /\ n + 1 \notin L
    BY <1>1, <1>3
  <2>2. Cardinality(M) = Cardinality(L) + 1
    BY <1>2, <2>1, FS_AddElement
  <2>3. One(x = "no_parent") = 1
    BY <1>3 DEF One
  <2> QED
    BY <1>2, <2>2, <2>3 DEF t
<1>4. CASE x # "no_parent"
  <2>1. M = L
    BY <1>1, <1>4
  <2>2. One(x = "no_parent") = 0
    BY <1>4 DEF One
  <2> HIDE DEF M, L
  <2> QED
    BY <1>2, <2>1, <2>2 DEF t
<1> QED
  BY <1>3, <1>4

LEMMA LostTail ==
    ASSUME NEW s \in Seq(Signals), s # <<>>
    PROVE  LostIn(s) = LostIn(Tail(s)) + One(Head(s) = "no_parent")
<1> DEFINE t == Tail(s)
           n == Len(t)
           L == {i \in 1..(n + 1) : s[i] = "no_parent"}
           M == {i \in 1..n : t[i] = "no_parent"}
           R == L \ {1}
           f == [i \in R |-> i - 1]
<1>1. /\ n \in Nat /\ Len(s) = n + 1 /\ t \in Seq(Signals)
      /\ \A i \in 1..n : t[i] = s[i + 1]
      /\ Head(s) = s[1]
  BY SequenceFacts, HeadTailProperties
<1>2. IsFiniteSet(L) /\ LostIn(s) = Cardinality(L) /\ LostIn(t) = Cardinality(M)
      /\ Cardinality(L) \in Nat
  BY <1>1, LostFinite DEF LostIn
<1>3. IsFiniteSet(R)
  BY <1>2, FS_RemoveElement
<1> HIDE DEF t, n
<1>4. \A i \in R : i - 1 \in M /\ i \in Int
  BY <1>1
<1>5. \A j \in M : j + 1 \in R /\ (j + 1) - 1 = j
  BY <1>1
<1>10. 1 \in L <=> Head(s) = "no_parent"
  BY <1>1
<1>9. Cardinality(R) = IF 1 \in L THEN Cardinality(L) - 1 ELSE Cardinality(L)
  BY <1>2, FS_RemoveElement
<1> HIDE DEF R, M, L
<1>6. f \in [R -> M] /\ \A i \in R, k \in R : f[i] = f[k] => i = k
  BY <1>4
<1>7. \A j \in M : \E i \in R : f[i] = j
  BY <1>5
<1> HIDE DEF f
<1>8. f \in Bijection(R, M)
  BY <1>6, <1>7 DEF Bijection, Injection, Surjection, IsInjective
<1>11. Cardinality(M) = Cardinality(R)
  BY <1>3, <1>8, FS_Bijection DEF ExistsBijection
<1>12. LostIn(s) = LostIn(t) + One(Head(s) = "no_parent")
  BY <1>2, <1>9, <1>10, <1>11 DEF One
<1> QED
  BY <1>12 DEF t

LEMMA LostEmpty == LostIn(<<>>) = 0
<1>1. <<>> \in Seq(Signals) /\ 1..Len(<<>>) = {}
  OBVIOUS
<1> QED
  BY <1>1, LostFinite

-----------------------------------------------------------------------------
(* The numbers that are added up, and when they are 0.                      *)
Tally ==
    /\ alarms \in Nat /\ Asked \in Nat /\ Lost \in Nat
    /\ Rejoins \in 0..1 /\ Links \in 0..1 /\ Attempts \in 0..1
    /\ UnderWay = alarms + Asked + Rejoins + Links + Lost + Attempts /\ UnderWay \in Nat
    /\ rejoining # 0 <=> Rejoins = 1
    /\ linked <=> Links = 1
    /\ Attempting <=> Attempts = 1
    /\ queued # <<>> <=> Asked >= 1
    /\ signals = <<>> => Lost = 0

LEMMA Tallied == TypeOK => Tally
<1> SUFFICES ASSUME TypeOK PROVE Tally
  OBVIOUS
<1>1. alarms \in Nat
  BY TypeParts DEF PlanOK
<1>2. queued \in Seq(1..6) /\ signals \in Seq(Signals)
  BY TypeParts DEF CallsOK
<1>3. Asked \in Nat /\ (queued # <<>> <=> Asked >= 1)
  BY <1>2, SequenceFacts DEF Asked
<1>4. Lost \in Nat /\ (signals = <<>> => Lost = 0)
  BY <1>2, LostFinite, LostEmpty DEF Lost
<1>5. /\ Rejoins \in 0..1 /\ Links \in 0..1 /\ Attempts \in 0..1
      /\ rejoining # 0 <=> Rejoins = 1
      /\ linked <=> Links = 1
      /\ Attempting <=> Attempts = 1
  BY DEF One, Rejoins, Links, Attempts
<1>6. UnderWay = alarms + Asked + Rejoins + Links + Lost + Attempts /\ UnderWay \in Nat
  BY <1>1, <1>3, <1>4, <1>5 DEF UnderWay
<1> QED
  BY <1>1, <1>3, <1>4, <1>5, <1>6 DEF Tally

LEMMA TalliedNext == TypeOK' => Tally'
  BY Tallied, PTL

Something ==
    alarms >= 1 \/ Asked >= 1 \/ Rejoins = 1 \/ Links = 1 \/ Lost >= 1 \/ Attempts = 1

LEMMA SomethingCounts == TypeOK /\ Something => UnderWay >= 1
  BY Tallied DEF Tally, Something

LEMMA SomethingCountsNext == TypeOK' /\ Something' => UnderWay' >= 1
<1> DEFINE Counts == UnderWay >= 1
<1>1. TypeOK /\ Something => Counts
  BY SomethingCounts
<1>2. TypeOK' /\ Something' => Counts'
  BY <1>1, PTL
<1> QED
  BY <1>2

(* What a step adds to each number, at most, and to their sum.              *)
Shift(a, q, r, l, s, t) ==
    /\ alarms' <= alarms + a /\ Asked' <= Asked + q /\ Rejoins' <= Rejoins + r
    /\ Links' <= Links + l /\ Lost' <= Lost + s /\ Attempts' <= Attempts + t

LEMMA Shifted ==
    ASSUME TypeOK, TypeOK', NEW a \in Int, NEW q \in Int, NEW r \in Int, NEW l \in Int,
           NEW s \in Int, NEW t \in Int, Shift(a, q, r, l, s, t)
    PROVE  /\ a + q + r + l + s + t <= 0 => UnderWay' <= UnderWay
           /\ a + q + r + l + s + t <= 1 => UnderWay' <= UnderWay + 1
<1> DEFINE a1 == alarms' q1 == Asked' r1 == Rejoins' l1 == Links' s1 == Lost' t1 == Attempts'
           u1 == UnderWay'
<1>1. Tally /\ Tally'
  BY Tallied, TalliedNext
<1>2. /\ a1 \in Nat /\ q1 \in Nat /\ r1 \in 0..1 /\ l1 \in 0..1 /\ s1 \in Nat /\ t1 \in 0..1
      /\ u1 = a1 + q1 + r1 + l1 + s1 + t1
  BY <1>1 DEF Tally
<1>3. /\ alarms \in Nat /\ Asked \in Nat /\ Rejoins \in 0..1 /\ Links \in 0..1 /\ Lost \in Nat
      /\ Attempts \in 0..1 /\ UnderWay = alarms + Asked + Rejoins + Links + Lost + Attempts
  BY <1>1 DEF Tally
<1>4. /\ a1 <= alarms + a /\ q1 <= Asked + q /\ r1 <= Rejoins + r
      /\ l1 <= Links + l /\ s1 <= Lost + s /\ t1 <= Attempts + t
  BY DEF Shift
<1>5. /\ a + q + r + l + s + t <= 0 => u1 <= UnderWay
      /\ a + q + r + l + s + t <= 1 => u1 <= UnderWay + 1
  <2> HIDE DEF a1, q1, r1, l1, s1, t1, u1
  <2> QED
    BY <1>2, <1>3, <1>4
<1> QED
  BY <1>5

(* A step that ends nothing without something else going on.                *)
LEMMA FewKept ==
    ASSUME TypeOK, TypeOK', FewUnderWay, member' = member, user' = user, alarms' <= 1,
           UnderWay' <= UnderWay,
           UnderWay' >= 1 \/ (UnderWay' = UnderWay /\ linked' = linked)
    PROVE  FewUnderWay'
<1>1. UnderWay \in Nat /\ UnderWay' \in Nat
  BY Tallied, TalliedNext DEF Tally
<1>2. UnderWay' <= 2 /\ (~member' \/ user' = "nobody" => UnderWay' <= 1)
  BY <1>1 DEF FewUnderWay
<1>3. member' /\ ~linked' => UnderWay' >= 1
  BY <1>1 DEF FewUnderWay
<1> QED
  BY <1>2, <1>3 DEF FewUnderWay

(* tr_initiate_rejoin, wherever it is called from (but for the button).     *)
Calls(pending) ==
    \/ pc = "idle" /\ pending = alarms - 1
    \/ pc = "initiate" /\ pending = alarms
    \/ pc = "check" /\ pending = alarms /\ type # DONE

LEMMA InitiateAlone ==
    ASSUME TypeOK, TypeOK', OnlyActiveGoesOn, FewUnderWay, KindsAhead,
           NEW pending \in 0..MaxAlarms, Initiate(pending),
           Calls(pending)
    PROVE  FewUnderWay' /\ KindsAhead'
<1>1. PlanOK /\ CallsOK
  BY TypeParts
<1>2. type \in 1..7 /\ alarms \in 0..MaxAlarms /\ DONE = 7 /\ MaxAlarms \in Nat
  BY <1>1, BoundsFacts DEF PlanOK
<1>3. Tally /\ Tally'
  BY Tallied, TalliedNext
<1>4. /\ UNCHANGED <<active, type, rejoining, linked, signals, member, user>>
      /\ \/ /\ rejoining # 0 /\ pc' = "idle" /\ trying' = 0 /\ Asked' = Asked
            /\ alarms' \in 1..MaxAlarms /\ alarms' <= pending + 1
         \/ /\ rejoining = 0 /\ pc' = "idle" /\ alarms' = pending /\ type = 7
         \/ /\ rejoining = 0 /\ pc' = "advance" /\ trying' = type /\ type \in 1..6
            /\ alarms' = pending /\ Asked' >= 1 /\ Asked' <= Asked + 1
  BY <1>1, InitiateFacts DEF Asked
<1>5. /\ alarms <= 1 /\ UnderWay <= 2
      /\ pc = "check" => alarms = 0
      /\ pc = "initiate" \/ ~active => type + alarms <= 2
      /\ alarms > 0 => type # 7
  BY <1>2 DEF FewUnderWay, KindsAhead, One
<1>10. \/ pc = "idle" /\ pending = alarms - 1
       \/ pc = "initiate" /\ pending = alarms
       \/ pc = "check" /\ pending = alarms /\ type # 7
  BY <1>2 DEF Calls
<1>6. /\ pc = "idle" => Attempts = 0
      /\ pc \in {"initiate", "check"} => Attempts = 1
      /\ Attempts' = 0
      /\ Rejoins' = Rejoins /\ Links' = Links /\ Lost' = Lost
  BY <1>4 DEF Attempting, Attempts, Rejoins, Links, Lost, One
<1>7. type # 7
  BY <1>2, <1>5, <1>10
<1>8. CASE /\ rejoining # 0 /\ pc' = "idle" /\ trying' = 0 /\ Asked' = Asked
           /\ alarms' \in 1..MaxAlarms /\ alarms' <= pending + 1
  <2>1. Rejoins = 1 /\ alarms' >= 1 /\ alarms' \in Nat
    BY <1>2, <1>3, <1>8 DEF Tally
  <2>5. alarms' <= 1
    <3>1. CASE pc = "idle"
      BY <1>2, <1>5, <1>8, <1>10, <3>1
    <3>2. CASE pc # "idle"
      <4>1. Attempts = 1 /\ pending = alarms
        BY <1>6, <1>10, <3>2
      <4>2. alarms = 0
        BY <1>3, <1>5, <2>1, <4>1 DEF Tally
      <4> QED
        BY <1>8, <2>1, <4>1, <4>2
    <3> QED
      BY <3>1, <3>2
  <2>6. Shift(Attempts, 0, 0, 0, 0, 0 - Attempts)
    BY <1>2, <1>3, <1>6, <1>8, <1>10 DEF Shift, Tally
  <2>2. UnderWay' <= UnderWay /\ UnderWay' >= 1
    <3>1. Attempts \in Int /\ 0 - Attempts \in Int
      BY <1>3 DEF Tally
    <3>2. Attempts + 0 + 0 + 0 + 0 + (0 - Attempts) <= 0
      BY <3>1
    <3>3. UnderWay' <= UnderWay
      BY <2>6, <3>1, <3>2, Shifted
    <3> QED
      BY <2>1, <3>3, SomethingCountsNext DEF Something
  <2>3. FewUnderWay'
    BY <1>4, <2>2, <2>5, FewKept
  <2>4. ~active' => type' + alarms' + One(pc' = "advance") <= 2
    <3>1. ~active' => pc = "idle"
      BY <1>4, <1>10 DEF OnlyActiveGoesOn
    <3>2. One(pc' = "advance") = 0
      BY <1>8 DEF One
    <3> QED
      BY <1>2, <1>4, <1>5, <1>8, <1>10, <3>1, <3>2
  <2> QED
    BY <1>2, <1>4, <1>7, <1>8, <2>3, <2>4 DEF KindsAhead
<1>9. CASE /\ rejoining = 0 /\ pc' = "advance" /\ trying' = type /\ type \in 1..6
           /\ alarms' = pending /\ Asked' >= 1 /\ Asked' <= Asked + 1
  <2>1. alarms' <= 1
    BY <1>2, <1>5, <1>9, <1>10
  <2>7. Shift(Attempts - 1, 1, 0, 0, 0, 0 - Attempts)
    <3>1. alarms' <= alarms + (Attempts - 1)
      <4>1. Attempts \in 0..1 /\ alarms \in Nat /\ alarms' = pending
        BY <1>3, <1>9 DEF Tally
      <4>2. CASE pc = "idle"
        <5>1. Attempts = 0 /\ pending = alarms - 1
          BY <1>6, <1>10, <4>2
        <5> QED
          BY <4>1, <5>1
      <4>3. CASE pc # "idle"
        <5>1. Attempts = 1 /\ pending = alarms
          BY <1>6, <1>10, <4>3
        <5> QED
          BY <4>1, <5>1
      <4> QED
        BY <4>2, <4>3
    <3>2. Rejoins \in 0..1 /\ Links \in 0..1 /\ Lost \in Nat /\ Attempts \in 0..1
      BY <1>3 DEF Tally
    <3>3. Rejoins' <= Rejoins + 0 /\ Links' <= Links + 0 /\ Lost' <= Lost + 0
      BY <1>6, <3>2
    <3>4. Attempts' <= Attempts + (0 - Attempts)
      BY <1>6, <3>2
    <3> QED
      BY <1>9, <3>1, <3>3, <3>4 DEF Shift
  <2>2. UnderWay' <= UnderWay /\ UnderWay' >= 1
    <3>1. Attempts - 1 \in Int /\ 0 - Attempts \in Int
      BY <1>3 DEF Tally
    <3>2. Attempts - 1 + 1 + 0 + 0 + 0 + (0 - Attempts) <= 0
      BY <1>3 DEF Tally
    <3>3. UnderWay' <= UnderWay
      <4> DEFINE a == Attempts - 1
                 t == 0 - Attempts
      <4>1. a \in Int /\ t \in Int /\ a + 1 + 0 + 0 + 0 + t <= 0 /\ Shift(a, 1, 0, 0, 0, t)
        BY <2>7, <3>1, <3>2
      <4> HIDE DEF a, t
      <4>2. 0 \in Int /\ 1 \in Int
        OBVIOUS
      <4> QED
        BY <4>1, <4>2, Shifted, Zenon
    <3> QED
      BY <1>9, <3>3, SomethingCountsNext DEF Something
  <2>3. FewUnderWay'
    BY <1>4, <2>1, <2>2, FewKept
  <2>4. One(pc' = "advance") = 1
    BY <1>9 DEF One
  <2>5. ~active' => type' + alarms' + One(pc' = "advance") <= 2
    <3>1. ~active' => pc = "idle"
      BY <1>4, <1>10 DEF OnlyActiveGoesOn
    <3> QED
      BY <1>2, <1>4, <1>5, <1>9, <1>10, <2>4, <3>1
  <2>6. alarms' > 0 => trying' # 6
    BY <1>2, <1>5, <1>9, <1>10
  <2> QED
    BY <1>2, <1>4, <1>7, <1>9, <2>3, <2>5, <2>6 DEF KindsAhead
<1> QED
  BY <1>4, <1>7, <1>8, <1>9

(* The other steps of the main loop.                                        *)
LEMMA MainAlone ==
    ASSUME TypeOK, TypeOK', OnlyActiveGoesOn, FewUnderWay, KindsAhead,
           Advance \/ Joined \/ BackoffStop \/ NoParent \/ NextRound \/ Backoff
    PROVE  FewUnderWay' /\ KindsAhead'
<1>1. /\ type \in 1..7 /\ alarms \in 0..MaxAlarms /\ DONE = 7 /\ MaxAlarms \in Nat \ {0}
      /\ (trying # 0 <=> pc = "advance") /\ trying \in 0..6
  BY TypeParts, BoundsFacts DEF PlanOK
<1>2. signals \in Seq(Signals)
  BY TypeParts DEF CallsOK
<1>3. /\ alarms <= 1 /\ alarms \in Nat
      /\ pc = "advance" => trying = type
      /\ pc \in {"stop", "backoff"} => type = 1
      /\ pc \in {"check", "backoff"} => alarms = 0
      /\ pc = "initiate" \/ ~active => type + alarms + One(pc = "advance") <= 2
      /\ alarms > 0 => type # 7 /\ trying # 6
  BY <1>1 DEF FewUnderWay, KindsAhead
<1>4. Tally /\ Tally'
  BY Tallied, TalliedNext
<1>5. One(pc = "advance") = (IF pc = "advance" THEN 1 ELSE 0) /\ (pc' # "advance" => One(pc' = "advance") = 0)
  BY DEF One
<1>6. ASSUME alarms' = alarms, Asked' = Asked, Rejoins' = Rejoins, Links' = Links,
             Lost' = Lost, Attempts' = Attempts, linked' = linked, member' = member, user' = user
      PROVE  FewUnderWay'
  <2>1. UnderWay' = UnderWay
    BY <1>6 DEF UnderWay
  <2> QED
    BY <1>3, <1>6, <2>1, FewKept, <1>4 DEF Tally
<1>7. CASE Advance
  <2>1. /\ pc = "advance" /\ pc' = "idle" /\ type' = type + 1 /\ trying' = 0
        /\ UNCHANGED <<active, alarms, queued, rejoining, linked, signals, member, user>>
    BY <1>3, <1>7 DEF Advance, NextKind, stack
  <2>2. FewUnderWay'
    BY <1>6, <2>1 DEF Asked, Rejoins, Links, Lost, Attempts, Attempting, One
  <2>3. ~active' => type' + alarms' + One(pc' = "advance") <= 2
    BY <1>1, <1>3, <1>5, <2>1
  <2>4. alarms' > 0 => type' # 7 /\ trying' # 6
    BY <1>1, <1>3, <2>1
  <2> QED
    BY <1>1, <2>1, <2>2, <2>3, <2>4 DEF KindsAhead
<1>8. CASE BackoffStop
  <2>1. /\ pc = "stop" /\ pc' = "idle" /\ type = 1 /\ trying = 0
        /\ UNCHANGED <<type, alarms, trying, queued, rejoining, linked, signals, member, user>>
    BY <1>1, <1>3, <1>8 DEF BackoffStop, stack
  <2>2. FewUnderWay'
    BY <1>6, <2>1 DEF Asked, Rejoins, Links, Lost, Attempts, Attempting, One
  <2>3. type' + alarms' + One(pc' = "advance") <= 2
    BY <1>3, <1>5, <2>1
  <2> QED
    BY <1>1, <2>1, <2>2, <2>3 DEF KindsAhead
<1>9. CASE Joined
  <2>1. /\ pc = "idle" /\ pc' \in {"idle", "stop"} /\ type' = 1 /\ trying = 0
        /\ signals # <<>> /\ Head(signals) = "joined" /\ signals' = Tail(signals)
        /\ UNCHANGED <<active, alarms, trying, queued, rejoining, linked, member, user>>
    BY <1>1, <1>9 DEF Joined, Signal
  <2>2. Lost' = Lost
    <3>1. One(Head(signals) = "no_parent") = 0
      BY <2>1 DEF One
    <3>2. LostIn(signals) = LostIn(Tail(signals)) + One(Head(signals) = "no_parent")
      BY <1>2, <2>1, LostTail
    <3> DEFINE now == LostIn(signals) later == LostIn(Tail(signals)) one == One(Head(signals) = "no_parent")
    <3>3. later \in Nat
      BY <1>2, <2>1, SequenceFacts, LostFinite
    <3>4. now = later
      <4>1. now = later + one /\ one = 0
        BY <3>1, <3>2
      <4> HIDE DEF now, later, one
      <4> QED
        BY <3>3, <4>1
    <3> QED
      BY <2>1, <3>4 DEF Lost
  <2>3. FewUnderWay'
    BY <1>6, <2>1, <2>2 DEF Asked, Rejoins, Links, Attempts, Attempting, One
  <2>4. type' + alarms' + One(pc' = "advance") <= 2
    BY <1>3, <1>5, <2>1
  <2> QED
    BY <1>1, <2>1, <2>3, <2>4 DEF KindsAhead
<1>10. CASE NextRound
  <2>1. /\ pc = "check" /\ pc' = "backoff" /\ type' = 1 /\ trying = 0 /\ alarms = 0 /\ active
        /\ UNCHANGED <<active, alarms, trying, queued, rejoining, linked, signals, member, user>>
    BY <1>1, <1>3, <1>10 DEF NextRound, stack, OnlyActiveGoesOn
  <2>2. FewUnderWay'
    BY <1>6, <2>1 DEF Asked, Rejoins, Links, Lost, Attempts, Attempting, One
  <2> QED
    BY <1>1, <2>1, <2>2 DEF KindsAhead
<1>11. CASE Backoff
  <2>1. /\ pc = "backoff" /\ pc' = "idle" /\ type = 1 /\ trying = 0 /\ alarms = 0 /\ active
        /\ alarms' = 1
        /\ UNCHANGED <<active, type, trying, queued, rejoining, linked, signals, member, user>>
    BY <1>1, <1>3, <1>11 DEF Backoff, SetAlarm, stack, OnlyActiveGoesOn
  <2>2. Attempts = 1 /\ Attempts' = 0
    BY <2>1 DEF Attempts, Attempting, One
  <2>3. Shift(1, 0, 0, 0, 0, -1)
    BY <1>4, <2>1, <2>2 DEF Shift, Tally, Asked, Rejoins, Links, Lost
  <2>4. UnderWay' <= UnderWay
    BY <2>3, Shifted
  <2>5. UnderWay' >= 1
    BY <2>1, SomethingCountsNext DEF Something
  <2>6. FewUnderWay'
    BY <2>1, <2>4, <2>5, FewKept
  <2> QED
    BY <1>1, <2>1, <2>6 DEF KindsAhead
<1>12. CASE NoParent
  <2>1. /\ pc = "idle" /\ trying = 0 /\ active'
        /\ pc' = IF ~active THEN "initiate" ELSE IF alarms = 0 THEN "check" ELSE "idle"
        /\ signals # <<>> /\ Head(signals) = "no_parent" /\ signals' = Tail(signals)
        /\ UNCHANGED <<type, alarms, trying, queued, rejoining, linked, member, user>>
    BY <1>1, <1>12 DEF NoParent, Signal, NoAlarm
  <2>2. Lost' = Lost - 1
    <3>1. One(Head(signals) = "no_parent") = 1
      BY <2>1 DEF One
    <3>2. LostIn(signals) = LostIn(Tail(signals)) + One(Head(signals) = "no_parent")
      BY <1>2, <2>1, LostTail
    <3> DEFINE now == LostIn(signals) later == LostIn(Tail(signals)) one == One(Head(signals) = "no_parent")
    <3>3. later \in Nat
      BY <1>2, <2>1, SequenceFacts, LostFinite
    <3>4. later = now - 1
      <4>1. now = later + one /\ one = 1
        BY <3>1, <3>2
      <4> HIDE DEF now, later, one
      <4> QED
        BY <3>3, <4>1
    <3> QED
      BY <2>1, <3>4 DEF Lost
  <2>3. Attempts = 0 /\ (pc' # "idle" => Attempts' = 1) /\ Attempts' <= 1
    BY <2>1 DEF Attempts, Attempting, One
  <2>4. Shift(0, 0, 0, 0, -1, 1)
    BY <1>4, <2>1, <2>2, <2>3 DEF Shift, Tally, Asked, Rejoins, Links
  <2>5. UnderWay' <= UnderWay
    BY <2>4, Shifted
  <2>6. alarms' >= 1 \/ Attempts' = 1
    BY <1>3, <2>1, <2>3
  <2>7. UnderWay' >= 1
    BY <2>6, SomethingCountsNext DEF Something
  <2>8. FewUnderWay'
    BY <1>3, <2>1, <2>5, <2>7, FewKept
  <2>9. pc' = "initiate" => type' + alarms' + One(pc' = "advance") <= 2
    BY <1>1, <1>3, <1>5, <2>1
  <2> QED
    BY <1>1, <1>3, <2>1, <2>8, <2>9 DEF KindsAhead
<1> QED
  BY <1>7, <1>8, <1>9, <1>10, <1>11, <1>12

(* The steps of the stack.  (Left to itself the device is always a member,  *)
(* so steering then finds nothing to do.)                                   *)
LEMMA StackAlone ==
    ASSUME TypeOK, TypeOK', FewUnderWay, KindsAhead, user = "nobody" => member,
           RejoinStarts \/ RejoinForgotten \/ RejoinEnds \/ ParentLost \/ Leave \/ Steered
    PROVE  FewUnderWay' /\ KindsAhead'
<1>1. UNCHANGED <<active, type, alarms, pc, trying, user>>
  BY DEF RejoinStarts, RejoinForgotten, RejoinEnds, ParentLost, Leave, Steered, params
<1>2. KindsAhead'
  BY <1>1 DEF KindsAhead
<1>3. Tally /\ Tally'
  BY Tallied, TalliedNext
<1>4. /\ alarms <= 1 /\ UnderWay <= 2 /\ (~member \/ user = "nobody" => UnderWay <= 1)
      /\ alarms \in Nat
  BY <1>3 DEF FewUnderWay, Tally
<1>5. Attempts' = Attempts /\ alarms' <= 1 /\ alarms' <= alarms
  BY <1>1, <1>4 DEF Attempts, Attempting
<1>6. queued \in Seq(1..6) /\ signals \in Seq(Signals) /\ rejoining \in 0..6
  BY TypeParts DEF CallsOK
<1>7. /\ Asked = Len(queued) /\ Asked' = Len(queued')
      /\ Asked \in Nat /\ Lost \in Nat /\ Rejoins \in 0..1 /\ Links \in 0..1 /\ Attempts \in 0..1
  BY <1>3 DEF Asked, Tally
<1>8. CASE RejoinStarts
  <2>1. /\ Len(queued') = Len(queued) - 1 /\ rejoining = 0 /\ rejoining' # 0 /\ ~linked'
        /\ UNCHANGED <<signals, member>>
    BY <1>6, <1>8, SequenceFacts DEF RejoinStarts
  <2>2. Rejoins = 0 /\ Rejoins' = 1 /\ Links' = 0 /\ Lost' = Lost
    BY <2>1 DEF Rejoins, Links, Lost, One
  <2>3. Shift(0, -1, 1, 0, 0, 0)
    BY <1>1, <1>4, <1>5, <1>7, <2>1, <2>2 DEF Shift
  <2>4. UnderWay' <= UnderWay /\ UnderWay' >= 1
    BY <2>2, <2>3, Shifted, SomethingCountsNext DEF Something
  <2> QED
    BY <1>1, <1>2, <1>5, <2>1, <2>4, FewKept
<1>9. CASE RejoinForgotten
  <2>1. /\ Len(queued') = Len(queued) - 1 /\ rejoining # 0
        /\ UNCHANGED <<rejoining, linked, signals, member>>
    BY <1>6, <1>9, SequenceFacts DEF RejoinForgotten
  <2>2. Rejoins' = Rejoins /\ Rejoins' = 1 /\ Links' = Links /\ Lost' = Lost
    BY <2>1 DEF Rejoins, Links, Lost, One
  <2>3. Shift(0, -1, 0, 0, 0, 0)
    BY <1>1, <1>4, <1>5, <1>7, <2>1, <2>2 DEF Shift
  <2>4. UnderWay' <= UnderWay /\ UnderWay' >= 1
    BY <2>2, <2>3, Shifted, SomethingCountsNext DEF Something
  <2> QED
    BY <1>1, <1>2, <1>5, <2>1, <2>4, FewKept
<1>10. CASE RejoinEnds
  <2>1. /\ rejoining # 0 /\ rejoining' = 0 /\ UNCHANGED <<queued, member>>
        /\ \/ linked' /\ signals' = Append(signals, "joined")
           \/ linked' = linked /\ signals' = Append(signals, "no_parent")
    BY <1>10 DEF RejoinEnds, Raise
  <2>2. Rejoins = 1 /\ Rejoins' = 0 /\ Asked' = Asked
    BY <2>1 DEF Rejoins, One, Asked
  <2>3. CASE linked' /\ signals' = Append(signals, "joined")
    <3>1. Lost' = Lost + 0
      BY <1>6, <2>3, LostAppend DEF Lost, One, Signals
    <3>2. Links' = 1
      BY <2>3 DEF Links, One
    <3>3. Shift(0, 0, -1, 1, 0, 0)
      BY <1>1, <1>4, <1>5, <1>7, <2>2, <3>1, <3>2 DEF Shift
    <3>4. UnderWay' <= UnderWay /\ UnderWay' >= 1
      BY <3>2, <3>3, Shifted, SomethingCountsNext DEF Something
    <3> QED
      BY <1>1, <1>2, <1>5, <2>1, <3>4, FewKept
  <2>4. CASE linked' = linked /\ signals' = Append(signals, "no_parent")
    <3>1. Lost' = Lost + 1
      BY <1>6, <2>4, LostAppend DEF Lost, One, Signals
    <3>2. Links' = Links
      BY <2>4 DEF Links
    <3>3. Shift(0, 0, -1, 0, 1, 0) /\ Lost' >= 1
      BY <1>1, <1>4, <1>5, <1>7, <2>2, <3>1, <3>2 DEF Shift
    <3>4. UnderWay' <= UnderWay /\ UnderWay' >= 1
      BY <3>3, Shifted, SomethingCountsNext DEF Something
    <3> QED
      BY <1>1, <1>2, <1>5, <2>1, <3>4, FewKept
  <2> QED
    BY <2>1, <2>3, <2>4
<1>11. CASE ParentLost
  <2>1. /\ linked /\ ~linked' /\ signals' = Append(signals, "no_parent")
        /\ UNCHANGED <<queued, rejoining, member>>
    BY <1>11 DEF ParentLost, Raise
  <2>2. Links = 1 /\ Links' = 0 /\ Asked' = Asked /\ Rejoins' = Rejoins
    BY <2>1 DEF Links, One, Asked, Rejoins
  <2>3. Lost' = Lost + 1
    BY <1>6, <2>1, LostAppend DEF Lost, One, Signals
  <2>4. Shift(0, 0, 0, -1, 1, 0) /\ Lost' >= 1
    BY <1>1, <1>4, <1>5, <1>7, <2>2, <2>3 DEF Shift
  <2>5. UnderWay' <= UnderWay /\ UnderWay' >= 1
    BY <2>4, Shifted, SomethingCountsNext DEF Something
  <2> QED
    BY <1>1, <1>2, <1>5, <2>1, <2>5, FewKept
<1>12. CASE Leave
  <2>1. /\ pc = "idle" /\ ~member' /\ ~linked' /\ queued' = <<>> /\ rejoining' = 0
        /\ signals' = <<>>
    BY <1>12 DEF Leave
  <2>2. Links' = 0 /\ Asked' = 0 /\ Rejoins' = 0 /\ Lost' = 0 /\ Attempts = 0
    BY <2>1, LostEmpty DEF Links, Asked, Rejoins, Lost, Attempts, Attempting, One
  <2>3. UnderWay' = alarms + 0 + 0 + 0 + 0 + 0
    BY <1>1, <1>5, <2>2 DEF UnderWay
  <2>4. UnderWay' <= 1
    BY <1>4, <2>3
  <2>5. UnderWay' \in Nat
    BY <1>3 DEF Tally
  <2> QED
    BY <1>2, <1>5, <2>1, <2>4, <2>5 DEF FewUnderWay
<1>13. CASE Steered
  <2>1. /\ ~member /\ member' /\ linked' /\ signals' = Append(signals, "joined")
        /\ UNCHANGED <<queued, rejoining>>
    BY <1>13 DEF Steered, Raise
  <2>2. Links' = 1 /\ Asked' = Asked /\ Rejoins' = Rejoins
    BY <2>1 DEF Links, One, Asked, Rejoins
  <2>3. Lost' = Lost + 0
    BY <1>6, <2>1, LostAppend DEF Lost, One, Signals
  <2>4. Shift(0, 0, 0, 1, 0, 0)
    BY <1>1, <1>4, <1>5, <1>7, <2>2, <2>3 DEF Shift
  <2>5. UnderWay' <= UnderWay + 1
    BY <2>4, Shifted
  <2>6. UnderWay' <= 2
    <3>1. UnderWay <= 1 /\ UnderWay \in Nat /\ UnderWay' \in Nat
      BY <1>3, <1>4, <2>1 DEF Tally
    <3> QED
      BY <2>5, <3>1
  <2> QED
    BY <1>1, <1>2, <1>5, <2>1, <2>6 DEF FewUnderWay
<1> QED
  BY <1>8, <1>9, <1>10, <1>11, <1>12, <1>13

(* Whatever is under way is the only thing that is.                         *)
LEMMA OnlyOne ==
    ASSUME TypeOK, FewUnderWay, user = "nobody", pc = "idle"
    PROVE  /\ rejoining # 0 => alarms = 0 /\ queued = <<>>
           /\ linked => alarms = 0 /\ queued = <<>> /\ rejoining = 0 /\ Lost = 0
<1>1. Tally /\ UnderWay <= 1
  BY Tallied DEF FewUnderWay
<1>2. rejoining # 0 => alarms = 0 /\ Asked = 0
  BY <1>1 DEF Tally
<1>3. linked => alarms = 0 /\ Asked = 0 /\ Rejoins = 0 /\ Lost = 0
  BY <1>1 DEF Tally
<1> QED
  BY <1>1, <1>2, <1>3 DEF Tally

LEMMA UndisturbedSteps ==
    ASSUME TypeOK, TypeOK', FewUnderWay, Undisturbed, user = "nobody", Next
    PROVE  Undisturbed'
<1>1. signals \in Seq(Signals) /\ queued \in Seq(1..6) /\ alarms \in 0..MaxAlarms
  BY TypeParts DEF PlanOK, CallsOK
<1>2. /\ member
      /\ Busy => active /\ signals = <<>> /\ pc # "stop"
      /\ \A i \in 1..Len(signals) : signals[i] = "no_parent" => i = Len(signals)
  BY DEF Undisturbed
<1>3. CASE BackoffStarted \/ NextRejoin \/ AlarmFires
  <2>1. PICK pending \in 0..MaxAlarms : Initiate(pending)
    <3>1. CASE BackoffStarted \/ NextRejoin
      BY <1>1, <3>1 DEF BackoffStarted, NextRejoin
    <3>2. CASE AlarmFires
      <4>1. alarms - 1 \in 0..MaxAlarms /\ Initiate(alarms - 1)
        BY <1>1, <3>2, BoundsFacts DEF AlarmFires
      <4> QED
        BY <4>1
    <3> QED
      BY <1>3, <3>1, <3>2
  <2>2. PlanOK /\ CallsOK
    BY TypeParts
  <2>3. UNCHANGED <<active, signals, member>> /\ pc' \in {"idle", "advance"}
    BY <2>1, <2>2, InitiateFacts
  <2>4. Busy
    BY <1>3 DEF Busy, Attempting, BackoffStarted, NextRejoin, AlarmFires
  <2> QED
    BY <1>2, <2>3, <2>4 DEF Undisturbed
<1>4. CASE Advance
  <2>1. pc' = "idle" /\ UNCHANGED <<active, alarms, queued, rejoining, signals, member>>
    BY <1>4 DEF Advance, stack
  <2> QED
    BY <1>2, <2>1 DEF Undisturbed, Busy, Attempting
<1>5. CASE Joined
  <2>1. /\ signals # <<>> /\ signals' = Tail(signals) /\ pc' \in {"stop", "idle"}
        /\ UNCHANGED <<alarms, queued, rejoining, member>>
    BY <1>5 DEF Joined, Signal
  <2>2. ~Busy'
    BY <1>2, <2>1 DEF Busy, Attempting
  <2>3. /\ Len(signals') = Len(signals) - 1 /\ Len(signals) \in Nat
        /\ \A i \in 1..Len(signals') : signals'[i] = signals[i + 1]
    BY <1>1, <2>1, SequenceFacts, HeadTailProperties
  <2>4. \A i \in 1..Len(signals') : signals'[i] = "no_parent" => i = Len(signals')
    BY <1>2, <2>3
  <2> QED
    BY <1>2, <2>1, <2>2, <2>4 DEF Undisturbed
<1>6. CASE BackoffStop
  <2>1. pc = "stop" /\ pc' = "idle" /\ UNCHANGED <<alarms, queued, rejoining, signals, member>>
    BY <1>6 DEF BackoffStop, stack
  <2> QED
    BY <1>2, <2>1 DEF Undisturbed, Busy, Attempting
<1>7. CASE NoParent
  <2>1. /\ active' /\ pc' \in {"initiate", "check", "idle"} /\ member' = member
        /\ signals # <<>> /\ Head(signals) = "no_parent" /\ signals' = Tail(signals)
    BY <1>7 DEF NoParent, Signal
  <2>2. Len(signals) >= 1 /\ Len(signals) \in Nat /\ signals[1] = "no_parent"
    BY <1>1, <2>1, SequenceFacts, HeadTailProperties
  <2>3. Len(signals) = 1
    BY <1>2, <2>2
  <2>4. signals' \in Seq(Signals) /\ Len(signals') = 0
    BY <1>1, <2>1, <2>3, SequenceFacts
  <2>5. signals' = <<>>
    BY <2>4, EmptySeq
  <2> QED
    BY <1>2, <2>1, <2>4, <2>5 DEF Undisturbed
<1>8. CASE NextRound \/ Backoff
  <2>1. /\ Attempting /\ pc' \in {"idle", "backoff"} /\ UNCHANGED <<active, signals, member>>
    BY <1>8 DEF NextRound, Backoff, Attempting, stack
  <2> QED
    BY <1>2, <2>1 DEF Undisturbed, Busy
<1>9. CASE RejoinStarts \/ RejoinForgotten
  <2>1. /\ queued # <<>> /\ UNCHANGED <<active, pc, signals, member>>
    BY <1>9 DEF RejoinStarts, RejoinForgotten, params
  <2> QED
    BY <1>2, <2>1 DEF Undisturbed, Busy
<1>10. CASE RejoinEnds
  <2>1. /\ pc = "idle" /\ rejoining # 0 /\ rejoining' = 0
        /\ UNCHANGED <<active, pc, alarms, queued, member>>
        /\ \E x \in Signals : signals' = Append(signals, x)
    BY <1>10 DEF RejoinEnds, Raise, params, Signals
  <2>2. alarms = 0 /\ queued = <<>> /\ signals = <<>>
    BY <1>2, <2>1, OnlyOne DEF Busy
  <2>3. ~Busy'
    BY <2>1, <2>2, <1>1 DEF Busy, Attempting
  <2>4. Len(signals') = 1
    BY <1>1, <2>1, <2>2, SequenceFacts
  <2> QED
    BY <1>2, <2>1, <2>3, <2>4 DEF Undisturbed
<1>11. CASE ParentLost
  <2>1. /\ pc = "idle" /\ linked /\ signals' = Append(signals, "no_parent")
        /\ UNCHANGED <<pc, alarms, queued, rejoining, member>>
    BY <1>11 DEF ParentLost, Raise, params
  <2>2. alarms = 0 /\ queued = <<>> /\ rejoining = 0 /\ Lost = 0
    BY <2>1, OnlyOne
  <2>3. ~Busy'
    BY <2>1, <2>2, <1>1 DEF Busy, Attempting
  <2>4. \A i \in 1..Len(signals) : signals[i] # "no_parent"
    BY <1>1, <2>2, LostFinite DEF Lost
  <2>5. Len(signals) \in Nat /\ Len(signals') = Len(signals) + 1
        /\ \A i \in 1..Len(signals) : signals'[i] = signals[i]
    BY <1>1, <2>1, SequenceFacts, AppendProperties DEF Signals
  <2>6. \A i \in 1..Len(signals') : signals'[i] = "no_parent" => i = Len(signals')
    BY <2>4, <2>5
  <2> QED
    BY <1>2, <2>1, <2>3, <2>6 DEF Undisturbed
<1>12. ~ButtonPressed /\ ~Leave /\ ~Steered
  BY <1>2 DEF ButtonPressed, Leave, Steered
<1> QED
  BY <1>3, <1>4, <1>5, <1>6, <1>7, <1>8, <1>9, <1>10, <1>11, <1>12 DEF Next, Main

-----------------------------------------------------------------------------
LEMMA RejoinStartsOut == Init => RejoinInv
<1> SUFFICES ASSUME Init PROVE RejoinInv
  OBVIOUS
<1>1. TypeOK /\ Tally
  BY InitType, Tallied
<1>2. /\ active = FALSE /\ type = 1 /\ alarms = 0 /\ pc = "idle" /\ trying = 0 /\ queued = <<>>
      /\ rejoining = 0 /\ linked = FALSE /\ signals = <<"no_parent">> /\ member = TRUE
  BY DEF Init
<1>3. Lost = 1
  <2>1. signals = Append(<<>>, "no_parent") /\ <<>> \in Seq(Signals) /\ "no_parent" \in Signals
    BY <1>2 DEF Signals
  <2>2. LostIn(signals) = LostIn(<<>>) + One("no_parent" = "no_parent")
    BY <2>1, LostAppend
  <2> QED
    BY <2>2, LostEmpty DEF Lost, One
<1>4. Asked = 0 /\ Rejoins = 0 /\ Links = 0 /\ Attempts = 0
  BY <1>2 DEF Asked, Rejoins, Links, Attempts, Attempting, One
<1>5. FewUnderWay
  <2>1. UnderWay = 0 + 0 + 0 + 0 + 1 + 0
    BY <1>2, <1>3, <1>4 DEF UnderWay
  <2> QED
    BY <1>2, <2>1 DEF FewUnderWay
<1>6. KindsAhead
  BY <1>2 DEF KindsAhead, One
<1>7. Undisturbed
  BY <1>2 DEF Undisturbed, Busy, Attempting
<1>8. OnlyActiveGoesOn
  BY <1>2 DEF OnlyActiveGoesOn
<1> QED
  BY <1>1, <1>5, <1>6, <1>7, <1>8 DEF RejoinInv

LEMMA RejoinSteps == BackoffInv /\ RejoinInv /\ [Next]_vars => RejoinInv'
<1> SUFFICES ASSUME BackoffInv, RejoinInv, [Next]_vars PROVE RejoinInv'
  OBVIOUS
<1>1. TypeOK /\ TypeOK' /\ OnlyActiveGoesOn /\ OnlyActiveGoesOn'
  BY NextType, BackoffSteps DEF RejoinInv, BackoffInv
<1>2. CASE UNCHANGED vars
  <2>1. UNCHANGED <<active, delay, type, alarms, pc, trying, queued, rejoining, linked, signals,
                    member, user>>
    BY <1>2 DEF vars, params, stack
  <2>2. user # "button" => FewUnderWay' /\ KindsAhead'
    BY <2>1 DEF RejoinInv, FewUnderWay, KindsAhead, UnderWay, Asked, Rejoins, Links, Lost, Attempts, Attempting
  <2>3. user = "nobody" => Undisturbed'
    BY <2>1 DEF RejoinInv, Undisturbed, Busy, Attempting
  <2> QED
    BY <1>1, <2>1, <2>2, <2>3 DEF RejoinInv
<1>3. CASE Next
  <2>1. user' = user
    BY <1>3 DEF Next, Main, Advance, BackoffStarted, Initiate, Joined, BackoffStop, NoParent,
                NextRejoin, NextRound, Backoff, AlarmFires, ButtonPressed, RejoinStarts,
                RejoinForgotten, RejoinEnds, ParentLost, Leave, Steered, stack
  <2>2. ASSUME user # "button" PROVE FewUnderWay' /\ KindsAhead'
    <3>1. FewUnderWay /\ KindsAhead /\ (user = "nobody" => member)
      BY <2>2 DEF RejoinInv, Undisturbed
    <3>2. alarms \in 0..MaxAlarms
      BY <1>1, TypeParts DEF PlanOK
    <3>3. CASE BackoffStarted \/ NextRejoin
      <4>1. Initiate(alarms) /\ Calls(alarms)
        BY <3>3 DEF BackoffStarted, NextRejoin, Calls
      <4> QED
        BY <1>1, <3>1, <3>2, <4>1, InitiateAlone
    <3>4. CASE AlarmFires
      <4>1. alarms - 1 \in 0..MaxAlarms /\ Initiate(alarms - 1) /\ Calls(alarms - 1)
        BY <3>2, <3>4, BoundsFacts DEF AlarmFires, Calls
      <4> QED
        BY <1>1, <3>1, <4>1, InitiateAlone
    <3>5. CASE Advance \/ Joined \/ BackoffStop \/ NoParent \/ NextRound \/ Backoff
      BY <1>1, <3>1, <3>5, MainAlone
    <3>6. CASE RejoinStarts \/ RejoinForgotten \/ RejoinEnds \/ ParentLost \/ Leave \/ Steered
      BY <1>1, <3>1, <3>6, StackAlone
    <3>7. ~ButtonPressed
      BY <2>2 DEF ButtonPressed
    <3> QED
      BY <1>3, <3>3, <3>4, <3>5, <3>6, <3>7 DEF Next, Main
  <2>3. ASSUME user = "nobody" PROVE Undisturbed'
    BY <1>1, <1>3, <2>3, UndisturbedSteps DEF RejoinInv
  <2> QED
    BY <1>1, <2>1, <2>2, <2>3 DEF RejoinInv
<1> QED
  BY <1>2, <1>3

(* Type correctness.                                                        *)
THEOREM TypeCorrect == Spec => []TypeOK
  BY InitType, NextType, PTL DEF Spec

(* The inductive invariant holds.                                           *)
THEOREM RejoinInvariant == Spec => [](BackoffInv /\ RejoinInv)
<1>1. Init => BackoffInv /\ RejoinInv
  BY BackoffStarts, RejoinStartsOut
<1>2. BackoffInv /\ RejoinInv /\ [Next]_vars => (BackoffInv /\ RejoinInv)'
  BY BackoffSteps, RejoinSteps
<1> QED
  BY <1>1, <1>2, PTL DEF Spec

(* Unless a user interferes no rejoin is asked for while one is active: the *)
(* stack is never made to throw one away.                                   *)
THEOREM OneRejoinAtATime == Spec => []OneAtATime
<1>1. RejoinInv => OneAtATime
  <2> SUFFICES ASSUME RejoinInv, user = "nobody" PROVE rejoining = 0 \/ queued = <<>>
    BY DEF OneAtATime
  <2>1. Tally /\ UnderWay <= 1
    BY Tallied DEF RejoinInv, FewUnderWay
  <2>2. Rejoins = 0 \/ Asked = 0
    BY <2>1 DEF Tally
  <2> QED
    BY <2>1, <2>2 DEF Tally
<1> QED
  BY <1>1, RejoinInvariant, PTL

(* As long as nobody presses the button a device without a parent always    *)
(* has something under way that will try again, also after a leave.         *)
THEOREM SomethingUnderWay == Spec => []NeverForgottenAlone
<1>1. RejoinInv => NeverForgottenAlone
  <2> SUFFICES ASSUME RejoinInv, user # "button", active, ~linked, member, pc = "idle"
               PROVE  alarms > 0 \/ queued # <<>> \/ rejoining # 0 \/ signals # <<>>
    BY DEF NeverForgottenAlone, NeverForgotten
  <2>1. Tally /\ UnderWay >= 1
    BY Tallied DEF RejoinInv, FewUnderWay
  <2>2. Attempts = 0 /\ Links = 0
    BY DEF Attempts, Attempting, Links, One
  <2>3. alarms > 0 \/ Asked >= 1 \/ Rejoins = 1 \/ Lost >= 1
    BY <2>1, <2>2 DEF Tally
  <2>4. Lost >= 1 => signals # <<>>
    BY <2>1 DEF Tally
  <2> QED
    BY <2>1, <2>3, <2>4 DEF Tally
<1> QED
  BY <1>1, RejoinInvariant, PTL

(* No rejoin is asked for once a join has stopped the backoff.              *)
THEOREM StopIsFinal == Spec => StopMeansStop
<1>1. RejoinInv /\ [Next]_vars => [user = "nobody" /\ Len(queued') > Len(queued) => active]_vars
  <2> SUFFICES ASSUME RejoinInv, Next, user = "nobody", Len(queued') > Len(queued)
               PROVE  active
    BY DEF vars
  <2>1. queued \in Seq(1..6) /\ Len(queued) \in Nat /\ OnlyActiveGoesOn /\ Undisturbed
    BY TypeParts, SequenceFacts DEF RejoinInv, CallsOK
  <2>2. queued' # queued
    BY <2>1
  <2>3. CASE BackoffStarted \/ NextRejoin
    BY <2>1, <2>3 DEF BackoffStarted, NextRejoin, OnlyActiveGoesOn
  <2>4. CASE AlarmFires
    BY <2>1, <2>4 DEF AlarmFires, Undisturbed, Busy
  <2>5. CASE RejoinStarts \/ RejoinForgotten
    <3>1. queued # <<>>
      BY <2>5 DEF RejoinStarts, RejoinForgotten
    <3> QED
      BY <2>1, <3>1 DEF Undisturbed, Busy
  <2>6. CASE Leave \/ ButtonPressed
    BY <2>6 DEF Leave, ButtonPressed
  <2>7. CASE Advance \/ Joined \/ BackoffStop \/ NoParent \/ NextRound \/ Backoff \/ RejoinEnds
             \/ ParentLost \/ Steered
    BY <2>2, <2>7 DEF Advance, Joined, BackoffStop, NoParent, NextRound, Backoff, RejoinEnds,
                      ParentLost, Steered, stack
  <2> QED
    BY <2>3, <2>4, <2>5, <2>6, <2>7 DEF Next, Main
<1>2. Spec => [][user = "nobody" /\ Len(queued') > Len(queued) => active]_vars
  BY <1>1, RejoinInvariant, PTL DEF Spec
<1> QED
  BY <1>2 DEF StopMeansStop

=============================================================================
