------------------------------ MODULE CanCommandProofs ------------------------------
(* The two ends of a command on the CAN bus: the driver's thread, whose            *)
(* subscription follows the node id (CanServer), and the watchdogs that the frames *)
(* it hears feed (ControlTimeout). The two share no state.                         *)
EXTENDS CanServer, ControlTimeout, TLAPS, WellFoundedInduction, SequenceTheorems

------------------------------------------------------------------------------------
(* The subscription, for every number of slots, mailboxes and ids: the slot of the *)
(* handle is for the id the server has seen until no slot is left, and no slot is  *)
(* ever given back.                                                                *)
Subscribed ==
  /\ server # "start" /\ ~denied => handle # 0 /\ subscriptions[handle] = subscribedId
  /\ denied => Unused(subscriptions) = {}
HandleUsed == handle # 0 => subscriptions[handle] # NoId
SubscriptionInv == OwnIdIsHeard /\ HandleUsed

LEMMA Sizes ==
  /\ Slots \in Nat /\ Slots > 0 /\ FifoDepth \in Nat /\ FifoDepth > 0
  /\ Mailboxes \in Nat /\ Mailboxes > 0 /\ Burst \in Nat /\ Burst > 0
  /\ NoId \notin NodeIds
BY CanAssumption

(* Slots are numbered, so that there is a first one among those not in use.        *)
LEMMA FirstIs ==
  ASSUME NEW S, S \subseteq SlotIds, S # {}
  PROVE  First(S) \in S
<1> DEFINE R == OpToRel(<, Nat)
<1>1. S \subseteq Nat
  BY Sizes DEF SlotIds
<1>2. \E s \in S : \A t \in S : <<t, s>> \notin R
  <2> HIDE DEF R
  <2>1. IsWellFoundedOn(R, Nat)
    BY NatLessThanWellFounded DEF R
  <2> QED
    BY <1>1, <2>1, WFMin
<1>3. PICK s \in S : \A t \in S : <<t, s>> \notin R
  BY <1>2
<1>4. \A t \in S : s <= t
  <2> SUFFICES ASSUME NEW t \in S PROVE s <= t
    OBVIOUS
  <2>1. s \in Nat /\ t \in Nat
    BY <1>1
  <2>2. t < s => <<t, s>> \in R
    BY <2>1 DEF OpToRel
  <2>3. <<t, s>> \notin R
    BY <1>3
  <2> HIDE DEF R
  <2> QED
    BY <2>1, <2>2, <2>3
<1> QED
  BY <1>4 DEF First

(* A renewal takes one slot more, if there is one, and leaves the others alone.    *)
LEMMA RenewalIs ==
  ASSUME ServerTypeOK, HandleUsed, renew_subscription(node_id)
  PROVE  /\ subscribedId' = node_id
         /\ \/ /\ Unused(subscriptions) = {} /\ denied' = TRUE
               /\ UNCHANGED <<subscriptions, handle>>
            \/ /\ handle' \in Unused(subscriptions) /\ denied' = FALSE
               /\ subscriptions' = [subscriptions EXCEPT ![handle'] = node_id]
<1>1. unsubscribe(subscriptions, handle) = subscriptions
  BY DEF HandleUsed, unsubscribe
<1>2. Unused(subscriptions) \subseteq SlotIds
  BY DEF Unused
<1>3. Unused(subscriptions) # {} => First(Unused(subscriptions)) \in Unused(subscriptions)
  BY <1>2, FirstIs
<1> QED
  BY <1>1, <1>3 DEF renew_subscription

LEMMA RenewalHolds ==
  ASSUME ServerTypeOK, HandleUsed, renew_subscription(node_id)
  PROVE  /\ subscribedId' \in NodeIds
         /\ subscriptions' \in [SlotIds -> NodeIds \union {NoId}]
         /\ handle' \in 0..Slots /\ denied' \in BOOLEAN /\ HandleUsed'
         /\ Subscribed'
<1>1. subscribedId' = node_id /\ node_id \in NodeIds
  BY RenewalIs DEF ServerTypeOK
<1>2. CASE /\ Unused(subscriptions) = {} /\ denied' = TRUE
           /\ UNCHANGED <<subscriptions, handle>>
  BY <1>1, <1>2 DEF ServerTypeOK, HandleUsed, Subscribed, Unused
<1>3. CASE /\ handle' \in Unused(subscriptions) /\ denied' = FALSE
           /\ subscriptions' = [subscriptions EXCEPT ![handle'] = node_id]
  <2>1. handle' \in SlotIds /\ handle' \in 0..Slots
    BY <1>3, Sizes DEF Unused, SlotIds
  <2>2. subscriptions'[handle'] = node_id /\ node_id # NoId
    BY <1>1, <1>3, <2>1, Sizes DEF ServerTypeOK
  <2>3. denied' \in BOOLEAN /\ HandleUsed' /\ Subscribed'
    <3>1. handle' # 0
      BY <2>1, Sizes DEF SlotIds
    <3>2. ~denied'
      BY <1>3
    <3> QED
      BY <1>1, <1>3, <2>2, <3>1, <3>2 DEF HandleUsed, Subscribed
  <2> QED
    BY <1>1, <1>3, <2>1, <2>2, <2>3 DEF ServerTypeOK
<1> QED
  BY <1>2, <1>3, RenewalIs

LEMMA FifoStep ==
  ASSUME ServerTypeOK
  PROVE  /\ fifo # <<>> => /\ Head(fifo) \in Frames /\ Tail(fifo) \in Seq(Frames)
                           /\ Len(Tail(fifo)) <= FifoDepth
         /\ \A f \in Frames :
               /\ Len(fifo) < FifoDepth => /\ Append(fifo, f) \in Seq(Frames)
                                           /\ Len(Append(fifo, f)) <= FifoDepth
               /\ ~(Len(fifo) < FifoDepth)
                     => /\ [fifo EXCEPT ![FifoDepth] = f] \in Seq(Frames)
                        /\ Len([fifo EXCEPT ![FifoDepth] = f]) <= FifoDepth
<1>1. fifo \in Seq(Frames) /\ Len(fifo) \in Nat /\ Len(fifo) <= FifoDepth
  BY DEF ServerTypeOK
<1>2. ASSUME NEW f \in Frames, ~(Len(fifo) < FifoDepth)
      PROVE  /\ [fifo EXCEPT ![FifoDepth] = f] \in Seq(Frames)
             /\ Len([fifo EXCEPT ![FifoDepth] = f]) <= FifoDepth
  <2>1. Len(fifo) = FifoDepth
    BY <1>1, <1>2, Sizes
  <2>2. FifoDepth \in 1..Len(fifo)
    BY <2>1, Sizes
  <2> QED
    BY <1>1, <1>2, <2>1, <2>2, ExceptSeq
<1> QED
  BY <1>1, <1>2, Sizes

LEMMA StepHolds ==
  ASSUME SubscriptionInv, [ServerNext]_serverVars
  PROVE  SubscriptionInv'
<1> USE DEF subscribed, driverVars, notified
<1>0. ServerTypeOK /\ Subscribed /\ HandleUsed
  BY DEF SubscriptionInv, OwnIdIsHeard, Subscribed, HandleUsed
<1>1. ASSUME ServerTypeOK', UNCHANGED subscribed, server # "start", server' # "start"
      PROVE  SubscriptionInv'
  BY <1>0, <1>1 DEF SubscriptionInv, OwnIdIsHeard, Subscribed, HandleUsed, Unused
<1>2. CASE UNCHANGED serverVars
  BY <1>2, <1>0
  DEF serverVars, SubscriptionInv, OwnIdIsHeard, Subscribed, HandleUsed, Unused, ServerTypeOK
<1>3. CASE StartServer
  <2>1. ServerTypeOK'
    BY <1>0, <1>3, RenewalHolds DEF StartServer, ServerTypeOK
  <2> QED
    BY <1>0, <1>3, <2>1, RenewalHolds
    DEF StartServer, SubscriptionInv, OwnIdIsHeard, Subscribed, HandleUsed
<1>4. CASE service_stack
  <2>0. mailboxes \in 0..Mailboxes /\ Mailboxes \in Nat /\ Burst \in Nat /\ due \in BOOLEAN
    BY <1>0, Sizes DEF ServerTypeOK
  <2>1. mailboxes' \in 0..Mailboxes /\ due' \in BOOLEAN /\ arrived' \in 0..Burst
    <3>1. arrived' = 0
      BY <1>4 DEF service_stack
    <3>2. \/ mailboxes' = mailboxes /\ due' = due
          \/ mailboxes < Mailboxes /\ mailboxes' = mailboxes + 1 /\ due' = FALSE
      BY <1>4, Zenon DEF service_stack
    <3>3. mailboxes' \in 0..Mailboxes
      BY <2>0, <3>2
    <3>4. due' \in BOOLEAN
      BY <2>0, <3>2, Zenon
    <3> QED
      BY <2>0, <3>1, <3>3, <3>4
  <2>2. CASE node_id # subscribedId
    <3>1. ServerTypeOK'
      BY <1>0, <1>4, <2>1, <2>2, RenewalHolds DEF service_stack, ServerTypeOK
    <3> QED
      BY <1>0, <1>4, <2>2, <3>1, RenewalHolds
      DEF service_stack, SubscriptionInv, OwnIdIsHeard, Subscribed, HandleUsed
  <2>3. CASE node_id = subscribedId
    <3>1. ServerTypeOK'
      BY <1>0, <1>4, <2>1, <2>3 DEF service_stack, ServerTypeOK
    <3> QED
      BY <1>1, <1>4, <2>3, <3>1 DEF service_stack
  <2> QED
    BY <2>2, <2>3
<1>5. CASE process_rx_fifo
  <2>1. ServerTypeOK'
    BY <1>0, <1>5, FifoStep, Sizes DEF process_rx_fifo, ServerTypeOK, Frames
  <2> QED
    BY <1>1, <1>5, <2>1 DEF process_rx_fifo
<1>6. CASE ActivateNotification \/ SemaphoreWait
  <2>1. ServerTypeOK'
    BY <1>0, <1>6 DEF ActivateNotification, SemaphoreWait, ServerTypeOK
  <2> QED
    BY <1>1, <1>6, <2>1 DEF ActivateNotification, SemaphoreWait
<1>7. CASE FrameArrives
  <2>1. arrived' \in 0..Burst
    BY <1>0, <1>7, Sizes DEF FrameArrives, ServerTypeOK
  <2>2. fifo' \in Seq(Frames) /\ Len(fifo') <= FifoDepth
    BY <1>0, <1>7, FifoStep DEF FrameArrives
  <2>3. ServerTypeOK'
    BY <1>0, <1>7, <2>1, <2>2 DEF FrameArrives, ServerTypeOK
  <2> QED
    BY <1>0, <1>7, <2>3
    DEF FrameArrives, SubscriptionInv, OwnIdIsHeard, Subscribed, HandleUsed, Unused
<1>8. CASE RxFifo0MsgPending \/ FrameSent \/ MessageDue
  <2>1. mailboxes' \in 0..Mailboxes
    <3>1. mailboxes \in 0..Mailboxes /\ Mailboxes \in Nat
      BY <1>0, Sizes DEF ServerTypeOK
    <3>2. mailboxes' = mailboxes \/ (mailboxes > 0 /\ mailboxes' = mailboxes - 1)
      BY <1>8 DEF RxFifo0MsgPending, FrameSent, MessageDue
    <3> QED
      BY <3>1, <3>2
  <2>2. /\ rxNotified' \in BOOLEAN /\ txNotified' \in BOOLEAN /\ sem_can' \in BOOLEAN
        /\ due' \in BOOLEAN
    BY <1>0, <1>8, Zenon DEF RxFifo0MsgPending, FrameSent, MessageDue, ServerTypeOK
  <2>3. UNCHANGED <<driverVars, fifo, arrived, server>>
    BY <1>8 DEF RxFifo0MsgPending, FrameSent, MessageDue
  <2>4. ServerTypeOK'
    BY <1>0, <2>1, <2>2, <2>3 DEF ServerTypeOK
  <2> QED
    BY <1>0, <2>3, <2>4 DEF SubscriptionInv, OwnIdIsHeard, Subscribed, HandleUsed, Unused
<1> QED
  BY <1>2, <1>3, <1>4, <1>5, <1>6, <1>7, <1>8 DEF ServerNext, Thread

LEMMA AlwaysSubscribed == ServerSpec => []SubscriptionInv
<1>1. ServerInit => SubscriptionInv
  <2> SUFFICES ASSUME ServerInit PROVE SubscriptionInv
    OBVIOUS
  <2>1. <<>> \in Seq(Frames) /\ Len(<<>>) = 0
    OBVIOUS
  <2>2. 0 \in 0..Mailboxes /\ 0 \in 0..Burst /\ 0 \in 0..Slots /\ 0 <= FifoDepth
    BY Sizes
  <2>3. subscriptions \in [SlotIds -> NodeIds \union {NoId}]
    BY DEF ServerInit
  <2>4. ServerTypeOK
    BY <2>1, <2>2, <2>3 DEF ServerInit, ServerTypeOK
  <2> QED
    BY <2>4 DEF ServerInit, SubscriptionInv, OwnIdIsHeard, HandleUsed
<1>2. SubscriptionInv /\ [ServerNext]_serverVars => SubscriptionInv'
  BY StepHolds
<1> QED
  BY <1>1, <1>2, PTL DEF ServerSpec

(* Through every renaming a node hears the id the server has seen, in the slot of  *)
(* the handle, until a subscription finds every slot in use.                       *)
THEOREM IdIsHeard == ServerSpec => []OwnIdIsHeard
<1>1. SubscriptionInv => OwnIdIsHeard
  BY DEF SubscriptionInv
<1> QED
  BY <1>1, AlwaysSubscribed, PTL

(* unsubscribe() never gives back what subscribe() has taken: a slot in use stays  *)
(* in use, for the id it was taken for, whatever the node is called afterwards.    *)
SlotsAreKept ==
  [][\A s \in SlotIds : subscriptions[s] # NoId => subscriptions'[s] = subscriptions[s]]_serverVars

(* So the slots run out, however many there are.                                   *)
THEOREM NothingIsGivenBack == ServerSpec => SlotsAreKept
<1>1. SubscriptionInv /\ [ServerNext]_serverVars
        => [\A s \in SlotIds : subscriptions[s] # NoId
                                  => subscriptions'[s] = subscriptions[s]]_serverVars
  <2> SUFFICES ASSUME SubscriptionInv, [ServerNext]_serverVars, NEW s \in SlotIds, subscriptions[s] # NoId
               PROVE  subscriptions'[s] = subscriptions[s]
    OBVIOUS
  <2>1. ServerTypeOK /\ HandleUsed
    BY DEF SubscriptionInv, OwnIdIsHeard
  <2>2. CASE renew_subscription(node_id)
    <3>1. CASE /\ handle' \in Unused(subscriptions)
               /\ subscriptions' = [subscriptions EXCEPT ![handle'] = node_id]
      <4>1. handle' # s
        BY <3>1 DEF Unused
      <4> QED
        BY <2>1, <3>1, <4>1 DEF ServerTypeOK
    <3> QED
      BY <2>1, <2>2, <3>1, RenewalIs
  <2>3. CASE UNCHANGED subscriptions
    BY <2>3
  <2> QED
    BY <2>2, <2>3
    DEF ServerNext, Thread, StartServer, service_stack, process_rx_fifo, ActivateNotification,
        SemaphoreWait, FrameArrives, RxFifo0MsgPending, FrameSent, MessageDue, serverVars,
        driverVars, subscribed
<1> QED
  BY <1>1, AlwaysSubscribed, PTL DEF ServerSpec, SlotsAreKept

------------------------------------------------------------------------------------
(* The watchdogs, for a tick of any width, any timeouts up to half its range, any  *)
(* modes and any timeout actions.                                                  *)
USE DEF configVars, commandVars, heartbeatVars, watchVars, inputVars, axisVars,
        threadVars

------------------------------------------------------------------------------------
(* Arithmetic of the tick. *)

(* The sums and differences of unsigned ticks are ticks. *)
LEMMA TickClosed ==
  ASSUME NEW a \in 0..(Wrap - 1), NEW b \in 0..(Wrap - 1)
  PROVE  Plus(a, b) \in 0..(Wrap - 1) /\ Minus(a, b) \in 0..(Wrap - 1)
BY ConstantsAssumption DEF Plus, Minus, Wrap

(* The comparison of deadline_expired() is exact for half a turn of the tick: it   *)
(* says whether the age of a deadline has reached its timeout.                     *)
LEMMA ElapsedIsAge ==
  ASSUME NEW now \in 0..(Wrap - 1), NEW timeout \in 0..Half, NEW age \in 0..(Half - 1)
  PROVE  deadline_expired(Plus(Minus(now, age), timeout), now) <=> age >= timeout
<1>1. Half \in Nat \ {0} /\ Wrap = 2 * Half
  BY ConstantsAssumption DEF Wrap
<1>2. CASE age <= now
  <2>1. Minus(now, age) = now - age
    BY <1>1, <1>2 DEF Minus
  <2>2. CASE now - age + timeout < Wrap
    BY <1>1, <1>2, <2>1, <2>2 DEF deadline_expired, Plus, Minus
  <2>3. CASE ~(now - age + timeout < Wrap)
    BY <1>1, <1>2, <2>1, <2>3 DEF deadline_expired, Plus, Minus
  <2> QED BY <2>2, <2>3
<1>3. CASE ~(age <= now)
  <2>1. Minus(now, age) = now + Wrap - age
    BY <1>1, <1>3 DEF Minus
  <2>2. CASE now + Wrap - age + timeout < Wrap
    BY <1>1, <1>3, <2>1, <2>2 DEF deadline_expired, Plus, Minus
  <2>3. CASE ~(now + Wrap - age + timeout < Wrap)
    BY <1>1, <1>3, <2>1, <2>3 DEF deadline_expired, Plus, Minus
  <2> QED BY <2>2, <2>3
<1> QED BY <1>2, <1>3

(* A tick later everything is one tick older. *)
LEMMA OlderByTick ==
  ASSUME NEW now \in 0..(Wrap - 1), NEW age \in 0..(Half - 1)
  PROVE  Minus(Plus(now, 1), age + 1) = Minus(now, age)
BY ConstantsAssumption DEF Plus, Minus, Wrap

------------------------------------------------------------------------------------
(* Type correctness. *)

LEMMA ModeActionType ==
  ASSUME NEW m \in ServoModes
  PROVE  ModeAction(m) \in TimeoutActions
BY DEF ModeAction, TimeoutActions, ServoModes

LEMMA InitType ==
  ASSUME Init
  PROVE  TypeOK
<1>1. 0 \in 0..(Wrap - 1) /\ 0 \in 0..Half
  BY ConstantsAssumption DEF Wrap
<1>2. timeoutAction \in TimeoutActions
  BY ConstantsAssumption DEF Init
<1>3. demand \subseteq {"velocity", "torque", "mit"}
  BY DEF Init
<1> QED BY <1>1, <1>2, <1>3 DEF Init, TypeOK

LEMMA ControlIterationType ==
  ASSUME TypeOK, ControlIteration
  PROVE  TypeOK'
<1>1. PICK now \in {tick, Plus(tick, 1)} :
        /\ tick' = now
        /\ commandAge' = IF now = tick THEN commandAge ELSE Older(commandAge)
        /\ heartbeatAge' = IF now = tick THEN heartbeatAge ELSE Older(heartbeatAge)
        /\ armed' = (armed /\ ~axisError)
        /\ check_deadlines(now)
        /\ UpdateController(TargetInForce(now))
        /\ UNCHANGED <<configVars, commandDeadline, heartbeatDeadline, loop, threadVars>>
  BY DEF ControlIteration
<1>2. tick' \in 0..(Wrap - 1)
  BY <1>1, ConstantsAssumption DEF TypeOK, Plus, Wrap
<1>3. commandAge' \in 0..Half /\ heartbeatAge' \in 0..Half
  BY <1>1, ConstantsAssumption DEF TypeOK, Older
<1>4. /\ expired' \in BOOLEAN /\ quickStop' \in BOOLEAN /\ torqueZero' \in BOOLEAN
      /\ reason' \in {"none", "command", "heartbeat"} /\ overridden' \in BOOLEAN
      /\ demand' \subseteq {"velocity", "torque", "mit"} /\ axisError' \in BOOLEAN
  <2>1. CASE CommandElapsed(now)
    BY <1>1, <2>1 DEF TypeOK, check_deadlines, apply_timeout_action
  <2>2. CASE ~CommandElapsed(now) /\ HeartbeatElapsed(now)
    BY <1>1, <2>2 DEF TypeOK, check_deadlines, apply_timeout_action
  <2>3. CASE ~CommandElapsed(now) /\ ~HeartbeatElapsed(now)
    BY <1>1, <2>3 DEF TypeOK, check_deadlines
  <2> QED BY <2>1, <2>2, <2>3
<1>5. target' \in {"seen", "here", "elsewhere"} /\ trajectory' \in BOOLEAN
  BY <1>1 DEF TypeOK, UpdateController, TargetInForce
<1> QED BY <1>1, <1>2, <1>3, <1>4, <1>5 DEF TypeOK

(* The steps of a handler that has begun. *)
LEMMA HandlerType ==
  ASSUME TypeOK, HandlerStep
  PROVE  TypeOK'
<1>1. CASE feed_command
  <2>1. commandDeadline' \in 0..(Wrap - 1)
    BY <1>1, ConstantsAssumption DEF feed_command, TypeOK, Plus, Wrap
  <2>2. pc' \in {"test", "errors", "ready"} /\ UNCHANGED clearing
    BY <1>1 DEF feed_command, Return
  <2> QED BY <1>1, <2>1, <2>2, ConstantsAssumption DEF feed_command, TypeOK
<1>2. CASE ForgetTimeout
  <2>1. pc' \in {"clear", "errors", "ready"} /\ UNCHANGED clearing
    BY <1>2 DEF ForgetTimeout, Return
  <2>2. expired' \in BOOLEAN /\ overridden' \in BOOLEAN
    BY <1>2 DEF ForgetTimeout, TypeOK
  <2> QED BY <1>2, <2>1, <2>2 DEF ForgetTimeout, TypeOK
<1>3. CASE clear
  <2>1. pc' \in {"feed", "errors", "ready"} /\ UNCHANGED clearing
    BY <1>3 DEF clear, Return
  <2> QED BY <1>3, <2>1 DEF clear, TypeOK
<1>4. CASE ErrorsCleared
  BY <1>4 DEF ErrorsCleared, TypeOK
<1> QED BY <1>1, <1>2, <1>3, <1>4 DEF HandlerStep

LEMMA FeedHeartbeatType ==
  ASSUME TypeOK, feed_heartbeat, heartbeatTimeout' \in HeartbeatTimeouts
  PROVE  heartbeatDeadline' \in 0..(Wrap - 1) /\ heartbeatAge' \in 0..Half
<1>1. heartbeatTimeout' \in 0..Half
  BY ConstantsAssumption
<1>2. heartbeatTimeout' \in 0..(Wrap - 1) /\ tick \in 0..(Wrap - 1)
  BY <1>1, ConstantsAssumption DEF TypeOK, Wrap
<1>3. Plus(tick, heartbeatTimeout') \in 0..(Wrap - 1)
  BY <1>2, TickClosed
<1>4. 0 \in 0..(Wrap - 1) /\ 0 \in 0..Half
  BY ConstantsAssumption DEF Wrap
<1> QED BY <1>3, <1>4 DEF feed_heartbeat

LEMMA FrameType ==
  ASSUME TypeOK, Frame
  PROVE  TypeOK'
<1>1. CASE SetInputPos
  <2>1. target' \in {"seen", "here", "elsewhere"}
    BY <1>1 DEF SetInputPos, TargetInUse
  <2>2. demand' \subseteq {"velocity", "torque", "mit"}
    BY <1>1 DEF SetInputPos, TypeOK, InUse
  <2> QED BY <1>1, <2>1, <2>2 DEF SetInputPos, MotionFrame, TypeOK
<1>2. CASE SetInputVel
  <2>1. demand' \subseteq {"velocity", "torque", "mit"}
    BY <1>2 DEF SetInputVel, TypeOK, InUse
  <2> QED BY <1>2, <2>1 DEF SetInputVel, MotionFrame, TypeOK
<1>3. CASE SetInputTorque
  <2>1. demand' \subseteq {"velocity", "torque", "mit"}
    BY <1>3 DEF SetInputTorque, TypeOK, InUse
  <2> QED BY <1>3, <2>1 DEF SetInputTorque, MotionFrame, TypeOK
<1>4. CASE SetMitControl
  <2>1. demand' \subseteq {"velocity", "torque", "mit"}
    BY <1>4 DEF SetMitControl, TypeOK
  <2> QED BY <1>4, <2>1 DEF SetMitControl, MotionFrame, TypeOK
<1>5. CASE SetControllerModes
  <2>1. demand' \subseteq {"velocity", "torque", "mit"}
    BY <1>5 DEF SetControllerModes, control_mode_updated, TypeOK
  <2> QED BY <1>5, <2>1 DEF SetControllerModes, control_mode_updated, TypeOK
<1>6. CASE SetServoMode
  <2>1. demand' \subseteq {"velocity", "torque", "mit"}
    BY <1>6 DEF SetServoMode, control_mode_updated, TypeOK
  <2>2. timeoutAction' \in TimeoutActions
    BY <1>6, ModeActionType, ConstantsAssumption DEF SetServoMode
  <2> QED BY <1>6, <2>1, <2>2 DEF SetServoMode, control_mode_updated, TypeOK
<1>7. CASE SetTimeoutAction
  BY <1>7, ConstantsAssumption DEF SetTimeoutAction, TypeOK
<1>8. CASE SetCommandTimeout
  BY <1>8 DEF SetCommandTimeout, TypeOK
<1>9. CASE SetHeartbeatTimeout
  <2>1. heartbeatTimeout' \in HeartbeatTimeouts /\ feed_heartbeat
    BY <1>9 DEF SetHeartbeatTimeout
  <2>2. heartbeatDeadline' \in 0..(Wrap - 1) /\ heartbeatAge' \in 0..Half
    BY <2>1, FeedHeartbeatType
  <2> QED BY <1>9, <2>2 DEF SetHeartbeatTimeout, TypeOK
<1>10. CASE HostHeartbeat
  <2>1. heartbeatTimeout' \in HeartbeatTimeouts /\ feed_heartbeat
    BY <1>10 DEF HostHeartbeat, TypeOK
  <2>2. heartbeatDeadline' \in 0..(Wrap - 1) /\ heartbeatAge' \in 0..Half
    BY <2>1, FeedHeartbeatType
  <2> QED BY <1>10, <2>2 DEF HostHeartbeat, TypeOK
<1>11. CASE Estop
  BY <1>11 DEF Estop, TypeOK
<1>12. CASE ClearErrors
  BY <1>12 DEF ClearErrors, TypeOK
<1> QED BY <1>1, <1>2, <1>3, <1>4, <1>5, <1>6, <1>7, <1>8, <1>9, <1>10, <1>11, <1>12
        DEF Frame

LEMMA AxisStepType ==
  ASSUME TypeOK, AxisStep
  PROVE  TypeOK'
<1>1. CASE start_closed_loop_control
  <2>1. demand' \subseteq {"velocity", "torque", "mit"}
    BY <1>1 DEF start_closed_loop_control, TypeOK
  <2> QED BY <1>1, <2>1 DEF start_closed_loop_control, TargetInUse, TypeOK
<1>2. CASE ArmMotor
  BY <1>2 DEF ArmMotor, TypeOK
<1>3. CASE stop_closed_loop_control
  BY <1>3 DEF stop_closed_loop_control, TypeOK
<1> QED BY <1>1, <1>2, <1>3 DEF AxisStep

(* Every variable keeps to its range, the tick and the deadlines to theirs across   *)
(* every wrap, whatever the timeouts of the configuration.                          *)
THEOREM TypeCorrect == Spec => []TypeOK
<1>1. TypeOK /\ [Next]_vars => TypeOK'
  <2> SUFFICES ASSUME TypeOK, [Next]_vars PROVE TypeOK'
    OBVIOUS
  <2>1. CASE ControlIteration BY <2>1, ControlIterationType
  <2>2. CASE HandlerStep BY <2>2, HandlerType
  <2>3. CASE Frame BY <2>3, FrameType
  <2>4. CASE AxisStep BY <2>4, AxisStepType
  <2>5. CASE UNCHANGED vars BY <2>5 DEF vars, TypeOK
  <2> QED BY <2>1, <2>2, <2>3, <2>4, <2>5 DEF Next
<1> QED BY InitType, <1>1, PTL DEF Spec

------------------------------------------------------------------------------------
(* Deaf only when quiet. *)

(* A timeout leaves the inputs of the mode quiet, unless its action was the host's. *)
LEMMA TimeoutQuiets ==
  ASSUME TypeOK, NEW why, apply_timeout_action(why), UNCHANGED mode,
         effective_timeout_action = "HOLD_LAST_POSITION" => target' = "seen"
  PROVE  Quiet' \/ overridden'
<1> DEFINE action == effective_timeout_action
<1>1. demand' = demand \ Silenced(action) /\ overridden' = (action # ModeAction(mode))
  BY DEF apply_timeout_action
<1>2. mode \in ServoModes
  BY ConstantsAssumption DEF TypeOK
<1> SUFFICES ASSUME action = ModeAction(mode) PROVE Quiet'
  BY <1>1
<1>3. CASE mode = "VELOCITY"
  BY <1>1, <1>3 DEF Quiet, Silenced, ModeAction, QuickStops
<1>4. CASE mode = "TORQUE"
  BY <1>1, <1>4 DEF Quiet, Silenced, ModeAction, QuickStops
<1>5. CASE mode = "MIT_REALTIME"
  BY <1>1, <1>5 DEF Quiet, Silenced, ModeAction, QuickStops
<1>6. CASE mode = "PROFILE_POSITION"
  BY <1>6 DEF Quiet, ModeAction
<1> QED BY <1>2, <1>3, <1>4, <1>5, <1>6 DEF ServoModes

(* A timeout that runs the action of the mode begins no trajectory.                *)
LEMMA TimeoutPlansNothing ==
  ASSUME TypeOK, NEW why, apply_timeout_action(why), NEW wanted, UpdateController(wanted),
         effective_timeout_action = "HOLD_LAST_POSITION" => wanted = "seen"
  PROVE  overridden' \/ (trajectory' => trajectory)
<1>1. overridden' = (effective_timeout_action # ModeAction(mode))
  BY DEF apply_timeout_action
<1>2. mode = "PROFILE_POSITION" => ModeAction(mode) = "HOLD_LAST_POSITION"
  BY DEF ModeAction
<1> QED BY <1>1, <1>2 DEF UpdateController

(* The interrupt keeps quiet inputs quiet, and makes them so when a deadline has    *)
(* elapsed; either way it begins no trajectory.                                    *)
LEMMA IterationQuiets ==
  ASSUME TypeOK, NEW now, check_deadlines(now), UpdateController(TargetInForce(now)),
         UNCHANGED mode,
         \/ expired /\ (Quiet \/ overridden)
         \/ CommandElapsed(now) \/ HeartbeatElapsed(now)
  PROVE  overridden' \/ (Quiet' /\ (trajectory' => trajectory))
<1>1. CASE CommandElapsed(now)
  <2>1. apply_timeout_action("command")
    BY <1>1 DEF check_deadlines
  <2>2. effective_timeout_action = "HOLD_LAST_POSITION" => target' = "seen"
    BY <1>1 DEF UpdateController, TargetInForce
  <2>3. overridden' \/ (trajectory' => trajectory)
    BY <1>1, <2>1, TimeoutPlansNothing DEF TargetInForce
  <2> QED BY <2>1, <2>2, <2>3, TimeoutQuiets
<1>2. CASE ~CommandElapsed(now) /\ HeartbeatElapsed(now)
  <2>1. apply_timeout_action("heartbeat")
    BY <1>2 DEF check_deadlines
  <2>2. effective_timeout_action = "HOLD_LAST_POSITION" => target' = "seen"
    BY <1>2 DEF UpdateController, TargetInForce
  <2>3. overridden' \/ (trajectory' => trajectory)
    BY <1>2, <2>1, TimeoutPlansNothing DEF TargetInForce
  <2> QED BY <2>1, <2>2, <2>3, TimeoutQuiets
<1>3. CASE ~CommandElapsed(now) /\ ~HeartbeatElapsed(now)
  <2>1. UNCHANGED <<overridden, demand>> /\ target' \in {target, "seen"}
    BY <1>3 DEF check_deadlines, UpdateController, TargetInForce
  <2>2. Quiet \/ overridden
    BY <1>3
  <2>3. Quiet => (trajectory' => trajectory)
    BY <1>3 DEF Quiet, UpdateController, TargetInForce
  <2> QED BY <2>1, <2>2, <2>3 DEF Quiet
<1> QED BY <1>1, <1>2, <1>3

LEMMA DeafStep ==
  ASSUME TypeOK, DeafOnlyWhenQuiet, [Next]_vars
  PROVE  DeafOnlyWhenQuiet'
<1> SUFFICES ASSUME expired', commandTimeout' > 0, Fed'
             PROVE  Quiet' \/ overridden'
  BY DEF DeafOnlyWhenQuiet
<1>1. CASE ControlIteration
  <2>1. PICK now \in {tick, Plus(tick, 1)} :
          check_deadlines(now) /\ UpdateController(TargetInForce(now))
    BY <1>1 DEF ControlIteration
  <2>2. UNCHANGED <<mode, commandTimeout, pc>>
    BY <1>1 DEF ControlIteration
  <2>3. CASE CommandElapsed(now) \/ HeartbeatElapsed(now)
    BY <2>1, <2>2, <2>3, IterationQuiets
  <2>4. CASE ~CommandElapsed(now) /\ ~HeartbeatElapsed(now)
    <3>1. expired
      BY <2>1, <2>4 DEF check_deadlines
    <3>2. Quiet \/ overridden
      BY <2>2, <3>1 DEF DeafOnlyWhenQuiet, Fed
    <3> QED BY <2>1, <2>2, <3>1, <3>2, IterationQuiets
  <2> QED BY <2>3, <2>4
<1>2. CASE feed_command
  <2>1. pc' = "test" \/ ~(commandTimeout > 0)
    BY <1>2 DEF feed_command
  <2>2. UNCHANGED commandTimeout
    BY <1>2 DEF feed_command
  <2> QED BY <2>1, <2>2 DEF Fed
<1>3. CASE ForgetTimeout
  BY <1>3 DEF ForgetTimeout
<1>4. CASE clear
  <2>1. pc = "clear" \/ pc' = "feed"
    BY <1>4 DEF clear
  <2>2. UNCHANGED <<mode, commandTimeout, expired, overridden, demand, target>>
    BY <1>4 DEF clear
  <2> QED BY <2>1, <2>2 DEF DeafOnlyWhenQuiet, Fed, Quiet
<1>5. CASE ErrorsCleared
  BY <1>5 DEF ErrorsCleared, DeafOnlyWhenQuiet, Fed, Quiet
<1>6. CASE SetInputPos \/ SetInputVel \/ SetInputTorque \/ SetMitControl
  <2>1. pc' = "feed"
    BY <1>6 DEF SetInputPos, SetInputVel, SetInputTorque, SetMitControl, MotionFrame
  <2> QED BY <2>1 DEF Fed
<1>7. CASE SetControllerModes \/ SetServoMode \/ SetCommandTimeout
  <2>1. pc' = "feed"
    BY <1>7 DEF SetControllerModes, SetServoMode, SetCommandTimeout
  <2> QED BY <2>1 DEF Fed
<1>8. CASE SetTimeoutAction
  BY <1>8 DEF SetTimeoutAction, DeafOnlyWhenQuiet, Fed, Quiet
<1>9. CASE SetHeartbeatTimeout
  BY <1>9 DEF SetHeartbeatTimeout, DeafOnlyWhenQuiet, Fed, Quiet
<1>10. CASE HostHeartbeat
  BY <1>10 DEF HostHeartbeat, DeafOnlyWhenQuiet, Fed, Quiet
<1>11. CASE Estop
  BY <1>11 DEF Estop, DeafOnlyWhenQuiet, Fed, Quiet
<1>12. CASE ClearErrors
  BY <1>12 DEF ClearErrors
<1>13. CASE start_closed_loop_control
  BY <1>13 DEF start_closed_loop_control, TargetInUse, DeafOnlyWhenQuiet, Fed, Quiet
<1>14. CASE ArmMotor
  BY <1>14 DEF ArmMotor, DeafOnlyWhenQuiet, Fed, Quiet
<1>15. CASE stop_closed_loop_control
  BY <1>15 DEF stop_closed_loop_control, DeafOnlyWhenQuiet, Fed, Quiet
<1>16. CASE UNCHANGED vars
  BY <1>16 DEF vars, DeafOnlyWhenQuiet, Fed, Quiet
<1> QED
  BY <1>1, <1>2, <1>3, <1>4, <1>5, <1>6, <1>7, <1>8, <1>9, <1>10, <1>11, <1>12, <1>13,
     <1>14, <1>15, <1>16 DEF Next, HandlerStep, Frame, AxisStep

(* check_command() and check_heartbeat() may return early while a timeout is        *)
(* latched: for as long, the inputs of the mode in force ask for nothing.           *)
THEOREM DeafIsSafe == Spec => []DeafOnlyWhenQuiet
<1>1. Init => DeafOnlyWhenQuiet
  BY DEF Init, DeafOnlyWhenQuiet
<1>2. TypeOK /\ DeafOnlyWhenQuiet /\ [Next]_vars => DeafOnlyWhenQuiet'
  BY DeafStep
<1> QED BY <1>1, <1>2, TypeCorrect, PTL DEF Spec

------------------------------------------------------------------------------------
(* Silence. *)

(* A deadline lies its timeout behind the last feed, for as long as the tick has    *)
(* not gone half way round since.                                                  *)
Matches(deadline, timeout, age) ==
  age < Half => deadline = Plus(Minus(tick, age), timeout)
CommandMatches ==
  pc # "feed" /\ commandDeadline # 0 => Matches(commandDeadline, commandTimeout, commandAge)
HeartbeatMatches ==
  heartbeatDeadline # 0 => Matches(heartbeatDeadline, heartbeatTimeout, heartbeatAge)
DeadlinesMatch == CommandMatches /\ HeartbeatMatches

(* Time passes for a deadline that nobody feeds. *)
LEMMA MatchesLater ==
  ASSUME TypeOK, NEW deadline, NEW timeout, NEW age \in 0..Half, NEW aged,
         NEW now \in {tick, Plus(tick, 1)}, tick' = now,
         aged = IF now = tick THEN age ELSE Older(age),
         Matches(deadline, timeout, age)
  PROVE  aged < Half => deadline = Plus(Minus(now, aged), timeout)
<1>1. CASE now = tick
  BY <1>1 DEF Matches
<1>2. CASE now # tick
  <2> SUFFICES ASSUME aged < Half PROVE deadline = Plus(Minus(now, aged), timeout)
    OBVIOUS
  <2>1. age \in 0..(Half - 1) /\ aged = age + 1
    BY <1>2, ConstantsAssumption DEF Older
  <2>2. tick \in 0..(Wrap - 1)
    BY DEF TypeOK
  <2>3. Minus(now, aged) = Minus(tick, age)
    BY <1>2, <2>1, <2>2, OlderByTick
  <2>4. age < Half
    BY <2>1, ConstantsAssumption
  <2> QED BY <2>3, <2>4 DEF Matches
<1> QED BY <1>1, <1>2

(* A deadline that has just been fed. *)
LEMMA MatchesFresh ==
  ASSUME TypeOK, NEW timeout
  PROVE  Plus(tick, timeout) = Plus(Minus(tick, 0), timeout)
<1>1. Minus(tick, 0) = tick
  BY ConstantsAssumption DEF TypeOK, Minus, Wrap
<1> QED BY <1>1

LEMMA HeartbeatFed ==
  ASSUME TypeOK, feed_heartbeat, UNCHANGED tick
  PROVE  HeartbeatMatches'
<1> SUFFICES ASSUME heartbeatDeadline' # 0
             PROVE  heartbeatDeadline' = Plus(Minus(tick, 0), heartbeatTimeout')
  BY DEF feed_heartbeat, HeartbeatMatches, Matches
<1> QED BY MatchesFresh DEF feed_heartbeat

LEMMA MatchStep ==
  ASSUME TypeOK, DeadlinesMatch, [Next]_vars
  PROVE  DeadlinesMatch'
<1>1. CASE ControlIteration
  <2>1. PICK now \in {tick, Plus(tick, 1)} :
          /\ tick' = now
          /\ commandAge' = IF now = tick THEN commandAge ELSE Older(commandAge)
          /\ heartbeatAge' = IF now = tick THEN heartbeatAge ELSE Older(heartbeatAge)
          /\ UNCHANGED <<configVars, commandDeadline, heartbeatDeadline, threadVars>>
    BY <1>1 DEF ControlIteration
  <2>2. CommandMatches'
    <3> SUFFICES ASSUME pc # "feed", commandDeadline # 0
                 PROVE  commandAge' < Half =>
                          commandDeadline = Plus(Minus(now, commandAge'), commandTimeout)
      BY <2>1 DEF CommandMatches, Matches
    <3>1. Matches(commandDeadline, commandTimeout, commandAge)
      BY DEF DeadlinesMatch, CommandMatches
    <3>2. commandAge \in 0..Half
      BY DEF TypeOK
    <3> QED BY <2>1, <3>1, <3>2, MatchesLater
  <2>3. HeartbeatMatches'
    <3> SUFFICES ASSUME heartbeatDeadline # 0
                 PROVE  heartbeatAge' < Half =>
                          heartbeatDeadline = Plus(Minus(now, heartbeatAge'), heartbeatTimeout)
      BY <2>1 DEF HeartbeatMatches, Matches
    <3>1. Matches(heartbeatDeadline, heartbeatTimeout, heartbeatAge)
      BY DEF DeadlinesMatch, HeartbeatMatches
    <3>2. heartbeatAge \in 0..Half
      BY DEF TypeOK
    <3> QED BY <2>1, <3>1, <3>2, MatchesLater
  <2> QED BY <2>2, <2>3 DEF DeadlinesMatch
<1>2. CASE feed_command
  <2>1. UNCHANGED <<tick, heartbeatVars, configVars>> /\ commandAge' = 0
    BY <1>2 DEF feed_command
  <2>2. commandDeadline' # 0 => commandDeadline' = Plus(Minus(tick, 0), commandTimeout)
    BY <1>2, MatchesFresh DEF feed_command
  <2> QED BY <2>1, <2>2 DEF DeadlinesMatch, CommandMatches, HeartbeatMatches, Matches
<1>3. CASE ForgetTimeout
  <2>1. UNCHANGED <<tick, configVars, commandVars, heartbeatVars>> /\ pc = "test"
    BY <1>3 DEF ForgetTimeout
  <2> QED BY <2>1 DEF DeadlinesMatch, CommandMatches, HeartbeatMatches, Matches
<1>4. CASE clear
  <2>1. UNCHANGED <<tick, configVars, commandVars, heartbeatVars>> /\ pc # "feed"
    BY <1>4 DEF clear
  <2> QED BY <2>1 DEF DeadlinesMatch, CommandMatches, HeartbeatMatches, Matches
<1>5. CASE SetInputPos \/ SetInputVel \/ SetInputTorque \/ SetMitControl
  <2>1. UNCHANGED <<tick, configVars, commandVars, heartbeatVars>> /\ pc' = "feed"
    BY <1>5 DEF SetInputPos, SetInputVel, SetInputTorque, SetMitControl, MotionFrame
  <2> QED BY <2>1 DEF DeadlinesMatch, CommandMatches, HeartbeatMatches, Matches
<1>6. CASE SetControllerModes \/ SetServoMode \/ SetCommandTimeout
  <2>1. UNCHANGED <<tick, heartbeatTimeout, heartbeatVars>> /\ pc' = "feed"
    BY <1>6 DEF SetControllerModes, SetServoMode, SetCommandTimeout
  <2> QED BY <2>1 DEF DeadlinesMatch, CommandMatches, HeartbeatMatches, Matches
<1>7. CASE SetHeartbeatTimeout \/ HostHeartbeat
  <2>1. UNCHANGED <<tick, commandTimeout, commandVars, pc>> /\ feed_heartbeat
    BY <1>7 DEF SetHeartbeatTimeout, HostHeartbeat
  <2> QED
    BY <2>1, HeartbeatFed DEF DeadlinesMatch, CommandMatches, Matches
<1>8. CASE SetTimeoutAction \/ Estop \/ ClearErrors \/ ErrorsCleared
  <2>1. /\ UNCHANGED <<tick, commandTimeout, heartbeatTimeout, commandVars, heartbeatVars>>
        /\ pc # "feed"
    BY <1>8 DEF SetTimeoutAction, Estop, ClearErrors, ErrorsCleared
  <2> QED BY <2>1 DEF DeadlinesMatch, CommandMatches, HeartbeatMatches, Matches
<1>9. CASE AxisStep \/ UNCHANGED vars
  <2>1. UNCHANGED <<tick, configVars, commandVars, heartbeatVars, pc>>
    BY <1>9 DEF AxisStep, start_closed_loop_control, ArmMotor, stop_closed_loop_control, vars
  <2> QED BY <2>1 DEF DeadlinesMatch, CommandMatches, HeartbeatMatches, Matches
<1> QED
  BY <1>1, <1>2, <1>3, <1>4, <1>5, <1>6, <1>7, <1>8, <1>9 DEF Next, HandlerStep, Frame

LEMMA AlwaysMatch == Spec => []DeadlinesMatch
<1>1. Init => DeadlinesMatch
  BY DEF Init, DeadlinesMatch, CommandMatches, HeartbeatMatches
<1>2. TypeOK /\ DeadlinesMatch /\ [Next]_vars => DeadlinesMatch'
  BY MatchStep
<1> QED BY <1>1, <1>2, TypeCorrect, PTL DEF Spec

(* So the interrupt finds a deadline elapsed exactly when its age says so.          *)
LEMMA ExactAge ==
  ASSUME NEW now \in 0..(Wrap - 1), NEW deadline, NEW timeout \in 0..Half,
         NEW age \in 0..Half, age < Half,
         age < Half => deadline = Plus(Minus(now, age), timeout)
  PROVE  deadline_expired(deadline, now) <=> age >= timeout
<1>1. age \in 0..(Half - 1)
  BY ConstantsAssumption
<1> QED BY <1>1, ElapsedIsAge

LEMMA IterationAges ==
  ASSUME TypeOK, TypeOK', DeadlinesMatch', ControlIteration
  PROVE  \E now \in {tick, Plus(tick, 1)} :
           /\ check_deadlines(now) /\ UpdateController(TargetInForce(now))
           /\ pc # "feed" /\ commandDeadline # 0 /\ commandAge' < Half =>
                (deadline_expired(commandDeadline, now) <=> commandAge' >= commandTimeout)
           /\ heartbeatDeadline # 0 /\ heartbeatAge' < Half =>
                (deadline_expired(heartbeatDeadline, now) <=> heartbeatAge' >= heartbeatTimeout)
<1>1. PICK now \in {tick, Plus(tick, 1)} :
        /\ tick' = now /\ check_deadlines(now) /\ UpdateController(TargetInForce(now))
        /\ UNCHANGED <<configVars, commandDeadline, heartbeatDeadline, threadVars>>
  BY DEF ControlIteration
<1>2. /\ now \in 0..(Wrap - 1)
      /\ commandTimeout \in 0..Half /\ heartbeatTimeout \in 0..Half
      /\ commandAge' \in 0..Half /\ heartbeatAge' \in 0..Half
  BY <1>1, ConstantsAssumption DEF TypeOK
<1>3. ASSUME pc # "feed", commandDeadline # 0, commandAge' < Half
      PROVE  deadline_expired(commandDeadline, now) <=> commandAge' >= commandTimeout
  <2>1. commandAge' < Half => commandDeadline = Plus(Minus(now, commandAge'), commandTimeout)
    BY <1>1, <1>3 DEF DeadlinesMatch, CommandMatches, Matches
  <2> QED BY <1>2, <1>3, <2>1, ExactAge
<1>4. ASSUME heartbeatDeadline # 0, heartbeatAge' < Half
      PROVE  deadline_expired(heartbeatDeadline, now) <=> heartbeatAge' >= heartbeatTimeout
  <2>1. heartbeatAge' < Half =>
          heartbeatDeadline = Plus(Minus(now, heartbeatAge'), heartbeatTimeout)
    BY <1>1, <1>4 DEF DeadlinesMatch, HeartbeatMatches, Matches
  <2> QED BY <1>2, <1>4, <2>1, ExactAge
<1> QED BY <1>1, <1>3, <1>4

LEMMA SilenceStep ==
  ASSUME TypeOK, TypeOK', DeafOnlyWhenQuiet, DeadlinesMatch', ControlIteration,
         commandTimeout > 0, Fed,
         \/ commandDeadline # 0 /\ commandAge' \in commandTimeout..(Half - 1)
         \/ heartbeatDeadline # 0 /\ heartbeatAge' \in heartbeatTimeout..(Half - 1)
  PROVE  overridden' \/ (Quiet' /\ (trajectory' => trajectory))
<1>1. PICK now \in {tick, Plus(tick, 1)} :
        /\ check_deadlines(now) /\ UpdateController(TargetInForce(now))
        /\ pc # "feed" /\ commandDeadline # 0 /\ commandAge' < Half =>
             (deadline_expired(commandDeadline, now) <=> commandAge' >= commandTimeout)
        /\ heartbeatDeadline # 0 /\ heartbeatAge' < Half =>
             (deadline_expired(heartbeatDeadline, now) <=> heartbeatAge' >= heartbeatTimeout)
  BY IterationAges
<1>2. UNCHANGED mode /\ pc # "feed"
  BY DEF ControlIteration, Fed
<1>3. CASE expired
  BY <1>1, <1>2, <1>3, IterationQuiets DEF DeafOnlyWhenQuiet
<1>4. CASE ~expired
  <2>1. CASE commandDeadline # 0 /\ commandAge' \in commandTimeout..(Half - 1)
    <3>1. commandAge' < Half /\ commandAge' >= commandTimeout
      BY <2>1, ConstantsAssumption DEF TypeOK
    <3>2. CommandElapsed(now)
      BY <1>1, <1>2, <1>4, <2>1, <3>1 DEF CommandElapsed
    <3> QED BY <1>1, <1>2, <3>2, IterationQuiets
  <2>2. CASE heartbeatDeadline # 0 /\ heartbeatAge' \in heartbeatTimeout..(Half - 1)
    <3>1. heartbeatAge' < Half /\ heartbeatAge' >= heartbeatTimeout
      BY <2>2, ConstantsAssumption DEF TypeOK
    <3>2. HeartbeatElapsed(now)
      BY <1>1, <1>4, <2>2, <3>1 DEF HeartbeatElapsed
    <3> QED BY <1>1, <1>2, <3>2, IterationQuiets
  <2> QED BY <2>1, <2>2
<1> QED BY <1>3, <1>4

(* Once a host has been silent for a timeout that has a deadline, and no action of  *)
(* its own choice ran, the inputs ask for nothing and no trajectory is begun, for   *)
(* any width of the tick and wherever in its turn the silence falls.               *)
THEOREM SilenceIsSafe == Spec => SilenceStops
<1>1. TypeOK /\ TypeOK' /\ DeafOnlyWhenQuiet /\ DeadlinesMatch' /\ [Next]_vars =>
        [/\ ControlIteration /\ commandTimeout > 0 /\ Fed
         /\ \/ commandDeadline # 0 /\ CommandSilent
            \/ heartbeatDeadline # 0 /\ HeartbeatSilent
         => overridden' \/ (Quiet' /\ (trajectory' => trajectory))]_vars
  <2> SUFFICES ASSUME TypeOK, TypeOK', DeafOnlyWhenQuiet, DeadlinesMatch', ControlIteration,
                      commandTimeout > 0, Fed,
                      \/ commandDeadline # 0 /\ CommandSilent
                      \/ heartbeatDeadline # 0 /\ HeartbeatSilent
               PROVE  overridden' \/ (Quiet' /\ (trajectory' => trajectory))
    OBVIOUS
  <2> QED BY SilenceStep DEF CommandSilent, HeartbeatSilent
<1> QED BY <1>1, TypeCorrect, DeafIsSafe, AlwaysMatch, PTL DEF Spec, SilenceStops

LEMMA ExpiryStep ==
  ASSUME TypeOK, TypeOK', DeadlinesMatch', [Next]_vars, expired', ~expired
  PROVE  \/ reason' = "command" /\ (commandAge' >= commandTimeout \/ ~Fed)
         \/ reason' = "heartbeat" /\ heartbeatAge' >= heartbeatTimeout
<1>1. ControlIteration
  <2>1. ~HandlerStep
    BY DEF HandlerStep, feed_command, ForgetTimeout, clear, ErrorsCleared
  <2>2. ~Frame
    BY DEF Frame, SetInputPos, SetInputVel, SetInputTorque, SetMitControl, MotionFrame,
           SetControllerModes, SetServoMode, SetTimeoutAction, SetCommandTimeout,
           SetHeartbeatTimeout, HostHeartbeat, Estop, ClearErrors
  <2>3. ~AxisStep
    BY DEF AxisStep, start_closed_loop_control, ArmMotor, stop_closed_loop_control
  <2> QED BY <2>1, <2>2, <2>3 DEF Next, vars
<1>2. PICK now \in {tick, Plus(tick, 1)} :
        /\ check_deadlines(now)
        /\ pc # "feed" /\ commandDeadline # 0 /\ commandAge' < Half =>
             (deadline_expired(commandDeadline, now) <=> commandAge' >= commandTimeout)
        /\ heartbeatDeadline # 0 /\ heartbeatAge' < Half =>
             (deadline_expired(heartbeatDeadline, now) <=> heartbeatAge' >= heartbeatTimeout)
  BY <1>1, IterationAges
<1>3. /\ commandTimeout \in 0..Half /\ heartbeatTimeout \in 0..Half
      /\ commandAge' \in 0..Half /\ heartbeatAge' \in 0..Half
  BY ConstantsAssumption DEF TypeOK
<1>4. CASE CommandElapsed(now)
  <2>1. reason' = "command"
    BY <1>2, <1>4 DEF check_deadlines, apply_timeout_action
  <2>2. Fed => commandAge' >= commandTimeout
    BY <1>2, <1>3, <1>4, ConstantsAssumption DEF CommandElapsed, Fed
  <2> QED BY <2>1, <2>2
<1>5. CASE ~CommandElapsed(now) /\ HeartbeatElapsed(now)
  <2>1. reason' = "heartbeat"
    BY <1>2, <1>5 DEF check_deadlines, apply_timeout_action
  <2>2. heartbeatAge' >= heartbeatTimeout
    BY <1>2, <1>3, <1>5, ConstantsAssumption DEF HeartbeatElapsed
  <2> QED BY <2>1, <2>2
<1>6. CASE ~CommandElapsed(now) /\ ~HeartbeatElapsed(now)
  BY <1>2, <1>6 DEF check_deadlines
<1> QED BY <1>4, <1>5, <1>6

(* No timeout is declared early, nor blamed on the wrong watchdog: an age has       *)
(* reached its timeout whatever the tick was when the deadline was set.             *)
THEOREM ExpiryIsSound == Spec => OnlySilenceExpires
<1>1. TypeOK /\ TypeOK' /\ DeadlinesMatch' /\ [Next]_vars =>
        [expired' /\ ~expired =>
           \/ reason' = "command" /\ (commandAge' >= commandTimeout \/ ~Fed)
           \/ reason' = "heartbeat" /\ heartbeatAge' >= heartbeatTimeout]_vars
  BY ExpiryStep
<1> QED BY <1>1, TypeCorrect, AlwaysMatch, PTL DEF Spec, OnlySilenceExpires
====================================================================================
