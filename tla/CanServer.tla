--------------------------------- MODULE CanServer ---------------------------------
(* The CAN server: the thread of odrive_can.cpp, the subscription that follows    *)
(* the node id (can_simple.cpp), and the controller's receive FIFO, filter banks  *)
(* and transmit mailboxes. A frame is the node it is addressed to and the id it   *)
(* sets, if it sets one; what else a command does is left to the other modules.   *)
(* Extended ids, which nothing configures, are left out.                          *)
EXTENDS Naturals, Sequences

CONSTANTS
  NodeIds, NoId,
  Slots,      \* subscriptions_: one filter bank each (8)
  FifoDepth,  \* frames the receive FIFO holds (3)
  Mailboxes,  \* transmit mailboxes (3)
  Burst       \* frames the bus can bring while the thread empties the FIFO

ASSUME CanAssumption ==
  /\ NoId \notin NodeIds
  /\ {Slots, FifoDepth, Mailboxes, Burst} \subseteq Nat \ {0}

VARIABLES
  node_id,       \* axis.config_.can.node_id
  subscribedId,  \* node_ids_[0]
  subscriptions, \* the id each slot's filter accepts, or NoId if its fifo is none
  handle,        \* subscription_handles_[0], 0 for null
  denied,        \* the last renew_subscription() found no slot
  fifo,          \* frames received and not yet fetched
  mailboxes,     \* frames waiting for the bus
  rxNotified, txNotified,  \* interrupts enabled
  sem_can,
  arrived,       \* frames that came in since the thread began to fetch
  due,           \* a periodic message is due
  server             \* where the server thread is

subscribed == <<subscribedId, subscriptions, handle, denied>>
driverVars == <<node_id, subscribed>>
notified == <<rxNotified, txNotified, sem_can>>
serverVars == <<driverVars, fifo, mailboxes, notified, arrived, due, server>>

SlotIds == 1..Slots
Frames == [to : NodeIds, sets : NodeIds \union {NoId}]
Accepts(id) == \E s \in SlotIds : subscriptions[s] = id

------------------------------------------------------------------------------------
(* Subscriptions. *)

(* unsubscribe(): a slot in use is taken for one that is not, and kept.           *)
unsubscribe(slots, h) ==
  IF h = 0 \/ slots[h] # NoId THEN slots ELSE [slots EXCEPT ![h] = NoId]

(* subscribe() takes the first slot that is not in use, if there is one.          *)
Unused(slots) == {s \in SlotIds : slots[s] = NoId}
First(S) == CHOOSE s \in S : \A t \in S : s <= t

renew_subscription_OnlyOnce(id) ==
  LET slots == unsubscribe(subscriptions, handle) IN
  /\ subscribedId' = id /\ denied' = (Unused(slots) = {})
  /\ IF handle # 0 \/ denied' THEN subscriptions' = slots /\ UNCHANGED handle
     ELSE /\ handle' = First(Unused(slots))
          /\ subscriptions' = [slots EXCEPT ![handle'] = id]

(* Whether there was a slot is not looked at by any caller.                       *)
renew_subscription(id) ==
  LET slots == unsubscribe(subscriptions, handle) IN
  /\ subscribedId' = id /\ denied' = (Unused(slots) = {})
  /\ IF denied' THEN subscriptions' = slots /\ UNCHANGED handle
     ELSE /\ handle' = First(Unused(slots))
          /\ subscriptions' = [slots EXCEPT ![handle'] = id]

------------------------------------------------------------------------------------
(* The server thread.                                                             *)

(* can_simple_.init().                                                            *)
StartServer ==
  /\ server = "start" /\ server' = "service"
  /\ renew_subscription(node_id)
  /\ UNCHANGED <<node_id, fifo, mailboxes, notified, arrived, due>>

(* service_stack(): the node id is polled, and a periodic message that is due is  *)
(* sent if there is a mailbox; if not, it stays due.                              *)
service_stack ==
  /\ server = "service" /\ server' = "receive"
  /\ IF node_id # subscribedId THEN renew_subscription(node_id)
     ELSE UNCHANGED subscribed
  /\ IF due /\ mailboxes < Mailboxes
     THEN due' = FALSE /\ mailboxes' = mailboxes + 1
     ELSE UNCHANGED <<due, mailboxes>>
  /\ arrived' = 0
  /\ UNCHANGED <<node_id, fifo, notified>>

(* A frame is dispatched if it is addressed to the node as it is called now; the  *)
(* command may be answered if there is a mailbox.                                 *)
process_rx_fifo ==
  /\ server = "receive" /\ fifo # <<>>
  /\ fifo' = Tail(fifo)
  /\ IF Head(fifo).to = node_id
     THEN /\ node_id' = IF Head(fifo).sets = NoId THEN node_id ELSE Head(fifo).sets
          /\ mailboxes' \in {mailboxes, mailboxes + 1} \intersect 0..Mailboxes
     ELSE UNCHANGED <<node_id, mailboxes>>
  /\ UNCHANGED <<subscribed, notified, arrived, due, server>>

ActivateNotification_TxOnly ==
  /\ server = "receive" /\ fifo = <<>>
  /\ txNotified' = TRUE
  /\ server' = "wait"
  /\ UNCHANGED <<driverVars, fifo, mailboxes, rxNotified, sem_can, arrived, due>>

ActivateNotification ==
  /\ server = "receive" /\ fifo = <<>>
  /\ rxNotified' = TRUE /\ txNotified' = TRUE
  /\ server' = "wait"
  /\ UNCHANGED <<driverVars, fifo, mailboxes, sem_can, arrived, due>>

(* osSemaphoreWait() returns when it is released or when the next message is due. *)
SemaphoreWait ==
  /\ server = "wait" /\ (sem_can \/ due)
  /\ sem_can' = FALSE /\ server' = "service"
  /\ UNCHANGED <<driverVars, fifo, mailboxes, rxNotified, txNotified, arrived, due>>

------------------------------------------------------------------------------------
(* The controller, its interrupts, and time.                                      *)

(* A frame passes the filters or is not for this node; the last frame of a full   *)
(* FIFO is overwritten. The thread fetches faster than the bus can bring frames.  *)
FrameArrives ==
  \E f \in Frames :
    /\ Accepts(f.to)
    /\ server = "receive" => arrived < Burst
    /\ arrived' = IF server = "receive" THEN arrived + 1 ELSE arrived
    /\ fifo' = IF Len(fifo) < FifoDepth THEN Append(fifo, f)
               ELSE [fifo EXCEPT ![FifoDepth] = f]
    /\ UNCHANGED <<driverVars, mailboxes, notified, due, server>>

(* HAL_CAN_RxFifo0MsgPendingCallback(): the interrupt is raised while the FIFO    *)
(* holds a frame.                                                                 *)
RxFifo0MsgPending ==
  /\ rxNotified /\ fifo # <<>>
  /\ rxNotified' = FALSE /\ sem_can' = TRUE
  /\ UNCHANGED <<driverVars, fifo, mailboxes, txNotified, arrived, due, server>>

(* A frame has been sent; HAL_CAN_TxMailbox..CompleteCallback() follows if its    *)
(* interrupt is enabled.                                                          *)
FrameSent ==
  /\ mailboxes > 0 /\ mailboxes' = mailboxes - 1
  /\ IF txNotified THEN txNotified' = FALSE /\ sem_can' = TRUE
     ELSE UNCHANGED <<txNotified, sem_can>>
  /\ UNCHANGED <<driverVars, fifo, rxNotified, arrived, due, server>>

MessageDue ==
  /\ ~due /\ due' = TRUE
  /\ UNCHANGED <<driverVars, fifo, mailboxes, notified, arrived, server>>

------------------------------------------------------------------------------------
ServerInit ==
  /\ node_id \in NodeIds /\ subscribedId = NoId
  /\ subscriptions = [s \in SlotIds |-> NoId] /\ handle = 0 /\ denied = FALSE
  /\ fifo = <<>> /\ mailboxes = 0
  /\ rxNotified = TRUE /\ txNotified = TRUE /\ sem_can = FALSE
  /\ arrived = 0 /\ due = FALSE /\ server = "start"

Thread ==
  \/ StartServer \/ service_stack \/ process_rx_fifo \/ ActivateNotification
  \/ SemaphoreWait

ServerNext == Thread \/ FrameArrives \/ RxFifo0MsgPending \/ FrameSent \/ MessageDue

ServerSpec == ServerInit /\ [][ServerNext]_serverVars

(* The thread gets the processor, interrupts are served and the bus lets frames   *)
(* out. No frame is promised to come in.                                          *)
PromptSpec ==
  /\ ServerSpec
  /\ WF_serverVars(Thread) /\ WF_serverVars(RxFifo0MsgPending) /\ WF_serverVars(FrameSent)

------------------------------------------------------------------------------------
ServerTypeOK ==
  /\ node_id \in NodeIds /\ subscribedId \in NodeIds \union {NoId}
  /\ subscriptions \in [SlotIds -> NodeIds \union {NoId}]
  /\ handle \in 0..Slots /\ denied \in BOOLEAN
  /\ fifo \in Seq(Frames) /\ Len(fifo) <= FifoDepth
  /\ mailboxes \in 0..Mailboxes
  /\ rxNotified \in BOOLEAN /\ txNotified \in BOOLEAN /\ sem_can \in BOOLEAN
  /\ arrived \in 0..Burst /\ due \in BOOLEAN
  /\ server \in {"start", "service", "receive", "wait"}

(* Through every renaming, the slot of the handle is the one that lets in the      *)
(* frames of the id the server has seen, until a subscription finds no slot; and  *)
(* that is only when all are in use.                                              *)
OwnIdIsHeard ==
  /\ ServerTypeOK
  /\ server # "start" /\ ~denied => handle # 0 /\ subscriptions[handle] = subscribedId
  /\ denied => Unused(subscriptions) = {}

(* canbus.hpp:38, of unsubscribe(): "Deregisters a callback that was previously    *)
(* registered with subscribe()." renew_subscription() calls it before it           *)
(* subscribes again, so that one slot is enough to hear the id the server has     *)
(* seen, however often the node is renamed.                                       *)
SlotsSuffice == server # "start" => Accepts(subscribedId)

(* A message that is due is tried again and again until it is out: the thread      *)
(* comes round although no frame comes in and no mailbox empties.                 *)
DueIsTried == due ~> (~due \/ server = "service")

(* Frames that have been received are fetched, with no periodic message to wake   *)
(* the thread: no order of interrupts, fetches and reactivation leaves them there. *)
FramesAreFetched == fifo # <<>> ~> server = "receive"

ServerKeepsUp == DueIsTried /\ FramesAreFetched
====================================================================================
