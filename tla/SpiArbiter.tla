----------------------------- MODULE SpiArbiter -----------------------------
(***************************************************************************)
(* Firmware/Drivers/STM32/stm32_spi_arbiter.cpp and its users: the main    *)
(* and the auxiliary MT6826S encoder (Mt6826sSpi, Mt6826sSpiPair) and the  *)
(* gate driver (Drv8301), which share one SPI bus.                         *)
(*                                                                         *)
(* The code runs in several contexts on one core.  An interrupt runs only  *)
(* while every interrupt above it is at rest, a thread only while all are: *)
(*   "sample"  TIM8 update interrupt, priority 0: Encoder::sample_now      *)
(*   "txDone"  DMA1 stream 7, priority 6: end of a transmit-only transfer  *)
(*   "rxDone"  DMA1 stream 0, priority 7: end of a transfer that receives  *)
(*   a thread  the axis thread, or the main thread while it sets up:       *)
(*             Drv8301::read_reg and write_reg.  transfer() blocks and may *)
(*             be called by any number of threads, one as urgent as the    *)
(*             other here; its task lives on the thread's stack and has    *)
(*             the thread's name.                                          *)
(* A critical section is one step.  What a transfer carries, and whether   *)
(* the frame's CRC is right, is left out.                                  *)
(***************************************************************************)
EXTENDS Naturals, Sequences, FiniteSets

CONSTANTS NoTask,   \* nullptr
          Threads   \* the threads that call transfer()

Sensors == {"main", "aux"}
Tasks == Sensors \union Threads
Interrupts == {"sample", "txDone", "rxDone"}
Contexts == Interrupts \union Threads

ASSUME SpiAssumption ==
    /\ IsFiniteSet(Threads)
    /\ Threads \intersect (Sensors \union Interrupts) = {}
    /\ NoTask \notin Tasks

Priority(c) == CASE c = "sample" -> 0
                 [] c = "txDone" -> 6
                 [] c = "rxDone" -> 7
                 [] OTHER -> 100

VARIABLES taskList,   \* task_list_: the first queued task
          next,       \* SpiTask::next
          bus,        \* the peripheral: its phase and the task it serves
          frame,      \* what each context is executing
          inUse,      \* SpiTask::is_in_use of the two sensors
          inFlight,   \* Mt6826sSpi::transaction_in_flight_
          callback,   \* Mt6826sSpi::completion_cb_: who asked for the sample
          pairState,  \* Mt6826sSpiPair::state_
          pairCb,     \* whether Mt6826sSpiPair::completion_cb_ is set
          receiving,  \* whether a thread's transfer has an rx_buf
          result,     \* transfer(): the volatile result
          faulted     \* history: a start was refused or a transfer failed

vars == <<taskList, next, bus, frame, inUse, inFlight, callback, pairState,
          pairCb, receiving, result, faulted>>
driver == <<inUse, inFlight, callback, pairState, pairCb>>

Rest == [pc |-> "idle", task |-> NoTask, ok |-> FALSE, cb |-> "none", more |-> FALSE]
IdleBus == [phase |-> "idle", task |-> NoTask]

Init ==
    /\ taskList = NoTask
    /\ next = [t \in Tasks |-> NoTask]
    /\ bus = IdleBus
    /\ frame = [c \in Contexts |-> Rest]
    /\ inUse = [t \in Sensors |-> FALSE]
    /\ inFlight = [t \in Sensors |-> FALSE]
    /\ callback = [t \in Sensors |-> "none"]
    /\ pairState = "idle"
    /\ pairCb = FALSE
    /\ receiving = [t \in Threads |-> FALSE]
    /\ result = [t \in Threads |-> "unset"]
    /\ faulted = FALSE

AtRest(c) == frame[c].pc \in {"idle", "wait"}
Runs(c) == \A d \in Contexts : Priority(d) < Priority(c) => AtRest(d)
At(c, pc) == frame[c].pc = pc /\ Runs(c)
Goto(c, pc) == frame' = [frame EXCEPT ![c].pc = pc]

\* Where a context continues once transfer_async or a callback has returned:
\* sample_now is over, transfer() polls, on_complete looks at the next task.
Return(c) ==
    frame' = [frame EXCEPT ![c] = CASE c = "sample" -> Rest
                                    [] c \in Threads -> [@ EXCEPT !.pc = "wait"]
                                    [] OTHER -> [@ EXCEPT !.pc = "startNext"]]

-----------------------------------------------------------------------------
(* Requests *)

\* start_sample_async refuses while the last transaction is in flight or its
\* task is in use.
Free(t) == ~inFlight[t] /\ ~inUse[t]

\* Mt6826sSpi::start_sample_async up to transfer_async.
Acquire(c, t, cb) ==
    /\ inUse' = [inUse EXCEPT ![t] = TRUE]
    /\ inFlight' = [inFlight EXCEPT ![t] = TRUE]
    /\ callback' = [callback EXCEPT ![t] = cb]
    /\ frame' = [frame EXCEPT ![c].pc = "append", ![c].task = t]

\* sample_now when the vernier is locked: the main sensor alone.
SampleMain ==
    /\ At("sample", "idle")
    /\ Free("main")
    /\ Acquire("sample", "main", "single")
    /\ UNCHANGED <<taskList, next, bus, pairState, pairCb, receiving, result, faulted>>

\* sample_now otherwise: Mt6826sSpiPair::start_sample_async.  A refusal only
\* counts an error.
SamplePair ==
    /\ At("sample", "idle")
    /\ pairState = "idle"
    /\ Free("main")
    /\ pairState' = "main"
    /\ pairCb' = TRUE
    /\ Acquire("sample", "main", "pair")
    /\ UNCHANGED <<taskList, next, bus, receiving, result, faulted>>

\* transfer(): a blocking transfer, with or without rx_buf.
Transfer(t, receives) ==
    /\ At(t, "idle")
    /\ receiving' = [receiving EXCEPT ![t] = receives]
    /\ result' = [result EXCEPT ![t] = "unset"]
    /\ frame' = [frame EXCEPT ![t].pc = "append", ![t].task = t]
    /\ UNCHANGED <<taskList, next, bus, driver, faulted>>

\* transfer() polls the result; the timeout is not honoured.
TransferReturns(t) ==
    /\ At(t, "wait")
    /\ result[t] # "unset"
    /\ frame' = [frame EXCEPT ![t] = Rest]
    /\ UNCHANGED <<taskList, next, bus, driver, receiving, result, faulted>>

-----------------------------------------------------------------------------
(* transfer_async and on_complete *)

Linked == {t \in Tasks : t = taskList \/ \E u \in Tasks : next[u] = t}
LastTask == CHOOSE t \in Linked : next[t] = NoTask

\* Mutant of AppendTask: the new task is put behind the first, not the last.
AppendTask_BehindFirst(c) ==
    LET t == frame[c].task
    IN  /\ At(c, "append")
        /\ IF taskList = NoTask
           THEN /\ taskList' = t
                /\ next' = [next EXCEPT ![t] = NoTask]
                /\ Goto(c, "start")
           ELSE /\ next' = [next EXCEPT ![t] = NoTask, ![taskList] = t]
                /\ Return(c)
                /\ UNCHANGED taskList
        /\ UNCHANGED <<bus, driver, receiving, result, faulted>>

\* transfer_async: append under the lock; an empty list has to be started.
AppendTask(c) ==
    LET t == frame[c].task
    IN  /\ At(c, "append")
        /\ IF taskList = NoTask
           THEN /\ taskList' = t
                /\ next' = [next EXCEPT ![t] = NoTask]
                /\ Goto(c, "start")
           ELSE /\ next' = [next EXCEPT ![t] = NoTask, ![LastTask] = t]
                /\ Return(c)
                /\ UNCHANGED taskList
        /\ UNCHANGED <<bus, driver, receiving, result, faulted>>

\* start(): whether the HAL accepts the first task of the list.
Start(ok) ==
    /\ ok => bus.phase = "idle"
    /\ faulted' = (faulted \/ ~ok)
    /\ bus' = IF ok THEN [phase |-> "moving", task |-> taskList] ELSE bus

\* transfer_async: start the task just appended to an empty list.
StartOwn(c, ok) ==
    /\ At(c, "start")
    /\ Start(ok)
    /\ IF ok THEN Return(c) ELSE Goto(c, "remove")
    /\ UNCHANGED <<taskList, next, driver, receiving, result>>

\* Mutant of RemoveOwn: the task that could not be started stays linked.
RemoveOwn_KeepsTask(c) ==
    /\ At(c, "remove")
    /\ frame' = [frame EXCEPT ![c].pc = "deliver", ![c].ok = FALSE]
    /\ UNCHANGED <<taskList, next, bus, driver, receiving, result, faulted>>

\* transfer_async: unlink the task that could not be started.
RemoveOwn(c) ==
    LET t == frame[c].task
    IN  /\ At(c, "remove")
        /\ taskList' = IF taskList = t THEN next[t] ELSE taskList
        /\ next' = [next EXCEPT ![t] = NoTask]
        /\ frame' = [frame EXCEPT ![c].pc = "deliver", ![c].ok = FALSE]
        /\ UNCHANGED <<bus, driver, receiving, result, faulted>>

\* The DMA moves the last word; or the transfer fails, which reports to
\* HAL_SPI_ErrorCallback and to nobody else.
BusDone ==
    /\ bus.phase = "moving"
    /\ bus' = [bus EXCEPT !.phase = "done"]
    /\ UNCHANGED <<taskList, next, frame, driver, receiving, result, faulted>>

BusFails ==
    /\ bus.phase = "moving"
    /\ bus' = IdleBus
    /\ faulted' = TRUE
    /\ UNCHANGED <<taskList, next, frame, driver, receiving, result>>

Receives(t) == t \in Sensors \/ receiving[t]
DoneContext(t) == IF Receives(t) THEN "rxDone" ELSE "txDone"

\* on_complete: unlink the first task and remember whether one follows.
OnComplete(c) ==
    /\ At(c, "idle")
    /\ bus.phase = "done"
    /\ c = DoneContext(bus.task)
    /\ taskList # NoTask
    /\ bus' = IdleBus
    /\ taskList' = next[taskList]
    /\ next' = [next EXCEPT ![taskList] = NoTask]
    /\ frame' = [frame EXCEPT ![c] = [pc |-> "deliver", task |-> taskList, ok |-> TRUE,
                                      cb |-> "none", more |-> next[taskList] # NoTask]]
    /\ UNCHANGED <<driver, receiving, result, faulted>>

\* Mutant of StartNext: nothing is started behind a completed transfer.
StartNext_Forgets(c, ok) ==
    /\ At(c, "startNext")
    /\ UNCHANGED bus
    /\ frame' = [frame EXCEPT ![c] = Rest]
    /\ UNCHANGED <<taskList, next, driver, receiving, result, faulted>>

\* on_complete: start the next task; a refusal is not looked at.
StartNext(c, ok) ==
    /\ At(c, "startNext")
    /\ IF frame[c].more THEN Start(ok) ELSE ok /\ UNCHANGED <<bus, faulted>>
    /\ frame' = [frame EXCEPT ![c] = Rest]
    /\ UNCHANGED <<taskList, next, driver, receiving, result>>

-----------------------------------------------------------------------------
(* Callbacks *)

\* A blocking transfer's callback stores the outcome.
DeliverDrv(c) ==
    /\ At(c, "deliver")
    /\ frame[c].task \in Threads
    /\ result' = [result EXCEPT ![frame[c].task] = IF frame[c].ok THEN "done" ELSE "failed"]
    /\ Return(c)
    /\ UNCHANGED <<taskList, next, bus, driver, receiving, faulted>>

\* handle_spi_done: the transaction is no longer in flight ...
DeliverSample(c) ==
    LET t == frame[c].task
    IN  /\ At(c, "deliver")
        /\ t \in Sensors
        /\ inFlight' = [inFlight EXCEPT ![t] = FALSE]
        /\ Goto(c, "take")
        /\ UNCHANGED <<taskList, next, bus, inUse, callback, pairState, pairCb, receiving, result, faulted>>

\* ... its callback is taken ...
TakeCallback(c) ==
    LET t == frame[c].task
    IN  /\ At(c, "take")
        /\ callback' = [callback EXCEPT ![t] = "none"]
        /\ frame' = [frame EXCEPT ![c].pc = "release", ![c].cb = callback[t]]
        /\ UNCHANGED <<taskList, next, bus, inUse, inFlight, pairState, pairCb, receiving, result, faulted>>

\* ... and the task released before the callback runs.
ReleaseTask(c) ==
    /\ At(c, "release")
    /\ inUse' = [inUse EXCEPT ![frame[c].task] = FALSE]
    /\ Goto(c, "notify")
    /\ UNCHANGED <<taskList, next, bus, inFlight, callback, pairState, pairCb, receiving, result, faulted>>

\* handle_mt6826s_spi_cb only takes the sample over.
NotifyEncoder(c) ==
    /\ At(c, "notify")
    /\ frame[c].cb = "single"
    /\ Return(c)
    /\ UNCHANGED <<taskList, next, bus, driver, receiving, result, faulted>>

\* handle_main_done: go on with the auxiliary sensor from inside the callback,
\* whether or not the main sample is good.
NotifyMainDone(c) ==
    /\ At(c, "notify")
    /\ frame[c].cb = "pair" /\ frame[c].task = "main"
    /\ pairState = "main"
    /\ Free("aux")
    /\ pairState' = "aux"
    /\ Acquire(c, "aux", "pair")
    /\ UNCHANGED <<taskList, next, bus, pairCb, receiving, result, faulted>>

\* Mutant of NotifyAuxDone: the pair never becomes idle again.
NotifyAuxDone_StaysBusy(c) ==
    /\ At(c, "notify")
    /\ frame[c].cb = "pair" /\ frame[c].task = "aux"
    /\ Goto(c, "finish")
    /\ UNCHANGED <<taskList, next, bus, driver, receiving, result, faulted>>

\* handle_aux_done and finish(): the pair is idle again ...
NotifyAuxDone(c) ==
    /\ At(c, "notify")
    /\ frame[c].cb = "pair" /\ frame[c].task = "aux"
    /\ pairState = "aux"
    /\ pairState' = "idle"
    /\ Goto(c, "finish")
    /\ UNCHANGED <<taskList, next, bus, inUse, inFlight, callback, pairCb, receiving, result, faulted>>

\* ... before its callback is read, cleared and invoked.
FinishPair(c) ==
    /\ At(c, "finish")
    /\ pairCb' = FALSE
    /\ Return(c)
    /\ UNCHANGED <<taskList, next, bus, inUse, inFlight, callback, pairState, receiving, result, faulted>>

-----------------------------------------------------------------------------
ContextStep(c) ==
    \/ AppendTask(c) \/ RemoveOwn(c) \/ OnComplete(c)
    \/ \E ok \in BOOLEAN : StartOwn(c, ok) \/ StartNext(c, ok)
    \/ DeliverDrv(c) \/ DeliverSample(c) \/ TakeCallback(c) \/ ReleaseTask(c)
    \/ NotifyEncoder(c) \/ NotifyMainDone(c) \/ NotifyAuxDone(c) \/ FinishPair(c)

Step ==
    \/ BusDone
    \/ \E t \in Threads : TransferReturns(t)
    \/ \E c \in Contexts : ContextStep(c)

Next ==
    \/ Step \/ BusFails
    \/ SampleMain \/ SamplePair
    \/ \E t \in Threads, receives \in BOOLEAN : Transfer(t, receives)

Spec == Init /\ [][Next]_vars

\* The sampling interrupt is periodic and leaves time to the contexts below
\* it: a context that can step again and again does, and the DMA of a transfer
\* reaches its end or fails.  Nothing says that a transfer is ever
\* requested.
FairSpec ==
    /\ Spec
    /\ \A c \in Contexts : SF_vars(ContextStep(c))
    /\ \A t \in Threads : SF_vars(TransferReturns(t))
    /\ WF_vars(BusDone)
-----------------------------------------------------------------------------
\* Type correctness.
TypeOK ==
    /\ taskList \in Tasks \union {NoTask}
    /\ next \in [Tasks -> Tasks \union {NoTask}]
    /\ bus \in {IdleBus} \union [phase : {"moving", "done"}, task : Tasks]
    /\ frame \in [Contexts ->
          [pc : {"idle", "append", "start", "remove", "wait", "deliver", "take",
                 "release", "notify", "finish", "startNext"},
           task : Tasks \union {NoTask}, ok : BOOLEAN,
           cb : {"none", "single", "pair"}, more : BOOLEAN]]
    /\ inUse \in [Sensors -> BOOLEAN]
    /\ inFlight \in [Sensors -> BOOLEAN]
    /\ callback \in [Sensors -> {"none", "single", "pair"}]
    /\ pairState \in {"idle", "main", "aux"}
    /\ pairCb \in BOOLEAN
    /\ receiving \in [Threads -> BOOLEAN]
    /\ result \in [Threads -> {"unset", "done", "failed"}]
    /\ faulted \in BOOLEAN

\* The list as a sequence; the empty one if the pointers form no list.
Orders == {s \in UNION {[1 .. n -> Tasks] : n \in 0 .. Cardinality(Tasks)} :
              \A i, j \in DOMAIN s : s[i] = s[j] => i = j}
IsChain(s) ==
    /\ taskList = IF s = <<>> THEN NoTask ELSE s[1]
    /\ \A i \in DOMAIN s : next[s[i]] = IF i = Len(s) THEN NoTask ELSE s[i + 1]
Queue == IF \E s \in Orders : IsChain(s) THEN CHOOSE s \in Orders : IsChain(s) ELSE <<>>

\* The task structure of a blocking transfer lives on the thread's stack.
Alive(t) == IF t \in Threads THEN frame[t].pc # "idle" ELSE inUse[t]

\* However the contexts preempt one another, the pointers form one list that
\* ends, what is not on it points nowhere, nobody links a task that is linked
\* already, and a linked task is still owned by its user: hpp, transfer_async,
\* "must remain valid and unmodified until the completion callback".
ListIsSound ==
    /\ \E s \in Orders : IsChain(s)
    /\ \A t \in Tasks \ Linked : next[t] = NoTask
    /\ \A t \in Linked : Alive(t)
    /\ \A c \in Contexts : frame[c].pc = "append" => frame[c].task \notin Linked

\* The peripheral serves the first task of the list, and no context is about
\* to start another while it does: chip selects never overlap.
BusServesHead ==
    bus.phase # "idle" =>
        /\ bus.task = taskList
        /\ \A c \in Contexts : /\ frame[c].pc # "start"
                              /\ frame[c].pc = "startNext" => ~frame[c].more

\* A queued task is on the bus, or somebody is on the way to start it, as long
\* as the HAL has refused nothing and no transfer has failed.
NothingForgotten ==
    taskList # NoTask /\ bus.phase = "idle" /\ ~faulted =>
        \E c \in Contexts : frame[c].pc = "start" \/ frame[c].more

\* A read the pair asked for and whose callback it has not got yet.
Outstanding(t) ==
    \/ callback[t] = "pair"
    \/ \E c \in Contexts : /\ frame[c].pc \in {"release", "notify"}
                          /\ frame[c].task = t /\ frame[c].cb = "pair"

\* Mt6826sSpiPair's state says which sensor it is waiting for, through every
\* interleaving with reads of the main sensor alone: handle_main_done and
\* handle_aux_done never find another state, and the auxiliary sensor is free
\* when its turn comes.
PairInStep ==
    /\ \A t \in Sensors : pairState = t <=> Outstanding(t)
    /\ \A c \in Contexts :
          frame[c].pc = "notify" /\ frame[c].cb = "pair" /\ frame[c].task = "main"
             => Free("aux")

\* The arbiter's list and the pair that submits to it keep the order their code
\* relies on, whoever preempts whom.
ArbiterIsSound ==
    TypeOK /\ ListIsSound /\ BusServesHead /\ NothingForgotten /\ PairInStep

\* Whose user has submitted it and has not been called back.
Owed ==
    LET submitting == {frame[c].task : c \in {d \in Contexts : frame[d].pc = "append"}}
        awaited == {t \in Sensors : inFlight[t]}
                   \union {t \in Threads : Alive(t) /\ result[t] = "unset"}
    IN  awaited \ submitting

Service == INSTANCE SpiService WITH queue <- Queue, owed <- Owed

\* The pointers, preempted contexts and nested callbacks implement a queue
\* served in order with one callback per submitted transfer.
ImplementsService == Service!Spec

\* "Once the transfer completes, fails or is aborted, the callback is invoked":
\* so it is for every submitted transfer, unless the HAL has refused a start or
\* a transfer has failed.
CallbackInvoked ==
    \A t \in Tasks : (t \in Owed /\ ~faulted) ~> (t \notin Owed \/ faulted)

\* A pair that was accepted gives the next one its turn, under the same proviso.
PairEnds == (pairState # "idle" /\ ~faulted) ~> (pairState = "idle" \/ faulted)

\* Nobody who asked for a transfer, or for a pair, is left without an answer.
RequestsAreAnswered == CallbackInvoked /\ PairEnds

\* transfer() "waits until it becomes available or the specified timeout
\* passes, whichever comes first": whatever happens, the thread does not wait
\* for ever.
TransferEnds == \A t \in Threads : frame[t].pc = "wait" ~> frame[t].pc = "idle"
=============================================================================
