----------------------------- MODULE SpiService -----------------------------
(***************************************************************************)
(* What Stm32SpiArbiter promises its users: transfers run one at a time in *)
(* the order they were submitted, and every submitted transfer owes its    *)
(* user exactly one callback, given after it has left the queue.  A        *)
(* transfer may leave the queue because it completed or because it could   *)
(* not be started.                                                         *)
(***************************************************************************)
EXTENDS Sequences

CONSTANT Tasks
VARIABLES queue,   \* submitted transfers, the one on the bus first
          owed     \* transfers whose callback has not been invoked yet

vars == <<queue, owed>>

Init == queue = <<>> /\ owed = {}

\* A task may be submitted again only after its callback.
Submit(t) ==
    /\ t \notin owed
    /\ queue' = Append(queue, t)
    /\ owed' = owed \union {t}

Leave ==
    /\ queue # <<>>
    /\ queue' = Tail(queue)
    /\ UNCHANGED owed

CallBack(t) ==
    /\ t \in owed
    /\ \A i \in DOMAIN queue : queue[i] # t
    /\ owed' = owed \ {t}
    /\ UNCHANGED queue

Next == Leave \/ \E t \in Tasks : Submit(t) \/ CallBack(t)

Spec == Init /\ [][Next]_vars
=============================================================================
