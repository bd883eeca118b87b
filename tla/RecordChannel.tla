---------------------------- MODULE RecordChannel ----------------------------
(***************************************************************************)
(* What the calibration record buffer promises its producer and its        *)
(* consumer: a bounded queue in which nothing accepted is overwritten or   *)
(* reordered, records are refused only when it is full, refusals are       *)
(* counted, and the next record accepted after a refusal says so.          *)
(***************************************************************************)
EXTENDS Naturals, Sequences

CONSTANTS Capacity, Sources, None
VARIABLES queue,      \* accepted records, oldest first
          taken,      \* the record the consumer holds, or None
          refused,    \* records refused since the last reset
          gap,        \* a record was refused since the last one accepted
          listening,  \* a host is connected
          sent        \* the last record it was given, or None

vars == <<queue, taken, refused, gap, listening, sent>>

Init ==
    /\ queue = <<>> /\ taken = None /\ refused = 0 /\ gap = FALSE
    /\ listening = FALSE /\ sent = None

Accept(r) ==
    /\ Len(queue) < Capacity
    /\ queue' = Append(queue, [source |-> r, marked |-> gap])
    /\ gap' = FALSE
    /\ UNCHANGED <<taken, refused, listening, sent>>

Refuse ==
    /\ Len(queue) = Capacity
    /\ refused' = refused + 1
    /\ gap' = TRUE
    /\ UNCHANGED <<queue, taken, listening, sent>>

\* The consumer takes the oldest record, and only throws it away if nobody
\* listens.
Take ==
    /\ queue # <<>>
    /\ taken = None
    /\ taken' = IF listening THEN Head(queue) ELSE None
    /\ queue' = Tail(queue)
    /\ UNCHANGED <<refused, gap, listening, sent>>

HandOver ==
    /\ listening /\ taken # None
    /\ sent' = taken
    /\ taken' = None
    /\ UNCHANGED <<queue, refused, gap, listening>>

Discard ==
    /\ ~listening /\ taken # None
    /\ taken' = None
    /\ UNCHANGED <<queue, refused, gap, listening, sent>>

HostComesOrGoes ==
    /\ listening' = ~listening
    /\ sent' = None
    /\ UNCHANGED <<queue, taken, refused, gap>>

\* A new session starts from an empty queue; a record already taken stays.
Reset ==
    /\ queue' = <<>>
    /\ refused' = 0
    /\ gap' = FALSE
    /\ UNCHANGED <<taken, listening, sent>>

Next ==
    \/ \E r \in Sources : Accept(r)
    \/ Refuse \/ Take \/ HandOver \/ Discard \/ HostComesOrGoes \/ Reset

Spec == Init /\ [][Next]_vars
=============================================================================
