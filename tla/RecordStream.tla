---------------------------- MODULE RecordStream -----------------------------
(***************************************************************************)
(* The calibration records on their way to the host: the lock-free queue   *)
(* of MotorControl/calibration_buffer.hpp between its producer and the     *)
(* transport thread of communication/calibration_transport.cpp.            *)
(*                                                                         *)
(* The producer is the control-loop interrupt during the measurements and  *)
(* the axis thread during the scans, never both (AxisCalibration,          *)
(* CaptureIsOwned).  Both outrank the transport thread, so a push is one   *)
(* step and may come between any two steps of a pop.  The CAN thread,      *)
(* which serves START, and the USB thread, which sets connected, rank      *)
(* below it: they act only while it sleeps in osDelay.                     *)
(*                                                                         *)
(* A record is its session, its sequence number and its DROPPED_BEFORE     *)
(* flag; the frame around it (CRCs, header) only carries it.               *)
(***************************************************************************)
EXTENDS Naturals, Sequences

CONSTANTS Capacity,      \* slots of the buffer (32)
          Wrap,          \* the two counters are taken modulo this (2^32)
          DrainLimit,    \* records thrown away per wake-up (16)
          MaxSessions,   \* bound: sessions started
          MaxSequence,   \* bound: samples of a session
          None

ASSUME StreamAssumption ==
    /\ Capacity \in Nat /\ Capacity >= 2
    /\ Wrap \in Nat /\ Wrap > Capacity /\ Wrap % Capacity = 0
    /\ DrainLimit \in Nat \ {0}
    /\ MaxSessions \in Nat /\ MaxSequence \in Nat

Sessions == 1 .. MaxSessions
Sources == [session : Sessions, sequence : 0 .. MaxSequence - 1]
Records == [source : Sources, marked : BOOLEAN]

ASSUME NoneIsNoRecord == None \notin Records

VARIABLES slots,       \* slots_
          writeCount,  \* write_count_
          readCount,   \* read_count_
          dropped,     \* dropped_count_
          highest,     \* high_watermark_
          gapPending,  \* gap_pending_
          session,     \* session_id of the calibration session
          capture,     \* "idle", "started" (START accepted) or "capturing"
          sequence,    \* calibration_sample_sequence_
          connected,   \* interface_usb.cpp: connected
          pc,          \* position of the transport thread
          pending,     \* the transport's record
          hasPending,  \* has_pending
          drained,     \* i of the loop that drains
          lastSent     \* history: last record handed to stdout since it connected

buffer == <<slots, writeCount, readCount, dropped, highest, gapPending>>
producer == <<session, capture, sequence>>
transport == <<pc, pending, hasPending, drained, lastSent>>
vars == <<buffer, producer, connected, transport>>

Init ==
    /\ slots = [i \in 0 .. Capacity - 1 |-> None]
    /\ writeCount = 0 /\ readCount = 0
    /\ dropped = 0 /\ highest = 0 /\ gapPending = FALSE
    /\ session = 0 /\ capture = "idle" /\ sequence = 0
    /\ connected = FALSE
    /\ pc = "asleep" /\ pending = None /\ hasPending = FALSE /\ drained = 0
    /\ lastSent = None

Size == (writeCount + Wrap - readCount) % Wrap
Larger(a, b) == IF a > b THEN a ELSE b

-----------------------------------------------------------------------------
(* The session and the producer *)

\* Mutant of Start: a new session keeps what the last one left behind.
Start_KeepsGap ==
    /\ pc = "asleep" /\ capture = "idle" /\ session < MaxSessions
    /\ session' = session + 1
    /\ capture' = "started"
    /\ readCount' = 0 /\ writeCount' = 0
    /\ dropped' = 0 /\ highest' = 0
    /\ UNCHANGED <<slots, gapPending, sequence, connected, transport>>

\* start_calibration_session, on the CAN thread: reset() of the buffer.
Start ==
    /\ pc = "asleep" /\ capture = "idle" /\ session < MaxSessions
    /\ session' = session + 1
    /\ capture' = "started"
    /\ readCount' = 0 /\ writeCount' = 0
    /\ dropped' = 0 /\ highest' = 0 /\ gapPending' = FALSE
    /\ UNCHANGED <<slots, sequence, connected, transport>>

\* service_calibration_session_start, on the axis thread.
ServiceStart ==
    /\ capture = "started"
    /\ capture' = "capturing"
    /\ sequence' = 0
    /\ UNCHANGED <<buffer, session, connected, transport>>

\* The session ends, fails or is aborted.
CaptureEnds ==
    /\ capture # "idle"
    /\ capture' = "idle"
    /\ UNCHANGED <<buffer, session, sequence, connected, transport>>

Sample(marked) ==
    [source |-> [session |-> session, sequence |-> sequence], marked |-> marked]

\* Mutant of Push: one slot too many.
Push_OffByOne ==
    /\ capture = "capturing" /\ sequence < MaxSequence
    /\ sequence' = sequence + 1
    /\ IF Size > Capacity
       THEN /\ dropped' = dropped + 1
            /\ gapPending' = TRUE
            /\ UNCHANGED <<slots, writeCount, highest>>
       ELSE /\ slots' = [slots EXCEPT ![writeCount % Capacity] = Sample(gapPending)]
            /\ gapPending' = FALSE
            /\ writeCount' = (writeCount + 1) % Wrap
            /\ highest' = Larger(highest, Size + 1)
            /\ UNCHANGED dropped
    /\ UNCHANGED <<readCount, session, capture, connected, transport>>

\* capture_calibration_*_sample and push_from_isr: the sequence number is
\* taken whether or not the record finds room.
Push ==
    /\ capture = "capturing" /\ sequence < MaxSequence
    /\ sequence' = sequence + 1
    /\ IF Size >= Capacity
       THEN /\ dropped' = dropped + 1
            /\ gapPending' = TRUE
            /\ UNCHANGED <<slots, writeCount, highest>>
       ELSE /\ slots' = [slots EXCEPT ![writeCount % Capacity] = Sample(gapPending)]
            /\ gapPending' = FALSE
            /\ writeCount' = (writeCount + 1) % Wrap
            /\ highest' = Larger(highest, Size + 1)
            /\ UNCHANGED dropped
    /\ UNCHANGED <<readCount, session, capture, connected, transport>>

-----------------------------------------------------------------------------
(* The USB thread and the transport thread *)

Connect ==
    /\ pc = "asleep" /\ ~connected
    /\ connected' = TRUE
    /\ UNCHANGED <<buffer, producer, transport>>

Disconnect ==
    /\ pc = "asleep" /\ connected
    /\ connected' = FALSE
    /\ lastSent' = None
    /\ UNCHANGED <<buffer, producer, pc, pending, hasPending, drained>>

\* Mutant of Wake: a record that stdout refused is never offered again.
Wake_NeverRetries ==
    /\ pc = "asleep"
    /\ pc' = IF connected /\ hasPending THEN "asleep" ELSE "load"
    /\ hasPending' = (connected /\ hasPending)
    /\ drained' = 0
    /\ UNCHANGED <<buffer, producer, connected, pending, lastSent>>

\* The top of the loop after osDelay(1): while nobody listens the record in
\* hand is discarded and the queue drained.
Wake ==
    /\ pc = "asleep"
    /\ pc' = IF connected /\ hasPending THEN "send" ELSE "load"
    /\ hasPending' = (connected /\ hasPending)
    /\ drained' = 0
    /\ UNCHANGED <<buffer, producer, connected, pending, lastSent>>

\* pop: load both counters; nothing to pop ends the round.
PopLoad ==
    /\ pc = "load"
    /\ pc' = IF readCount = writeCount THEN "asleep" ELSE "copy"
    /\ UNCHANGED <<buffer, producer, connected, pending, hasPending, drained, lastSent>>

\* pop: copy the slot ...
PopCopy ==
    /\ pc = "copy"
    /\ pending' = slots[readCount % Capacity]
    /\ pc' = "store"
    /\ UNCHANGED <<buffer, producer, connected, hasPending, drained, lastSent>>

\* ... and give it back.  The record is kept for a connected host, and thrown
\* away otherwise, DrainLimit of them in a row.
PopStore ==
    /\ pc = "store"
    /\ readCount' = (readCount + 1) % Wrap
    /\ hasPending' = connected
    /\ drained' = IF connected THEN drained ELSE drained + 1
    /\ pc' = IF connected THEN "send"
             ELSE IF drained + 1 < DrainLimit THEN "load" ELSE "asleep"
    /\ UNCHANGED <<slots, writeCount, dropped, highest, gapPending, producer,
                   connected, pending, lastSent>>

\* usb_stdout_write_frame takes the whole frame, and the loop goes on without
\* sleeping ...
SendFrame ==
    /\ pc = "send"
    /\ hasPending' = FALSE
    /\ lastSent' = pending
    /\ pc' = "load"
    /\ UNCHANGED <<buffer, producer, connected, pending, drained>>

\* Mutant of SendRefused: a refused record counts as sent.
SendRefused_Drops ==
    /\ pc = "send"
    /\ hasPending' = FALSE
    /\ pc' = "asleep"
    /\ UNCHANGED <<buffer, producer, connected, pending, drained, lastSent>>

\* ... or has no room for it: the record is offered again after osDelay(1).
SendRefused ==
    /\ pc = "send"
    /\ pc' = "asleep"
    /\ UNCHANGED <<buffer, producer, connected, pending, hasPending, drained, lastSent>>

TransportStep == Wake \/ PopLoad \/ PopCopy \/ PopStore \/ SendFrame \/ SendRefused

Next ==
    \/ Start \/ ServiceStart \/ Push \/ CaptureEnds
    \/ Connect \/ Disconnect \/ TransportStep

Spec == Init /\ [][Next]_vars

\* The transport thread runs again after each osDelay, and stdout has room
\* again for a frame that is offered again and again (UsbStdout).
FairSpec == Spec /\ WF_vars(TransportStep) /\ SF_vars(SendFrame)

-----------------------------------------------------------------------------
\* Type correctness; at most Capacity records are queued.
TypeOK ==
    /\ slots \in [0 .. Capacity - 1 -> Records \union {None}]
    /\ writeCount \in 0 .. Wrap - 1
    /\ readCount \in 0 .. Wrap - 1
    /\ Size \in 0 .. Capacity
    /\ dropped \in 0 .. MaxSequence
    /\ highest \in 0 .. Capacity
    /\ gapPending \in BOOLEAN
    /\ session \in 0 .. MaxSessions
    /\ capture \in {"idle", "started", "capturing"}
    /\ sequence \in 0 .. MaxSequence
    /\ connected \in BOOLEAN
    /\ pc \in {"asleep", "load", "copy", "store", "send"}
    /\ pending \in Records \union {None}
    /\ hasPending \in BOOLEAN
    /\ drained \in 0 .. DrainLimit
    /\ lastSent \in Records \union {None}

\* CALIBRATION_STREAM.md: overflow "creates a sample-sequence gap, and marks
\* the next accepted record".  To a host that stays connected, a record is
\* marked exactly when it does not continue the one before, sequence numbers
\* only grow, and a session begins with its first sample.
Continues(l, r) ==
    IF l.source.session = r.source.session
    THEN /\ r.source.sequence > l.source.sequence
         /\ r.marked <=> r.source.sequence # l.source.sequence + 1
    ELSE /\ r.source.session > l.source.session
         /\ r.source.sequence = 0 /\ ~r.marked
GapsAreMarked ==
    [][lastSent # None /\ lastSent' \notin {None, lastSent}
          => Continues(lastSent, lastSent')]_vars

Queue == [i \in 1 .. Size |-> slots[(readCount + i - 1) % Capacity]]

Channel == INSTANCE RecordChannel
    WITH queue <- Queue, taken <- IF hasPending THEN pending ELSE None,
         refused <- dropped, gap <- gapPending,
         listening <- connected, sent <- lastSent

\* The buffer and the transport implement a bounded queue that loses nothing
\* it accepted, in order, with refusals counted and marked.
ImplementsChannel == Channel!Spec

\* A record that was accepted does not stay: it is sent, or discarded because
\* nobody listens or a new session begins.
Held(r) ==
    \/ hasPending /\ pending.source = r
    \/ \E i \in 1 .. Size : Queue[i].source = r
EveryRecordLeaves == \A r \in Sources : Held(r) ~> ~Held(r)
=============================================================================
