------------------------------ MODULE UsbStdout ------------------------------
(***************************************************************************)
(* The stdout endpoint of communication/interface_usb.cpp: a byte ring that *)
(* the calibration transport and the log thread fill and the USB thread    *)
(* empties packet by packet, told what to do by the event queue that the   *)
(* writers and the USB interrupt post to without waiting.                  *)
(*                                                                         *)
(* Priorities order the steps.  The USB interrupt comes between any two of *)
(* them (writers copy inside a critical section).  The transport thread    *)
(* outranks the USB thread, so a burst of frames is queued, and its events *)
(* posted, before the USB thread sees the first one.  The log thread runs  *)
(* only while the USB thread waits for an event.                           *)
(*                                                                         *)
(* The unit of the ring is a cell; a frame, a text and a packet are a few  *)
(* cells.  A cell is named by the life of the ring (resets so far) and its *)
(* number in that life.                                                    *)
(***************************************************************************)
EXTENDS Naturals, Sequences

CONSTANTS RingCells,        \* kUsbLogBufferSize
          FrameCells,       \* cells of an ODCR frame
          TextCells,        \* bound: cells of a text
          PacketCells,      \* kUsbPacketSize
          EventSlots,       \* length of usb_event_queue (7)
          Numbers,          \* bound: cells are numbered modulo this
          MaxEnumerations   \* bound: times the host configures the device

ASSUME StdoutAssumption ==
    /\ RingCells \in Nat /\ FrameCells \in 1 .. RingCells - 1
    /\ TextCells \in Nat \ {0} /\ PacketCells \in Nat \ {0}
    /\ EventSlots \in Nat \ {0} /\ MaxEnumerations \in Nat
    /\ Numbers \in Nat /\ Numbers >= RingCells

Cells == [life : 0 .. MaxEnumerations, number : 0 .. Numbers - 1]
Events == {"configured", "gone", "sent", "queued"}

VARIABLES ring,          \* log_buffer
          read, write,   \* read_index, write_index
          active,        \* active_length
          connected,     \* connected
          txActive,      \* tx_active
          events,        \* usb_event_queue
          usb,           \* the USB thread: "wait" or "transmit"
          transport,     \* the transport thread: "asleep", "awake" or "post"
          textPost,      \* the log thread is about to post its event
          class,         \* the CDC class: "none", "idle" or "busy"
          enumerations,  \* times configured
          flight,        \* the packet the controller is sending
          host,          \* history: the last packet the host received
          life, number,  \* history: name of the next cell
          lost           \* history: an event has found no slot

cells == <<ring, read, write, active, connected, txActive>>
threads == <<usb, transport, textPost>>
device == <<class, enumerations, flight, host>>
names == <<life, number>>
queue == <<events, lost>>
vars == <<cells, queue, threads, device, names>>

Init ==
    /\ ring = [i \in 0 .. RingCells - 1 |-> [life |-> 0, number |-> 0]]
    /\ read = 0 /\ write = 0 /\ active = 0
    /\ connected = FALSE /\ txActive = FALSE
    /\ events = <<>>
    /\ usb = "wait" /\ transport = "asleep" /\ textPost = FALSE
    /\ class = "none" /\ enumerations = 0 /\ flight = <<>> /\ host = <<>>
    /\ life = 0 /\ number = 0 /\ lost = FALSE

Space == (read + RingCells - write - 1) % RingCells
Smaller(a, b) == IF a < b THEN a ELSE b

\* Mutant of Post: one event more than there are slots.
Post_OneTooMany(e) ==
    /\ events' = IF Len(events) <= EventSlots THEN Append(events, e) ELSE events
    /\ lost' = (lost \/ Len(events) > EventSlots)

\* osMessagePut(usb_event_queue, e, 0): an event that finds no slot is lost.
Post(e) ==
    /\ events' = IF Len(events) < EventSlots THEN Append(events, e) ELSE events
    /\ lost' = (lost \/ Len(events) >= EventSlots)

\* n cells are copied to the ring inside a critical section.
Write(n) ==
    /\ ring' = [i \in 0 .. RingCells - 1 |->
                  LET k == (i + RingCells - write) % RingCells
                  IN  IF k < n THEN [life |-> life, number |-> (number + k) % Numbers]
                      ELSE ring[i]]
    /\ write' = (write + n) % RingCells
    /\ number' = (number + n) % Numbers

-----------------------------------------------------------------------------
(* The transport thread and the log thread *)

TransportWakes ==
    /\ transport = "asleep"
    /\ transport' = "awake"
    /\ UNCHANGED <<cells, queue, usb, textPost, device, names>>

\* Nothing to send, no room for the next frame, or nobody listens: osDelay(1).
TransportSleeps ==
    /\ transport = "awake"
    /\ transport' = "asleep"
    /\ UNCHANGED <<cells, queue, usb, textPost, device, names>>

\* usb_stdout_write_frame: the whole frame or nothing ...
WriteFrame ==
    /\ transport = "awake" /\ connected
    /\ FrameCells <= Space
    /\ Write(FrameCells)
    /\ transport' = "post"
    /\ UNCHANGED <<read, active, connected, txActive, queue, usb, textPost, device, life>>

\* ... and its event.  The thread goes on with the next record.
PostFrame ==
    /\ transport = "post"
    /\ Post("queued")
    /\ transport' = "awake"
    /\ UNCHANGED <<cells, usb, textPost, device, names>>

LogMayRun == transport = "asleep" /\ usb = "wait" /\ events = <<>>

\* usb_stdout_write: as much of the text as fits, connected or not.
WriteText ==
    /\ LogMayRun /\ ~textPost
    /\ \E n \in 1 .. TextCells :
         /\ Write(Smaller(n, Space))
         /\ textPost' = (Space # 0)
    /\ UNCHANGED <<read, active, connected, txActive, queue, usb, transport, device, life>>

PostText ==
    /\ LogMayRun /\ textPost
    /\ Post("queued")
    /\ textPost' = FALSE
    /\ UNCHANGED <<cells, usb, transport, device, names>>

-----------------------------------------------------------------------------
(* The USB interrupt *)

\* CDC_Init_FS: the host has configured the device.
Configure ==
    /\ class = "none" /\ enumerations < MaxEnumerations
    /\ enumerations' = enumerations + 1
    /\ class' = "idle"
    /\ Post("configured")
    /\ UNCHANGED <<cells, threads, flight, host, names>>

\* CDC_DeInit_FS: reset or unplugged; the packet under way is lost.
Unconfigure ==
    /\ class # "none"
    /\ class' = "none"
    /\ flight' = <<>> /\ host' = <<>>
    /\ Post("gone")
    /\ UNCHANGED <<cells, threads, enumerations, names>>

\* USBD_CDC_DataIn: the packet has reached the host.
DataIn ==
    /\ class = "busy"
    /\ class' = "idle"
    /\ host' = flight /\ flight' = <<>>
    /\ Post("sent")
    /\ UNCHANGED <<cells, threads, enumerations, names>>

-----------------------------------------------------------------------------
(* The USB thread *)

\* start_next_packet up to CDC_Transmit_FS, with read index r and the packet
\* under way or not.
StartNext(r, online, sending) ==
    IF ~online \/ sending \/ r = write
    THEN /\ usb' = "wait"
         /\ UNCHANGED active
    ELSE /\ usb' = "transmit"
         /\ active' = Smaller(PacketCells,
                              IF write > r THEN write - r ELSE RingCells - r)

UsbThreadRuns == usb = "wait" /\ transport = "asleep" /\ events # <<>>

ReceiveConfigured ==
    /\ UsbThreadRuns /\ Head(events) = "configured"
    /\ events' = Tail(events) /\ UNCHANGED lost
    /\ connected' = TRUE
    /\ StartNext(read, TRUE, txActive)
    /\ UNCHANGED <<ring, read, write, txActive, transport, textPost, device, names>>

\* reset_transport
ReceiveGone ==
    /\ UsbThreadRuns /\ Head(events) = "gone"
    /\ events' = Tail(events) /\ UNCHANGED lost
    /\ connected' = FALSE
    /\ read' = 0 /\ write' = 0 /\ active' = 0
    /\ txActive' = FALSE
    /\ life' = life + 1 /\ number' = 0
    /\ UNCHANGED <<ring, threads, device>>

\* Mutants of ReceiveSent: the packet is sent again; the next one waits for
\* somebody to write.
ReceiveSent_NoAdvance ==
    /\ UsbThreadRuns /\ Head(events) = "sent"
    /\ events' = Tail(events) /\ UNCHANGED lost
    /\ txActive' = FALSE
    /\ IF read # write /\ connected
       THEN StartNext(read, connected, FALSE)
       ELSE active' = 0 /\ UNCHANGED usb
    /\ UNCHANGED <<ring, read, write, connected, transport, textPost, device, names>>

ReceiveSent_NoNext ==
    /\ UsbThreadRuns /\ Head(events) = "sent"
    /\ events' = Tail(events) /\ UNCHANGED lost
    /\ read' = IF txActive THEN (read + active) % RingCells ELSE read
    /\ txActive' = FALSE /\ active' = 0
    /\ UNCHANGED <<ring, write, connected, threads, device, names>>

ReceiveSent ==
    /\ UsbThreadRuns /\ Head(events) = "sent"
    /\ events' = Tail(events) /\ UNCHANGED lost
    /\ read' = IF txActive THEN (read + active) % RingCells ELSE read
    /\ txActive' = FALSE
    /\ IF connected /\ read' # write
       THEN StartNext(read', connected, FALSE)
       ELSE active' = 0 /\ UNCHANGED usb
    /\ UNCHANGED <<ring, write, connected, transport, textPost, device, names>>

ReceiveQueued ==
    /\ UsbThreadRuns /\ Head(events) = "queued"
    /\ events' = Tail(events) /\ UNCHANGED lost
    /\ StartNext(read, connected, txActive)
    /\ UNCHANGED <<ring, read, write, connected, txActive, transport, textPost, device, names>>

\* CDC_Transmit_FS: the controller takes the packet at once, unless it is
\* still busy with one or the class is closed.
Transmit ==
    /\ usb = "transmit" /\ transport = "asleep"
    /\ usb' = "wait"
    /\ IF class = "idle"
       THEN /\ class' = "busy"
            /\ flight' = [i \in 1 .. active |-> ring[(read + i - 1) % RingCells]]
            /\ txActive' = TRUE
            /\ UNCHANGED active
       ELSE /\ active' = 0
            /\ UNCHANGED <<class, flight, txActive>>
    /\ UNCHANGED <<ring, read, write, connected, queue, transport, textPost,
                   enumerations, host, names>>

UsbThread ==
    \/ ReceiveConfigured \/ ReceiveGone \/ ReceiveSent \/ ReceiveQueued
    \/ Transmit

Next ==
    \/ TransportWakes \/ TransportSleeps \/ WriteFrame \/ PostFrame
    \/ WriteText \/ PostText
    \/ Configure \/ Unconfigure \/ DataIn
    \/ UsbThread

Spec == Init /\ [][Next]_vars

\* The transport thread blocks in osDelay sooner or later and leaves time to
\* the threads below it, also if it wakes every millisecond; a connected host
\* reads its packets.
FairSpec ==
    /\ Spec
    /\ WF_vars(TransportSleeps) /\ WF_vars(PostFrame) /\ SF_vars(PostText)
    /\ SF_vars(UsbThread)
    /\ WF_vars(DataIn)

-----------------------------------------------------------------------------
\* Type correctness; the event queue never exceeds its slots.
TypeOK ==
    /\ ring \in [0 .. RingCells - 1 -> Cells]
    /\ read \in 0 .. RingCells - 1 /\ write \in 0 .. RingCells - 1
    /\ active \in 0 .. PacketCells
    /\ connected \in BOOLEAN /\ txActive \in BOOLEAN
    /\ events \in Seq(Events) /\ Len(events) <= EventSlots
    /\ usb \in {"wait", "transmit"}
    /\ transport \in {"asleep", "awake", "post"} /\ textPost \in BOOLEAN
    /\ class \in {"none", "idle", "busy"}
    /\ enumerations \in 0 .. MaxEnumerations
    /\ flight \in Seq(Cells) /\ host \in Seq(Cells)
    /\ life \in 0 .. MaxEnumerations /\ number \in 0 .. Numbers - 1
    /\ lost \in BOOLEAN

Continues(c, d) ==
    \/ d.life = c.life /\ d.number = (c.number + 1) % Numbers
    \/ d.life > c.life /\ d.number = 0

\* What the host reads while it stays configured is what was written, each
\* byte once and in order, although events may be lost and a packet of the
\* previous configuration may still be under way: after a reset the stream
\* goes on with the first byte written since.
StreamIsContinuous ==
    [][class = "busy" /\ class' = "idle" =>
          /\ \A i \in 1 .. Len(flight) - 1 : Continues(flight[i], flight[i + 1])
          /\ host # <<>> => Continues(host[Len(host)], flight[1])]_vars

\* CALIBRATION_STREAM.md: "the firmware drains its fixed SPSC record queue to
\* the stdout USB CDC endpoint".  While a host is connected, data at the read
\* index is sent, unless an event has been lost: no order of interrupts,
\* writers and events stalls the ring while each event finds a slot.
Waits(i) == connected /\ class # "none" /\ read = i /\ write # i
DrainsUnlessLost ==
    \A i \in 0 .. RingCells - 1 : (Waits(i) /\ ~lost) ~> (~Waits(i) \/ lost)
=============================================================================
