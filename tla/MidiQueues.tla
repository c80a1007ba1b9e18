----------------------------- MODULE MidiQueues -----------------------------
(***************************************************************************)
(* The queues between the MIDI ports and the rest: MidiManager with the    *)
(* two input queues, and the output queue with the queue of SysEx payloads *)
(* beside it, whose order only the markers in the first one keep.          *)
(*                                                                         *)
(* One iteration of the main loop: the components work and send what they  *)
(* like; process_input reads the ports up to MaxReads times and consumes   *)
(* SysEx between the reads, then handles the other messages; and           *)
(* process_midi_output_queue sends one message unless the pace of the DIN  *)
(* port forbids it.  What is read is chosen when it is handled, so that    *)
(* the input queues are only counted.                                      *)
(***************************************************************************)
EXTENDS Integers, Sequences

CONSTANTS
    OutSize, SysExOutSize,  \* MIDI_QUEUE_SIZE, SYSEX_QUEUE_SIZE
    InSize, SysExInSize,    \* MIDI_INPUT_QUEUE_SIZE, SYSEX_INPUT_QUEUE_SIZE
    MaxReads,               \* MAX_MESSAGES_PER_UPDATE
    Transports,             \* ports that a read() takes a message from
    Numbers, Values,        \* controllers and what they are set to
    Payloads,               \* of SysEx
    MinInterval,            \* MIN_INTERVAL_US_NON_REALTIME
    Silence

ASSUME QueueAssumption ==
    /\ {OutSize, SysExOutSize, InSize, SysExInSize, MaxReads, Transports} \subseteq Nat \ {0}
    /\ MinInterval \in Nat
\* 32 reads of two ports, and 64 messages; two ports, and two chunks.
ASSUME InputAssumption == MaxReads * Transports <= InSize /\ Transports <= SysExInSize

VARIABLES
    at,        \* where the main loop is
    reads,     \* calls of MIDI::read() in this iteration
    inputs,    \* messages in midi_input_queue
    chunks,    \* chunks in sysex_input_queue
    out,       \* midi_output_queue
    payloads,  \* sysex_payload_queue
    since,     \* time since last_non_realtime_send_time, up to MinInterval
    wire,      \* history: the last message sent
    lost       \* history: messages read and dropped

input == <<at, reads, inputs, chunks, lost>>
output == <<out, payloads>>
queueVars == <<input, output, since, wire>>

-----------------------------------------------------------------------------
Note    == [type |-> "NOTE_ON", number |-> 0, value |-> 0]
Clock   == [type |-> "SYSTEM_REALTIME", number |-> 0, value |-> 0]
CC(c, v)  == [type |-> "CONTROL_CHANGE", number |-> c, value |-> v]

\* A SysEx message; in the output queue its marker, which stands for the
\* payload without telling which.
SysEx(p)  == [type |-> "SYSTEM_EXCLUSIVE", number |-> 0, value |-> p]

ControlChanges == {CC(c, v) : c \in Numbers, v \in Values}
Messages == ControlChanges \cup {Note, Clock} \cup {SysEx(p) : p \in Payloads}

QueuesInit ==
    /\ at = "work" /\ reads = 0 /\ inputs = 0 /\ chunks = 0 /\ lost = 0
    /\ out = <<>> /\ payloads = <<>>
    /\ since = MinInterval /\ wire = Silence

-----------------------------------------------------------------------------
(* Output *)

Positions(m) ==
    {i \in DOMAIN out : /\ m.type = "CONTROL_CHANGE" /\ out[i].type = m.type
                        /\ out[i].number = m.number}

\* A control change revises the one queued for its controller; what finds no
\* room is dropped.
enqueue_midi_message(m) ==
    /\ \/ \E i \in Positions(m) :
             /\ \A j \in Positions(m) : i <= j
             /\ out' = [out EXCEPT ![i].value = m.value]
       \/ /\ Positions(m) = {} /\ Len(out) < OutSize
          /\ out' = Append(out, m)
       \/ /\ Positions(m) = {} /\ Len(out) = OutSize
          /\ UNCHANGED out
    /\ UNCHANGED payloads

enqueue_sysex_message(p) ==
    /\ IF Len(out) < OutSize /\ Len(payloads) < SysExOutSize
         THEN payloads' = Append(payloads, p) /\ out' = Append(out, SysEx(p))
         ELSE UNCHANGED output

\* Real-time messages and SysEx do not wait for the DIN port, but behind what
\* does.
MaySend ==
    /\ out # <<>>
    /\ Head(out).type \in {"SYSTEM_REALTIME", "SYSTEM_EXCLUSIVE"} \/ since >= MinInterval

\* Mutant: the payload stays in its queue.
processKeepingPayload ==
    /\ at = "send"
    /\ at' = "work"
    /\ IF ~MaySend THEN UNCHANGED <<output, since, wire>>
       ELSE /\ out' = Tail(out)
            /\ wire' = IF Head(out).type = "SYSTEM_EXCLUSIVE" THEN SysEx(Head(payloads)) ELSE Head(out)
            /\ UNCHANGED <<payloads, since>>
    /\ UNCHANGED <<reads, inputs, chunks, lost>>

process_midi_output_queue ==
    /\ at = "send"
    /\ at' = "work"
    /\ IF ~MaySend THEN UNCHANGED <<output, since, wire>>
       ELSE LET m == Head(out) IN
            /\ out' = Tail(out)
            /\ IF m.type = "SYSTEM_EXCLUSIVE"
                 THEN payloads' = Tail(payloads) /\ wire' = SysEx(Head(payloads))
                 ELSE wire' = m /\ UNCHANGED payloads
            /\ since' = IF m.type \in {"SYSTEM_REALTIME", "SYSTEM_EXCLUSIVE"} THEN since ELSE 0
    /\ UNCHANGED <<reads, inputs, chunks, lost>>

Tick ==
    /\ since < MinInterval
    /\ since' = since + 1
    /\ UNCHANGED <<input, output, wire>>

-----------------------------------------------------------------------------
(* Input *)

\* Sequencer, panel, router and clock send what they like.
Work ==
    /\ at = "work"
    /\ \/ \E m \in ControlChanges \cup {Note, Clock} : enqueue_midi_message(m)
       \/ \E p \in Payloads : enqueue_sysex_message(p)
    /\ UNCHANGED <<input, since, wire>>

\* Mutant: the messages of an iteration may wait for the next.
process_inputTwice ==
    /\ at \in {"work", "handle"}
    /\ at' = "read" /\ reads' = 0
    /\ UNCHANGED <<inputs, chunks, lost, output, since, wire>>

process_input ==
    /\ at = "work"
    /\ at' = "read" /\ reads' = 0
    /\ UNCHANGED <<inputs, chunks, lost, output, since, wire>>

Room(queued, size, n) == IF queued + n <= size THEN n ELSE size - queued

\* One read() takes up to a message from each port; the callbacks queue them.
Read ==
    /\ at = "read" /\ chunks = 0 /\ reads < MaxReads
    /\ \E m, c \in 0..Transports :
         /\ m + c \in 1..Transports
         /\ inputs' = inputs + Room(inputs, InSize, m)
         /\ chunks' = chunks + Room(chunks, SysExInSize, c)
         /\ lost' = lost + m + c - Room(inputs, InSize, m) - Room(chunks, SysExInSize, c)
    /\ reads' = reads + 1
    /\ UNCHANGED <<at, output, since, wire>>

\* The chunk is handled, with a reply or without.
HandleChunk ==
    /\ at = "read" /\ chunks > 0
    /\ chunks' = chunks - 1
    /\ \/ \E p \in Payloads : enqueue_sysex_message(p)
       \/ UNCHANGED output
    /\ UNCHANGED <<at, reads, inputs, lost, since, wire>>

\* No port had a message, or the flood is cut short.
EndReads ==
    /\ at = "read" /\ chunks = 0
    /\ at' = "handle"
    /\ UNCHANGED <<reads, inputs, chunks, lost, output, since, wire>>

\* A control change is echoed, a clock may be passed on; a note goes to the
\* router's own queue, and any message is discarded during a transfer.
HandleMessage ==
    /\ at = "handle" /\ inputs > 0
    /\ inputs' = inputs - 1
    /\ \/ \E m \in ControlChanges \cup {Clock} : enqueue_midi_message(m)
       \/ UNCHANGED output
    /\ UNCHANGED <<at, reads, chunks, lost, since, wire>>

EndInput ==
    /\ at = "handle" /\ inputs = 0
    /\ at' = "send"
    /\ UNCHANGED <<reads, inputs, chunks, lost, output, since, wire>>

QueuesNext ==
    \/ process_midi_output_queue \/ Tick
    \/ Work \/ process_input \/ Read \/ HandleChunk \/ EndReads
    \/ HandleMessage \/ EndInput

\* The main loop goes round and time passes.
QueuesFairness ==
    /\ WF_queueVars(process_midi_output_queue) /\ WF_queueVars(Tick) /\ WF_queueVars(process_input)
    /\ WF_queueVars(HandleChunk) /\ WF_queueVars(EndReads) /\ WF_queueVars(HandleMessage) /\ WF_queueVars(EndInput)

QueuesSpec == QueuesInit /\ [][QueuesNext]_queueVars /\ QueuesFairness

-----------------------------------------------------------------------------
(* Properties *)

QueuesTypeOK ==
    /\ at \in {"work", "read", "handle", "send"}
    /\ reads \in 0..MaxReads /\ inputs \in 0..InSize /\ chunks \in 0..SysExInSize
    /\ out \in Seq(Messages) /\ Len(out) <= OutSize
    /\ payloads \in Seq(Payloads) /\ Len(payloads) <= SysExOutSize
    /\ since \in 0..MinInterval
    /\ wire \in Messages \cup {Silence}
    /\ lost \in Nat

\* The queues are dimensioned for the worst flood: nothing that was read from
\* a port is dropped before it is handled, however many messages and chunks
\* the ports have, since process_input drains one queue between the reads and
\* the other before the next iteration.
NothingReadIsLost == lost = 0

Fifo == INSTANCE MidiFifo WITH backlog <- out

\* The two output queues are one first-in-first-out queue: each accepted
\* message goes out once and in order, SysEx with the payload it was queued
\* with, and none waits for ever, however much is sent meanwhile.
ImplementsFifo == Fifo!Spec
=============================================================================
