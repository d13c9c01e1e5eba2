-------------------------------- MODULE Telemetry --------------------------------
(***************************************************************************)
(* The log of a satellite on its way to ground control.                    *)
(*                                                                         *)
(*   logger    Logger::log appends a line to the log file                  *)
(*   sender    broadcast(): createDataDump reads the file and empties it,  *)
(*             the chunks are sent one by one, waitingForAck is set        *)
(*   listener  acceptConnections: an answer while waitingForAck empties    *)
(*             the file once more (Logger::clearFile)                      *)
(*   ground    Receiver puts the chunks together, Parser and the display   *)
(*             thread take the last chunk's dump apart                     *)
(*                                                                         *)
(* A line is two cells long, so that a chunk or a lost datagram can cut it *)
(* in two: the head holds the time stamp and the start of the message, the *)
(* tail ends with the newline.                                             *)
(*                                                                         *)
(* The logger's stream keeps a write position of its own.  Truncating the  *)
(* file through another stream (createDataDump) does not move it: the next *)
(* line leaves a hole of NULs in front of it.  clearFile opens the logger's*)
(* stream again, at position 0.                                            *)
(*                                                                         *)
(* The network is UDP.  Where it is Unreliable it loses, reorders and      *)
(* duplicates datagrams, and the satellite may be killed and restarted.    *)
(* Otherwise every datagram arrives once and in the order sent, as on      *)
(* localhost while no socket buffer overflows: an assumption, since chunks *)
(* carry no number.                                                        *)
(*                                                                         *)
(* Assumed: a line reaches the file in one write (std::endl flushes one    *)
(* line), and reading the file is atomic in blocks of BlockSize cells (the *)
(* buffer of std::ifstream).  The three queues between listener, display   *)
(* and ground control's logger keep their order (MessageQueue) and are     *)
(* left out, as is the time between two dumps.                             *)
(***************************************************************************)
EXTENDS Naturals, Sequences, SequencesExt

CONSTANTS
    ChunkSize,        \* Config.h: FILE_CHUNK_SIZE, in cells
    MAX_FILE_CHUNKS,  \* Config.h: chunks of one dump
    BlockSize,        \* cells read from the file at a time
    PacketLines,      \* the numbers of the lines that report a packet
    Unreliable,       \* what may go wrong does: loss, disorder, restarts
    MaxLines,         \* bound: lines ever logged
    MaxFlight,        \* bound: no dump is begun with more chunks in flight
    MaxAcks,          \* bound: no chunk is answered with more answers in flight
    MaxDuplicates     \* bound: datagrams ever duplicated

ASSUME TelemetryAssumption ==
    /\ ChunkSize \in Nat \ {0}
    /\ MAX_FILE_CHUNKS \in Nat \ {0}
    /\ BlockSize \in Nat \ {0}
    /\ PacketLines \subseteq Nat
    /\ Unreliable \in BOOLEAN
    /\ MaxLines \in Nat /\ MaxFlight \in Nat /\ MaxAcks \in Nat \ {0}
    /\ MaxDuplicates \in Nat

VARIABLES
    written,   \* lines logged so far: 1, 2, ..., written
    file,      \* the log file
    pos,       \* write position of the logger's stream
    sender,    \* sender thread: "idle", "reading", "read" or "sending"
    data,      \* what createDataDump has read
    chunks,    \* chunks it has not sent yet
    waiting,   \* Satellite::waitingForAck
    clearing,  \* the listener is about to call clearFile
    net,       \* chunks in flight
    acks,      \* answers in flight
    buffer,    \* Receiver::buffer of this satellite
    stored,    \* lines in ground control's log of it, as pairs (see Line)
    shown,     \* the line whose position is on the display
    packets,   \* SatelliteData::packetsReceived + packetsSent
    taken,     \* history: lines read from the file before it was emptied
    overtaken, \* history: a chunk has overtaken another
    duplicates \* history: chunks the network has duplicated

satVars == <<written, file, pos, sender, data, chunks, waiting, clearing>>
gcVars  == <<buffer, stored, shown, packets>>
history == <<taken, overtaken, duplicates>>
vars    == <<satVars, net, acks, gcVars, history>>

--------------------------------------------------------------------------------
(* Cells, lines and chunks.                                                 *)

Least(a, b) == IF a < b THEN a ELSE b

Hole == [line |-> 0, part |-> "nul"]
LineHead(n) == [line |-> n, part |-> "head"]
LineTail(n) == [line |-> n, part |-> "tail"]

CellsOf(n) == <<LineHead(n), LineTail(n)>>

\* A line as ground control reads it: where its head comes from, and its tail.
Line(from, to) == <<from, to>>

\* One step of the loop over the characters in dataDecoder and logData.  Without
\* its head a line has no "] : " and is skipped; NULs in front do not matter.
Decode(acc, cell) ==
    CASE cell.part = "nul"  -> acc
      [] cell.part = "head" -> [acc EXCEPT !.from = IF @ = 0 THEN cell.line ELSE @]
      [] cell.part = "tail" ->
            [ from |-> 0,
              out  |-> IF acc.from = 0
                         THEN acc.out
                         ELSE Append(acc.out, Line(acc.from, cell.line)) ]

\* The loop over all of s: the head that waits for its tail, and the lines.
DecodeAll(s) ==
    LET acc[i \in 0 .. Len(s)] ==
            IF i = 0 THEN [from |-> 0, out |-> <<>>] ELSE Decode(acc[i - 1], s[i])
    IN  acc[Len(s)]

\* The complete lines of s, in order.  What follows the last newline is dropped.
LinesOf(s) == DecodeAll(s).out

\* Fault: one byte more than fits is copied into a chunk.
ChunksOverlong(s) ==
    [ i \in 1 .. Least(MAX_FILE_CHUNKS, Len(s) \div ChunkSize + 1) |->
        [ data |-> SubSeq(s, (i - 1) * ChunkSize + 1, Least(i * ChunkSize + 1, Len(s))),
          last |-> i * ChunkSize > Len(s) ] ]

\* Fault: every chunk claims to be the last.
ChunksAllLast(s) ==
    [ i \in 1 .. Least(MAX_FILE_CHUNKS, Len(s) \div ChunkSize + 1) |->
        [ data |-> SubSeq(s, (i - 1) * ChunkSize + 1, Least(i * ChunkSize, Len(s))),
          last |-> TRUE ] ]

\* Fault: the end of the file is looked for before the chunk is read.
ChunksEofBefore(s) ==
    [ i \in 1 .. Least(MAX_FILE_CHUNKS, Len(s) \div ChunkSize + 1) |->
        [ data |-> SubSeq(s, (i - 1) * ChunkSize + 1, Least(i * ChunkSize, Len(s))),
          last |-> (i - 1) * ChunkSize > Len(s) ] ]

\* createDataDump: only the read that hits the end of the file makes a last
\* chunk, and no more than MAX_FILE_CHUNKS are made.
Chunks(s) ==
    [ i \in 1 .. Least(MAX_FILE_CHUNKS, Len(s) \div ChunkSize + 1) |->
        [ data |-> SubSeq(s, (i - 1) * ChunkSize + 1, Least(i * ChunkSize, Len(s))),
          last |-> i * ChunkSize > Len(s) ] ]

\* The most createDataDump reads.
DumpLimit == MAX_FILE_CHUNKS * ChunkSize

\* Which of the lines report a position: the parser looks at what follows the
\* first "] : ", which is that of the head.
Positions(lines) == {i \in DOMAIN lines : lines[i][1] \notin PacketLines}

--------------------------------------------------------------------------------
Init ==
    /\ written = 0
    /\ file = <<>>
    /\ pos = 0
    /\ sender = "idle"
    /\ data = <<>>
    /\ chunks = <<>>
    /\ waiting = FALSE
    /\ clearing = FALSE
    /\ net = <<>>
    /\ acks = 0
    /\ buffer = <<>>
    /\ stored = <<>>
    /\ shown = 0
    /\ packets = 0
    /\ taken = <<>>
    /\ overtaken = FALSE
    /\ duplicates = 0

\* A file s after cells are written at a position: over what is there, and with
\* a hole where there is nothing yet.
WriteAt(s, at, cells) ==
    [ i \in 1 .. IF at + Len(cells) > Len(s) THEN at + Len(cells) ELSE Len(s) |->
        IF i \in at + 1 .. at + Len(cells)
          THEN cells[i - at]
          ELSE IF i <= Len(s) THEN s[i] ELSE Hole ]

\* Logger::log, under the logger's mutex.
Write ==
    /\ written < MaxLines
    /\ written' = written + 1
    /\ file' = WriteAt(file, pos, CellsOf(written + 1))
    /\ pos' = pos + 2
    /\ UNCHANGED <<sender, data, chunks, waiting, clearing, net, acks, gcVars, history>>

--------------------------------------------------------------------------------
(* The sender thread.                                                       *)

BeginDump ==
    /\ sender = "idle"
    /\ Len(net) <= MaxFlight
    /\ sender' = "reading"
    /\ data' = <<>>
    /\ UNCHANGED <<written, file, pos, chunks, waiting, clearing, net, acks, gcVars,
                   history>>

\* createDataDump reads on; no lock keeps the logger or the listener out.
ReadBlock ==
    /\ sender = "reading"
    /\ LET upTo == Least(Len(data) + BlockSize, DumpLimit)
           more == SubSeq(file, Len(data) + 1, Least(Len(file), upTo))
       IN  /\ data' = data \o more
           /\ sender' = IF Len(data') < upTo \/ upTo = DumpLimit THEN "read" ELSE sender
    /\ UNCHANGED <<written, file, pos, chunks, waiting, clearing, net, acks, gcVars,
                   history>>

\* Fault: the file keeps what was read.
TruncateNothing ==
    /\ sender = "read"
    /\ sender' = "sending"
    /\ chunks' = Chunks(data)
    /\ data' = <<>>
    /\ taken' = taken \o LinesOf(data)
    /\ UNCHANGED <<written, file, pos, waiting, clearing, net, acks, gcVars,
                   overtaken, duplicates>>

\* createDataDump empties the file, whatever it holds by now.
Truncate ==
    /\ sender = "read"
    /\ sender' = "sending"
    /\ chunks' = Chunks(data)
    /\ data' = <<>>
    /\ file' = <<>>
    /\ taken' = taken \o LinesOf(data)
    /\ UNCHANGED <<written, pos, waiting, clearing, net, acks, gcVars,
                   overtaken, duplicates>>

\* Fault: the chunks are sent from the back.
SendLastFirst ==
    /\ sender = "sending" /\ chunks # <<>>
    /\ net' = Append(net, chunks[Len(chunks)])
    /\ chunks' = RemoveAt(chunks, Len(chunks))
    /\ UNCHANGED <<written, file, pos, sender, data, waiting, clearing, acks, gcVars,
                   history>>

\* broadcast(): one chunk.  It is dropped if sendMessageToPeer finds ground
\* control disconnected, or on the way.
Send ==
    /\ sender = "sending" /\ chunks # <<>>
    /\ \/ net' = Append(net, Head(chunks))
       \/ Unreliable /\ UNCHANGED net
    /\ chunks' = Tail(chunks)
    /\ UNCHANGED <<written, file, pos, sender, data, waiting, clearing, acks, gcVars,
                   history>>

\* Fault: nobody waits for an answer.
FinishDumpUnawaited ==
    /\ sender = "sending" /\ chunks = <<>>
    /\ sender' = "idle"
    /\ UNCHANGED <<written, file, pos, data, chunks, waiting, clearing, net, acks,
                   gcVars, history>>

\* broadcast(): setWaitingForAck(true), by when an answer may be here already.
FinishDump ==
    /\ sender = "sending" /\ chunks = <<>>
    /\ sender' = "idle"
    /\ waiting' = TRUE
    /\ UNCHANGED <<written, file, pos, data, chunks, clearing, net, acks, gcVars,
                   history>>

--------------------------------------------------------------------------------
(* Ground control.                                                          *)

\* dataDecoder finds the last position in the dump and counts its packets, the
\* display thread updates the table; without a position (dump_msg = -1) it does
\* not count the packets either.
UpdateTable(lines) ==
    LET ps == Positions(lines)
    IN  IF ps = {}
          THEN UNCHANGED <<shown, packets>>
          ELSE /\ shown' = lines[Max(ps)][1]
               /\ packets' = packets + (Len(lines) - Cardinality(ps))

\* The display thread: logData, updateVals, updatePackets.
Display(lines) ==
    /\ stored' = stored \o lines
    /\ UpdateTable(lines)

\* Fault: the dump that has been decoded is not taken out of the buffer.
ReceiveChunkKeeping ==
    /\ net # <<>> /\ acks < MaxAcks
    /\ net' = Tail(net)
    /\ acks' = acks + 1
    /\ buffer' = buffer \o Head(net).data
    /\ IF Head(net).last THEN Display(LinesOf(buffer'))
                         ELSE UNCHANGED <<stored, shown, packets>>
    /\ UNCHANGED <<satVars, history>>

\* handleFileDump: a chunk, and after the last one what is done with the dump.
\* Every chunk is answered.
ReceiveChunk ==
    /\ net # <<>> /\ acks < MaxAcks
    /\ net' = Tail(net)
    /\ acks' = acks + 1
    /\ LET whole == buffer \o Head(net).data
       IN  IF Head(net).last
             THEN buffer' = <<>> /\ Display(LinesOf(whole))
             ELSE buffer' = whole /\ UNCHANGED <<stored, shown, packets>>
    /\ UNCHANGED <<satVars, history>>

\* The answer to something else: a greeting, or the answer to a command.
\* Bound: none while another answer is in flight.
OtherAnswer ==
    /\ acks = 0
    /\ acks' = 1
    /\ UNCHANGED <<satVars, net, gcVars, history>>

--------------------------------------------------------------------------------
(* The satellite's listener.                                                *)

\* acceptConnections: an answer.  It does not say what it answers.
HearAnswer ==
    /\ acks > 0 /\ ~clearing
    /\ acks' = acks - 1
    /\ waiting' = FALSE
    /\ clearing' = waiting
    /\ UNCHANGED <<written, file, pos, sender, data, chunks, net, gcVars, history>>

\* Fault: the stream goes back to the start of a file that keeps its lines.
ClearFileRewinding ==
    /\ clearing
    /\ clearing' = FALSE
    /\ pos' = 0
    /\ UNCHANGED <<written, file, sender, data, chunks, waiting, net, acks, gcVars,
                   history>>

\* Logger::clearFile, under the logger's mutex.
ClearFile ==
    /\ clearing
    /\ clearing' = FALSE
    /\ file' = <<>>
    /\ pos' = 0
    /\ UNCHANGED <<written, sender, data, chunks, waiting, net, acks, gcVars, history>>

--------------------------------------------------------------------------------
(* What may go wrong.                                                       *)

LoseChunk ==
    /\ Unreliable
    /\ \E i \in DOMAIN net : net' = RemoveAt(net, i)
    /\ UNCHANGED <<satVars, acks, gcVars, history>>

\* A chunk overtakes the one before it.
Overtake ==
    /\ Unreliable
    /\ \E i \in 1 .. Len(net) - 1 :
          net' = [net EXCEPT ![i] = net[i + 1], ![i + 1] = net[i]]
    /\ overtaken' = TRUE
    /\ UNCHANGED <<satVars, acks, gcVars, taken, duplicates>>

\* Bound: MaxDuplicates times in all, and not with more than MaxFlight in flight.
Duplicate ==
    /\ Unreliable /\ duplicates < MaxDuplicates /\ Len(net) <= MaxFlight
    /\ \E i \in DOMAIN net : net' = Append(net, net[i])
    /\ duplicates' = duplicates + 1
    /\ UNCHANGED <<satVars, acks, gcVars, taken, overtaken>>

LoseAnswer ==
    /\ Unreliable /\ acks > 0
    /\ acks' = acks - 1
    /\ UNCHANGED <<satVars, net, gcVars, history>>

\* The satellite is killed and started again: the logger empties its file.
Restart ==
    /\ Unreliable
    /\ file' = <<>> /\ pos' = 0
    /\ sender' = "idle" /\ data' = <<>> /\ chunks' = <<>>
    /\ waiting' = FALSE /\ clearing' = FALSE
    /\ UNCHANGED <<written, net, acks, gcVars, history>>

--------------------------------------------------------------------------------
Next ==
    \/ Write
    \/ BeginDump
    \/ ReadBlock
    \/ Truncate
    \/ Send
    \/ FinishDump
    \/ ReceiveChunk
    \/ OtherAnswer
    \/ HearAnswer
    \/ ClearFile
    \/ LoseChunk
    \/ Overtake
    \/ Duplicate
    \/ LoseAnswer
    \/ Restart

Spec == Init /\ [][Next]_vars

\* The threads run and datagrams arrive.  Nothing is assumed of what is logged.
Fairness ==
    /\ WF_vars(BeginDump) /\ WF_vars(ReadBlock) /\ WF_vars(Truncate)
    /\ WF_vars(Send) /\ WF_vars(FinishDump)
    /\ WF_vars(ReceiveChunk)
    /\ WF_vars(HearAnswer) /\ WF_vars(ClearFile)

FairSpec == Spec /\ Fairness

--------------------------------------------------------------------------------
(* Properties                                                               *)

Cell == {Hole} \cup [line : 1 .. written, part : {"head", "tail"}]

\* Every cell is a hole or belongs to a line that was logged, no chunk is longer
\* than its array, and no table entry is about a line that was not logged.
TypeOK ==
    /\ written \in 0 .. MaxLines
    /\ \A s \in {file, data, buffer} : \A i \in DOMAIN s : s[i] \in Cell
    /\ pos \in Nat
    /\ sender \in {"idle", "reading", "read", "sending"}
    /\ \A s \in {chunks, net} : \A i \in DOMAIN s :
          /\ Len(s[i].data) <= ChunkSize
          /\ s[i].last \in BOOLEAN
    /\ waiting \in BOOLEAN /\ clearing \in BOOLEAN
    /\ acks \in 0 .. MaxAcks
    /\ \A i \in DOMAIN stored : stored[i] \in (1 .. written) \X (1 .. written)
    /\ shown \in 0 .. written
    /\ packets \in Nat
    /\ overtaken \in BOOLEAN /\ duplicates \in 0 .. MaxDuplicates

\* Two threads empty the file, each through a stream of its own, and a third
\* writes where its stream stands: a line in the file is never written over, it
\* goes only when the file is emptied.
OverwritesNothing ==
    [][file' = <<>> \/ \A i \in DOMAIN file : i \in DOMAIN file' /\ file'[i] = file[i]]_vars

IsWhole(l) == l[1] = l[2]

Whole == {i \in DOMAIN stored : IsWhole(stored[i])}

\* Whatever is lost or overtaken, and whoever empties the file when: while the
\* network duplicates nothing, no line is stored twice.
StoredOnce ==
    duplicates = 0 => \A i, j \in Whole : i # j => stored[i][1] # stored[j][1]

\* And while no chunk overtakes another either, none is stored after a later one.
StoredInOrder ==
    duplicates = 0 /\ ~overtaken
        => \A i, j \in Whole : i < j => stored[i][1] < stored[j][1]

\* On a reliable network, what createDataDump has read, and then removed from the
\* file, is on its way or stored: no chunk boundary, hole or answer that comes
\* early, late or for something else makes a line fall through.
Pending(s) ==
    LET acc[i \in 0 .. Len(s)] == IF i = 0 THEN <<>> ELSE acc[i - 1] \o s[i].data
    IN  acc[Len(s)]

WhatIsReadArrives ==
    taken = stored \o LinesOf(buffer \o Pending(net) \o Pending(chunks))

\* Ground control keeps the promise of LogTransfer (a line put together from two
\* is no line of it).
Promise == INSTANCE LogTransfer
             WITH stored <- [i \in DOMAIN stored |->
                                IF IsWhole(stored[i]) THEN stored[i][1] ELSE 0]

KeepsTransfer == Promise!Spec

\* The sender's way to empty the file leaves the position where it is, so that the
\* hole in front of the next line would grow with every dump.  It does not grow for
\* ever: again and again an answer makes the listener start the file anew.
PositionReturns == []<>(pos = 0)

\* What is read is stored in the end.
ReadIsStored == \A n \in 1 .. MaxLines :
    (\E i \in DOMAIN taken : taken[i][1] = n) ~> (\E i \in DOMAIN stored : stored[i][1] = n)

\* A line ground control stores is a line the satellite has logged ("chunked UDP
\* messages, which are reassembled and parsed at the receiver", src/README.md).
StoredIsLogged == \A i \in DOMAIN stored : IsWhole(stored[i])

================================================================================
