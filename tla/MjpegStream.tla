---------------------------- MODULE MjpegStream ----------------------------
(***************************************************************************)
(* Motion JPEG over UDP, from the encoder to the client's standard output: *)
(* the server gathers small frames and cuts large ones into chunks, each a *)
(* datagram behind one byte that says whether it is the last; the client   *)
(* puts the chunks together again and writes them at every last one.       *)
(*                                                                         *)
(* The encoded bytes are told apart by their position in the stream: the   *)
(* n-th byte the encoder ever produced is the number n.                    *)
(***************************************************************************)
EXTENDS Naturals, SequencesExt

CONSTANTS
  MinFlush, MaxFlush,  \* MIN_FLUSH_BUFF_SIZE and MAX_FLUSH_BUFF_SIZE
  Sizes,               \* sizes of an encoded frame
  SaveVideo,           \* cliOpts.savevideo: the chunks go to a file instead
  MaxFrames, MaxLost   \* bounds: frames encoded, datagrams lost

ASSUME FlushAssumption ==
  MinFlush \in Nat \ {0} /\ MaxFlush \in Nat /\ MinFlush < MaxFlush
ASSUME SizesAssumption == Sizes \subseteq Nat \ {0}
(* A frame fits packetBufferVid, 100000 bytes: there is a largest one, and  *)
(* with what is gathered before it, it is cut into far fewer chunks than    *)
(* there are numbers before the one that stands for the last.               *)
ASSUME LargestAssumption ==
  \E most \in Sizes : (\A s \in Sizes : s <= most) /\ MinFlush + most < 128 * MaxFlush
ASSUME SaveVideoAssumption == SaveVideo \in BOOLEAN
ASSUME BoundsAssumption == MaxFrames \in Nat /\ MaxLost \in Nat

VARIABLES
  pc,        \* video thread: "pack", "flush", "send"
  frame,     \* packetBufferVid: the frame just encoded
  buffer,    \* pOutBufferVid behind its first byte, pOutBufferVid_size - 1 long
  unsent,    \* the chunks of this flush that are still to be sent
  file,      \* pOutputVideo
  net,       \* datagrams under way
  payload,   \* cRTP_Payload_local, iRTP_PacketSize_local long
  output,    \* what the client has written, write by write
  encoded,   \* history: bytes encoded
  frames,    \* history: frames encoded
  flushes,   \* history: what the buffer held at every flush
  missed,    \* history: the chunks lost, with the flush they are of
  aligned    \* history: a flush filled its last chunk to the last byte

serverVars == <<pc, frame, buffer, unsent, file, encoded, frames, flushes, aligned>>
clientVars == <<payload, output>>
vars == <<serverVars, net, missed, clientVars>>

(* The first byte of a chunk: its number, or that it is the last. *)
Independent == 127

(* A byte of video that a chunk's number has been written over. *)
Overwritten == 0

UpTo(n) == [i \in 1..n |-> i]

Init ==
  /\ pc = "pack" /\ frame = <<>> /\ buffer = <<>> /\ unsent = <<>> /\ file = <<>>
  /\ net = <<>> /\ payload = <<>> /\ output = <<>>
  /\ encoded = 0 /\ frames = 0 /\ flushes = <<>> /\ missed = {} /\ aligned = FALSE

-----------------------------------------------------------------------------
(* Server: the video thread *)

(* pOutBufferVid_size, the first byte included. *)
BufferSize == Len(buffer) + 1

(* A frame is encoded and copied behind what the buffer holds already. *)
Pack(n) ==
  /\ pc = "pack" /\ frames < MaxFrames
  /\ frame' = [i \in 1..n |-> encoded + i]
  /\ buffer' = buffer \o frame'
  /\ encoded' = encoded + n /\ frames' = frames + 1
  /\ pc' = "flush"
  /\ UNCHANGED <<unsent, file, flushes, aligned, net, missed, clientVars>>

KeepBuffering ==
  /\ pc = "flush" /\ BufferSize <= MinFlush
  /\ pc' = "pack"
  /\ UNCHANGED <<frame, buffer, unsent, file, encoded, frames, flushes, aligned, net,
                 missed, clientVars>>

Chunk(head, data) == [head |-> head, data |-> data, flush |-> Len(flushes) + 1]

(* Chunk 0 has one byte of video less than the others.                     *)
(* (Mutant: it has as many.)                                               *)
FirstChunkFull == Chunk(0, SubSeq(buffer, 1, MaxFlush))
FirstChunk == Chunk(0, SubSeq(buffer, 1, MaxFlush - 1))

(* Mutant: the last chunk leaves out its first byte. *)
LastChunkShort(k) == Chunk(Independent, SubSeq(buffer, k * MaxFlush + 1, Len(buffer)))
MiddleChunk(i) == Chunk(i, SubSeq(buffer, i * MaxFlush, (i + 1) * MaxFlush - 1))
LastChunk(k) == Chunk(Independent, SubSeq(buffer, k * MaxFlush, Len(buffer)))

FullChunks == BufferSize \div MaxFlush
Exact == BufferSize % MaxFlush = 0

Chunks ==
  <<FirstChunk>> \o [i \in 1..(FullChunks - 1) |-> MiddleChunk(i)]
    \o (IF Exact THEN <<>> ELSE <<LastChunk(FullChunks)>>)

(* The chunk numbers are written into the buffer itself, each over the     *)
(* last byte of the chunk before, which has been sent by then.             *)
Numbered ==
  [j \in 1..Len(buffer) |->
     IF (j + 1) % MaxFlush = 0 /\ j < Len(buffer) THEN Overwritten ELSE buffer[j]]

(* To the file, or chunk by chunk to the network. *)
Emit(chunks, saved) ==
  /\ file' = IF SaveVideo THEN file \o saved ELSE file
  /\ unsent' = IF SaveVideo THEN <<>> ELSE chunks
  /\ pc' = IF SaveVideo THEN "pack" ELSE "send"

(* The buffer is emptied by the last chunk; without one it stays as it is. *)
(* (Mutant: by no chunk.)                                                  *)
KeepNumbered == Numbered
AfterChunks == IF Exact THEN Numbered ELSE <<>>

FlushInChunks ==
  /\ pc = "flush" /\ BufferSize > MaxFlush
  /\ Emit(Chunks, FlattenSeq([i \in DOMAIN Chunks |-> Chunks[i].data]))
  /\ buffer' = AfterChunks
  /\ aligned' = (aligned \/ Exact)
  /\ flushes' = Append(flushes, buffer)
  /\ UNCHANGED <<frame, encoded, frames, net, missed, clientVars>>

(* The file gets the last frame, the network the whole buffer. *)
FlushWhole ==
  /\ pc = "flush" /\ BufferSize \in (MinFlush + 1)..MaxFlush
  /\ Emit(<<Chunk(Independent, buffer)>>, frame)
  /\ buffer' = <<>>
  /\ flushes' = Append(flushes, buffer)
  /\ UNCHANGED <<frame, encoded, frames, aligned, net, missed, clientVars>>

SendChunk ==
  /\ pc = "send"
  /\ net' = Append(net, Head(unsent))
  /\ unsent' = Tail(unsent)
  /\ pc' = IF Len(unsent) = 1 THEN "pack" ELSE "send"
  /\ UNCHANGED <<frame, buffer, file, encoded, frames, flushes, aligned, missed,
                 clientVars>>

-----------------------------------------------------------------------------
(* The network, and the client's receiving thread *)

Lose ==
  /\ net # <<>> /\ Cardinality(missed) < MaxLost
  /\ missed' = missed \union {[flush |-> Head(net).flush, head |-> Head(net).head]}
  /\ net' = Tail(net)
  /\ UNCHANGED <<serverVars, clientVars>>

(* What is left of the payload once it is written.  (Mutant: all of it.) *)
KeptPayload(bytes) == bytes
AfterWrite(bytes) == <<>>

ReceiveChunk ==
  /\ net # <<>>
  /\ LET bytes == payload \o Head(net).data
     IN \/ /\ Head(net).head # Independent
           /\ payload' = bytes
           /\ UNCHANGED output
        \/ /\ Head(net).head = Independent
           /\ payload' = AfterWrite(bytes)
           /\ output' = Append(output, bytes)
  /\ net' = Tail(net)
  /\ UNCHANGED <<serverVars, missed>>

-----------------------------------------------------------------------------
Next ==
  \/ \E n \in Sizes : Pack(n)
  \/ KeepBuffering \/ FlushInChunks \/ FlushWhole \/ SendChunk
  \/ Lose \/ ReceiveChunk

Spec == Init /\ [][Next]_vars

-----------------------------------------------------------------------------
(* Properties *)

Bytes == 0..encoded

Datagrams == [head : Nat, data : Seq(Bytes) \ {<<>>}, flush : 1..Len(flushes)]

TypeOK ==
  /\ pc \in {"pack", "flush", "send"}
  /\ pc = "send" <=> unsent # <<>>
  /\ frame \in Seq(Bytes) /\ buffer \in Seq(Bytes) /\ file \in Seq(Bytes)
  /\ unsent \in Seq(Datagrams) /\ net \in Seq(Datagrams)
  /\ payload \in Seq(Bytes) /\ output \in Seq(Seq(Bytes))
  /\ encoded \in Nat /\ frames \in 0..MaxFrames
  /\ flushes \in Seq(Seq(Bytes)) /\ aligned \in BOOLEAN
  /\ IsFiniteSet(missed) /\ Cardinality(missed) <= MaxLost

DataOf(chunks) == FlattenSeq([i \in DOMAIN chunks |-> chunks[i].data])

(* With no datagram lost, every encoded byte is exactly once, in order, in *)
(* what the client has written, what it gathers, what is under way, what   *)
(* is being sent or what the server gathers: cutting and joining match,    *)
(* the byte that each chunk number is written over included.               *)
NoByteLostOrRepeated ==
  ~SaveVideo /\ missed = {} /\ ~aligned =>
    FlattenSeq(output) \o payload \o DataOf(net) \o DataOf(unsent) \o buffer = UpTo(encoded)

(* Whatever is lost, the client never writes a byte again or writes it     *)
(* after one that was encoded later.                                       *)
OnlyForward ==
  LET written == FlattenSeq(output)
  IN ~aligned => \A i \in 2..Len(written) : written[i - 1] < written[i]

(* A loss damages the flush it hits, and the next one if it hits the last  *)
(* chunk: every other flush that the client has written is written whole,  *)
(* in one go and with nothing of another.                                  *)
Undamaged(f) ==
  /\ \A m \in missed : m.flush # f
  /\ [flush |-> f - 1, head |-> Independent] \notin missed

LossIsContained ==
  ~aligned =>
    \A f \in DOMAIN flushes :
      Undamaged(f) /\ (\E bytes \in Range(output) : flushes[f][1] \in Range(bytes))
        => flushes[f] \in Range(output)

(* The chunks that are still to arrive or to be lost, and the flushes that  *)
(* have none among them.                                                   *)
Rest == net \o unsent
Settled == IF Rest = <<>> THEN Len(flushes) ELSE Head(Rest).flush - 1

Promise == INSTANCE StreamPromise WITH
  sent    <- flushes,
  settled <- Settled,
  hurt    <- ~Undamaged(Settled + 1),
  written <- output,
  off     <- SaveVideo \/ aligned

(* Chunks, their numbers and the client's gathering implement that promise. *)
KeepsStreamPromise == Promise!PromiseSpec

(* What the client gathers before it writes grows by at most one flush for *)
(* every last chunk lost: flushes that fit cRTP_Payload_local one by one   *)
(* fill it only when last chunks are lost (or never sent, EveryFlushEnds). *)
LargestFlush == MinFlush - 1 + CHOOSE s \in Sizes : \A t \in Sizes : t <= s
LastsMissed == Cardinality({m \in missed : m.head = Independent})

PayloadBounded == ~aligned => Len(payload) <= (LastsMissed + 1) * LargestFlush

(* Server/src/Server.cpp:743 "This is used to separate packets into chunks *)
(* of predefined size", the last of them marked as such: once a flush is   *)
(* done the server has nothing of it left to send again.                   *)
EveryFlushEnds == pc = "pack" => BufferSize <= MinFlush

(* Server/src/Server.cpp:1187 "Path of video to be output": what the -o    *)
(* file holds is the encoded video, but for what is still gathered.        *)
SavedVideoComplete ==
  SaveVideo /\ pc = "pack" /\ ~aligned => file \o buffer = UpTo(encoded)
=============================================================================
