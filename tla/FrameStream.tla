---------------------------- MODULE FrameStream ----------------------------
(***************************************************************************)
(* One direction of a connection: the frames a peer encodes, the bytes TCP *)
(* delivers in chunks of any size, and the receiving end                   *)
(* (FrameDecoder::append and readAvailable of GatewayServer and of         *)
(* NetworkWorker), which cuts them into frames again and decodes each.     *)
(*                                                                         *)
(* Bytes are units << frame, k >>: WireSize units of header and one of     *)
(* body unless the body is empty.  A frame may carry what the decoder      *)
(* refuses (another version or length, a damaged body): its defect.  What  *)
(* is in a body is left to MessageStream.                                  *)
(***************************************************************************)
EXTENDS Integers, SequencesExt

CONSTANTS
    Messages,         \* what can be sent: records [type, value]
    Together,         \* those sent up to MaxFrames in a row; others are sent alone
    Defects,          \* a subset of {"none", "header", "checksum"}
    WireSize,         \* units of a frame header
    MaxFrames,        \* bound on the frames sent
    MaxConnections,   \* bound on connections
    Writable(_),      \* neither encodeMessage nor encodeFrame throws on the message
    Encoded(_),       \* the body encodeMessage makes of it
    Decoded(_, _)     \* what a body read as a type decodes to: [ok, value]

ASSUME FrameStreamAssumption ==
    /\ Defects \subseteq {"none", "header", "checksum"}
    /\ WireSize \in Nat \ {0} /\ MaxFrames \in Nat /\ MaxConnections \in Nat \ {0}

VARIABLES
    sent,         \* frames written so far: [type, value, body, defect, connection]
    wire,         \* units on their way
    buffer,       \* FrameDecoder::buffer_
    dispatched,   \* frames decoded: [frame, ok, value]
    open,         \* the receiving end still reads
    connection    \* number of the current connection
streamVars == << sent, wire, buffer, dispatched, open, connection >>

FrameSize(frame) == WireSize + IF frame.body = <<>> THEN 0 ELSE 1
FrameUnits(i, frame) == [k \in 1..FrameSize(frame) |-> << i, k >>]

-----------------------------------------------------------------------------
(* encodeMessage and encodeFrame: neither throws, the bytes are written.   *)
WriteFrame(message, defect) ==
    /\ open
    /\ sent # <<>> => Len(sent) < MaxFrames /\ message \in Together
                      /\ [type |-> sent[1].type, value |-> sent[1].value] \in Together
    /\ Writable(message) = TRUE    \* one value to TLC
    /\ \E body \in {Encoded(message)} :
          LET frame == [type |-> message.type, value |-> message.value, body |-> body,
                        defect |-> defect, connection |-> connection]
          IN /\ sent' = Append(sent, frame)
             /\ wire' = wire \o FrameUnits(Len(sent'), frame)
    /\ UNCHANGED << buffer, dispatched, open, connection >>

(* decodeHeader on the first units: the magic, sizes and version of a      *)
(* header that begins there and is whole.                                  *)
HeaderAt(units) ==
    /\ \A k \in 1..WireSize : units[k] = << units[1][1], k >>
    /\ sent[units[1][1]].defect # "header"

(* The frame of the unit at p is whole in these units and undamaged.       *)
InGoodFrame(units, p) ==
    LET i == units[p][1]  before == p - units[p][2] IN
    /\ before \in 0..(Len(units) - FrameSize(sent[i]))
    /\ \A k \in 1..FrameSize(sent[i]) : units[before + k] = << i, k >>
    /\ sent[i].defect = "none"

(* FrameDecoder::append: whole frames are cut off the front for as long as *)
(* there are any.                                                          *)
CutOff(units) == Max({n \in 0..Len(units) : \A p \in 1..n : InGoodFrame(units, p)})

(* What it makes of the units behind them: a header that is refused, a     *)
(* frame that is complete and yet not good, or too few to tell.            *)
HeaderRefused(rest) == Len(rest) >= WireSize /\ ~HeaderAt(rest)
BodyRefused(rest) ==
    /\ Len(rest) >= WireSize /\ HeaderAt(rest)
    /\ Len(rest) >= FrameSize(sent[rest[1][1]])

(* The one sequence that lists these positions from first to last.         *)
Listings(positions) ==
    {list \in [1..Cardinality(positions) -> positions] :
        \A a, b \in DOMAIN list : a < b => list[a] < list[b]}

(* dispatchFrame: the body decoded by the type in the header.              *)
Dispatched(i) ==
    LET read == Decoded(sent[i].type, sent[i].body) IN
    [frame |-> i, ok |-> read.ok, value |-> read.value]

(* The loop of readAvailable: a body that cannot be decoded ends it.       *)
DispatchLoop(frames) ==
    LET refused == {k \in DOMAIN frames : ~Dispatched(frames[k]).ok}
        last == IF refused = {} THEN Len(frames) ELSE Min(refused)
    IN [k \in 1..last |-> Dispatched(frames[k])]

(* readyRead with the next n units.  On an error the frames cut off before *)
(* it in this call are lost with it.  So are those above the gateway's     *)
(* consumeRateBudget, which allows any number of them and disconnects at   *)
(* the next (NetworkWorker allows all).                                    *)
readAvailable(n) ==
    LET units == buffer \o SubSeq(wire, 1, n)
        cut == CutOff(units)
        rest == SubSeq(units, cut + 1, Len(units))
        accepted == ~HeaderRefused(rest) /\ ~BodyRefused(rest)
        starts == {p \in 1..cut : accepted /\ units[p][2] = 1}
    IN /\ open /\ n \in 1..Len(wire)
       /\ wire' = SubSeq(wire, n + 1, Len(wire))
       /\ buffer' = IF BodyRefused(rest) THEN <<>> ELSE rest
       /\ \E list \in Listings(starts) :
          \E answers \in {DispatchLoop([k \in DOMAIN list |-> units[list[k]][1]])} :
          \E allowed \in 0..Len(answers) :
             /\ dispatched' = dispatched \o SubSeq(answers, 1, allowed)
             /\ open' = (accepted /\ allowed = Len(answers))
       /\ UNCHANGED << sent, connection >>

\* Mutant: the new connection begins with the bytes of the old one.
ReconnectWithBytes ==
    /\ connection < MaxConnections
    /\ connection' = connection + 1
    /\ wire' = <<>> /\ open' = TRUE
    /\ UNCHANGED << sent, dispatched, buffer >>

(* The connection ends and another is made: what was under way is lost,    *)
(* resetConnectionState and a new ConnectionState start with no bytes.     *)
Reconnect ==
    /\ connection < MaxConnections
    /\ connection' = connection + 1
    /\ wire' = <<>> /\ buffer' = <<>> /\ open' = TRUE
    /\ UNCHANGED << sent, dispatched >>

StreamInit ==
    /\ sent = <<>> /\ wire = <<>> /\ buffer = <<>> /\ dispatched = <<>>
    /\ open = TRUE /\ connection = 1

StreamNext ==
    \/ \E message \in Messages, defect \in Defects : WriteFrame(message, defect)
    \/ \E n \in 1..Len(wire) : readAvailable(n)
    \/ Reconnect

StreamSpec == StreamInit /\ [][StreamNext]_streamVars

-----------------------------------------------------------------------------
(* The units held and those under way, and where the next frame will begin.*)
Coming == Append(buffer \o wire, << Len(sent) + 1, 1 >>)
UnitAfter(unit) ==
    IF unit[2] < FrameSize(sent[unit[1]]) THEN << unit[1], unit[2] + 1 >>
    ELSE << unit[1] + 1, 1 >>

(* However the stream is cut: while the end reads, the units it holds and  *)
(* those under way are exactly the frames of this connection from the      *)
(* start of one of them to the last, unit after unit, and it holds no      *)
(* frame back that is whole.  Bytes of an earlier connection never mix in, *)
(* no byte is skipped or used twice.                                       *)
StreamIntact ==
    open =>
      /\ Coming[1][2] = 1
      /\ \A p \in 1..(Len(Coming) - 1) :
            /\ Coming[p + 1] = UnitAfter(Coming[p])
            /\ sent[Coming[p][1]].connection = connection
      /\ CutOff(buffer) = 0

(* Every frame of this connection before those units has been dispatched,  *)
(* each once, unless it came behind one that cannot be decoded: none is    *)
(* passed over in silence.                                                 *)
NonePassedOver ==
    open =>
      /\ \A d \in DOMAIN dispatched : dispatched[d].frame < Coming[1][1]
      /\ \A i \in 1..(Coming[1][1] - 1) :
            sent[i].connection = connection =>
              \E d \in DOMAIN dispatched :
                 LET frame == dispatched[d].frame IN
                 \/ frame = i
                 \/ frame < i /\ sent[frame].connection = connection /\ ~dispatched[d].ok

(* Frames are dispatched in the order they were written, each at most once *)
(* and only whole and undamaged ones; what follows a damaged frame on a    *)
(* connection is never dispatched.                                         *)
DispatchedInOrder ==
    \A d \in DOMAIN dispatched :
        /\ sent[dispatched[d].frame].defect = "none"
        /\ \A e \in 1..(d - 1) : dispatched[e].frame < dispatched[d].frame
        /\ \A i \in 1..(dispatched[d].frame - 1) :
              sent[i].connection = sent[dispatched[d].frame].connection => sent[i].defect = "none"

(* The stream is cut where it was joined: all three of the above.          *)
FramesArriveWhole == StreamIntact /\ NonePassedOver /\ DispatchedInOrder
=============================================================================
